--------------------------- MODULE MCMediaStores ---------------------------
(* Instances of MediaStores for TLC. *)
EXTENDS MediaStores
=============================================================================
