----------------------------- MODULE MCServer -----------------------------
(* ServerLifespan on a small instance: the bounds are in server.cfg. *)
EXTENDS ServerLifespan, TLC

CONSTANTS x1, x2, c1, c2
Environments ==
    {[identity |-> "oidc", speech |-> TRUE], [identity |-> "missing", speech |-> TRUE]}
OwnerOfCalls == (c1 :> x1) @@ (c2 :> x2)
=============================================================================
