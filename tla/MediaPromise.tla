---------------------------- MODULE MediaPromise ----------------------------
(*************************************************************************)
(* What image ingestion promises, whatever is retried, cancelled or lost: *)
(* an idempotency key ends at most one way, shown or dead, and nobody is  *)
(* told that an image was taken before it is durably part of the session. *)
(*************************************************************************)
CONSTANTS Keys, Uploads

VARIABLES shown,  \* keys with an evidence row
          dead,   \* keys that will never have one
          told    \* uploads answered with a result, with their key

pvars == <<shown, dead, told>>

Init == shown = {} /\ dead = {} /\ told = {}

\* Evidence of several keys may appear in one step: a key, and those that waited for it.
Show == \E ks \in SUBSET (Keys \ (shown \cup dead)) :
            shown' = shown \cup ks /\ UNCHANGED dead
Bury == \E ks \in SUBSET (Keys \ shown) : dead' = dead \cup ks /\ UNCHANGED shown
Tell == \E u \in Uploads, k \in shown' : told' = told \cup {<<u, k>>}

Next == (Show \/ Bury) /\ (Tell \/ UNCHANGED told)
Spec == Init /\ [][Next]_pvars
=============================================================================
