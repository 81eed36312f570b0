------------------------------ MODULE SessionPromise ------------------------------
(*************************************************************************)
(* What a learning session promises its learner, with no log, no lock, no*)
(* calls and no failures: what the learner says is kept, the agent may   *)
(* ask, and one verdict, given on everything the learner has answered,   *)
(* ends it. LearningSession implements it.                               *)
(*************************************************************************)
EXTENDS Naturals

CONSTANTS Texts,     \* the text evidence a learner may submit
          Questions  \* the questions a learner may answer

VARIABLES shown,  \* the text evidence submitted
          said,   \* how many versions of its answer each question has had
          state,  \* "open", "asked", or "closed"
          basis   \* the answers the verdict was given on

promiseVars == <<shown, said, state, basis>>

Init == /\ shown \in SUBSET Texts
        /\ said = [q \in Questions |-> 0] /\ basis = said
        /\ state = "open"

Show == /\ state # "closed"
        /\ \E e \in Texts : shown' = shown \cup {e}
        /\ UNCHANGED <<said, state, basis>>

Say == /\ state # "closed"
       /\ \E q \in Questions : said' = [said EXCEPT ![q] = @ + 1]
       /\ UNCHANGED <<shown, state, basis>>

Ask == /\ state # "closed" /\ state' = "asked" /\ UNCHANGED <<shown, said, basis>>

Close == /\ state # "closed" /\ state' = "closed" /\ basis' = said
         /\ UNCHANGED <<shown, said>>

Next == Show \/ Say \/ Ask \/ Close
Spec == Init /\ [][Next]_promiseVars
=============================================================================
