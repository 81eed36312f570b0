---------------------- MODULE RecoveryBarrier_proofs ----------------------
(*************************************************************************)
(* The safety of RecoveryBarrier, for any writers, operations, threads    *)
(* and faults. The argument: the drain lock tells who is inside (DrainInv),*)
(* the stores are taken apart only behind the incomplete marker (FenceInv),*)
(* and a restore that verified has put every store of its bundle in place *)
(* (ProgressInv).                                                         *)
(*************************************************************************)
EXTENDS RecoveryBarrier, FiniteSetTheorems, TLAPS

Holding == {"check"} \cup Inside

DrainInv ==
    /\ \A w \in Writers : drain = w <=> wpc[w] \in Holding
    /\ \A o \in Operators : opc[o] \in Working => drain = o
    /\ \A o \in Operators : drain = o => opc[o] \in Working \cup {"cleanup"}

\* What is taken apart is taken apart behind the marker, and no writer is inside
\* then; a rollback without the marker has nothing to put back.
FenceInv ==
    /\ Whole \/ incomplete
    /\ \A w \in Writers : wpc[w] \in Inside => ~incomplete
    /\ \A o \in Operators : opc[o] \in {"detach", "attach", "verify"} => incomplete
    /\ \A o \in Operators : opc[o] = "rollback" => incomplete \/ cut = {}

\* How far the restore at work has come.
ProgressInv ==
    /\ \A o \in Operators : opc[o] \in Working \ {"backup"} => o \in Restores
    /\ \A o \in Operators : opc[o] \in Working => ~verified
    /\ \A o \in Operators : opc[o] \in {"prepare", "begin"} => at = 1 /\ cut = {}
    /\ \A o \in Operators : opc[o] \in {"detach", "attach"} =>
          \A i \in 1..3 : i < at => store[Order[i]] = o
    /\ \A o \in Operators : opc[o] = "verify" => \A s \in Stores : store[s] = o
    /\ \A o \in Operators : drain = o /\ verified =>
          o \in Restores /\ \A s \in Stores : store[s] = o

WaitsOrWorks == {w \in Writers : wpc[w] \in {"admission", "drain", "check", "thread"}}
ThreadsAddUp == threads + Cardinality(WaitsOrWorks) + Cardinality(abandoned) = MaxThreads

\* An abandoned review is not in its thread any more as far as its request goes.
AbandonedInv == \A w \in abandoned : wpc[w] \in {"leaving", "done"}

Inv == DrainInv /\ FenceInv /\ ProgressInv
IInv == TypeOK /\ ThreadsAddUp /\ AbandonedInv /\ Inv
-----------------------------------------------------------------------------
\* The order names every store once.
LEMMA OrderIs == /\ Stores = {Order[1], Order[2], Order[3]}
                 /\ Order[1] = "database" /\ Order[2] = "openhands" /\ Order[3] = "media"
BY DEF Stores, Order

\* The safety invariants hold at the start.
LEMMA InvInit == Init => DrainInv /\ FenceInv /\ ProgressInv
BY BarrierAssumption, OrderIs DEF Init, DrainInv, FenceInv, ProgressInv, Holding, Inside, Working,
   Whole, Sources, Operators, None

\* The writers' side: what a request does to the locks and to nothing else.
LEMMA WriterInv ==
    ASSUME TypeOK, Inv, NEW w \in Writers,
           Arrive(w) \/ WriterStep(w) \/ CancelReview(w) \/ AbandonedReviewEnds(w)
    PROVE  Inv'
<1> USE BarrierAssumption DEF TypeOK, Inv, DrainInv, FenceInv, ProgressInv, Holding, Inside,
        Working, Writer, Turned, stores, locks, Operators, WriterSteps, None, Whole
<1>1. CASE Arrive(w)  BY <1>1 DEF Arrive
<1>2. CASE StartEnter(w)  BY <1>2 DEF StartEnter
<1>3. CASE TakeAdmission(w)  BY <1>3 DEF TakeAdmission
<1>4. CASE AdmissionTimeout(w)  BY <1>4 DEF AdmissionTimeout
<1>5. CASE TakeDrain(w)  BY <1>5 DEF TakeDrain
<1>6. CASE DrainTimeout(w)  BY <1>6 DEF DrainTimeout
<1>7. CASE CheckAgain(w)  BY <1>7 DEF CheckAgain, WritesBlocked
<1>8. CASE StartThread(w)  BY <1>8 DEF StartThread
<1>9. CASE Serve(w)  BY <1>9 DEF Serve
<1>10. CASE CancelReview(w)  BY <1>10 DEF CancelReview
<1>11. CASE AbandonedReviewEnds(w)  BY <1>11 DEF AbandonedReviewEnds
<1>12. CASE Leave(w)  BY <1>12 DEF Leave
<1> QED BY <1>1, <1>2, <1>3, <1>4, <1>5, <1>6, <1>7, <1>8, <1>9, <1>10, <1>11, <1>12 DEF WriterStep

\* The operators' side of the window: markers and the drain lock.
LEMMA WindowInv ==
    ASSUME TypeOK, Inv, NEW o \in Operators,
           \/ Start(o) \/ CreateMarker(o) \/ StartTimeout(o) \/ EnterWindow(o) \/ WindowTimeout(o)
           \/ LeaveWindow(o) \/ Kill(o)
    PROVE  Inv'
<1> USE BarrierAssumption DEF TypeOK, Inv, DrainInv, FenceInv, ProgressInv, Holding, Inside,
        Working, Operator, stores, locks, Operators, OperatorSteps, None
<1>1. CASE Start(o)  BY <1>1 DEF Start, Whole
<1>2. CASE CreateMarker(o)  BY <1>2 DEF CreateMarker, Whole
<1>3. CASE StartTimeout(o)  BY <1>3 DEF StartTimeout, Whole
<1>4. CASE EnterWindow(o)  BY <1>4, OrderIs DEF EnterWindow, Whole
<1>5. CASE WindowTimeout(o)  BY <1>5 DEF WindowTimeout, Whole
<1>6. CASE LeaveWindow(o)
  <2>1. DrainInv'  BY <1>6 DEF LeaveWindow
  <2>2. ~incomplete' => incomplete = FALSE \/ Whole
    <3>1. CASE drain = o /\ verified
      <4>1. o \in Restores
        BY <1>6, <3>1 DEF LeaveWindow, StillIncomplete
      <4> QED BY <3>1, <4>1 DEF Whole, Sources
    <3> QED BY <1>6, <3>1 DEF LeaveWindow, StillIncomplete
  <2>3. FenceInv'  BY <1>6, <2>2 DEF LeaveWindow, StillIncomplete, Whole
  <2>4. ProgressInv'  BY <1>6 DEF LeaveWindow
  <2> QED BY <2>1, <2>3, <2>4
<1>7. CASE Kill(o)  BY <1>7 DEF Kill, Free, Whole
<1> QED BY <1>1, <1>2, <1>3, <1>4, <1>5, <1>6, <1>7

\* What a window does to the stores: its operation holds the drain lock, so no
\* other operation and no writer relies on them meanwhile.
LEMMA StoresInv ==
    ASSUME TypeOK, Inv, NEW o \in Operators,
           \/ Backup(o) \/ Prepare(o) \/ BeginRecovery(o) \/ Detach(o) \/ Attach(o) \/ Verify(o)
           \/ Rollback(o) \/ RollbackDone(o)
    PROVE  Inv'
<1> USE BarrierAssumption DEF TypeOK, Inv, DrainInv, FenceInv, ProgressInv, Holding, Inside,
        Working, Operator, stores, locks, Operators, OperatorSteps, None
<1>1. CASE Backup(o)  BY <1>1 DEF Backup, Whole
<1>2. CASE Prepare(o)  BY <1>2 DEF Prepare, Whole
<1>3. CASE BeginRecovery(o)
  <2>1. drain = o /\ at = 1 /\ cut = {} /\ o \in Restores  BY <1>3 DEF BeginRecovery
  <2>2. incomplete => incomplete'  BY <1>3 DEF BeginRecovery
  <2>3. DrainInv'  BY <1>3 DEF BeginRecovery
  <2>4. FenceInv'  BY <1>3, <2>1, <2>2 DEF BeginRecovery, Whole
  <2>5. ProgressInv'  BY <1>3, <2>1 DEF BeginRecovery
  <2> QED BY <2>3, <2>4, <2>5
<1>4. CASE Detach(o)
  <2>1. drain = o /\ incomplete /\ incomplete' /\ o \in Restores  BY <1>4 DEF Detach
  <2>2. DrainInv'  BY <1>4 DEF Detach
  <2>3. FenceInv'  BY <1>4, <2>1 DEF Detach
  <2>4. ProgressInv'  BY <1>4, <2>1, OrderIs DEF Detach
  <2> QED BY <2>2, <2>3, <2>4
<1>5. CASE Attach(o)
  <2>1. drain = o /\ incomplete /\ incomplete' /\ o \in Restores  BY <1>5 DEF Attach
  <2>2. DrainInv'  BY <1>5 DEF Attach
  <2>3. FenceInv'  BY <1>5, <2>1 DEF Attach
  <2>4. ProgressInv'  BY <1>5, <2>1, OrderIs DEF Attach
  <2> QED BY <2>2, <2>3, <2>4
<1>6. CASE Verify(o)  BY <1>6 DEF Verify, Whole
<1>7. CASE Rollback(o)
  <2>1. drain = o /\ incomplete /\ incomplete' /\ ~verified  BY <1>7 DEF Rollback
  <2>2. DrainInv'  BY <1>7 DEF Rollback
  <2>3. FenceInv'  BY <1>7, <2>1 DEF Rollback
  <2>4. ProgressInv'  BY <1>7, <2>1 DEF Rollback
  <2> QED BY <2>2, <2>3, <2>4
<1>8. CASE RollbackDone(o)  BY <1>8 DEF RollbackDone, Whole
<1> QED BY <1>1, <1>2, <1>3, <1>4, <1>5, <1>6, <1>7, <1>8

\* The way out of a window takes the marker only from whole stores, and nothing
\* else takes it.
LEMMA ClearedStep == TypeOK /\ Inv /\ [Next]_vars => (incomplete /\ ~incomplete' => Whole)
<1> SUFFICES ASSUME Inv, [Next]_vars, incomplete, ~incomplete' PROVE Whole
  OBVIOUS
<1>1. PICK o \in Operators : LeaveWindow(o)
  <2>1. ASSUME NEW w \in Writers,
               Arrive(w) \/ WriterStep(w) \/ CancelReview(w) \/ AbandonedReviewEnds(w)
        PROVE  UNCHANGED incomplete
    BY <2>1 DEF Arrive, WriterStep, CancelReview, AbandonedReviewEnds, StartEnter, TakeAdmission,
       AdmissionTimeout, TakeDrain, DrainTimeout, CheckAgain, StartThread, Serve, Leave
  <2>2. ASSUME NEW o \in Operators, Start(o) \/ OperatorStep(o) \/ Kill(o), ~LeaveWindow(o)
        PROVE  UNCHANGED incomplete \/ incomplete'
    BY <2>2 DEF Start, OperatorStep, Kill, CreateMarker, StartTimeout, EnterWindow, WindowTimeout,
       Backup, Prepare, BeginRecovery, Detach, Attach, Verify, Rollback, RollbackDone,
       stores
  <2>3. ServerCrash \/ RemoveStaleMarker \/ UNCHANGED vars => UNCHANGED incomplete
    BY DEF ServerCrash, RemoveStaleMarker, vars
  <2> QED BY <2>1, <2>2, <2>3 DEF Next
<1>2. drain = o /\ verified
  BY <1>1 DEF LeaveWindow, StillIncomplete
<1> QED BY <1>2 DEF Inv, ProgressInv, Whole, Sources

\* Every step keeps the safety invariants.
LEMMA InvStep == TypeOK /\ Inv /\ [Next]_vars => Inv'
<1> SUFFICES ASSUME TypeOK, Inv, [Next]_vars PROVE Inv'
  OBVIOUS
<1>1. CASE ServerCrash
  BY <1>1, BarrierAssumption DEF ServerCrash, Free, TypeOK, Inv, DrainInv, FenceInv, ProgressInv,
     Holding, Inside, Working, Whole, stores, Operators, None
<1>2. CASE RemoveStaleMarker
  BY <1>2 DEF RemoveStaleMarker, Inv, DrainInv, FenceInv, ProgressInv, Whole, locks, stores
<1>3. CASE UNCHANGED vars
  BY <1>3 DEF vars, Inv, DrainInv, FenceInv, ProgressInv, Whole, locks, stores
<1> QED BY <1>1, <1>2, <1>3, WriterInv, WindowInv, StoresInv DEF Next, OperatorStep
-----------------------------------------------------------------------------
\* What one element more or less does to the size of a finite set.
LEMMA AddOne ==
    ASSUME NEW S, NEW x, IsFiniteSet(S), x \notin S
    PROVE  Cardinality(S \cup {x}) = Cardinality(S) + 1
BY FS_AddElement

\* A finite set without one of its elements.
LEMMA RemoveOne ==
    ASSUME NEW S, NEW x, IsFiniteSet(S), x \in S
    PROVE  Cardinality(S \ {x}) = Cardinality(S) - 1 /\ Cardinality(S \ {x}) \in Nat
<1>1. IsFiniteSet(S \ {x}) /\ Cardinality(S \ {x}) = Cardinality(S) - 1
  BY FS_RemoveElement
<1> QED BY <1>1, FS_CardinalityType

(* Types; a thread is taken and given back by one writer at a time. *)

\* Every step keeps the threads within the bound.
LEMMA ThreadsStep ==
    ASSUME TypeOK, ThreadsAddUp, AbandonedInv, [Next]_vars
    PROVE  ThreadsAddUp' /\ threads' \in 0..MaxThreads
<1> USE BarrierAssumption DEF TypeOK, ThreadsAddUp, Writer, Turned
<1> DEFINE W == WaitsOrWorks
           A == abandoned
           Goal == ThreadsAddUp' /\ threads' \in 0..MaxThreads
<1>1. /\ IsFiniteSet(W) /\ Cardinality(W) \in Nat
      /\ IsFiniteSet(A) /\ Cardinality(A) \in Nat
  BY FS_Subset, FS_CardinalityType DEF WaitsOrWorks
<1>2. ASSUME NEW w, W' = W \cup {w}, w \notin W, A' = A, threads' = threads - 1, threads > 0
      PROVE  Goal
  <2> HIDE DEF W, A
  <2>1. Cardinality(W') = Cardinality(W) + 1
    BY ONLY <1>1, <1>2, AddOne
  <2> QED BY <1>1, <1>2, <2>1 DEF W, A
<1>3. ASSUME NEW w, W' = W \ {w}, w \in W, A' = A, threads' = threads + 1
      PROVE  Goal
  <2> HIDE DEF W, A
  <2>2. Cardinality(W') = Cardinality(W) - 1 /\ Cardinality(W') \in Nat
    BY ONLY <1>1, <1>3, RemoveOne
  <2> QED BY <1>1, <1>3, <2>2 DEF W, A
<1>4. ASSUME NEW w, W' = W \ {w}, w \in W, A' = A \cup {w}, w \notin A, threads' = threads
      PROVE  Goal
  <2> HIDE DEF W, A
  <2>2. Cardinality(A') = Cardinality(A) + 1
    BY ONLY <1>1, <1>4, AddOne
  <2>3. Cardinality(W') = Cardinality(W) - 1 /\ Cardinality(W') \in Nat
    BY ONLY <1>1, <1>4, RemoveOne
  <2> QED BY <1>1, <1>4, <2>2, <2>3 DEF W, A
<1>5. ASSUME NEW w, A' = A \ {w}, w \in A, W' = W, threads' = threads + 1
      PROVE  Goal
  <2> HIDE DEF W, A
  <2>2. Cardinality(A') = Cardinality(A) - 1 /\ Cardinality(A') \in Nat
    BY ONLY <1>1, <1>5, RemoveOne
  <2> QED BY <1>1, <1>5, <2>2 DEF W, A
<1>6. ASSUME W' = {}, A' = {}, threads' = MaxThreads PROVE Goal
  BY <1>6, FS_EmptySet
<1>7. ASSUME W' = W, A' = A, threads' = threads PROVE Goal
  BY <1>7
<1> HIDE DEF Goal
<1>8. ASSUME NEW w \in Writers, StartEnter(w) \/ StartThread(w) PROVE Goal
  <2>1. W' = W \cup {w} /\ w \notin W /\ A' = A /\ threads' = threads - 1 /\ threads > 0
    BY <1>8 DEF StartEnter, StartThread, WaitsOrWorks
  <2> QED BY <1>2, <2>1
<1>9. ASSUME NEW w \in Writers, AdmissionTimeout(w) \/ DrainTimeout(w) \/ CheckAgain(w) PROVE Goal
  <2>1. W' = W \ {w} /\ w \in W /\ A' = A /\ threads' = threads + 1
    BY <1>9 DEF AdmissionTimeout, DrainTimeout, CheckAgain, WaitsOrWorks
  <2> QED BY <1>3, <2>1
<1>10. ASSUME NEW w \in Writers, TakeAdmission(w) PROVE Goal
  <2>1. CASE WritesBlocked
    <3>1. W' = W \ {w} /\ w \in W /\ A' = A /\ threads' = threads + 1
      BY <1>10, <2>1 DEF TakeAdmission, WaitsOrWorks
    <3> QED BY <1>3, <3>1
  <2>2. CASE ~WritesBlocked
    <3>1. W' = W /\ A' = A /\ threads' = threads
      BY <1>10, <2>2 DEF TakeAdmission, WaitsOrWorks
    <3> QED BY <1>7, <3>1
  <2> QED BY <2>1, <2>2
<1>11. ASSUME NEW w \in Writers, Serve(w) PROVE Goal
  <2>1. CASE wpc[w] = "thread"
    <3>1. W' = W \ {w} /\ w \in W /\ A' = A /\ threads' = threads + 1
      BY <1>11, <2>1 DEF Serve, WaitsOrWorks
    <3> QED BY <1>3, <3>1
  <2>2. CASE wpc[w] # "thread"
    <3>1. W' = W /\ A' = A /\ threads' = threads
      BY <1>11, <2>2 DEF Serve, WaitsOrWorks
    <3> QED BY <1>7, <3>1
  <2> QED BY <2>1, <2>2
<1>12. ASSUME NEW w \in Writers, CancelReview(w) PROVE Goal
  <2>1. W' = W \ {w} /\ w \in W /\ A' = A \cup {w} /\ w \notin A /\ threads' = threads
    BY <1>12 DEF CancelReview, WaitsOrWorks, AbandonedInv
  <2> QED BY <1>4, <2>1
<1>13. ASSUME NEW w \in Writers, AbandonedReviewEnds(w) PROVE Goal
  <2>1. A' = A \ {w} /\ w \in A /\ W' = W /\ threads' = threads + 1
    BY <1>13 DEF AbandonedReviewEnds, WaitsOrWorks
  <2> QED BY <1>5, <2>1
<1>14. ASSUME NEW w \in Writers, Arrive(w) \/ TakeDrain(w) \/ Leave(w) PROVE Goal
  <2>1. W' = W /\ A' = A /\ threads' = threads
    BY <1>14 DEF Arrive, TakeDrain, Leave, WaitsOrWorks
  <2> QED BY <1>7, <2>1
<1>15. ASSUME NEW o \in Operators, Start(o) \/ OperatorStep(o) \/ Kill(o) PROVE Goal
  <2>1. W' = W /\ A' = A /\ threads' = threads
    BY <1>15 DEF WaitsOrWorks, Start, OperatorStep, Kill, CreateMarker, StartTimeout, EnterWindow,
       WindowTimeout, Backup, Prepare, BeginRecovery, Detach, Attach, Verify, Rollback, RollbackDone,
       LeaveWindow
  <2> QED BY <1>7, <2>1
<1>16. ASSUME ServerCrash PROVE Goal
  <2>1. W' = {} /\ A' = {} /\ threads' = MaxThreads
    BY <1>16 DEF ServerCrash, WaitsOrWorks
  <2> QED BY <1>6, <2>1
<1>17. ASSUME RemoveStaleMarker \/ UNCHANGED vars PROVE Goal
  <2>1. W' = W /\ A' = A /\ threads' = threads
    BY <1>17 DEF RemoveStaleMarker, vars, WaitsOrWorks
  <2> QED BY <1>7, <2>1
<1>18. Goal
  BY <1>8, <1>9, <1>10, <1>11, <1>12, <1>13, <1>14, <1>15, <1>16, <1>17 DEF Next, WriterStep
<1> QED BY <1>18 DEF Goal

\* Every step keeps what is known of abandoned threads.
LEMMA AbandonedStep == TypeOK /\ AbandonedInv /\ [Next]_vars => AbandonedInv'
<1> SUFFICES ASSUME TypeOK, AbandonedInv, [Next]_vars PROVE AbandonedInv'
  OBVIOUS
<1> USE BarrierAssumption DEF TypeOK, AbandonedInv, Writer, Turned
<1>1. ASSUME NEW w \in Writers,
             Arrive(w) \/ WriterStep(w) \/ CancelReview(w) \/ AbandonedReviewEnds(w)
      PROVE  AbandonedInv'
  <2>1. CASE CancelReview(w)  BY <2>1 DEF CancelReview
  <2>2. CASE AbandonedReviewEnds(w)  BY <2>2 DEF AbandonedReviewEnds
  <2>3. CASE Arrive(w)  BY <2>3 DEF Arrive
  <2>4. CASE StartEnter(w) \/ TakeAdmission(w) \/ AdmissionTimeout(w) \/ TakeDrain(w)
    BY <2>4 DEF StartEnter, TakeAdmission, AdmissionTimeout, TakeDrain
  <2>5. CASE DrainTimeout(w) \/ CheckAgain(w) \/ StartThread(w)
    BY <2>5 DEF DrainTimeout, CheckAgain, StartThread
  <2>6. CASE Serve(w) \/ Leave(w)  BY <2>6 DEF Serve, Leave
  <2> QED BY <1>1, <2>1, <2>2, <2>3, <2>4, <2>5, <2>6 DEF WriterStep
<1>2. ASSUME NEW o \in Operators, Start(o) \/ OperatorStep(o) \/ Kill(o) PROVE AbandonedInv'
  <2>1. UNCHANGED <<abandoned, wpc>>
    BY <1>2 DEF Start, OperatorStep, Kill, CreateMarker, StartTimeout, EnterWindow,
       WindowTimeout, Backup, Prepare, BeginRecovery, Detach, Attach, Verify, Rollback, RollbackDone,
       LeaveWindow
  <2> QED BY <2>1
<1>3. CASE ServerCrash \/ RemoveStaleMarker \/ UNCHANGED vars
  BY <1>3 DEF ServerCrash, RemoveStaleMarker, vars
<1> QED BY <1>1, <1>2, <1>3 DEF Next

\* Every step keeps the types.
LEMMA TypeStep == TypeOK /\ Inv /\ threads' \in 0..MaxThreads /\ [Next]_vars => TypeOK'
<1> SUFFICES ASSUME TypeOK, Inv, threads' \in 0..MaxThreads, [Next]_vars PROVE TypeOK'
  OBVIOUS
<1> USE BarrierAssumption DEF TypeOK, Writer, Operator, Turned, locks, stores, WriterSteps,
        OperatorSteps, Free
<1>1. ASSUME NEW w \in Writers, Arrive(w) PROVE TypeOK'  BY <1>1 DEF Arrive
<1>2. ASSUME NEW w \in Writers, StartEnter(w) PROVE TypeOK'  BY <1>2 DEF StartEnter
<1>3. ASSUME NEW w \in Writers, TakeAdmission(w) PROVE TypeOK'  BY <1>3 DEF TakeAdmission
<1>4. ASSUME NEW w \in Writers, AdmissionTimeout(w) PROVE TypeOK'  BY <1>4 DEF AdmissionTimeout
<1>5. ASSUME NEW w \in Writers, TakeDrain(w) PROVE TypeOK'  BY <1>5 DEF TakeDrain
<1>6. ASSUME NEW w \in Writers, DrainTimeout(w) PROVE TypeOK'  BY <1>6 DEF DrainTimeout
<1>7. ASSUME NEW w \in Writers, CheckAgain(w) PROVE TypeOK'  BY <1>7 DEF CheckAgain
<1>8. ASSUME NEW w \in Writers, StartThread(w) PROVE TypeOK'  BY <1>8 DEF StartThread
<1>9. ASSUME NEW w \in Writers, Serve(w) PROVE TypeOK'  BY <1>9 DEF Serve
<1>10. ASSUME NEW w \in Writers, CancelReview(w) PROVE TypeOK'  BY <1>10 DEF CancelReview
<1>11. ASSUME NEW w \in Writers, AbandonedReviewEnds(w) PROVE TypeOK'
  BY <1>11 DEF AbandonedReviewEnds
<1>12. ASSUME NEW w \in Writers, Leave(w) PROVE TypeOK'  BY <1>12 DEF Leave
<1>13. ASSUME NEW o \in Operators, Start(o) \/ CreateMarker(o) \/ StartTimeout(o) PROVE TypeOK'
  BY <1>13 DEF Start, CreateMarker, StartTimeout
<1>14. ASSUME NEW o \in Operators, EnterWindow(o) \/ WindowTimeout(o) PROVE TypeOK'
  <2>1. CASE EnterWindow(o)
    <3>1. opc' \in [Operators -> OperatorSteps]  BY <2>1 DEF EnterWindow
    <3>2. previous' \in [Stores -> Sources \cup {None}]  BY <2>1 DEF EnterWindow
    <3>3. drain' \in Writers \cup Operators \cup {None} /\ at' \in 1..3 /\ cut' \subseteq Stores
      BY <2>1 DEF EnterWindow
    <3>4. verified' \in BOOLEAN
      BY <2>1 DEF EnterWindow
    <3> QED BY <2>1, <3>1, <3>2, <3>3, <3>4 DEF EnterWindow
  <2>2. CASE WindowTimeout(o)  BY <2>2 DEF WindowTimeout
  <2> QED BY <1>14, <2>1, <2>2
<1>15. ASSUME NEW o \in Operators, LeaveWindow(o) PROVE TypeOK'
  BY <1>15 DEF LeaveWindow, StillIncomplete
<1>16. ASSUME NEW o \in Operators, Backup(o) \/ Prepare(o) \/ BeginRecovery(o) PROVE TypeOK'
  BY <1>16 DEF Backup, Prepare, BeginRecovery
<1>17. ASSUME NEW o \in Operators, Detach(o) PROVE TypeOK'
  BY <1>17, OrderIs DEF Detach
<1>18. ASSUME NEW o \in Operators, Attach(o) PROVE TypeOK'
  <2>1. o \in Sources  BY <1>18 DEF Attach, Inv, ProgressInv, Working, Sources
  <2>2. Order[at] \in Stores  BY OrderIs
  <2> QED BY <1>18, <2>1, <2>2 DEF Attach
<1>19. ASSUME NEW o \in Operators, Verify(o) \/ RollbackDone(o) PROVE TypeOK'
  BY <1>19 DEF Verify, RollbackDone
<1>20. ASSUME NEW o \in Operators, Rollback(o) PROVE TypeOK'
  BY <1>20 DEF Rollback
<1>21. ASSUME NEW o \in Operators, Kill(o) PROVE TypeOK'
  BY <1>21 DEF Kill
<1>22. ASSUME ServerCrash PROVE TypeOK'
  BY <1>22 DEF ServerCrash
<1>23. ASSUME RemoveStaleMarker \/ UNCHANGED vars PROVE TypeOK'
  BY <1>23 DEF RemoveStaleMarker, vars
<1> QED BY <1>1, <1>2, <1>3, <1>4, <1>5, <1>6, <1>7, <1>8, <1>9, <1>10, <1>11, <1>12, <1>13, <1>14,
           <1>15, <1>16, <1>17, <1>18, <1>19, <1>20, <1>21, <1>22, <1>23
        DEF Next, WriterStep, OperatorStep
-----------------------------------------------------------------------------
\* The inductive invariant holds at the start.
LEMMA IInvInit == Init => IInv
<1> SUFFICES ASSUME Init PROVE IInv
  OBVIOUS
<1> USE BarrierAssumption DEF Init, TypeOK
<1>1. TypeOK
  <2>1. /\ admission \in Writers \cup {None} /\ drain \in Writers \cup Operators \cup {None}
        /\ marker \in BOOLEAN /\ incomplete \in BOOLEAN
    OBVIOUS
  <2>2. store \in [Stores -> Sources \cup {None}] /\ previous \in [Stores -> Sources \cup {None}]
    BY DEF Sources
  <2>3. verified \in BOOLEAN
    OBVIOUS
  <2>4. at \in 1..3 /\ cut \subseteq Stores /\ abandoned \subseteq Cancelled
    OBVIOUS
  <2>5. wpc \in [Writers -> WriterSteps] /\ opc \in [Operators -> OperatorSteps]
    BY DEF WriterSteps, OperatorSteps
  <2>6. threads \in 0..MaxThreads /\ faults \in 0..MaxFaults
    OBVIOUS
  <2> QED BY <2>1, <2>2, <2>3, <2>4, <2>5, <2>6
<1>2. ThreadsAddUp
  <2>1. WaitsOrWorks = {} /\ abandoned = {} /\ threads = MaxThreads
    BY DEF Init, WaitsOrWorks
  <2> QED BY <2>1, FS_EmptySet, BarrierAssumption DEF ThreadsAddUp
<1>3. AbandonedInv
  BY DEF Init, AbandonedInv
<1> QED BY <1>1, <1>2, <1>3, InvInit DEF IInv, Inv

\* Every step keeps the inductive invariant.
LEMMA IInvStep == IInv /\ [Next]_vars => IInv'
BY InvStep, ThreadsStep, AbandonedStep, TypeStep DEF IInv

\* Every reachable state has the types the code's states have.
THEOREM BarrierTyped == Spec => []TypeOK
BY IInvInit, IInvStep, PTL DEF Spec, IInv

\* No write request is inside, and no other operation works, while a backup reads
\* the stores or a restore replaces them.
THEOREM WindowQuiet == Spec => []WindowIsQuiet
<1>1. IInv => WindowIsQuiet
  BY BarrierAssumption DEF IInv, Inv, TypeOK, DrainInv, WindowIsQuiet, Holding, Operators
<1> QED BY IInvInit, IInvStep, <1>1, PTL DEF Spec

\* Stores that do not belong together are behind the incomplete marker, with no
\* writer inside.
THEOREM TornFenced == Spec => []TornIsFenced
<1>1. IInv => TornIsFenced
  BY DEF IInv, Inv, FenceInv, TornIsFenced
<1> QED BY IInvInit, IInvStep, <1>1, PTL DEF Spec

\* The incomplete marker is cleared only when the stores belong together.
THEOREM ClearedWhole == Spec => ClearedOnlyWhole
<1>1. IInv /\ [Next]_vars => [incomplete /\ ~incomplete' => Whole]_vars
  BY ClearedStep DEF IInv
<1> QED BY IInvInit, IInvStep, <1>1, PTL DEF Spec, ClearedOnlyWhole
=============================================================================
