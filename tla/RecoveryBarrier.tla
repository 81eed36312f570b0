------------------------------ MODULE RecoveryBarrier ------------------------------
(*************************************************************************)
(* How the server's writers and the operator's backups and restores keep *)
(* out of each other's way: two file locks, two marker files, and the     *)
(* middleware that takes the locks around every write request, in threads*)
(* of a bounded pool.                                                    *)
(*                                                                       *)
(* A store is known by where its content comes from: the product, the    *)
(* bundle of one restore, or nothing at all between two renames.         *)
(*************************************************************************)
EXTENDS Integers, FiniteSets

CONSTANTS Writers,    \* write requests
          Threaded,   \* those served in a thread of the same pool: reviews, image uploads
          Cancelled,  \* the reviews among them whose request task somebody may cancel
          Backups,    \* runs of create_backup
          Restores,   \* runs of restore_backup, each with a bundle of its own
          MaxThreads, \* threads of the default executor
          MaxFaults   \* bound: crashes of the server and kills of an operator, together

None == "none"
Operators == Backups \cup Restores

ASSUME BarrierAssumption ==
    /\ Cancelled \subseteq Threaded /\ Threaded \subseteq Writers
    /\ IsFiniteSet(Writers)
    /\ Writers \cap Operators = {} /\ Backups \cap Restores = {}
    /\ {None, "product"} \cap (Writers \cup Operators) = {}
    /\ MaxThreads \in Nat \ {0} /\ MaxFaults \in Nat

VARIABLES
    admission,  \* who holds writer-admission.lock while it waits for the other
    drain,      \* who holds writer-drain.lock
    marker,     \* .focusproof-maintenance.lock exists
    incomplete, \* .focusproof-recovery-incomplete exists
    store,      \* what each store under its live name is
    previous,   \* what each store was that the restore at work moved aside
    at,         \* the store that the restore at work is replacing
    cut,        \* the stores it has replaced
    verified,   \* whether it completed the recovery
    wpc, opc,   \* where each writer and each operator is
    abandoned,  \* reviews that run on after their request was cancelled
    threads,    \* free threads of the pool
    faults      \* counter for the bound

locks == <<admission, drain>>
stores == <<store, previous, at, cut, verified>>
vars == <<locks, marker, incomplete, stores, wpc, opc, abandoned, threads, faults>>

Stores == {"database", "openhands", "media"}
Order == <<"database", "openhands", "media">>
Sources == {"product"} \cup Restores
WriterSteps == {"idle", "queued", "admission", "drain", "check", "inside", "thread",
                "leaving", "done"}
OperatorSteps == {"idle", "start", "drain", "backup", "prepare", "begin", "detach", "attach",
                  "verify", "rollback", "cleanup", "completed", "failed", "killed"}
Working == {"backup", "prepare", "begin", "detach", "attach", "verify", "rollback"}
Inside == {"inside", "thread", "leaving"}

Whole == \E g \in Sources : \A s \in Stores : store[s] = g
WritesBlocked == marker \/ incomplete

Init ==
    /\ admission = None /\ drain = None /\ marker = FALSE /\ incomplete = FALSE
    /\ store = [s \in Stores |-> "product"] /\ previous = [s \in Stores |-> None]
    /\ at = 1 /\ cut = {} /\ verified = FALSE
    /\ wpc = [w \in Writers |-> "idle"] /\ opc = [o \in Operators |-> "idle"]
    /\ abandoned = {} /\ threads = MaxThreads /\ faults = 0

Writer(w, p) == wpc' = [wpc EXCEPT ![w] = p]
Operator(o, p) == opc' = [opc EXCEPT ![o] = p]
-----------------------------------------------------------------------------
(* A write request, in OperationalTelemetryMiddleware and writer_barrier *)

Arrive(w) ==
    /\ wpc[w] = "idle" /\ Writer(w, "queued")
    /\ UNCHANGED <<locks, marker, incomplete, stores, opc, abandoned, threads, faults>>

StartEnter(w) ==
    /\ wpc[w] = "queued" /\ threads > 0
    /\ threads' = threads - 1
    /\ Writer(w, "admission")
    /\ UNCHANGED <<locks, marker, incomplete, stores, opc, abandoned, faults>>

TurnedInPlace(w) == Writer(w, "done") /\ UNCHANGED threads             \* mutant
\* Rejected with a 503: the thread of __enter__ is free again.
Turned(w) == Writer(w, "done") /\ threads' = threads + 1

TakeAdmission(w) ==
    /\ wpc[w] = "admission" /\ admission = None
    /\ IF WritesBlocked
         THEN Turned(w) /\ UNCHANGED admission
         ELSE Writer(w, "drain") /\ admission' = w /\ UNCHANGED threads
    /\ UNCHANGED <<drain, marker, incomplete, stores, opc, abandoned, faults>>

AdmissionTimeout(w) ==
    /\ wpc[w] = "admission" /\ admission # None
    /\ Turned(w)
    /\ UNCHANGED <<locks, marker, incomplete, stores, opc, abandoned, faults>>

TakeDrain(w) ==
    /\ wpc[w] = "drain" /\ drain = None
    /\ drain' = w /\ admission' = None
    /\ Writer(w, "check")
    /\ UNCHANGED <<marker, incomplete, stores, opc, abandoned, threads, faults>>

DrainTimeout(w) ==
    /\ wpc[w] = "drain" /\ drain # None
    /\ admission' = None
    /\ Turned(w)
    /\ UNCHANGED <<drain, marker, incomplete, stores, opc, abandoned, faults>>

\* The markers again, now that nobody else is in: one may have been made meanwhile.
CheckAgain(w) ==
    /\ wpc[w] = "check"
    /\ threads' = threads + 1
    /\ IF WritesBlocked THEN Writer(w, "done") /\ drain' = None
                        ELSE Writer(w, "inside") /\ UNCHANGED drain
    /\ UNCHANGED <<admission, marker, incomplete, stores, opc, abandoned, faults>>

StartThread(w) ==
    /\ wpc[w] = "inside" /\ w \in Threaded /\ threads > 0
    /\ threads' = threads - 1
    /\ Writer(w, "thread")
    /\ UNCHANGED <<locks, marker, incomplete, stores, opc, abandoned, faults>>

\* The request is served; its thread, if it has one, is free again.
Serve(w) ==
    /\ \/ wpc[w] = "inside" /\ w \notin Threaded /\ UNCHANGED threads
       \/ wpc[w] = "thread" /\ threads' = threads + 1
    /\ Writer(w, "leaving")
    /\ UNCHANGED <<locks, marker, incomplete, stores, opc, abandoned, faults>>

\* The task is cancelled: the review is interrupted, and not waited for.
CancelReview(w) ==
    /\ wpc[w] = "thread" /\ w \in Cancelled
    /\ abandoned' = abandoned \cup {w}
    /\ Writer(w, "leaving")
    /\ UNCHANGED <<locks, marker, incomplete, stores, opc, threads, faults>>

AbandonedReviewEnds(w) ==
    /\ w \in abandoned
    /\ abandoned' = abandoned \ {w} /\ threads' = threads + 1
    /\ UNCHANGED <<locks, marker, incomplete, stores, wpc, opc, faults>>

Leave(w) ==
    /\ wpc[w] = "leaving" /\ threads > 0
    /\ drain' = None
    /\ Writer(w, "done")
    /\ UNCHANGED <<admission, marker, incomplete, stores, opc, abandoned, threads, faults>>
-----------------------------------------------------------------------------
(* The maintenance window *)

Start(o) ==
    /\ opc[o] = "idle" /\ Operator(o, "start")
    /\ UNCHANGED <<locks, marker, incomplete, stores, wpc, abandoned, threads, faults>>

CreateMarker(o) ==
    /\ opc[o] = "start" /\ admission = None
    /\ IF marker THEN Operator(o, "failed") /\ UNCHANGED marker
                 ELSE Operator(o, "drain") /\ marker' = TRUE
    /\ UNCHANGED <<locks, incomplete, stores, wpc, abandoned, threads, faults>>

StartTimeout(o) ==
    /\ opc[o] = "start" /\ admission # None
    /\ Operator(o, "failed")
    /\ UNCHANGED <<locks, marker, incomplete, stores, wpc, abandoned, threads, faults>>

EnterWindowUndrained(o) ==                                            \* mutant
    /\ opc[o] = "drain"
    /\ drain' = o
    /\ Operator(o, IF o \in Backups THEN "backup" ELSE "prepare")
    /\ at' = 1 /\ cut' = {} /\ verified' = FALSE
    /\ previous' = [s \in Stores |-> None]
    /\ UNCHANGED <<admission, marker, incomplete, store, wpc, abandoned, threads, faults>>

\* Every writer that was in has left.
EnterWindow(o) ==
    /\ opc[o] = "drain" /\ drain = None
    /\ drain' = o
    /\ Operator(o, IF o \in Backups THEN "backup" ELSE "prepare")
    /\ at' = 1 /\ cut' = {} /\ verified' = FALSE
    /\ previous' = [s \in Stores |-> None]
    /\ UNCHANGED <<admission, marker, incomplete, store, wpc, abandoned, threads, faults>>

WindowTimeout(o) ==
    /\ opc[o] = "drain" /\ drain # None
    /\ Operator(o, "cleanup")
    /\ UNCHANGED <<locks, marker, incomplete, stores, wpc, abandoned, threads, faults>>

ClearedUnverified(o) == incomplete /\ ~(drain = o /\ o \in Restores)     \* mutant
\* The incomplete marker goes only with the window that verified its recovery. Nobody
\* holds the admission lock for long while the marker is there: no wait can time out.
StillIncomplete(o) == incomplete /\ ~(drain = o /\ verified)

LeaveWindow(o) ==
    /\ opc[o] = "cleanup" /\ admission = None
    /\ marker' = FALSE /\ incomplete' = StillIncomplete(o)
    /\ drain' = IF drain = o THEN None ELSE drain
    /\ Operator(o, IF drain = o /\ (o \in Backups \/ verified) THEN "completed" ELSE "failed")
    /\ UNCHANGED <<admission, stores, wpc, abandoned, threads, faults>>
-----------------------------------------------------------------------------
(* What is done in a window *)

\* pg_dump and the archives, published as one directory or not at all.
Backup(o) ==
    /\ opc[o] = "backup" /\ Operator(o, "cleanup")
    /\ UNCHANGED <<locks, marker, incomplete, stores, wpc, abandoned, threads, faults>>

\* Bundle checked, archives extracted, shadow database restored and reconciled:
\* the live stores are not touched, whatever fails.
Prepare(o) ==
    /\ opc[o] = "prepare"
    /\ Operator(o, "begin") \/ Operator(o, "cleanup")
    /\ UNCHANGED <<locks, marker, incomplete, stores, wpc, abandoned, threads, faults>>

BeginUnmarked(o) ==                                                   \* mutant
    /\ opc[o] = "begin"
    /\ Operator(o, "detach")
    /\ UNCHANGED <<locks, marker, incomplete, stores, wpc, abandoned, threads, faults>>

BeginRecovery(o) ==
    /\ opc[o] = "begin"
    /\ \/ incomplete' = TRUE /\ Operator(o, "detach")
       \/ (UNCHANGED incomplete \/ incomplete' = TRUE) /\ Operator(o, "rollback")
    /\ UNCHANGED <<locks, marker, stores, wpc, abandoned, threads, faults>>

\* The live store is renamed out of the way; a directory may be missing already,
\* a database may not.
Detach(o) ==
    /\ opc[o] = "detach"
    /\ \/ /\ store[Order[at]] # None \/ Order[at] # "database"
          /\ previous' = [previous EXCEPT ![Order[at]] = store[Order[at]]]
          /\ store' = [store EXCEPT ![Order[at]] = None]
          /\ Operator(o, "attach")
       \/ Operator(o, "rollback") /\ UNCHANGED <<store, previous>>
    /\ UNCHANGED <<locks, marker, incomplete, at, cut, verified,
                   wpc, abandoned, threads, faults>>

\* The prepared store takes the live name. If that fails, the one moved aside is
\* renamed back; if that fails too, its error is the one that is raised.
Attach(o) ==
    /\ opc[o] = "attach"
    /\ \/ /\ store' = [store EXCEPT ![Order[at]] = o]
          /\ cut' = cut \cup {Order[at]}
          /\ IF at = 3 THEN Operator(o, "verify") /\ UNCHANGED at
                       ELSE Operator(o, "detach") /\ at' = at + 1
       \/ /\ store' \in {store, [store EXCEPT ![Order[at]] = previous[Order[at]]]}
          /\ Operator(o, "rollback")
          /\ UNCHANGED <<cut, at>>
    /\ UNCHANGED <<locks, marker, incomplete, previous, verified,
                   wpc, abandoned, threads, faults>>

Verify(o) ==
    /\ opc[o] = "verify"
    /\ \/ Operator(o, "cleanup") /\ verified' = TRUE
       \/ Operator(o, "rollback") /\ UNCHANGED verified
    /\ UNCHANGED <<locks, marker, incomplete, store, previous, at, cut,
                   wpc, abandoned, threads, faults>>

\* Media, conversations, database: each put back, left, or lost with its first
\* rename; the next one is tried all the same.
Last(S) == CHOOSE s \in S : \A t \in S :
    \A i, j \in 1..3 : s = Order[i] /\ t = Order[j] => j <= i

Rollback(o) ==
    /\ opc[o] = "rollback" /\ cut # {}
    /\ LET s == Last(cut) IN
         /\ cut' = cut \ {s}
         /\ \E v \in {previous[s], store[s], None} : store' = [store EXCEPT ![s] = v]
    /\ UNCHANGED <<locks, marker, incomplete, previous, at, verified,
                   wpc, opc, abandoned, threads, faults>>

RollbackDone(o) ==
    /\ opc[o] = "rollback" /\ cut = {}
    /\ Operator(o, "cleanup")
    /\ UNCHANGED <<locks, marker, incomplete, stores, wpc, abandoned, threads, faults>>
-----------------------------------------------------------------------------
(* Crashes, and the operator who repairs what they leave *)

Free(S) == /\ admission' = IF admission \in S THEN None ELSE admission
           /\ drain' = IF drain \in S THEN None ELSE drain

ServerCrash ==
    /\ faults < MaxFaults /\ faults' = faults + 1
    /\ Free(Writers)
    /\ wpc' = [w \in Writers |-> IF wpc[w] = "idle" THEN "idle" ELSE "done"]
    /\ abandoned' = {} /\ threads' = MaxThreads
    /\ UNCHANGED <<marker, incomplete, stores, opc>>

Kill(o) ==
    /\ opc[o] \in Working \cup {"start", "drain", "cleanup"}
    /\ faults < MaxFaults /\ faults' = faults + 1
    /\ Free({o})
    /\ Operator(o, "killed")
    /\ UNCHANGED <<marker, incomplete, stores, wpc, abandoned, threads>>

\* Only with the server stopped, no operation running and no lock held.
RemoveStaleMarker ==
    /\ marker /\ admission = None /\ drain = None
    /\ \A w \in Writers : wpc[w] \in {"idle", "done"}
    /\ \A o \in Operators : opc[o] \in {"idle", "completed", "failed", "killed"}
    /\ abandoned = {}
    /\ marker' = FALSE
    /\ UNCHANGED <<locks, incomplete, stores, wpc, opc, abandoned, threads, faults>>

WriterStep(w) ==
    \/ StartEnter(w) \/ TakeAdmission(w) \/ AdmissionTimeout(w) \/ TakeDrain(w)
    \/ DrainTimeout(w) \/ CheckAgain(w) \/ StartThread(w) \/ Serve(w) \/ Leave(w)

OperatorStep(o) ==
    \/ CreateMarker(o) \/ StartTimeout(o) \/ EnterWindow(o) \/ WindowTimeout(o)
    \/ Backup(o) \/ Prepare(o) \/ BeginRecovery(o) \/ Detach(o) \/ Attach(o) \/ Verify(o)
    \/ Rollback(o) \/ RollbackDone(o) \/ LeaveWindow(o)

Next ==
    \/ \E w \in Writers : \/ Arrive(w) \/ WriterStep(w) \/ CancelReview(w)
                          \/ AbandonedReviewEnds(w)
    \/ \E o \in Operators : Start(o) \/ OperatorStep(o) \/ Kill(o)
    \/ ServerCrash \/ RemoveStaleMarker

Spec == Init /\ [][Next]_vars

\* Threads and processes run, a wait for a lock ends by its timeout, and a review
\* by its own; nobody is obliged to call, to cancel or to repair.
Fairness ==
    /\ \A w \in Writers : SF_vars(WriterStep(w)) /\ WF_vars(AbandonedReviewEnds(w))
    /\ \A o \in Operators : WF_vars(OperatorStep(o))

LiveSpec == Spec /\ Fairness
-----------------------------------------------------------------------------
(* What the barrier must get right *)

TypeOK ==
    /\ admission \in Writers \cup {None}
    /\ drain \in Writers \cup Operators \cup {None}
    /\ marker \in BOOLEAN /\ incomplete \in BOOLEAN
    /\ store \in [Stores -> Sources \cup {None}]
    /\ previous \in [Stores -> Sources \cup {None}]
    /\ at \in 1..3 /\ cut \subseteq Stores
    /\ verified \in BOOLEAN
    /\ wpc \in [Writers -> WriterSteps] /\ opc \in [Operators -> OperatorSteps]
    /\ abandoned \subseteq Cancelled
    /\ threads \in 0..MaxThreads /\ faults \in 0..MaxFaults

\* While a backup reads the stores or a restore replaces them, no write request
\* is inside, and no other operation is.
WindowIsQuiet ==
    \A o \in Operators : opc[o] \in Working =>
        /\ \A w \in Writers : wpc[w] \notin Inside
        /\ \A p \in Operators \ {o} : opc[p] \notin Working

\* Stores that do not belong together are fenced: the marker says so, and no
\* writer is inside, through crashes, kills, retries and repairs.
TornIsFenced ==
    ~Whole => incomplete /\ \A w \in Writers : wpc[w] \notin Inside

\* The incomplete marker is cleared only when the stores belong together again.
ClearedOnlyWhole == [][incomplete /\ ~incomplete' => Whole]_vars

\* Every request is answered: a waiting __enter__ may hold the last thread that
\* the request it waits for needs to leave.
RequestsEnd == \A w \in Writers : wpc[w] = "queued" ~> wpc[w] = "done"
=============================================================================
