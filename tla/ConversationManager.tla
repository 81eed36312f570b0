---------------------------- MODULE ConversationManager ----------------------------
(*************************************************************************)
(* Who may run an agent, and when, in one server process: the review     *)
(* calls that ConversationManager admits, their interrupts, the provider *)
(* permits, and close_all. What a review does to its session is           *)
(* LearningSession's; here a review is the order of its locks and checks.*)
(*                                                                       *)
(* Everything under _lifecycle_lock is one step; the dictionary of       *)
(* handles is the exception, being changed under a run lock only.        *)
(*************************************************************************)
EXTENDS Integers, FiniteSets

CONSTANTS Sessions,
          Reviews,       \* review call ids: each is one call
          SessionOf,     \* the session a review call is for
          Senders,       \* submission calls, which open handles too
          Closers,       \* threads that call close_all
          MaxConcurrent  \* provider permits

None == "none"

ASSUME ManagerAssumption ==
    /\ SessionOf \in [Reviews -> Sessions]
    /\ MaxConcurrent \in Nat \ {0}
    /\ IsFiniteSet(Reviews) /\ Reviews \cap Senders = {}
    /\ None \notin Reviews \cup Senders /\ {"idle", "done"} \cap Sessions = {}

VARIABLES
    accepting,    \* _accepting_reviews
    active,       \* _active_reviews, over all sessions
    running,      \* _running_reviews: the call registered for each session
    interrupted,  \* _interrupted_reviews
    handles,      \* the sessions with an entry in _handles
    lock,         \* the run lock of each session
    permits,      \* free provider permits
    rpc, spc, kpc, \* where each review, submission and close_all call is
    todo,         \* the handles a close_all call has still to close
    outcome,      \* of the shutdown: None, "complete" or "error"
    caught,       \* the reviews whose interrupt call is about to reach a handle
    stopped,      \* history: reviews whose running agent was interrupted
    early         \* history: reviews cancelled before they could be running

vars == <<accepting, active, running, interrupted, handles, lock, permits,
          rpc, spc, kpc, todo, outcome, caught, stopped, early>>

Holders == Reviews \cup Senders
ReviewSteps == {"idle", "waiting", "check", "restore", "decide", "admit", "agent",
                "unlock", "leave", "done"}
CloserSteps == {"idle", "wait", "drain", "close", "returned", "raised"}

Init ==
    /\ accepting = TRUE /\ active = {} /\ interrupted = {} /\ outcome = None
    /\ running = [s \in Sessions |-> None] /\ lock = [s \in Sessions |-> None]
    /\ handles \in SUBSET Sessions
    /\ permits = MaxConcurrent
    /\ rpc = [r \in Reviews |-> "idle"] /\ spc = [d \in Senders |-> "idle"]
    /\ kpc = [k \in Closers |-> "idle"] /\ todo = [k \in Closers |-> {}]
    /\ caught = {} /\ stopped = {} /\ early = {}

Step(r, p) == rpc' = [rpc EXCEPT ![r] = p]
shutdown == <<kpc, todo, outcome>>
history == <<caught, stopped, early>>

InAgent(s) == {r \in Reviews : SessionOf[r] = s /\ rpc[r] = "agent"}
-----------------------------------------------------------------------------
(* A review call *)

Enter(r) ==
    /\ rpc[r] = "idle"
    /\ IF accepting THEN Step(r, "waiting") /\ active' = active \cup {r}
                    ELSE Step(r, "done") /\ UNCHANGED active
    /\ UNCHANGED <<accepting, running, interrupted, handles, lock, permits, spc, shutdown, history>>

TakeRunLock(r) ==
    /\ rpc[r] = "waiting" /\ lock[SessionOf[r]] = None
    /\ lock' = [lock EXCEPT ![SessionOf[r]] = r]
    /\ Step(r, "check")
    /\ UNCHANGED <<accepting, active, running, interrupted, handles, permits, spc, shutdown, history>>

RunLockTimeout(r) ==
    /\ rpc[r] = "waiting" /\ lock[SessionOf[r]] # None
    /\ Step(r, "leave")
    /\ UNCHANGED <<accepting, active, running, interrupted, handles, lock, permits, spc, shutdown, history>>

RegisterRunning(r) ==
    /\ rpc[r] = "check"
    /\ IF accepting THEN Step(r, "restore") /\ running' = [running EXCEPT ![SessionOf[r]] = r]
                    ELSE Step(r, "unlock") /\ UNCHANGED running
    /\ UNCHANGED <<accepting, active, interrupted, handles, lock, permits, spc, shutdown, history>>

\* get_or_restore: the handle is there, or is created; a restore that fails
\* closes it again.
Restore(r) ==
    /\ rpc[r] = "restore"
    /\ \/ Step(r, "decide") /\ handles' = handles \cup {SessionOf[r]}
       \/ Step(r, "unlock") /\ UNCHANGED handles
    /\ UNCHANGED <<accepting, active, running, interrupted, lock, permits, spc, shutdown, history>>

\* Closing or cancelled: no run. Otherwise a stored or recovered result, or the agent.
Decide(r) ==
    /\ rpc[r] = "decide"
    /\ \/ Step(r, "unlock")
       \/ accepting /\ r \notin interrupted /\ Step(r, "admit")
    /\ UNCHANGED <<accepting, active, running, interrupted, handles, lock, permits, spc, shutdown, history>>

Admit(r) ==
    /\ rpc[r] = "admit" /\ permits > 0
    /\ permits' = permits - 1
    /\ Step(r, "agent")
    /\ UNCHANGED <<accepting, active, running, interrupted, handles, lock, spc, shutdown, history>>

AdmissionTimeoutReleasing(r) ==                                       \* mutant
    /\ rpc[r] = "admit" /\ permits = 0
    /\ permits' = permits + 1
    /\ Step(r, "unlock")
    /\ UNCHANGED <<accepting, active, running, interrupted, handles, lock, spc, shutdown, history>>

AdmissionTimeout(r) ==
    /\ rpc[r] = "admit" /\ permits = 0
    /\ Step(r, "unlock")
    /\ UNCHANGED <<accepting, active, running, interrupted, handles, lock, permits, spc, shutdown, history>>

AgentEndsIfInterrupted(r) ==                                          \* mutant
    /\ rpc[r] = "agent" /\ r \in stopped
    /\ permits' = permits + 1
    /\ Step(r, "unlock")
    /\ UNCHANGED <<accepting, active, running, interrupted, handles, lock, spc, shutdown, history>>

\* The run ends by itself, by its timeout, by an error or by an interrupt.
AgentEnds(r) ==
    /\ rpc[r] = "agent"
    /\ permits' = permits + 1
    /\ Step(r, "unlock")
    /\ UNCHANGED <<accepting, active, running, interrupted, handles, lock, spc, shutdown, history>>

Unlock(r) ==
    /\ rpc[r] = "unlock"
    /\ lock' = [lock EXCEPT ![SessionOf[r]] = None]
    /\ Step(r, "leave")
    /\ UNCHANGED <<accepting, active, running, interrupted, handles, permits, spc, shutdown, history>>

StillMine(r) == running[SessionOf[r]] = r

\* The finally clause, after the run lock is gone.
Leave(r) ==
    /\ rpc[r] = "leave"
    /\ active' = active \ {r}
    /\ running' = IF StillMine(r) THEN [running EXCEPT ![SessionOf[r]] = None] ELSE running
    /\ interrupted' = interrupted \ {r}
    /\ Step(r, "done")
    /\ UNCHANGED <<accepting, handles, lock, permits, spc, shutdown, history>>

\* The client disconnects: interrupt(session, call) marks the call and looks the
\* handle up under the lifecycle lock, and interrupts the conversation after it.
Cancel(r) ==
    /\ r \in active /\ r \notin interrupted
    /\ interrupted' = interrupted \cup {r}
    /\ caught' = IF running[SessionOf[r]] = r /\ SessionOf[r] \in handles
                   THEN caught \cup {r} ELSE caught
    /\ early' = IF rpc[r] \in {"waiting", "check", "restore"} THEN early \cup {r} ELSE early
    /\ UNCHANGED <<accepting, active, running, handles, lock, permits, rpc, spc, shutdown, stopped>>

InterruptConversation(r) ==
    /\ r \in caught
    /\ caught' = caught \ {r}
    /\ stopped' = stopped \cup InAgent(SessionOf[r])
    /\ UNCHANGED <<accepting, active, running, interrupted, handles, lock, permits,
                   rpc, spc, shutdown, early>>
-----------------------------------------------------------------------------
(* A submission: the same run lock and handles, no admission *)

Send(d) ==
    \/ /\ spc[d] = "idle"
       /\ \E s \in Sessions :
             /\ lock[s] = None
             /\ lock' = [lock EXCEPT ![s] = d]
             /\ spc' = [spc EXCEPT ![d] = s]
       /\ UNCHANGED handles
    \/ /\ spc[d] \in Sessions
       /\ handles' = handles \cup {spc[d]}
       /\ lock' = [lock EXCEPT ![spc[d]] = None]
       /\ spc' = [spc EXCEPT ![d] = "done"]

Submit(d) ==
    /\ Send(d)
    /\ UNCHANGED <<accepting, active, running, interrupted, permits, rpc, shutdown, history>>
-----------------------------------------------------------------------------
(* close_all *)

Closer(k, p) == kpc' = [kpc EXCEPT ![k] = p]

\* A thread is about to add an entry to a dictionary that has one already.
HandlesMayChange ==
    /\ handles # {}
    /\ \/ \E r \in Reviews : rpc[r] = "restore" /\ SessionOf[r] \notin handles
       \/ \E d \in Senders : spc[d] \in Sessions \ handles

\* The first call stops admission and interrupts what runs, going through the
\* dictionary of handles with no run lock: an entry added meanwhile ends the
\* iteration, and the call, with a RuntimeError nobody records.
StartClosing(k) ==
    /\ kpc[k] = "idle" /\ accepting
    /\ accepting' = FALSE
    /\ interrupted' = interrupted \cup active
    /\ \/ /\ Closer(k, "drain")
          /\ stopped' = stopped \cup UNION {InAgent(s) : s \in {x \in handles : running[x] # None}}
       \/ HandlesMayChange /\ Closer(k, "raised") /\ UNCHANGED stopped
    /\ UNCHANGED <<active, running, handles, lock, permits, rpc, spc, todo, outcome, caught, early>>

JoinClosing(k) ==
    /\ kpc[k] = "idle" /\ ~accepting
    /\ Closer(k, "wait")
    /\ UNCHANGED <<accepting, active, running, interrupted, handles, lock, permits,
                   rpc, spc, todo, outcome, history>>

DrainedAtOnce == TRUE                                                 \* mutant
Drained == active = {}

Drain(k) ==
    /\ kpc[k] = "drain" /\ Drained
    /\ todo' = [todo EXCEPT ![k] = handles]
    /\ Closer(k, "close")
    /\ UNCHANGED <<accepting, active, running, interrupted, handles, lock, permits,
                   rpc, spc, outcome, history>>

CloseHandle(k) ==
    /\ kpc[k] = "close"
    /\ \E s \in todo[k] :
          /\ lock[s] = None
          /\ handles' = handles \ {s}
          /\ todo' = [todo EXCEPT ![k] = @ \ {s}]
    /\ UNCHANGED <<accepting, active, running, interrupted, lock, permits,
                   rpc, spc, kpc, outcome, history>>

\* SessionBusyError ends the shutdown and leaves the other handles open.
CloseTimeout(k) ==
    /\ kpc[k] = "close" /\ \E s \in todo[k] : lock[s] # None
    /\ outcome' = "error"
    /\ Closer(k, "raised")
    /\ UNCHANGED <<accepting, active, running, interrupted, handles, lock, permits,
                   rpc, spc, todo, history>>

CompleteClosing(k) ==
    /\ kpc[k] = "close" /\ todo[k] = {}
    /\ outcome' = "complete"
    /\ Closer(k, "returned")
    /\ UNCHANGED <<accepting, active, running, interrupted, handles, lock, permits,
                   rpc, spc, todo, history>>

AwaitClosing(k) ==
    /\ kpc[k] = "wait" /\ outcome # None
    /\ Closer(k, IF outcome = "error" THEN "raised" ELSE "returned")
    /\ UNCHANGED <<accepting, active, running, interrupted, handles, lock, permits,
                   rpc, spc, todo, outcome, history>>

ReviewStep(r) ==
    \/ TakeRunLock(r) \/ RunLockTimeout(r) \/ RegisterRunning(r) \/ Restore(r)
    \/ Decide(r) \/ Admit(r) \/ AdmissionTimeout(r) \/ AgentEnds(r) \/ Unlock(r) \/ Leave(r)

CloserStep(k) ==
    \/ Drain(k) \/ CloseHandle(k) \/ CloseTimeout(k) \/ CompleteClosing(k) \/ AwaitClosing(k)

Next ==
    \/ \E r \in Reviews : Enter(r) \/ Cancel(r) \/ InterruptConversation(r) \/ ReviewStep(r)
    \/ \E d \in Senders : Submit(d)
    \/ \E k \in Closers : StartClosing(k) \/ JoinClosing(k) \/ CloserStep(k)

Spec == Init /\ [][Next]_vars

\* Threads are scheduled; every wait of theirs has a timeout but close_all's.
Fairness ==
    /\ \A r \in Reviews : WF_vars(ReviewStep(r)) /\ WF_vars(InterruptConversation(r))
    /\ \A d \in Senders : WF_vars(spc[d] # "idle" /\ Submit(d))
    /\ \A k \in Closers : WF_vars(CloserStep(k))

LiveSpec == Spec /\ Fairness
-----------------------------------------------------------------------------
(* What the manager must get right *)

TypeOK ==
    /\ accepting \in BOOLEAN
    /\ active \subseteq Reviews /\ interrupted \subseteq Reviews
    /\ running \in [Sessions -> Reviews \cup {None}]
    /\ handles \subseteq Sessions
    /\ lock \in [Sessions -> Holders \cup {None}]
    /\ permits \in 0..MaxConcurrent
    /\ rpc \in [Reviews -> ReviewSteps]
    /\ spc \in [Senders -> Sessions \cup {"idle", "done"}]
    /\ kpc \in [Closers -> CloserSteps]
    /\ todo \in [Closers -> SUBSET Sessions]
    /\ outcome \in {None, "complete", "error"}
    /\ caught \subseteq Reviews /\ stopped \subseteq Reviews /\ early \subseteq Reviews

\* A running review is the one an interrupt of its call would find, although the
\* call before it unregisters after giving the run lock away.
RunningIsRegistered ==
    \A r \in Reviews : rpc[r] \in {"restore", "decide", "admit", "agent"} =>
        running[SessionOf[r]] = r /\ lock[SessionOf[r]] = r

\* Paid runs never exceed the permits, and no path loses or invents a permit.
PermitsAddUp ==
    permits + Cardinality({r \in Reviews : rpc[r] = "agent"}) = MaxConcurrent

\* agent-server/tests/ai4b/test_reliability.py:568 - a cancellation that comes
\* before the conversation is restored is neither lost nor followed by a run.
EarlyCancelNeverRuns ==
    \A r \in early : rpc[r] \notin {"admit", "agent"}

\* When close_all has returned, no run is left, and none can start.
ShutdownIsQuiet ==
    outcome = "complete" => active = {} /\ \A s \in Sessions : running[s] = None

\* With no submission in flight, close_all returns only when no handle is open.
ShutdownClosesHandles ==
    (outcome = "complete" /\ Senders = {}) => handles = {}

\* Every review call ends, whatever the other calls, interrupts and shutdown do.
ReviewsEnd == \A r \in Reviews : rpc[r] # "idle" ~> rpc[r] = "done"

\* The close_all that does the work ends, although it waits for reviews with no
\* timeout, and although an interrupt sent before a run starts does not stop it.
ShutdownEnds ==
    \A k \in Closers : kpc[k] \in {"drain", "close"} ~> kpc[k] \in {"returned", "raised"}

\* What was begun ends: every review call, and the shutdown that waits for them.
WorkEnds == ReviewsEnd /\ ShutdownEnds
=============================================================================
