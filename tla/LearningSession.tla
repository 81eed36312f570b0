------------------------------ MODULE LearningSession ------------------------------
(*************************************************************************)
(* One learning session: the row the API keeps in the product database,  *)
(* the native OpenHands EventLog of its conversation, the read-only audit*)
(* projection, and the calls that work on them - evidence, answer and    *)
(* review requests, serialised by the session's run lock, each of which  *)
(* may fail half way or disappear in a crash of the server process.      *)
(*                                                                       *)
(* A message is its semantic key; the text it carries is abstracted.     *)
(* An action with its observation is one event of the log.               *)
(*************************************************************************)
EXTENDS Integers, Sequences, FiniteSets

CONSTANTS
    Calls,       \* request threads of the one server process
    Evidence,    \* evidence ids, each the hash of one content
    Media,       \* the evidence that is an image: its message carries the image
    Legacy,      \* text evidence sent by a release whose messages held no text
    Questions,   \* question ids, each the hash of one question
    MaxVersion,  \* bound: versions of one answer
    MaxEvents,   \* bound: events the agent adds to the log
    MaxFaults    \* bound: failures and crashes

ASSUME SessionAssumption ==
    /\ Media \subseteq Evidence
    /\ Legacy \subseteq Evidence \ Media
    /\ Evidence \cap Questions = {}
    /\ MaxVersion \in Nat /\ MaxEvents \in Nat /\ MaxFaults \in Nat

None == "none"
ASSUME NoneAssumption == None \notin Calls \cup Evidence \cup Questions

VARIABLES
    session,   \* learning_sessions: status, the event its result comes from, goal synced
    evidence,  \* evidence rows: the ids stored
    confirmed, \* evidence rows: the ids with conversation_synced_at set
    answers,   \* learner_answers: version (0: no row) and synced, per question
    reviews,   \* review rows: source event and status
    audit,     \* audit_events in sequence order
    native,    \* the native EventLog of the conversation
    open,      \* whether the process holds a handle on the conversation
    holder,    \* the call that holds the run lock, or None
    pc, op,    \* per call: where it is, what it asked of the manager
    job,       \* the work of the lock's holder
    wire,      \* the event being added to the log: appended to it, projected
    used       \* counters for the bounds: event ids, agent events, faults

db == <<session, evidence, confirmed, answers, reviews>>
vars == <<session, evidence, confirmed, answers, reviews, audit, native,
          open, holder, pc, op, job, wire, used>>
-----------------------------------------------------------------------------
(* Events of the log, and what the code reads off it *)

Subjects == Evidence \cup Questions \cup {None}
Kinds == {"goal", "evidence", "context", "answer", "question", "draft", "check"}
Message(kind, of, ver) == [kind |-> kind, of |-> of, ver |-> ver]
Messages == [kind: Kinds, of: Subjects, ver: Nat]
Event(m, id) == [id |-> id, kind |-> m.kind, of |-> m.of, ver |-> m.ver]
Events == [id: Nat, kind: Kinds, of: Subjects, ver: Nat]

GoalMessage == Message("goal", None, 1)
EvidenceMessage(e) == Message("evidence", e, 1)
BareMessage(e) == Message("evidence", e, 0)
ContextMessage(e) == Message("context", e, 1)
AnswerMessage(q, v) == Message("answer", q, v)

SameKeyUnversioned(a, b) == a.kind = b.kind /\ a.of = b.of          \* mutant
\* The message keys: only an answer's key has a version.
SameKey(a, b) ==
    /\ a.kind = b.kind /\ a.of = b.of
    /\ a.kind = "answer" => a.ver = b.ver

ConfirmedInDatabase(m) ==                                             \* mutant
    CASE m.kind = "goal" -> session.goal
      [] m.kind = "evidence" -> m.of \in confirmed
      [] m.kind = "answer" -> answers[m.of].synced
      [] OTHER -> FALSE
Delivered(m) == \E i \in DOMAIN native : SameKey(native[i], m)

PendingBeforeTextContext ==                                           \* mutant
    {GoalMessage} \cup {EvidenceMessage(e) : e \in evidence}
      \cup {AnswerMessage(q, answers[q].ver) : q \in {p \in Questions : answers[p].ver > 0}}
PendingMessages ==
    {GoalMessage}
      \cup {EvidenceMessage(e) : e \in evidence}
      \cup {ContextMessage(e) : e \in {f \in evidence \ Media :
               /\ \E i \in DOMAIN native : /\ SameKey(native[i], BareMessage(f))
                                           /\ native[i].ver = 0
               /\ ~Delivered(ContextMessage(f))}}
      \cup {AnswerMessage(q, answers[q].ver) : q \in {p \in Questions : answers[p].ver > 0}}

\* The order the synchronizer sends in; within a kind the order is left open.
Rank(m) == CASE m.kind = "goal" -> 1 [] m.kind = "evidence" -> 2
             [] m.kind = "context" -> 3 [] OTHER -> 4

Projectable(ev) == ev.kind \notin {"context", "draft"}
IsLastSource(id) == audit # <<>> /\ audit[Len(audit)].src = id        \* mutant
HasSource(id) == \E i \in DOMAIN audit : audit[i].type = "native" /\ audit[i].src = id
UnprojectedAtTail == {i \in DOMAIN native :                            \* mutant
    \A j \in DOMAIN native : Projectable(native[j]) /\ j >= i => ~HasSource(native[j].id)}
Unprojected == {i \in DOMAIN native : Projectable(native[i]) /\ ~HasSource(native[i].id)}

Least(S) == CHOOSE i \in S : \A j \in S : i <= j
Latest(S) == CHOOSE i \in S : \A j \in S : j <= i

OfKind(kind) == {i \in DOMAIN native : native[i].kind = kind}          \* mutant
\* Events of a kind that no answer follows.
Standing(kind) == {i \in DOMAIN native :
    /\ native[i].kind = kind
    /\ \A j \in DOMAIN native : native[j].kind = "answer" => j < i}

HasAsked == Standing("question") # {}                                 \* mutant
AwaitsLearner ==
    /\ Standing("question") # {}
    /\ Standing("draft") # {} => Latest(Standing("question")) > Latest(Standing("draft"))

\* The image policy: every image was checked since the draft before this one.
PolicyHolds(d, ids) ==
    \A e \in ids \cap Media :
        \E i \in 1..(d - 1) :
            /\ native[i].kind = "check" /\ native[i].of = e
            /\ \A j \in i..(d - 1) : native[j].kind # "draft"

CanComplete(ids) ==
    /\ ~AwaitsLearner
    /\ Standing("draft") # {}
    /\ PolicyHolds(Latest(Standing("draft")), ids)
-----------------------------------------------------------------------------
(* Calls and the run lock *)

Ops == {"create", "sync", "review"}
Steps == {"idle", "runtime", "reconcile", "prepare", "sync", "decide", "agent", "extract"}
Locked == Steps \ {"idle", "runtime"}

NoFacts == [evidence |-> {}, versions |-> [q \in Questions |-> 0]]
Facts == [evidence |-> evidence, versions |-> [q \in Questions |-> answers[q].ver]]
\* pass: which synchronisation it is at - of a conversation just restored, the
\* first of one that was open, or a later one.
Passes == {"none", "restored", "first", "later"}
NoJob == [todo |-> {}, pass |-> "none", ran |-> FALSE, facts |-> NoFacts]
NoEvent == Event(Message("goal", None, 0), 0)
NoWire == [ev |-> NoEvent, logged |-> FALSE, projected |-> FALSE]

Init ==
    /\ \/ /\ session = [status |-> "none", source |-> 0, goal |-> FALSE]
          /\ evidence = {} /\ confirmed = {} /\ native = <<>> /\ audit = <<>>
          /\ used = [ids |-> 0, agent |-> 0, faults |-> 0]
       \/ \E e \in Legacy :
             /\ session = [status |-> "running", source |-> 0, goal |-> TRUE]
             /\ evidence = {e} /\ confirmed = {e}
             /\ native = <<Event(GoalMessage, 1), Event(BareMessage(e), 2)>>
             /\ audit = << [type |-> "created", src |-> 0],
                           [type |-> "native", src |-> 1], [type |-> "native", src |-> 2] >>
             /\ used = [ids |-> 2, agent |-> 0, faults |-> 0]
    /\ answers = [q \in Questions |-> [ver |-> 0, synced |-> FALSE]]
    /\ reviews = {} /\ open = FALSE /\ holder = None
    /\ pc = [c \in Calls |-> "idle"] /\ op = [c \in Calls |-> None]
    /\ job = NoJob /\ wire = NoWire

Finish(c) == pc' = [pc EXCEPT ![c] = "idle"] /\ op' = [op EXCEPT ![c] = None]

Release(c) == Finish(c) /\ holder' = None /\ job' = NoJob /\ wire' = NoWire

Goto(c, step) == pc' = [pc EXCEPT ![c] = step] /\ UNCHANGED op

\* The call goes on to the conversation manager, for a synchronisation or a review.
AskManager(c, o) == pc' = [pc EXCEPT ![c] = "runtime"] /\ op' = [op EXCEPT ![c] = o]

CreateSession(c) ==
    /\ pc[c] = "idle" /\ session.status = "none"
    /\ session' = [session EXCEPT !.status = "running"]
    /\ audit' = Append(audit, [type |-> "created", src |-> 0])
    /\ AskManager(c, "create")
    /\ UNCHANGED <<evidence, confirmed, answers, reviews, native, open, holder, job, wire, used>>

\* A submission locks, checks, commits and unlocks, and nobody sees the middle of
\* it. On a reviewed session it is a replay or a SessionFinalizedError: no change.
SubmitEvidence(c) ==
    /\ pc[c] = "idle" /\ session.status # "none" /\ holder = None
    /\ session.status # "reviewed"
    /\ \E e \in Evidence \ Media : evidence' = evidence \cup {e}
    /\ AskManager(c, "sync")
    /\ UNCHANGED <<session, confirmed, answers, reviews, audit, native, open, holder, job, wire, used>>

RevisedStillMarked(a) == [a EXCEPT !.ver = @ + 1]                     \* mutant
Revised(a) == [ver |-> a.ver + 1, synced |-> FALSE]

\* An answer that says what the stored one says leaves the row alone.
SubmitAnswer(c) ==
    /\ pc[c] = "idle" /\ session.status # "none" /\ holder = None
    /\ session.status # "reviewed"
    /\ \E q \in Questions :
          \/ answers[q].ver > 0 /\ UNCHANGED answers
          \/ /\ answers[q].ver < MaxVersion
             /\ answers' = [answers EXCEPT ![q] = Revised(@)]
    /\ AskManager(c, "sync")
    /\ UNCHANGED <<session, evidence, confirmed, reviews, audit, native, open, holder, job, wire, used>>

PublishImageUnlocked(c) ==                                            \* mutant
    /\ pc[c] = "idle" /\ session.status # "none"
    /\ \E e \in Media : evidence' = evidence \cup {e}
    /\ UNCHANGED <<session, confirmed, answers, reviews, audit, native,
                   open, holder, pc, op, job, wire, used>>

\* The last step of an image upload: published under the run lock, and left for
\* a later call to synchronise. The session's status is not read.
PublishImage(c) ==
    /\ pc[c] = "idle" /\ session.status # "none" /\ holder = None
    /\ \E e \in Media : evidence' = evidence \cup {e}
    /\ UNCHANGED <<session, confirmed, answers, reviews, audit, native,
                   open, holder, pc, op, job, wire, used>>

AskReview(c) ==
    /\ pc[c] = "idle" /\ session.status # "none" /\ holder = None
    /\ AskManager(c, "review")
    /\ UNCHANGED <<db, audit, native, open, holder, job, wire, used>>

\* The lock's timeout, SessionBusyError: a 409, or a synchronisation left pending.
SessionBusy(c) ==
    /\ pc[c] = "runtime" /\ holder # None
    /\ Finish(c)
    /\ UNCHANGED <<db, audit, native, open, holder, job, wire, used>>
-----------------------------------------------------------------------------
(* Under the lock: restore the conversation, then synchronise it *)

OpenConversation(c) ==
    /\ pc[c] = "runtime" /\ holder = None
    /\ holder' = c
    /\ Goto(c, IF open THEN "prepare" ELSE "reconcile")
    /\ job' = [NoJob EXCEPT !.pass = IF open THEN "first" ELSE "restored"]
    /\ open' = TRUE
    /\ UNCHANGED <<db, audit, native, wire, used>>

\* One event of the log at a time, each in a transaction of its own.
Reconcile(c) ==
    /\ pc[c] = "reconcile"
    /\ IF Unprojected # {}
         THEN /\ audit' = Append(audit, [type |-> "native", src |-> native[Least(Unprojected)].id])
              /\ UNCHANGED <<pc, op>>
         ELSE Goto(c, IF job.ran THEN "extract" ELSE "prepare") /\ UNCHANGED audit
    /\ UNCHANGED <<db, native, open, holder, job, wire, used>>

\* Every message is built before the first is sent; an image that cannot be
\* read is left for a later synchronisation.
Prepare(c) ==
    /\ pc[c] = "prepare"
    /\ \E skipped \in SUBSET {m \in PendingMessages : m.of \in Media /\ ~Delivered(m)} :
          job' = [job EXCEPT !.todo = PendingMessages \ skipped]
    /\ Goto(c, "sync")
    /\ UNCHANGED <<db, audit, native, open, holder, wire, used>>

Emit(m) ==
    /\ wire' = [NoWire EXCEPT !.ev = Event(m, used.ids + 1)]
    /\ UNCHANGED <<db, audit, native, open, holder, pc, op, job>>

MarkConfirmed(m) ==
    /\ session' = IF m.kind = "goal" THEN [session EXCEPT !.goal = TRUE] ELSE session
    /\ confirmed' = IF m.kind = "evidence" THEN confirmed \cup {m.of} ELSE confirmed
    /\ answers' = IF m.kind = "answer" /\ answers[m.of].ver = m.ver
                    THEN [answers EXCEPT ![m.of].synced = TRUE] ELSE answers

Foremost(m) == m \in job.todo /\ \A n \in job.todo : Rank(m) <= Rank(n)

SendMessage(c) ==
    /\ pc[c] = "sync" /\ wire = NoWire
    /\ \E m \in job.todo : Foremost(m) /\ ~Delivered(m) /\ Emit(m)
    /\ used' = [used EXCEPT !.ids = @ + 1]

ConfirmMessage(c) ==
    /\ pc[c] = "sync" /\ wire = NoWire
    /\ \E m \in job.todo :
          /\ Foremost(m) /\ Delivered(m)
          /\ MarkConfirmed(m)
          /\ job' = [job EXCEPT !.todo = @ \ {m}]
    /\ UNCHANGED <<evidence, reviews, audit, native, open, holder, pc, op, wire, used>>

\* A submission synchronises twice: inside get_or_restore and after it.
SyncDone(c) ==
    /\ pc[c] = "sync" /\ wire = NoWire /\ job.todo = {}
    /\ CASE op[c] = "review" ->
              Goto(c, "decide") /\ UNCHANGED <<holder, wire>> /\ job' = [job EXCEPT !.pass = "later"]
         [] op[c] = "sync" /\ job.pass # "later" ->
              Goto(c, "prepare") /\ UNCHANGED <<holder, wire>>
                /\ job' = [job EXCEPT !.pass = "later"]
         [] OTHER -> Release(c)
    /\ UNCHANGED <<db, audit, native, open, used>>

\* The conversation appends the event and calls the projector, in either order.
LogEvent ==
    /\ wire # NoWire /\ ~wire.logged
    /\ native' = Append(native, wire.ev)
    /\ wire' = IF wire.projected THEN NoWire ELSE [wire EXCEPT !.logged = TRUE]
    /\ UNCHANGED <<db, audit, open, holder, pc, op, job, used>>

ProjectEvent ==
    /\ wire # NoWire /\ ~wire.projected
    /\ audit' = IF Projectable(wire.ev) /\ ~HasSource(wire.ev.id)
                  THEN Append(audit, [type |-> "native", src |-> wire.ev.id]) ELSE audit
    /\ wire' = IF wire.logged THEN NoWire ELSE [wire EXCEPT !.projected = TRUE]
    /\ UNCHANGED <<db, native, open, holder, pc, op, job, used>>
-----------------------------------------------------------------------------
(* A review *)

LoadScoringFacts(c) ==
    /\ pc[c] = "decide"
    /\ IF session.status = "reviewed"
         THEN Release(c)
         ELSE Goto(c, "extract") /\ job' = [job EXCEPT !.facts = Facts] /\ UNCHANGED <<holder, wire>>
    /\ UNCHANGED <<db, audit, native, open, used>>

AddReviewClosing(status, id) ==                                       \* mutant
    /\ reviews' = reviews \cup {[source |-> id, status |-> status]}
    /\ session' = [session EXCEPT !.status = "reviewed", !.source = id]

AddReview(status, id) ==
    LET known == \E r \in reviews : r.source = id IN
    /\ reviews' = IF known THEN reviews ELSE reviews \cup {[source |-> id, status |-> status]}
    /\ session' = IF known \/ session.status = "reviewed" THEN session
                  ELSE [session EXCEPT
                          !.status = IF status = "completed" THEN "reviewed" ELSE status,
                          !.source = id]

AppendOnce(seq, entry) ==
    IF \E i \in DOMAIN seq : seq[i] = entry THEN seq ELSE Append(seq, entry)

PersistQuestion(c) ==
    /\ pc[c] = "extract" /\ AwaitsLearner
    /\ AddReview("awaiting_user", native[Latest(Standing("question"))].id)
    /\ Release(c)
    /\ UNCHANGED <<evidence, confirmed, answers, audit, native, open, used>>

PersistReview(c) ==
    LET id == native[Latest(Standing("draft"))].id IN
    /\ pc[c] = "extract" /\ CanComplete(job.facts.evidence)
    /\ AddReview("completed", id)
    /\ audit' = AppendOnce(AppendOnce(audit, [type |-> "score", src |-> id]),
                           [type |-> "review", src |-> id])
    /\ Release(c)
    /\ UNCHANGED <<evidence, confirmed, answers, native, open, used>>

\* Nothing to recover: run the agent. Nothing after the run: a failed review.
ExtractNothing(c) ==
    /\ pc[c] = "extract" /\ ~AwaitsLearner /\ ~CanComplete(job.facts.evidence)
    /\ IF job.ran THEN Release(c) ELSE Goto(c, "agent") /\ UNCHANGED <<holder, job, wire>>
    /\ UNCHANGED <<db, audit, native, open, used>>

AgentMessages == {Message("draft", None, 1)}
                   \cup {Message("question", q, 1) : q \in Questions}
                   \cup {Message("check", e, 1) : e \in evidence \cap Media}

AgentStep(c) ==
    /\ pc[c] = "agent" /\ wire = NoWire /\ used.agent < MaxEvents
    /\ \E m \in AgentMessages : Emit(m)
    /\ used' = [used EXCEPT !.ids = @ + 1, !.agent = @ + 1]

AgentStops(c) ==
    /\ pc[c] = "agent" /\ wire = NoWire
    /\ Goto(c, "reconcile")
    /\ job' = [job EXCEPT !.ran = TRUE]
    /\ UNCHANGED <<db, audit, native, open, holder, wire, used>>
-----------------------------------------------------------------------------
(* Failures *)

\* An exception under the lock - the runtime, the database, a timeout or an
\* interrupt of the agent: the lock is released, and a handle that this call
\* was still restoring is closed.
CallFails(c) ==
    /\ pc[c] \in Locked /\ used.faults < MaxFaults
    /\ Release(c)
    /\ open' = (open /\ job.pass # "restored")
    /\ used' = [used EXCEPT !.faults = @ + 1]
    /\ UNCHANGED <<db, audit, native>>

\* The process dies. The database and the EventLog survive, the file lock does not.
Crash ==
    /\ used.faults < MaxFaults
    /\ used' = [used EXCEPT !.faults = @ + 1]
    /\ pc' = [c \in Calls |-> "idle"] /\ op' = [c \in Calls |-> None]
    /\ holder' = None /\ open' = FALSE /\ job' = NoJob /\ wire' = NoWire
    /\ UNCHANGED <<db, audit, native>>

Serve(c) ==
    \/ OpenConversation(c) \/ Reconcile(c) \/ Prepare(c)
    \/ SendMessage(c) \/ ConfirmMessage(c) \/ SyncDone(c)
    \/ LoadScoringFacts(c) \/ PersistQuestion(c) \/ PersistReview(c)
    \/ ExtractNothing(c) \/ AgentStops(c)

Next ==
    \/ \E c \in Calls : \/ CreateSession(c) \/ SubmitEvidence(c) \/ SubmitAnswer(c)
                        \/ PublishImage(c) \/ AskReview(c) \/ SessionBusy(c)
                        \/ Serve(c) \/ AgentStep(c) \/ CallFails(c)
    \/ LogEvent \/ ProjectEvent \/ Crash

Spec == Init /\ [][Next]_vars

\* The server's own steps are taken; nobody is obliged to call, and the agent
\* is obliged to stop (the review timeout), not to speak.
Fairness ==
    /\ \A c \in Calls : WF_vars(Serve(c))
    /\ WF_vars(LogEvent) /\ WF_vars(ProjectEvent)

LiveSpec == Spec /\ Fairness
-----------------------------------------------------------------------------
(* What the session must get right *)

Rows == [status: {"none", "running", "awaiting_user", "reviewed"}, source: Nat, goal: BOOLEAN]
AnswerRows == [ver: 0..MaxVersion, synced: BOOLEAN]
ReviewRows == [source: Nat, status: {"completed", "awaiting_user"}]
Entries == [type: {"created", "native", "score", "review"}, src: Nat]
AllFacts == [evidence: SUBSET Evidence, versions: [Questions -> 0..MaxVersion]]
Jobs == [todo: SUBSET Messages, pass: Passes, ran: BOOLEAN, facts: AllFacts]
Wires == [ev: Events, logged: BOOLEAN, projected: BOOLEAN]
Counters == [ids: Nat, agent: 0..MaxEvents, faults: 0..MaxFaults]

\* Every variable holds what the tables, the log and the calls can hold.
TypeOK ==
    /\ session \in Rows
    /\ evidence \subseteq Evidence /\ confirmed \subseteq evidence
    /\ answers \in [Questions -> AnswerRows]
    /\ reviews \subseteq ReviewRows
    /\ audit \in Seq(Entries)
    /\ native \in Seq(Events)
    /\ open \in BOOLEAN
    /\ holder \in Calls \cup {None}
    /\ pc \in [Calls -> Steps] /\ op \in [Calls -> Ops \cup {None}]
    /\ job \in Jobs /\ wire \in Wires /\ used \in Counters

\* A review is final only on a draft the agent wrote after it was told the last
\* version of every answer, however the run that wrote it ended.
VerdictHeardEveryAnswer ==
    session.status = "reviewed" =>
        \E d \in DOMAIN native :
            /\ native[d].id = session.source /\ native[d].kind = "draft"
            /\ \A j \in DOMAIN native : native[j].kind = "answer" => j < d
            /\ \A q \in Questions : answers[q].ver > 0 =>
                  \E i \in 1..(d - 1) : native[i].kind = "answer" /\ native[i].of = q
                                       /\ native[i].ver = answers[q].ver

\* No message reaches the conversation twice, whichever of the log and the
\* database a failed synchronisation had got to.
DeliveredOnce ==
    \A i, j \in DOMAIN native :
        native[i].kind \in {"goal", "evidence", "context", "answer"}
          /\ SameKey(native[i], native[j]) => i = j

\* A row is marked as synchronised only for the version the log holds.
ConfirmedWasDelivered ==
    LET Has(kind, of, v) == \E i \in DOMAIN native :
            native[i].kind = kind /\ native[i].of = of /\ native[i].ver \in v
    IN /\ session.goal => Has("goal", None, {1})
       /\ \A e \in confirmed : Has("evidence", e, {0, 1})
       /\ \A q \in Questions : answers[q].synced => Has("answer", q, {answers[q].ver})

\* The session row, the review rows and the audit events tell the same story:
\* reviewed with one completed review, one score and one review.completed, all
\* from one draft; or not reviewed and none of them.
VerdictRecordsAgree ==
    LET completed == {r \in reviews : r.status = "completed"}
        Of(type) == {i \in DOMAIN audit : audit[i].type = type}
    IN IF session.status = "reviewed"
         THEN /\ completed = {[source |-> session.source, status |-> "completed"]}
              /\ \A type \in {"score", "review"} :
                    \E i \in Of(type) : Of(type) = {i} /\ audit[i].src = session.source
         ELSE completed = {} /\ Of("score") = {} /\ Of("review") = {}

\* What the rows say of the log and of one another is true.
RecordsAreTrue == ConfirmedWasDelivered /\ VerdictRecordsAgree

\* Once reviewed, the verdict, the answers and the text evidence never change.
TextFactsFinal ==
    [][session.status = "reviewed" =>
          /\ session'.status = "reviewed" /\ session'.source = session.source
          /\ \A q \in Questions : answers'[q].ver = answers[q].ver
          /\ evidence' \ Media = evidence \ Media]_vars

\* No event of the log has two audit events, whatever was projected twice -
\* by the callback, by a restore, by the end of a review.
ProjectedOnce ==
    \A i, j \in DOMAIN audit :
        audit[i].type = "native" /\ audit[j] = audit[i] => i = j

\* When a conversation has just been restored, and when a run's result is read,
\* no event of the log is missing from the audit, although callbacks failed.
AuditCaughtUp ==
    \A c \in Calls :
        \/ pc[c] = "prepare" /\ job.pass = "restored"
        \/ pc[c] = "extract" /\ job.ran
        => \A i \in DOMAIN native : native[i].kind \notin {"context", "draft"} =>
              \E k \in DOMAIN audit : audit[k] = [type |-> "native", src |-> native[i].id]

\* The audit log is the log's copy: complete when it is read, and with nothing twice.
AuditIsFaithful == ProjectedOnce /\ AuditCaughtUp

\* The facts a review scores, read before a run of minutes, are still the stored
\* facts when its result is written.
ScoredFactsCurrent ==
    \A c \in Calls : pc[c] \in {"agent", "extract"} => job.facts = Facts

\* When the agent may run, the log holds the text of every text evidence and the
\* current version of every answer.
AgentReadsEveryFact ==
    \A c \in Calls : pc[c] \in {"decide", "agent", "extract"} =>
        /\ \A e \in evidence \ Media : \E i \in DOMAIN native :
              native[i].kind \in {"evidence", "context"} /\ native[i].of = e /\ native[i].ver = 1
        /\ \A q \in Questions : answers[q].ver > 0 => \E i \in DOMAIN native :
              native[i].kind = "answer" /\ native[i].of = q /\ native[i].ver = answers[q].ver

\* A draft the agent has accepted is never lost: if reviews keep getting through
\* to the decision, it becomes the verdict, unless the learner answers again, an
\* image is published that it never checked, or the agent goes on.
Settles ==
    \E d \in DOMAIN native :
        /\ native[d].kind = "draft" /\ PolicyHolds(d, evidence)
        /\ \A j \in DOMAIN native : j > d => native[j].kind \notin {"answer", "question", "draft"}
        /\ \A q \in Questions : answers[q].ver > 0 =>
              \E i \in 1..d : SameKey(native[i], AnswerMessage(q, answers[q].ver))

StandingDraftSettles ==
    []<>(\E c \in Calls : pc[c] = "decide") => (Settles ~> session.status = "reviewed" \/ ~Settles)

\* The session keeps SessionPromise: the abstract verdict's basis is, for each
\* question, the last version of its answer that precedes the draft in the log.
Heard(q) ==
    LET heard == {v \in 0..MaxVersion :
            \E d \in DOMAIN native : /\ native[d].id = session.source
                                    /\ \E i \in 1..d : native[i].kind = "answer"
                                          /\ native[i].of = q /\ native[i].ver = v}
    IN IF heard = {} THEN 0 ELSE Latest(heard)

Promise == INSTANCE SessionPromise WITH
    Texts <- Evidence \ Media,
    shown <- evidence \ Media,
    said  <- [q \in Questions |-> answers[q].ver],
    state <- CASE session.status = "reviewed" -> "closed"
               [] session.status = "awaiting_user" -> "asked"
               [] OTHER -> "open",
    basis <- [q \in Questions |-> IF session.status = "reviewed" THEN Heard(q) ELSE 0]

KeepsPromise == Promise!Spec
=============================================================================
