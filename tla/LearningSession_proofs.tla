--------------------------- MODULE LearningSession_proofs ---------------------------
(*************************************************************************)
(* LearningSession keeps its types, delivers once, scores the stored     *)
(* facts, gives its verdict on every answer and lets nobody change it,   *)
(* for any calls, evidence, questions and bounds.                        *)
(*                                                                       *)
(* The argument: a call that is past its synchronisation still holds the *)
(* lock, so the answers are those it synchronised; the log has all of    *)
(* them and no later version, so the last one before a draft that no     *)
(* answer follows is the current one.                                    *)
(* The second part shows what the rows and the audit say of the log, the  *)
(* third that every step is one of SessionPromise or leaves it alone.     *)
(*************************************************************************)
EXTENDS LearningSession, SequenceTheorems, WellFoundedInduction, TLAPS

\* Who holds the lock, and that nothing is under way without it.
LockInv ==
    /\ \A c \in Calls : pc[c] \in Locked <=> holder = c
    /\ holder = None => job = NoJob /\ wire = NoWire
    /\ wire # NoWire => pc[holder] \in {"sync", "agent"}

\* The messages to send are those of stored rows, at their current versions.
TodoInv == \A m \in job.todo :
    /\ m.kind = "evidence" => m.of \in evidence
    /\ m.kind = "answer" => m.of \in Questions /\ m.ver = answers[m.of].ver /\ m.ver > 0

Told(q) == \E i \in DOMAIN native :
    native[i].kind = "answer" /\ native[i].of = q /\ native[i].ver = answers[q].ver

Synchronised(c) == pc[c] \in {"decide", "agent", "extract"} \/ (pc[c] = "reconcile" /\ job.ran)

\* A synchronisation forgets no answer, and a review that is past it works on
\* answers the log has and on the facts that are stored.
FactsInv == \A c \in Calls :
    /\ pc[c] = "sync" => \A q \in Questions :
          answers[q].ver > 0 => AnswerMessage(q, answers[q].ver) \in job.todo \/ Told(q)
    /\ Synchronised(c) => \A q \in Questions : answers[q].ver > 0 => Told(q)
    /\ Synchronised(c) /\ pc[c] # "decide" => job.facts = Facts

Coming == wire # NoWire /\ ~wire.logged

\* Event ids are unique, in the log and for the event that comes.
IdInv ==
    /\ \A i, j \in DOMAIN native : native[i].id = native[j].id => i = j
    /\ \A i \in DOMAIN native : native[i].id <= used.ids
    /\ Coming => wire.ev.id <= used.ids /\ \A i \in DOMAIN native : native[i].id # wire.ev.id

MessageKinds == {"goal", "evidence", "context", "answer"}

\* The log has every message once and no version of an answer that is not stored;
\* the event that comes is a new one, and if an answer, the current one.
LogInv ==
    /\ DeliveredOnce
    /\ \A i \in DOMAIN native : native[i].kind = "answer" =>
          native[i].of \in Questions /\ native[i].ver \in 1..answers[native[i].of].ver
    /\ Coming /\ wire.ev.kind \in MessageKinds => ~Delivered(wire.ev)
    /\ Coming /\ wire.ev.kind = "answer" =>
          wire.ev.of \in Questions /\ wire.ev.ver = answers[wire.ev.of].ver /\ wire.ev.ver > 0

IInv == /\ TypeOK /\ LockInv /\ TodoInv /\ FactsInv /\ IdInv /\ LogInv
        /\ VerdictHeardEveryAnswer
-----------------------------------------------------------------------------
\* The order in which the least and the latest element of a set of numbers are found.
Less == {p \in Nat \X Nat : p[1] < p[2]}
\* That order is well founded.
LEMMA LessWF == IsWellFoundedOn(Less, Nat)
BY NatLessThanWellFounded DEF OpToRel, Less
\* Least(S) is an element: the event a reconciliation projects next exists.
LEMMA LeastExists ==
    ASSUME NEW S \in SUBSET Nat, S # {}
    PROVE  Least(S) \in S
<1>1. \E x \in S : \A y \in S : ~ (<<y, x>> \in Less)
  BY LessWF, WFMin
<1>2. PICK x \in S : \A y \in S : ~ (<<y, x>> \in Less)
  BY <1>1
<1>3. \A y \in S : x \in Nat /\ y \in Nat /\ ~ (y < x)
  BY <1>2 DEF Less
<1>4. \A y \in S : x <= y
  BY <1>3
<1> QED BY <1>4 DEF Least

\* Latest(S) is an element and bounds the others: the code's "last accepted draft".
LEMMA LatestExists ==
    ASSUME NEW n \in Nat, NEW S \in SUBSET (1..n), S # {}
    PROVE  Latest(S) \in S /\ \A j \in S : j <= Latest(S)
<1> DEFINE T == {n - i : i \in S}
<1>1. \A i \in S : i \in Int /\ n - i \in Nat
  OBVIOUS
<1>2. T \subseteq Nat /\ T # {}
  BY <1>1
<1>3. \E x \in T : \A y \in T : ~ (<<y, x>> \in Less)
  <2> HIDE DEF T
  <2> QED BY <1>2, LessWF, WFMin
<1>4. PICK i \in S : \A y \in T : ~ (<<y, n - i>> \in Less)
  BY <1>3
<1>5. \A j \in S : j <= i
  <2> SUFFICES ASSUME NEW j \in S PROVE j <= i
    OBVIOUS
  <2>1. ~ (<<n - j, n - i>> \in Less)
    BY <1>4
  <2>2. n - i <= n - j
    BY <1>1, <2>1 DEF Less
  <2> QED BY <1>1, <2>2
<1> QED BY <1>5 DEF Latest

\* The updates the actions make to the lock holder's work are work again.
LEMMA JobTypes ==
    /\ NoJob \in Jobs
    /\ \A j \in Jobs : /\ j.todo \in SUBSET Messages /\ j.ran \in BOOLEAN
                       /\ j.facts \in AllFacts
                       /\ \A S \in SUBSET Messages : [j EXCEPT !.todo = S] \in Jobs
                       /\ \A f \in AllFacts : [j EXCEPT !.facts = f] \in Jobs
                       /\ [j EXCEPT !.ran = TRUE] \in Jobs
                       /\ \A p \in Passes : [j EXCEPT !.pass = p] \in Jobs
<1>1. NoFacts \in AllFacts
  BY SessionAssumption DEF NoFacts, AllFacts
<1>2. NoJob \in Jobs
  BY <1>1 DEF NoJob, Jobs, Passes
<1>3. ASSUME NEW j \in Jobs
      PROVE  /\ j.todo \in SUBSET Messages /\ j.ran \in BOOLEAN /\ j.facts \in AllFacts
  BY DEF Jobs
<1>4. ASSUME NEW j \in Jobs
      PROVE  /\ \A S \in SUBSET Messages : [j EXCEPT !.todo = S] \in Jobs
             /\ \A f \in AllFacts : [j EXCEPT !.facts = f] \in Jobs
  BY DEF Jobs
<1>5. ASSUME NEW j \in Jobs
      PROVE  [j EXCEPT !.ran = TRUE] \in Jobs /\ \A p \in Passes : [j EXCEPT !.pass = p] \in Jobs
  BY DEF Jobs
<1> QED BY <1>2, <1>3, <1>4, <1>5

\* Every message the code can send or the agent can produce is a message.
LEMMA MessageTypes ==
    /\ \A m \in Messages, n \in Nat : Event(m, n) \in Events
    /\ \A e \in Evidence : EvidenceMessage(e) \in Messages /\ ContextMessage(e) \in Messages
    /\ \A q \in Questions, v \in Nat : AnswerMessage(q, v) \in Messages
    /\ GoalMessage \in Messages
    /\ AgentMessages \subseteq Messages
<1> USE DEF Messages, Message, Kinds, Subjects
<1>1. \A m \in Messages, n \in Nat : Event(m, n) \in Events
  BY DEF Event, Events
<1>2. \A e \in Evidence : EvidenceMessage(e) \in Messages /\ ContextMessage(e) \in Messages
  BY DEF EvidenceMessage, ContextMessage
<1>3. \A q \in Questions, v \in Nat : AnswerMessage(q, v) \in Messages
  BY DEF AnswerMessage
<1>4. GoalMessage \in Messages
  BY DEF GoalMessage
<1>5. AgentMessages \subseteq Messages
  BY SessionAssumption DEF AgentMessages
<1> QED BY <1>1, <1>2, <1>3, <1>4, <1>5

\* The updates to the event being added are well typed.
LEMMA WireTypes ==
    /\ NoWire \in Wires
    /\ \A w \in Wires : w.ev \in Events /\ [w EXCEPT !.logged = TRUE] \in Wires /\ [w EXCEPT !.projected = TRUE] \in Wires
    /\ \A e \in Events : [NoWire EXCEPT !.ev = e] \in Wires
<1>1. NoEvent \in Events
  BY DEF NoEvent, Event, Events, Message, Kinds, Subjects
<1>2. NoWire \in Wires
  BY <1>1 DEF NoWire, Wires
<1> QED BY <1>2 DEF Wires

\* The updates to the session row are well typed.
LEMMA RowTypes ==
    \A r \in Rows : /\ [r EXCEPT !.goal = TRUE] \in Rows
                    /\ \A st \in {"awaiting_user", "reviewed", "running"}, n \in Nat :
                          [r EXCEPT !.status = st, !.source = n] \in Rows /\ [r EXCEPT !.status = st] \in Rows
BY DEF Rows

\* The updates to the counters stay within their bounds.
LEMMA CounterTypes ==
    \A u \in Counters :
        /\ u.ids \in Nat /\ [u EXCEPT !.ids = u.ids + 1] \in Counters
        /\ u.agent < MaxEvents => [u EXCEPT !.ids = u.ids + 1, !.agent = u.agent + 1] \in Counters
        /\ u.faults < MaxFaults => [u EXCEPT !.faults = u.faults + 1] \in Counters
<1> SUFFICES ASSUME NEW u \in Counters
    PROVE  /\ u.ids \in Nat /\ [u EXCEPT !.ids = u.ids + 1] \in Counters
           /\ u.agent < MaxEvents => [u EXCEPT !.ids = u.ids + 1, !.agent = u.agent + 1] \in Counters
           /\ u.faults < MaxFaults => [u EXCEPT !.faults = u.faults + 1] \in Counters
  OBVIOUS
<1>1. u.ids \in Nat /\ u.ids + 1 \in Nat /\ [u EXCEPT !.ids = u.ids + 1] \in Counters
  BY DEF Counters
<1>2. ASSUME u.agent < MaxEvents
      PROVE  [u EXCEPT !.ids = u.ids + 1, !.agent = u.agent + 1] \in Counters
  <2>1. u.agent + 1 \in 0..MaxEvents
    BY <1>2, SessionAssumption DEF Counters
  <2> QED BY <1>1, <2>1 DEF Counters
<1>3. ASSUME u.faults < MaxFaults
      PROVE  [u EXCEPT !.faults = u.faults + 1] \in Counters
  <2>1. u.faults + 1 \in 0..MaxFaults
    BY <1>3, SessionAssumption DEF Counters
  <2> QED BY <1>1, <2>1 DEF Counters
<1> QED BY <1>1, <1>2, <1>3


\* A revised or confirmed answer row is an answer row.
LEMMA AnswerRowTypes ==
    /\ \A a \in AnswerRows : a.ver \in Nat /\ a.ver <= MaxVersion /\ [a EXCEPT !.synced = TRUE] \in AnswerRows
    /\ \A a \in AnswerRows : a.ver < MaxVersion => Revised(a) \in AnswerRows
<1>1. ASSUME NEW a \in AnswerRows PROVE a.ver \in Nat /\ a.ver <= MaxVersion
  BY SessionAssumption DEF AnswerRows
<1>2. ASSUME NEW a \in AnswerRows PROVE [a EXCEPT !.synced = TRUE] \in AnswerRows
  BY SessionAssumption DEF AnswerRows
<1>3. ASSUME NEW v \in 0..MaxVersion PROVE [ver |-> v, synced |-> FALSE] \in AnswerRows
  BY SessionAssumption DEF AnswerRows
<1>4. ASSUME NEW a \in AnswerRows, a.ver < MaxVersion PROVE Revised(a) \in AnswerRows
  BY <1>1, <1>3, <1>4, SessionAssumption DEF Revised
<1> QED BY <1>1, <1>2, <1>4

\* The synchronizer builds messages from rows of the database only.
LEMMA PendingTypes == TypeOK => PendingMessages \subseteq Messages
<1> SUFFICES ASSUME TypeOK, NEW m \in PendingMessages PROVE m \in Messages
  OBVIOUS
<1>1. CASE m = GoalMessage
  BY <1>1, MessageTypes
<1>2. ASSUME NEW e \in evidence, m = EvidenceMessage(e) \/ m = ContextMessage(e) PROVE m \in Messages
  BY <1>2, MessageTypes DEF TypeOK
<1>3. ASSUME NEW q \in Questions, m = AnswerMessage(q, answers[q].ver) PROVE m \in Messages
  <2>1. answers[q].ver \in Nat
    BY AnswerRowTypes DEF TypeOK
  <2> QED BY <1>3, <2>1, MessageTypes
<1> QED BY <1>1, <1>2, <1>3 DEF PendingMessages

\* AppendOnce keeps a sequence of audit entries one.
LEMMA AppendOnceTypes == \A s \in Seq(Entries), e \in Entries : AppendOnce(s, e) \in Seq(Entries)
BY AppendProperties DEF AppendOnce

\* The log is a finite sequence of events with numbers for ids.
LEMMA EventTypes ==
    ASSUME TypeOK
    PROVE  /\ Len(native) \in Nat /\ DOMAIN native = 1..Len(native)
           /\ \A i \in DOMAIN native : native[i] \in Events /\ native[i].id \in Nat
<1>1. native \in Seq(Events)
  BY DEF TypeOK
<1>2. Len(native) \in Nat /\ DOMAIN native = 1..Len(native) /\ \A i \in 1..Len(native) : native[i] \in Events
  BY <1>1, LenProperties, ElementOfSeq
<1>3. \A e \in Events : e.id \in Nat
  BY DEF Events
<1> QED BY <1>2, <1>3

\* The event a result is extracted from is a standing event of the log.
LEMMA StandingLatest ==
    ASSUME TypeOK, NEW kind, Standing(kind) # {}
    PROVE  /\ Latest(Standing(kind)) \in Standing(kind)
           /\ native[Latest(Standing(kind))].id \in Nat
<1>1. Standing(kind) \in SUBSET (1..Len(native)) /\ Len(native) \in Nat
  BY EventTypes DEF Standing
<1>2. Latest(Standing(kind)) \in Standing(kind)
  BY <1>1, LatestExists
<1> QED BY <1>2, EventTypes DEF Standing

\* What the actions append to the audit are audit entries.
LEMMA EntryTypes == \A type \in {"created", "native", "score", "review"}, n \in Nat :
    [type |-> type, src |-> n] \in Entries
BY DEF Entries

\* Adding a review keeps the session row and the review rows well typed.
LEMMA AddReviewTypes ==
    ASSUME TypeOK, NEW status \in {"completed", "awaiting_user"}, NEW id \in Nat, AddReview(status, id)
    PROVE  session' \in Rows /\ reviews' \subseteq ReviewRows
<1>1. [source |-> id, status |-> status] \in ReviewRows
  BY DEF ReviewRows
<1> QED BY <1>1, RowTypes DEF TypeOK, AddReview

\* The id of the next event is a number.
LEMMA UsedTypes == TypeOK => used.ids \in Nat /\ used.ids + 1 \in Nat
BY DEF TypeOK, Counters

\* An agent event below the bound leaves the counters well typed.
LEMMA AgentCount ==
    ASSUME NEW u \in Counters, u.agent < MaxEvents
    PROVE  [u EXCEPT !.ids = u.ids + 1, !.agent = u.agent + 1] \in Counters
<1>1. u.ids + 1 \in Nat /\ u.agent + 1 \in 0..MaxEvents
  BY SessionAssumption DEF Counters
<1>2. \A a \in Nat, b \in 0..MaxEvents : [u EXCEPT !.ids = a, !.agent = b] \in Counters
  BY DEF Counters
<1> QED BY <1>1, <1>2

\* The facts a review loads are well typed.
LEMMA FactsTypes == TypeOK => Facts \in AllFacts
<1> SUFFICES ASSUME TypeOK PROVE Facts \in AllFacts
  OBVIOUS
<1>1. \A q \in Questions : answers[q].ver \in 0..MaxVersion
  <2> SUFFICES ASSUME NEW q \in Questions PROVE answers[q].ver \in 0..MaxVersion
    OBVIOUS
  <2>1. answers[q] \in AnswerRows
    BY DEF TypeOK
  <2> QED BY <2>1 DEF AnswerRows
<1>2. [q \in Questions |-> answers[q].ver] \in [Questions -> 0..MaxVersion]
  BY <1>1
<1> QED BY <1>2 DEF Facts, AllFacts, TypeOK

\* Every action keeps the types; confirming a message needs that it is of a stored row.
LEMMA TypeStep ==
    ASSUME TypeOK, TodoInv, [Next]_vars
    PROVE  TypeOK'
<1> USE SessionAssumption, NoneAssumption DEF TypeOK, Steps, Ops, db
<1>1. ASSUME NEW c \in Calls, CreateSession(c) PROVE TypeOK'
  <2>1. session' \in Rows
    BY <1>1, RowTypes DEF CreateSession
  <2>2. audit' \in Seq(Entries)
    BY <1>1, EntryTypes, AppendProperties DEF CreateSession
  <2> QED BY <1>1, <2>1, <2>2 DEF CreateSession, AskManager
<1>2. ASSUME NEW c \in Calls, SubmitEvidence(c) PROVE TypeOK'
  BY <1>2 DEF SubmitEvidence, AskManager
<1>3. ASSUME NEW c \in Calls, SubmitAnswer(c) PROVE TypeOK'
  <2>1. answers' \in [Questions -> AnswerRows]
    BY <1>3, AnswerRowTypes DEF SubmitAnswer
  <2> QED BY <1>3, <2>1 DEF SubmitAnswer, AskManager
<1>4. ASSUME NEW c \in Calls, PublishImage(c) PROVE TypeOK'
  BY <1>4 DEF PublishImage
<1>5. ASSUME NEW c \in Calls, AskReview(c) PROVE TypeOK'
  BY <1>5 DEF AskReview, AskManager
<1>6. ASSUME NEW c \in Calls, SessionBusy(c) PROVE TypeOK'
  BY <1>6 DEF SessionBusy, Finish
<1>7. ASSUME NEW c \in Calls, OpenConversation(c) PROVE TypeOK'
  <2>1. job' \in Jobs
    BY <1>7, JobTypes DEF OpenConversation, Passes
  <2> QED BY <1>7, <2>1 DEF OpenConversation, Goto
<1>8. ASSUME NEW c \in Calls, Reconcile(c) PROVE TypeOK'
  <2>1. audit' \in Seq(Entries)
    <3>1. CASE Unprojected # {}
      <4>1. Least(Unprojected) \in DOMAIN native
        BY <3>1, LeastExists DEF Unprojected
      <4>2. native[Least(Unprojected)].id \in Nat
        BY <4>1, EventTypes
      <4>3. [type |-> "native", src |-> native[Least(Unprojected)].id] \in Entries
        BY <4>2, EntryTypes
      <4>4. audit' = Append(audit, [type |-> "native", src |-> native[Least(Unprojected)].id])
        BY <1>8, <3>1 DEF Reconcile
      <4> QED BY <4>3, <4>4, AppendProperties
    <3> QED BY <1>8, <3>1 DEF Reconcile
  <2> QED BY <1>8, <2>1 DEF Reconcile, Goto
<1>9. ASSUME NEW c \in Calls, Prepare(c) PROVE TypeOK'
  <2> PICK skipped : job' = [job EXCEPT !.todo = PendingMessages \ skipped]
    BY <1>9 DEF Prepare
  <2>0. PendingMessages \ skipped \in SUBSET Messages
    BY PendingTypes
  <2>1. job' \in Jobs
    BY <2>0, JobTypes
  <2> QED BY <1>9, <2>1 DEF Prepare, Goto
<1>10. ASSUME NEW c \in Calls, SendMessage(c) PROVE TypeOK'
  <2> PICK m \in job.todo : wire' = [NoWire EXCEPT !.ev = Event(m, used.ids + 1)]
    BY <1>10 DEF SendMessage, Emit
  <2>0. Event(m, used.ids + 1) \in Events
    BY UsedTypes, JobTypes, MessageTypes
  <2>1. wire' \in Wires
    BY <2>0, WireTypes
  <2>2. used' = [used EXCEPT !.ids = used.ids + 1] /\ used \in Counters
    BY <1>10 DEF SendMessage
  <2>3. used' \in Counters
    BY <2>2 DEF Counters
  <2> QED BY <1>10, <2>1, <2>3 DEF SendMessage, Emit
<1>11. ASSUME NEW c \in Calls, ConfirmMessage(c) PROVE TypeOK'
  <2> PICK m \in job.todo : MarkConfirmed(m) /\ job' = [job EXCEPT !.todo = @ \ {m}]
    BY <1>11 DEF ConfirmMessage
  <2>1. job' \in Jobs
    BY JobTypes
  <2>2. session' \in Rows /\ confirmed' \subseteq evidence
    BY RowTypes DEF MarkConfirmed, TodoInv
  <2>3. answers' \in [Questions -> AnswerRows]
    BY AnswerRowTypes DEF MarkConfirmed, TodoInv
  <2> QED BY <1>11, <2>1, <2>2, <2>3 DEF ConfirmMessage
<1>12. ASSUME NEW c \in Calls, SyncDone(c) PROVE TypeOK'
  <2>0. "later" \in Passes /\ NoJob \in Jobs
    BY JobTypes DEF Passes
  <2>1. /\ job' \in {[job EXCEPT !.pass = "later"], NoJob}
        /\ wire' \in {wire, NoWire}
    BY <1>12 DEF SyncDone, Release
  <2>2. job' \in Jobs
    <3>1. job \in Jobs
      OBVIOUS
    <3> HIDE DEF TypeOK
    <3>2. [job EXCEPT !.pass = "later"] \in Jobs
      BY <2>0, <3>1, JobTypes
    <3> QED BY <2>0, <2>1, <3>2
  <2>3. wire' \in Wires
    <3>1. wire \in Wires
      OBVIOUS
    <3> HIDE DEF TypeOK
    <3> QED BY <2>1, <3>1, WireTypes
  <2> QED BY <1>12, <2>2, <2>3 DEF SyncDone, Release, Finish, Goto
<1>13. ASSUME NEW c \in Calls, LoadScoringFacts(c) PROVE TypeOK'
  <2>0. NoJob \in Jobs
    BY JobTypes
  <2>1. job' = NoJob \/ job' = [job EXCEPT !.facts = Facts]
    BY <1>13 DEF LoadScoringFacts, Release
  <2>3. job' \in Jobs
    BY <2>1, <2>0, FactsTypes DEF Jobs
  <2>2. wire' \in Wires
    BY <1>13, WireTypes DEF LoadScoringFacts, Release
  <2> QED BY <1>13, <2>2, <2>3 DEF LoadScoringFacts, Release, Finish, Goto
<1>14. ASSUME NEW c \in Calls, PersistQuestion(c) PROVE TypeOK'
  <2>1. native[Latest(Standing("question"))].id \in Nat
    BY <1>14, StandingLatest DEF PersistQuestion, AwaitsLearner
  <2>3. session' \in Rows /\ reviews' \subseteq ReviewRows
    BY <1>14, <2>1, AddReviewTypes DEF PersistQuestion
  <2>4. job' \in Jobs /\ wire' \in Wires
    BY <1>14, JobTypes, WireTypes DEF PersistQuestion, Release
  <2> QED BY <1>14, <2>3, <2>4 DEF PersistQuestion, Release, Finish
<1>15. ASSUME NEW c \in Calls, PersistReview(c) PROVE TypeOK'
  <2> DEFINE id == native[Latest(Standing("draft"))].id
  <2>2. id \in Nat
    BY <1>15, StandingLatest DEF PersistReview, CanComplete
  <2>3. session' \in Rows /\ reviews' \subseteq ReviewRows
    BY <1>15, <2>2, AddReviewTypes DEF PersistReview
  <2>4. job' \in Jobs /\ wire' \in Wires
    BY <1>15, JobTypes, WireTypes DEF PersistReview, Release
  <2>5. \A type \in {"score", "review"} : [type |-> type, src |-> id] \in Entries
    BY <2>2, EntryTypes
  <2>7. audit' \in Seq(Entries)
    BY <1>15, <2>5, AppendOnceTypes DEF PersistReview
  <2> QED BY <1>15, <2>3, <2>4, <2>7 DEF PersistReview, Release, Finish
<1>16. ASSUME NEW c \in Calls, ExtractNothing(c) PROVE TypeOK'
  <2>1. job' \in Jobs /\ wire' \in Wires
    BY <1>16, JobTypes, WireTypes DEF ExtractNothing, Release
  <2> QED BY <1>16, <2>1 DEF ExtractNothing, Release, Finish, Goto
<1>17. ASSUME NEW c \in Calls, AgentStep(c) PROVE TypeOK'
  <2> PICK m \in AgentMessages : wire' = [NoWire EXCEPT !.ev = Event(m, used.ids + 1)]
    BY <1>17 DEF AgentStep, Emit
  <2>1. Event(m, used.ids + 1) \in Events
    BY UsedTypes, MessageTypes
  <2>2. wire' \in Wires
    BY <2>1, WireTypes
  <2>3. used' = [used EXCEPT !.ids = used.ids + 1, !.agent = used.agent + 1]
        /\ used.agent < MaxEvents /\ used \in Counters
    BY <1>17 DEF AgentStep
  <2>4. used' \in Counters
    BY <2>3, AgentCount
  <2> QED BY <1>17, <2>2, <2>4 DEF AgentStep, Emit
<1>18. ASSUME NEW c \in Calls, AgentStops(c) PROVE TypeOK'
  <2>1. job' \in Jobs
    BY <1>18, JobTypes DEF AgentStops
  <2> QED BY <1>18, <2>1 DEF AgentStops, Goto
<1>19. ASSUME NEW c \in Calls, CallFails(c) PROVE TypeOK'
  <2>1. job' \in Jobs /\ wire' \in Wires
    BY <1>19, JobTypes, WireTypes DEF CallFails, Release
  <2>2. used' \in Counters
    BY <1>19 DEF CallFails, Counters
  <2> QED BY <1>19, <2>1, <2>2 DEF CallFails, Release, Finish
<1>20. ASSUME LogEvent PROVE TypeOK'
  <2>1. wire' \in Wires
    BY <1>20, WireTypes DEF LogEvent
  <2>2. native' \in Seq(Events)
    BY <1>20, WireTypes, AppendProperties DEF LogEvent
  <2> QED BY <1>20, <2>1, <2>2 DEF LogEvent
<1>21. ASSUME ProjectEvent PROVE TypeOK'
  <2>1. wire' \in Wires
    BY <1>21, WireTypes DEF ProjectEvent
  <2>2. [type |-> "native", src |-> wire.ev.id] \in Entries
    BY WireTypes DEF Events, Entries
  <2>3. audit' \in Seq(Entries)
    BY <1>21, <2>2, AppendProperties DEF ProjectEvent
  <2> QED BY <1>21, <2>1, <2>3 DEF ProjectEvent
<1>22. ASSUME Crash PROVE TypeOK'
  <2>1. job' \in Jobs /\ wire' \in Wires
    BY <1>22, JobTypes, WireTypes DEF Crash
  <2>2. used' \in Counters
    <3>1. used' = [used EXCEPT !.faults = used.faults + 1] /\ used.faults < MaxFaults
            /\ used \in Counters
      BY <1>22 DEF Crash
    <3> QED BY <3>1, CounterTypes
  <2> QED BY <1>22, <2>1, <2>2 DEF Crash
<1>23. CASE UNCHANGED vars
  BY <1>23 DEF vars
<1> QED
  BY <1>1, <1>2, <1>3, <1>4, <1>5, <1>6, <1>7, <1>8, <1>9, <1>10, <1>11, <1>12,
     <1>13, <1>14, <1>15, <1>16, <1>17, <1>18, <1>19, <1>20, <1>21, <1>22, <1>23 DEF Next, Serve

\* Every action keeps the lock's discipline.
LEMMA LockStep == TypeOK /\ LockInv /\ [Next]_vars => LockInv'
<1> SUFFICES ASSUME TypeOK /\ LockInv, [Next]_vars PROVE LockInv'
  OBVIOUS
<1>0. /\ pc \in [Calls -> Steps] /\ holder \in Calls \cup {None} /\ None \notin Calls
  BY NoneAssumption DEF TypeOK
<1> USE <1>0 DEF LockInv, Steps, Locked
<1>1. ASSUME NEW c \in Calls, CreateSession(c) PROVE LockInv'
  BY <1>1 DEF CreateSession, AskManager, db
<1>2. ASSUME NEW c \in Calls, SubmitEvidence(c) PROVE LockInv'
  BY <1>2 DEF SubmitEvidence, AskManager, db
<1>3. ASSUME NEW c \in Calls, SubmitAnswer(c) PROVE LockInv'
  BY <1>3 DEF SubmitAnswer, AskManager, Revised, db
<1>4. ASSUME NEW c \in Calls, PublishImage(c) PROVE LockInv'
  BY <1>4 DEF PublishImage, db
<1>5. ASSUME NEW c \in Calls, AskReview(c) PROVE LockInv'
  BY <1>5 DEF AskReview, AskManager, db
<1>6. ASSUME NEW c \in Calls, SessionBusy(c) PROVE LockInv'
  BY <1>6 DEF SessionBusy, Finish, db
<1>7. ASSUME NEW c \in Calls, OpenConversation(c) PROVE LockInv'
  BY <1>7 DEF OpenConversation, Goto, db
<1>8. ASSUME NEW c \in Calls, Reconcile(c) PROVE LockInv'
  BY <1>8 DEF Reconcile, Goto, db
<1>9. ASSUME NEW c \in Calls, Prepare(c) PROVE LockInv'
  BY <1>9 DEF Prepare, Goto, db
<1>10. ASSUME NEW c \in Calls, SendMessage(c) PROVE LockInv'
  BY <1>10 DEF SendMessage, Emit, db
<1>11. ASSUME NEW c \in Calls, ConfirmMessage(c) PROVE LockInv'
  BY <1>11 DEF ConfirmMessage, MarkConfirmed, db
<1>12. ASSUME NEW c \in Calls, SyncDone(c) PROVE LockInv'
  BY <1>12 DEF SyncDone, Release, Finish, Goto, db
<1>13. ASSUME NEW c \in Calls, LoadScoringFacts(c) PROVE LockInv'
  BY <1>13 DEF LoadScoringFacts, Release, Finish, Goto, db
<1>14. ASSUME NEW c \in Calls, PersistQuestion(c) PROVE LockInv'
  BY <1>14 DEF PersistQuestion, AddReview, Release, Finish, db
<1>15. ASSUME NEW c \in Calls, PersistReview(c) PROVE LockInv'
  BY <1>15 DEF PersistReview, AddReview, Release, Finish, db
<1>16. ASSUME NEW c \in Calls, ExtractNothing(c) PROVE LockInv'
  BY <1>16 DEF ExtractNothing, Release, Finish, Goto, db
<1>17. ASSUME NEW c \in Calls, AgentStep(c) PROVE LockInv'
  BY <1>17 DEF AgentStep, Emit, db
<1>18. ASSUME NEW c \in Calls, AgentStops(c) PROVE LockInv'
  BY <1>18 DEF AgentStops, Goto, db
<1>19. ASSUME NEW c \in Calls, CallFails(c) PROVE LockInv'
  BY <1>19 DEF CallFails, Release, Finish, db
<1>20. ASSUME LogEvent PROVE LockInv'
  BY <1>20 DEF LogEvent, db
<1>21. ASSUME ProjectEvent PROVE LockInv'
  BY <1>21 DEF ProjectEvent, db
<1>22. ASSUME Crash PROVE LockInv'
  BY <1>22 DEF Crash, db
<1>23. CASE UNCHANGED vars
  BY <1>23 DEF vars, db
<1> QED
  BY <1>1, <1>2, <1>3, <1>4, <1>5, <1>6, <1>7, <1>8, <1>9, <1>10, <1>11, <1>12,
     <1>13, <1>14, <1>15, <1>16, <1>17, <1>18, <1>19, <1>20, <1>21, <1>22, <1>23
  DEF Next, Serve

\* What is left to send stays of stored rows, at versions nobody can have changed.
LEMMA TodoStep ==
    ASSUME TypeOK, LockInv, TodoInv, [Next]_vars
    PROVE  TodoInv'
<1> DEFINE Kept == /\ job'.todo \subseteq job.todo /\ evidence \subseteq evidence'
                   /\ \A q \in Questions : answers'[q].ver = answers[q].ver
<1>0. /\ NoJob.todo = {} /\ job \in Jobs /\ answers \in [Questions -> AnswerRows]
      /\ \A j \in Jobs : /\ \A f : [j EXCEPT !.facts = f].todo = j.todo
                         /\ \A p : [j EXCEPT !.pass = p].todo = j.todo
                         /\ [j EXCEPT !.ran = TRUE].todo = j.todo
  BY DEF NoJob, TypeOK, Jobs
<1>1. ASSUME NEW c \in Calls, Prepare(c) PROVE TodoInv'
  <2>1. job'.todo \subseteq PendingMessages /\ evidence' = evidence /\ answers' = answers
    BY <1>0, <1>1 DEF Prepare, Jobs, db
  <2>2. ASSUME NEW m \in PendingMessages
        PROVE  /\ m.kind = "evidence" => m.of \in evidence
               /\ m.kind = "answer" => m.of \in Questions /\ m.ver = answers[m.of].ver /\ m.ver > 0
    <3>1. CASE m = GoalMessage
      BY <3>1 DEF GoalMessage, Message
    <3>2. ASSUME NEW e \in evidence, m = EvidenceMessage(e) \/ m = ContextMessage(e)
          PROVE  m.kind # "answer" /\ m.of \in evidence
      BY <3>2 DEF EvidenceMessage, ContextMessage, Message
    <3>3. ASSUME NEW q \in Questions, answers[q].ver > 0, m = AnswerMessage(q, answers[q].ver)
          PROVE  m.kind = "answer" /\ m.of \in Questions /\ m.ver = answers[m.of].ver /\ m.ver > 0
      BY <3>3 DEF AnswerMessage, Message
    <3> QED BY <3>1, <3>2, <3>3 DEF PendingMessages
  <2> QED BY <2>1, <2>2 DEF TodoInv
<1>2. ASSUME NEW c \in Calls, SubmitAnswer(c) PROVE TodoInv'
  BY <1>0, <1>2 DEF SubmitAnswer, LockInv, TodoInv
<1>3. ASSUME NEW c \in Calls, ConfirmMessage(c) PROVE Kept
  <2>1. job'.todo \subseteq job.todo
    BY <1>0, <1>3 DEF ConfirmMessage, Jobs
  <2>2. \A q \in Questions : answers'[q].ver = answers[q].ver
    BY <1>0, <1>3 DEF ConfirmMessage, MarkConfirmed, AnswerRows
  <2> QED BY <1>3, <2>1, <2>2 DEF ConfirmMessage
<1>4. ASSUME NEW c \in Calls, SyncDone(c) PROVE Kept
  <2>1. job' = NoJob \/ job' = [job EXCEPT !.pass = "later"]
    BY <1>4 DEF SyncDone, Release
  <2>2. job'.todo \subseteq job.todo
    BY <1>0, <2>1 DEF Jobs
  <2> QED BY <1>4, <2>2 DEF SyncDone, db
<1>5. ASSUME NEW c \in Calls, LoadScoringFacts(c) PROVE Kept
  <2>1. job' = NoJob \/ job' = [job EXCEPT !.facts = Facts]
    BY <1>5 DEF LoadScoringFacts, Release
  <2>2. job'.todo \subseteq job.todo
    BY <1>0, <2>1 DEF Jobs
  <2> QED BY <1>5, <2>2 DEF LoadScoringFacts, db
<1>6. ASSUME NEW c \in Calls, OpenConversation(c) PROVE Kept
  BY <1>0, <1>6 DEF OpenConversation, NoJob, db
<1>7. ASSUME NEW c \in Calls,
             \/ CreateSession(c) \/ SubmitEvidence(c) \/ PublishImage(c) \/ AskReview(c) \/ SessionBusy(c)
             \/ Reconcile(c) \/ SendMessage(c) \/ AgentStep(c)
      PROVE  Kept
  BY <1>7 DEF CreateSession, SubmitEvidence, PublishImage, AskReview, SessionBusy, Reconcile,
       SendMessage, AgentStep, Emit, db
<1>8. ASSUME NEW c \in Calls,
             PersistQuestion(c) \/ PersistReview(c) \/ ExtractNothing(c) \/ AgentStops(c) \/ CallFails(c)
      PROVE  Kept
  BY <1>0, <1>8 DEF PersistQuestion, PersistReview, ExtractNothing, AgentStops, CallFails, Release, db
<1>9. ASSUME LogEvent \/ ProjectEvent \/ Crash \/ UNCHANGED vars PROVE Kept
  BY <1>0, <1>9 DEF LogEvent, ProjectEvent, Crash, vars, db
<1>10. CASE Kept
  BY <1>10 DEF TodoInv
<1> QED BY <1>1, <1>2, <1>3, <1>4, <1>5, <1>6, <1>7, <1>8, <1>9, <1>10 DEF Next, Serve

\* The versions of the answers.
Said == [q \in Questions |-> answers[q].ver]

\* A step that the log, the event that comes and the answers do not notice.
Quiet == /\ native' = native /\ Said' = Said /\ used'.ids = used.ids
         /\ Coming' => Coming /\ wire'.ev = wire.ev

\* An emitted event comes with the next id and the message's key.
LEMMA Emitted ==
    ASSUME TypeOK, NEW m, Emit(m)
    PROVE  /\ Coming' /\ wire'.ev.id = used.ids + 1 /\ used.ids \in Nat
           /\ wire'.ev.kind = m.kind /\ wire'.ev.of = m.of /\ wire'.ev.ver = m.ver
           /\ native' = native /\ answers' = answers /\ UNCHANGED <<session, evidence>>
<1>1. used.ids \in Nat
  BY DEF TypeOK, Counters
<1>2. wire' = [NoWire EXCEPT !.ev = Event(m, used.ids + 1)]
  BY DEF Emit
<1>3. wire'.ev = Event(m, used.ids + 1) /\ wire'.logged = FALSE
  BY <1>2 DEF NoWire
<1>4. NoWire.ev.id = 0
  BY DEF NoWire, NoEvent, Event
<1>5. wire'.ev.id = used.ids + 1
  BY <1>3 DEF Event
<1>6. wire' # NoWire
  BY <1>1, <1>4, <1>5
<1> QED BY <1>1, <1>3, <1>5, <1>6 DEF Emit, Event, Coming, db

\* Only four actions matter to the log, the event that comes and the versions.
LEMMA QuietSteps ==
    ASSUME TypeOK, LockInv, TodoInv, [Next]_vars
    PROVE  \/ Quiet
           \/ \E c \in Calls : SubmitAnswer(c) \/ SendMessage(c) \/ AgentStep(c)
           \/ LogEvent
<1>0. used \in Counters
  BY DEF TypeOK
<1> USE <1>0 DEF Quiet, Coming, Said, Counters, db
<1>1. ASSUME NEW c \in Calls, CreateSession(c) PROVE Quiet
  BY <1>1 DEF CreateSession, AskManager
<1>2. ASSUME NEW c \in Calls, SubmitEvidence(c) PROVE Quiet
  BY <1>2 DEF SubmitEvidence, AskManager
<1>3. ASSUME NEW c \in Calls, PublishImage(c) PROVE Quiet
  BY <1>3 DEF PublishImage
<1>4. ASSUME NEW c \in Calls, AskReview(c) PROVE Quiet
  BY <1>4 DEF AskReview, AskManager
<1>5. ASSUME NEW c \in Calls, SessionBusy(c) PROVE Quiet
  BY <1>5 DEF SessionBusy, Finish
<1>6. ASSUME NEW c \in Calls, OpenConversation(c) PROVE Quiet
  BY <1>6 DEF OpenConversation, Goto
<1>7. ASSUME NEW c \in Calls, Reconcile(c) PROVE Quiet
  BY <1>7 DEF Reconcile, Goto
<1>8. ASSUME NEW c \in Calls, Prepare(c) PROVE Quiet
  BY <1>8 DEF Prepare, Goto
<1>9. ASSUME NEW c \in Calls, ConfirmMessage(c) PROVE Quiet
  BY <1>9 DEF ConfirmMessage, MarkConfirmed
<1>10. ASSUME NEW c \in Calls, SyncDone(c) PROVE Quiet
  BY <1>10 DEF SyncDone, Release, Finish, Goto
<1>11. ASSUME NEW c \in Calls, LoadScoringFacts(c) PROVE Quiet
  BY <1>11 DEF LoadScoringFacts, Release, Finish, Goto
<1>12. ASSUME NEW c \in Calls, PersistQuestion(c) PROVE Quiet
  BY <1>12 DEF PersistQuestion, AddReview, Release, Finish
<1>13. ASSUME NEW c \in Calls, PersistReview(c) PROVE Quiet
  BY <1>13 DEF PersistReview, AddReview, Release, Finish
<1>14. ASSUME NEW c \in Calls, ExtractNothing(c) PROVE Quiet
  BY <1>14 DEF ExtractNothing, Release, Finish, Goto
<1>15. ASSUME NEW c \in Calls, AgentStops(c) PROVE Quiet
  BY <1>15 DEF AgentStops, Goto
<1>16. ASSUME NEW c \in Calls, CallFails(c) PROVE Quiet
  BY <1>16 DEF CallFails, Release, Finish
<1>17. ASSUME ProjectEvent PROVE Quiet
  BY <1>17 DEF ProjectEvent
<1>18. ASSUME Crash PROVE Quiet
  BY <1>18 DEF Crash
<1>19. CASE UNCHANGED vars
  BY <1>19 DEF vars
<1> QED
  BY <1>1, <1>2, <1>3, <1>4, <1>5, <1>6, <1>7, <1>8, <1>9, <1>10, <1>11, <1>12,
     <1>13, <1>14, <1>15, <1>16, <1>17, <1>18, <1>19 DEF Next, Serve


\* Appending to the log changes nothing before its end.
LEMMA LogAppend ==
    ASSUME TypeOK, LogEvent
    PROVE  /\ Coming /\ ~Coming' /\ wire.ev \in Events
           /\ Len(native) \in Nat /\ DOMAIN native = 1..Len(native)
           /\ Len(native') = Len(native) + 1 /\ DOMAIN native' = 1..(Len(native) + 1)
           /\ \A i \in 1..Len(native) : native'[i] = native[i]
           /\ native'[Len(native) + 1] = wire.ev
           /\ UNCHANGED <<answers, session, evidence, used>>
<1>1. native \in Seq(Events) /\ wire \in Wires
  BY DEF TypeOK
<1>2. wire.ev \in Events
  BY <1>1, WireTypes
<1>3. native' = Append(native, wire.ev)
  BY DEF LogEvent
<1>4. native' \in Seq(Events)
  BY <1>1, <1>2, <1>3, AppendProperties
<1>5. Coming /\ ~Coming' /\ UNCHANGED <<answers, session, evidence, used>>
  BY <1>1 DEF LogEvent, Coming, Wires, db
<1> QED BY <1>1, <1>2, <1>3, <1>4, <1>5, AppendProperties, LenProperties

\* Every action keeps event ids unique.
LEMMA IdStep ==
    ASSUME TypeOK, LockInv, TodoInv, IdInv, [Next]_vars
    PROVE  IdInv'
<1>1. CASE Quiet
  BY <1>1 DEF Quiet, IdInv
<1>2. ASSUME NEW c \in Calls, SubmitAnswer(c) PROVE IdInv'
  BY <1>2 DEF SubmitAnswer, IdInv, Coming
<1>3. ASSUME NEW c \in Calls, SendMessage(c) \/ AgentStep(c) PROVE IdInv'
  <2> PICK m : Emit(m)
    BY <1>3 DEF SendMessage, AgentStep
  <2>1. used'.ids = used.ids + 1
    BY <1>3 DEF SendMessage, AgentStep, TypeOK, Counters
  <2>2. \A i \in DOMAIN native : native[i].id \in Nat
    BY EventTypes
  <2> QED BY <2>1, <2>2, Emitted DEF IdInv
<1>4. CASE LogEvent
  <2>1. \A i \in DOMAIN native : native[i].id \in Nat
    BY EventTypes
  <2> QED BY <1>4, <2>1, LogAppend DEF IdInv
<1> QED BY <1>1, <1>2, <1>3, <1>4, QuietSteps

\* Every action keeps the messages of the log unique and its answers stored.
LEMMA LogStep ==
    ASSUME TypeOK, LockInv, TodoInv, LogInv, [Next]_vars
    PROVE  LogInv'
<1> USE DEF LogInv, MessageKinds
<1>1. CASE Quiet
  <2>1. \A q \in Questions : answers'[q].ver = answers[q].ver
    BY <1>1 DEF Quiet, Said
  <2> QED BY <1>1, <2>1 DEF Quiet, DeliveredOnce, Delivered, SameKey
<1>2. ASSUME NEW c \in Calls, SubmitAnswer(c) PROVE LogInv'
  <2>1. ~Coming /\ ~Coming' /\ native' = native
    BY <1>2 DEF SubmitAnswer, Coming, LockInv
  <2>2. \A q \in Questions : /\ answers[q].ver \in Nat /\ answers'[q].ver \in Nat
                             /\ answers[q].ver <= answers'[q].ver
    <3>1. \A q \in Questions : answers[q] \in AnswerRows /\ answers[q].ver \in Nat
      BY AnswerRowTypes DEF TypeOK
    <3>2. CASE answers' = answers
      BY <3>1, <3>2
    <3>3. ASSUME NEW q \in Questions, answers' = [answers EXCEPT ![q] = Revised(@)]
          PROVE  \A p \in Questions : answers'[p].ver \in Nat /\ answers[p].ver <= answers'[p].ver
      <4>1. Revised(answers[q]).ver = answers[q].ver + 1
        BY DEF Revised
      <4>2. \A p \in Questions : answers'[p] = IF p = q THEN Revised(answers[q]) ELSE answers[p]
        BY <3>3 DEF TypeOK
      <4> QED BY <3>1, <4>1, <4>2
    <3> QED BY <1>2, <3>1, <3>2, <3>3 DEF SubmitAnswer
  <2> QED BY <2>1, <2>2 DEF DeliveredOnce, SameKey
<1>3. ASSUME NEW c \in Calls, SendMessage(c) \/ AgentStep(c) PROVE LogInv'
  <2>1. PICK m : Emit(m) /\ \/ m \in job.todo /\ ~Delivered(m)
                            \/ m.kind \in {"draft", "question", "check"}
    BY <1>3 DEF SendMessage, AgentStep, AgentMessages, Message
  <2>2. Coming' /\ wire'.ev.kind = m.kind /\ wire'.ev.of = m.of /\ wire'.ev.ver = m.ver
        /\ native' = native /\ answers' = answers
    BY <2>1, Emitted
  <2>3. wire'.ev.kind \in MessageKinds => ~Delivered(wire'.ev)
    BY <2>1, <2>2 DEF Delivered, SameKey
  <2> QED BY <2>1, <2>2, <2>3 DEF TodoInv, DeliveredOnce, Delivered, SameKey
<1>4. CASE LogEvent
  <2> DEFINE n == Len(native)
  <2>1. /\ Coming /\ ~Coming' /\ n \in Nat /\ DOMAIN native = 1..n /\ DOMAIN native' = 1..(n + 1)
        /\ \A i \in 1..n : native'[i] = native[i]
        /\ native'[n + 1] = wire.ev /\ answers' = answers
    BY <1>4, LogAppend
  <2> HIDE DEF n
  <2>2. wire.ev.kind \in MessageKinds =>
          \A i \in 1..n : ~SameKey(native[i], wire.ev) /\ ~SameKey(wire.ev, native[i])
    BY <2>1 DEF Delivered, SameKey
  <2>3. DeliveredOnce'
    BY <2>1, <2>2 DEF DeliveredOnce, SameKey
  <2>4. ASSUME NEW i \in 1..(n + 1), native'[i].kind = "answer"
        PROVE  native'[i].of \in Questions /\ native'[i].ver \in 1..answers[native'[i].of].ver
    <3>1. \A q \in Questions : answers[q].ver \in Nat
      BY AnswerRowTypes DEF TypeOK
    <3>2. CASE i \in 1..n
      BY <2>1, <2>4, <3>2
    <3>3. CASE i = n + 1
      BY <2>1, <2>4, <3>1, <3>3
    <3> QED BY <2>1, <3>2, <3>3
  <2> QED BY <2>1, <2>3, <2>4
<1> QED BY <1>1, <1>2, <1>3, <1>4, QuietSteps

\* Two calls under the lock are one.
LEMMA OneHolder ==
    ASSUME LockInv, NEW c \in Calls, NEW d \in Calls, pc[c] \in Locked, pc[d] \in Locked
    PROVE  c = d
BY DEF LockInv

\* A free lock means that no call is past it.
LEMMA NobodyUnlocked ==
    ASSUME LockInv, holder = None, NEW c \in Calls
    PROVE  pc[c] \notin Locked
BY NoneAssumption DEF LockInv


\* Every action keeps the answers told and the loaded facts current.
LEMMA FactsStep ==
    ASSUME TypeOK, LockInv, TodoInv, LogInv, FactsInv, [Next]_vars
    PROVE  FactsInv'
<1>0. /\ pc \in [Calls -> Steps] /\ None \notin Calls /\ job \in Jobs /\ session \in Rows
      /\ answers \in [Questions -> AnswerRows]
  BY NoneAssumption DEF TypeOK
<1> USE <1>0 DEF Synchronised, Steps, Locked, Told, Facts, db
<1>1. ASSUME NEW c \in Calls, CreateSession(c) PROVE FactsInv'
  BY <1>1, OneHolder, NobodyUnlocked DEF CreateSession, AskManager, LockInv, FactsInv
<1>2. ASSUME NEW c \in Calls, SubmitEvidence(c) PROVE FactsInv'
  BY <1>2, OneHolder, NobodyUnlocked DEF SubmitEvidence, AskManager, LockInv, FactsInv
<1>3. ASSUME NEW c \in Calls, SubmitAnswer(c) PROVE FactsInv'
  BY <1>3, OneHolder, NobodyUnlocked DEF SubmitAnswer, AskManager, Revised, LockInv, FactsInv
<1>4. ASSUME NEW c \in Calls, PublishImage(c) PROVE FactsInv'
  BY <1>4, OneHolder, NobodyUnlocked DEF PublishImage, LockInv, FactsInv
<1>5. ASSUME NEW c \in Calls, AskReview(c) PROVE FactsInv'
  BY <1>5, OneHolder, NobodyUnlocked DEF AskReview, AskManager, LockInv, FactsInv
<1>6. ASSUME NEW c \in Calls, SessionBusy(c) PROVE FactsInv'
  BY <1>6, OneHolder, NobodyUnlocked DEF SessionBusy, Finish, LockInv, FactsInv
<1>7. ASSUME NEW c \in Calls, OpenConversation(c) PROVE FactsInv'
  <2>1. /\ \A d \in Calls : pc[d] \notin Locked
        /\ pc' = [pc EXCEPT ![c] = IF open THEN "prepare" ELSE "reconcile"]
        /\ job'.ran = FALSE
    BY <1>7, NobodyUnlocked, SessionAssumption DEF OpenConversation, Goto, NoJob
  <2>2. \A d \in Calls : pc'[d] # "sync" /\ ~Synchronised(d)'
    BY <2>1
  <2> QED BY <2>2 DEF FactsInv
<1>8. ASSUME NEW c \in Calls, Reconcile(c) PROVE FactsInv'
  BY <1>8, OneHolder, NobodyUnlocked DEF Reconcile, Goto, LockInv, FactsInv
<1>9. ASSUME NEW c \in Calls, Prepare(c) PROVE FactsInv'
  <2>1. PICK skipped \in SUBSET {m \in PendingMessages : m.of \in Media /\ ~Delivered(m)} :
          job' = [job EXCEPT !.todo = PendingMessages \ skipped]
    BY <1>9 DEF Prepare
  <2>2. job'.todo = PendingMessages \ skipped
    BY <2>1 DEF Jobs
  <2>3. ASSUME NEW q \in Questions, answers[q].ver > 0
        PROVE  AnswerMessage(q, answers[q].ver) \in job'.todo
    <3>1. AnswerMessage(q, answers[q].ver) \in PendingMessages
      BY <2>3 DEF PendingMessages
    <3>2. AnswerMessage(q, answers[q].ver).of \notin Media
      BY SessionAssumption DEF AnswerMessage, Message
    <3> QED BY <2>1, <2>2, <3>1, <3>2
  <2>4. \A d \in Calls : ~Synchronised(d)'
    BY <1>9, OneHolder DEF Prepare, Goto
  <2>5. answers' = answers
    BY <1>9 DEF Prepare
  <2> QED BY <2>3, <2>4, <2>5 DEF FactsInv
<1>10. ASSUME NEW c \in Calls, SendMessage(c) PROVE FactsInv'
  BY <1>10, OneHolder, NobodyUnlocked DEF SendMessage, Emit, LockInv, FactsInv
<1>11. ASSUME NEW c \in Calls, ConfirmMessage(c) PROVE FactsInv'
  <2>1. PICK m \in job.todo : Delivered(m) /\ MarkConfirmed(m) /\ job' = [job EXCEPT !.todo = @ \ {m}]
    BY <1>11 DEF ConfirmMessage
  <2>2. job'.todo = job.todo \ {m}
    BY <2>1 DEF Jobs
  <2>3. \A q \in Questions : answers'[q].ver = answers[q].ver
    BY <2>1 DEF MarkConfirmed
  <2>4. pc' = pc /\ native' = native /\ pc[c] = "sync" /\ \A d \in Calls : ~Synchronised(d)'
    BY <1>11, OneHolder DEF ConfirmMessage
  <2>5. ASSUME NEW q \in Questions, m = AnswerMessage(q, answers[q].ver) PROVE Told(q)
    BY <2>1, <2>5 DEF Delivered, SameKey, AnswerMessage, Message
  <2>6. ASSUME NEW q \in Questions, answers[q].ver > 0
        PROVE  AnswerMessage(q, answers[q].ver) \in job'.todo \/ Told(q)
    BY <2>2, <2>4, <2>5, <2>6 DEF FactsInv
  <2> QED BY <2>3, <2>4, <2>6 DEF FactsInv
<1>12. ASSUME NEW c \in Calls, SyncDone(c) PROVE FactsInv'
  BY <1>12, OneHolder, NobodyUnlocked DEF SyncDone, Release, Finish, Goto, LockInv, FactsInv
<1>13. ASSUME NEW c \in Calls, LoadScoringFacts(c) PROVE FactsInv'
  <2>1. CASE session.status = "reviewed"
    BY <2>1, <1>13, OneHolder DEF LoadScoringFacts, Release, Finish, FactsInv
  <2>2. CASE session.status # "reviewed"
    <3>1. /\ pc' = [pc EXCEPT ![c] = "extract"] /\ job'.facts = Facts
          /\ UNCHANGED <<native, answers, evidence>> /\ pc[c] = "decide"
      BY <2>2, <1>13 DEF LoadScoringFacts, Goto, Jobs
    <3>2. \A d \in Calls : d # c => pc'[d] \notin Locked
      BY <3>1, OneHolder
    <3> QED BY <3>1, <3>2 DEF FactsInv
  <2> QED BY <2>1, <2>2
<1>14. ASSUME NEW c \in Calls, PersistQuestion(c) PROVE FactsInv'
  BY <1>14, OneHolder, NobodyUnlocked DEF PersistQuestion, AddReview, Release, Finish, LockInv, FactsInv
<1>15. ASSUME NEW c \in Calls, PersistReview(c) PROVE FactsInv'
  BY <1>15, OneHolder, NobodyUnlocked DEF PersistReview, AddReview, Release, Finish, LockInv, FactsInv
<1>16. ASSUME NEW c \in Calls, ExtractNothing(c) PROVE FactsInv'
  BY <1>16, OneHolder, NobodyUnlocked DEF ExtractNothing, Release, Finish, Goto, LockInv, FactsInv
<1>17. ASSUME NEW c \in Calls, AgentStep(c) PROVE FactsInv'
  BY <1>17, OneHolder, NobodyUnlocked DEF AgentStep, Emit, LockInv, FactsInv
<1>18. ASSUME NEW c \in Calls, AgentStops(c) PROVE FactsInv'
  BY <1>18, OneHolder, NobodyUnlocked DEF AgentStops, Goto, LockInv, FactsInv
<1>19. ASSUME NEW c \in Calls, CallFails(c) PROVE FactsInv'
  BY <1>19, OneHolder, NobodyUnlocked DEF CallFails, Release, Finish, LockInv, FactsInv
<1>20. ASSUME LogEvent PROVE FactsInv'
  BY <1>20, LogAppend DEF LogEvent, FactsInv
<1>21. ASSUME ProjectEvent PROVE FactsInv'
  BY <1>21, LogAppend DEF ProjectEvent, FactsInv
<1>22. ASSUME Crash PROVE FactsInv'
  BY <1>22, LogAppend DEF Crash, FactsInv
<1>23. CASE UNCHANGED vars
  BY <1>23 DEF vars, FactsInv
<1> QED
  BY <1>1, <1>2, <1>3, <1>4, <1>5, <1>6, <1>7, <1>8, <1>9, <1>10, <1>11, <1>12,
     <1>13, <1>14, <1>15, <1>16, <1>17, <1>18, <1>19, <1>20, <1>21, <1>22, <1>23 DEF Next, Serve

\* The step that makes a session reviewed.
AddsVerdict(c) == PersistReview(c) /\ session.status # "reviewed"

\* A session's result changes by a verdict, or by a step of an open session.
LEMMA SessionSteps ==
    ASSUME TypeOK, [Next]_vars
    PROVE  \/ session'.status = session.status /\ session'.source = session.source
           \/ session.status # "reviewed" /\ session'.status # "reviewed"
           \/ \E c \in Calls : AddsVerdict(c)
<1> DEFINE Same == session'.status = session.status /\ session'.source = session.source
           Open == session.status # "reviewed" /\ session'.status # "reviewed"
<1>0. session \in Rows
  BY DEF TypeOK
<1>1. ASSUME NEW c \in Calls, CreateSession(c) PROVE Open
  BY <1>0, <1>1 DEF CreateSession, Rows
<1>2. ASSUME NEW c \in Calls, ConfirmMessage(c) PROVE Same
  BY <1>0, <1>2 DEF ConfirmMessage, MarkConfirmed, Rows
<1>3. ASSUME NEW c \in Calls, PersistQuestion(c) PROVE Same \/ Open
  BY <1>0, <1>3 DEF PersistQuestion, AddReview, Rows
<1>4. ASSUME NEW c \in Calls, PersistReview(c) PROVE Same \/ AddsVerdict(c)
  BY <1>4 DEF PersistReview, AddReview, AddsVerdict
<1>5. ASSUME NEW c \in Calls,
             \/ SubmitEvidence(c) \/ SubmitAnswer(c) \/ PublishImage(c) \/ AskReview(c) \/ SessionBusy(c)
             \/ OpenConversation(c) \/ Reconcile(c) \/ Prepare(c) \/ SendMessage(c) \/ SyncDone(c)
             \/ LoadScoringFacts(c) \/ ExtractNothing(c) \/ AgentStep(c) \/ AgentStops(c) \/ CallFails(c)
      PROVE  Same
  BY <1>5 DEF SubmitEvidence, SubmitAnswer, PublishImage, AskReview, SessionBusy, OpenConversation,
       Reconcile, Prepare, SendMessage, SyncDone, LoadScoringFacts, ExtractNothing, AgentStep, AgentStops,
       CallFails, Emit, db
<1>6. ASSUME LogEvent \/ ProjectEvent \/ Crash \/ UNCHANGED vars PROVE Same
  BY <1>6 DEF LogEvent, ProjectEvent, Crash, vars, db
<1> QED BY <1>1, <1>2, <1>3, <1>4, <1>5, <1>6 DEF Next, Serve

\* What a step of a reviewed session leaves alone.
Final == /\ session'.status = "reviewed" /\ session'.source = session.source
         /\ \A q \in Questions : answers'[q].ver = answers[q].ver
         /\ evidence' \ Media = evidence \ Media

\* No action changes what is final: the submissions check the status, the reviews too.
LEMMA ReviewedIsFinal ==
    ASSUME TypeOK, [Next]_vars, session.status = "reviewed"
    PROVE  Final
<1>1. session'.status = "reviewed" /\ session'.source = session.source
  BY SessionSteps DEF AddsVerdict
<1> DEFINE Same == answers' = answers /\ evidence' \ Media = evidence \ Media
<1>2. ASSUME NEW c \in Calls, CreateSession(c) \/ SubmitEvidence(c) \/ SubmitAnswer(c) PROVE Final
  BY <1>2 DEF CreateSession, SubmitEvidence, SubmitAnswer
<1>3. ASSUME NEW c \in Calls, PublishImage(c) PROVE Same
  BY <1>3 DEF PublishImage
<1>4. ASSUME NEW c \in Calls, ConfirmMessage(c) PROVE Final
  BY <1>1, <1>4 DEF ConfirmMessage, MarkConfirmed, TypeOK, AnswerRows, Final
<1>5. ASSUME NEW c \in Calls,
             \/ AskReview(c) \/ SessionBusy(c)
             \/ OpenConversation(c) \/ Reconcile(c) \/ Prepare(c) \/ SendMessage(c) \/ SyncDone(c)
             \/ LoadScoringFacts(c) \/ ExtractNothing(c) \/ AgentStep(c) \/ AgentStops(c) \/ CallFails(c)
             \/ PersistQuestion(c) \/ PersistReview(c)
      PROVE  Same
  BY <1>5 DEF AskReview, SessionBusy, OpenConversation,
       Reconcile, Prepare, SendMessage, SyncDone, LoadScoringFacts, ExtractNothing, AgentStep, AgentStops,
       CallFails, Emit, PersistQuestion, PersistReview, db
<1>6. ASSUME LogEvent \/ ProjectEvent \/ Crash \/ UNCHANGED vars PROVE Same
  BY <1>6 DEF LogEvent, ProjectEvent, Crash, vars, db
<1> QED BY <1>1, <1>2, <1>3, <1>4, <1>5, <1>6 DEF Next, Serve, Final

\* Every action keeps the verdict informed: no answer follows its draft later on.
LEMMA VerdictStep ==
    ASSUME TypeOK, LockInv, FactsInv, LogInv, VerdictHeardEveryAnswer, [Next]_vars,
           \/ native' = native \/ LogEvent
    PROVE  VerdictHeardEveryAnswer'
<1> SUFFICES ASSUME session'.status = "reviewed" PROVE VerdictHeardEveryAnswer'
  BY DEF VerdictHeardEveryAnswer
<1>0. Len(native) \in Nat /\ DOMAIN native = 1..Len(native)
  BY EventTypes
<1>1. CASE session.status = "reviewed"
  <2>1. /\ session'.source = session.source
        /\ \A q \in Questions : answers'[q].ver = answers[q].ver
    BY <1>1, ReviewedIsFinal DEF Final
  <2>2. PICK d \in DOMAIN native :
            /\ native[d].id = session.source /\ native[d].kind = "draft"
            /\ \A j \in DOMAIN native : native[j].kind = "answer" => j < d
            /\ \A q \in Questions : answers[q].ver > 0 =>
                  \E i \in 1..(d - 1) : native[i].kind = "answer" /\ native[i].of = q
                                       /\ native[i].ver = answers[q].ver
    BY <1>1 DEF VerdictHeardEveryAnswer
  <2>3. CASE native' = native
    BY <2>1, <2>2, <2>3 DEF VerdictHeardEveryAnswer
  <2>4. CASE LogEvent
    <3>1. wire.ev.kind # "answer"
      <4> SUFFICES ASSUME wire.ev.kind = "answer" PROVE FALSE
        OBVIOUS
      <4>1. /\ wire.ev.of \in Questions /\ wire.ev.ver = answers[wire.ev.of].ver /\ wire.ev.ver > 0
            /\ ~Delivered(wire.ev)
        BY <2>4, LogAppend DEF LogInv, MessageKinds
      <4>2. PICK i \in 1..(d - 1) : native[i].kind = "answer" /\ native[i].of = wire.ev.of
                                       /\ native[i].ver = wire.ev.ver
        BY <2>2, <4>1
      <4>3. i \in DOMAIN native
        BY <1>0, <2>2
      <4> QED BY <4>1, <4>2, <4>3 DEF Delivered, SameKey
    <3>2. /\ DOMAIN native' = 1..(Len(native) + 1)
          /\ \A i \in 1..Len(native) : native'[i] = native[i]
          /\ native'[Len(native) + 1] = wire.ev
      BY <2>4, LogAppend
    <3>3. d \in DOMAIN native' /\ native'[d] = native[d]
      BY <1>0, <3>2
    <3>4. \A j \in DOMAIN native' : native'[j].kind = "answer" => j < d
      BY <1>0, <2>2, <3>1, <3>2
    <3>5. \A i \in 1..(d - 1) : native'[i] = native[i]
      BY <1>0, <3>2
    <3> QED BY <2>1, <2>2, <3>3, <3>4, <3>5 DEF VerdictHeardEveryAnswer
  <2> QED BY <2>3, <2>4
<1>2. CASE session.status # "reviewed"
  <2>1. PICK c \in Calls : AddsVerdict(c)
    BY <1>2, SessionSteps
  <2> DEFINE d == Latest(Standing("draft"))
  <2>2. /\ Standing("draft") # {} /\ pc[c] = "extract" /\ AddReview("completed", native[d].id)
        /\ native' = native /\ answers' = answers
    BY <2>1 DEF AddsVerdict, PersistReview, CanComplete
  <2>3. d \in Standing("draft")
    BY <2>2, StandingLatest
  <2> HIDE DEF d
  <2>4. d \in DOMAIN native /\ native[d].kind = "draft"
        /\ \A j \in DOMAIN native : native[j].kind = "answer" => j < d
    BY <2>3 DEF Standing
  <2>5. session'.source = native[d].id
    BY <1>2, <2>2 DEF AddReview, TypeOK, Rows
  <2>6. ASSUME NEW q \in Questions, answers[q].ver > 0
        PROVE  \E i \in 1..(d - 1) : native[i].kind = "answer" /\ native[i].of = q
                                       /\ native[i].ver = answers[q].ver
    <3>1. Told(q)
      BY <2>2, <2>6 DEF FactsInv, Synchronised
    <3> QED BY <1>0, <2>4, <3>1 DEF Told
  <2> QED BY <2>2, <2>4, <2>5, <2>6 DEF VerdictHeardEveryAnswer
<1> QED BY <1>1, <1>2

\* The sequences of the initial states are sequences.
LEMMA ShortSequences ==
    ASSUME NEW S, NEW x \in S, NEW y \in S, NEW z \in S
    PROVE  <<>> \in Seq(S) /\ <<x, y>> \in Seq(S) /\ <<x, y, z>> \in Seq(S)
OBVIOUS

\* A new session and a session of the earlier release satisfy the invariant.
LEMMA Initially == Init => IInv
<1> SUFFICES ASSUME Init PROVE IInv
  OBVIOUS
<1> USE SessionAssumption, NoneAssumption
<1>1. /\ session \in Rows /\ session.status # "reviewed"
      /\ evidence \subseteq Evidence /\ confirmed \subseteq evidence
      /\ used \in Counters
  <2>1. \/ /\ session = [status |-> "none", source |-> 0, goal |-> FALSE]
           /\ evidence = {} /\ confirmed = {}
           /\ used = [ids |-> 0, agent |-> 0, faults |-> 0]
        \/ \E e \in Legacy :
           /\ session = [status |-> "running", source |-> 0, goal |-> TRUE]
           /\ evidence = {e} /\ confirmed = {e}
           /\ used = [ids |-> 2, agent |-> 0, faults |-> 0]
    BY DEF Init
  <2>2. \A n \in Nat : [ids |-> n, agent |-> 0, faults |-> 0] \in Counters
    BY DEF Counters
  <2>3. /\ [status |-> "none", source |-> 0, goal |-> FALSE] \in Rows
        /\ [status |-> "running", source |-> 0, goal |-> TRUE] \in Rows
    BY DEF Rows
  <2>4. used \in Counters
    BY <2>1, <2>2
  <2>5. CASE session = [status |-> "none", source |-> 0, goal |-> FALSE]
    BY <2>1, <2>3, <2>4, <2>5
  <2>6. CASE session = [status |-> "running", source |-> 0, goal |-> TRUE]
    BY <2>1, <2>3, <2>4, <2>6
  <2> QED BY <2>1, <2>5, <2>6
<1>2. /\ answers \in [Questions -> AnswerRows] /\ reviews \subseteq ReviewRows
      /\ open \in BOOLEAN /\ holder = None /\ job = NoJob /\ wire = NoWire
      /\ pc = [c \in Calls |-> "idle"] /\ op \in [Calls -> Ops \cup {None}]
  <2>1. [ver |-> 0, synced |-> FALSE] \in AnswerRows
    BY DEF AnswerRows
  <2>2. answers = [q \in Questions |-> [ver |-> 0, synced |-> FALSE]]
    BY DEF Init
  <2>3. answers \in [Questions -> AnswerRows]
    BY <2>1, <2>2
  <2> QED BY <2>3 DEF Init
<1>3. job \in Jobs /\ wire \in Wires
  BY <1>2, JobTypes, WireTypes
<1>4. native = <<>> \/ \E e \in Evidence :
          native = <<Event(GoalMessage, 1), Event(BareMessage(e), 2)>> /\ used.ids = 2
  BY DEF Init
<1>5. \A e \in Evidence : /\ Event(GoalMessage, 1) \in Events /\ Event(BareMessage(e), 2) \in Events
  BY DEF Event, GoalMessage, BareMessage, Message, Events, Kinds, Subjects
<1>6. native \in Seq(Events)
  <2>1. CASE native = <<>>
    BY <2>1
  <2>2. ASSUME NEW x \in Events, NEW y \in Events, native = <<x, y>>
        PROVE  native \in Seq(Events)
    BY <2>2, ShortSequences
  <2> QED BY <1>4, <1>5, <2>1, <2>2
<1>7. audit \in Seq(Entries)
  <2>1. \A type \in {"created", "native"}, n \in Nat : [type |-> type, src |-> n] \in Entries
    BY EntryTypes
  <2>2. \/ audit = <<>>
        \/ audit = << [type |-> "created", src |-> 0],
                      [type |-> "native", src |-> 1], [type |-> "native", src |-> 2] >>
    BY DEF Init
  <2>3. {[type |-> "created", src |-> 0], [type |-> "native", src |-> 1],
         [type |-> "native", src |-> 2]} \subseteq Entries
    BY <2>1
  <2>4. ASSUME NEW x \in Entries, NEW y \in Entries, NEW z \in Entries, audit = <<>> \/ audit = <<x, y, z>>
        PROVE  audit \in Seq(Entries)
    BY <2>4, ShortSequences
  <2> QED BY <2>2, <2>3, <2>4
<1>8. TypeOK
  BY <1>1, <1>2, <1>3, <1>6, <1>7 DEF TypeOK, Steps
<1>9. LockInv /\ TodoInv /\ FactsInv
  <2>1. pc = [c \in Calls |-> "idle"] /\ holder = None /\ NoJob.todo = {}
    BY <1>2 DEF NoJob
  <2> QED BY <1>2, <2>1 DEF LockInv, TodoInv, FactsInv, Synchronised, Locked, Steps
<1>10. IdInv /\ LogInv
  <2>1. ~Coming
    BY <1>2 DEF Coming
  <2>2. CASE native = <<>>
    BY <2>1, <2>2 DEF IdInv, LogInv, DeliveredOnce
  <2>3. ASSUME NEW e \in Evidence,
               native = <<Event(GoalMessage, 1), Event(BareMessage(e), 2)>>, used.ids = 2
        PROVE  IdInv /\ LogInv
    <3>1. /\ DOMAIN native = {1, 2}
          /\ native[1].id = 1 /\ native[1].kind = "goal"
          /\ native[2].id = 2 /\ native[2].kind = "evidence"
      BY <2>3 DEF Event, GoalMessage, BareMessage, Message
    <3>2. IdInv
      BY <2>1, <2>3, <3>1 DEF IdInv
    <3>3. DeliveredOnce
      BY <3>1 DEF DeliveredOnce, SameKey
    <3> QED BY <2>1, <3>1, <3>2, <3>3 DEF LogInv
  <2> QED BY <1>4, <2>2, <2>3
<1>11. VerdictHeardEveryAnswer
  BY <1>1 DEF VerdictHeardEveryAnswer
<1> QED BY <1>8, <1>9, <1>10, <1>11 DEF IInv

\* The invariant is inductive.
LEMMA InvStep ==
    ASSUME IInv, [Next]_vars
    PROVE  IInv'
<1>1. TypeOK' /\ TodoInv' /\ IdInv'
  BY TypeStep, TodoStep, IdStep DEF IInv
<1>2. LockInv'
  BY LockStep DEF IInv
<1>3. LogInv'
  BY LogStep DEF IInv
<1>4. FactsInv'
  BY FactsStep DEF IInv
<1>5. native' = native \/ LogEvent
  BY QuietSteps, Emitted DEF IInv, Quiet, SubmitAnswer, SendMessage, AgentStep, Emit
<1>6. VerdictHeardEveryAnswer'
  BY <1>5, VerdictStep DEF IInv
<1> QED BY <1>1, <1>2, <1>3, <1>4, <1>6 DEF IInv

\* The inductive invariant holds of every session.
THEOREM Invariance == Spec => []IInv
<1>1. Init => IInv
  BY Initially
<1>2. IInv /\ [Next]_vars => IInv'
  BY InvStep
<1> QED BY <1>1, <1>2, PTL DEF Spec

\* Tables, log, audit and calls hold what they can hold (TypeOK), for any constants.
THEOREM SessionTyped == Spec => []TypeOK
<1>1. IInv => TypeOK
  BY DEF IInv
<1> QED BY <1>1, Invariance, PTL

\* The facts a review loaded are still stored when it uses them, however long the
\* agent ran: the run lock (manager.py:302) keeps every submission out.
THEOREM ScoredFactsStayCurrent == Spec => []ScoredFactsCurrent
<1>1. IInv => FactsInv
  BY DEF IInv
<1>2. FactsInv => ScoredFactsCurrent
  BY DEF FactsInv, ScoredFactsCurrent, Synchronised
<1> QED BY <1>1, <1>2, Invariance, PTL

\* The synchronizer's check of the log, under the lock, delivers a message once
\* across failures and crashes (synchronizer.py:57-109).
THEOREM EveryMessageOnce == Spec => []DeliveredOnce
<1>1. IInv => DeliveredOnce
  BY DEF IInv, LogInv
<1> QED BY <1>1, Invariance, PTL

\* A session is reviewed only on a draft written after its agent was told every
\* answer (result_extractor.py:589-612).
THEOREM VerdictIsInformed == Spec => []VerdictHeardEveryAnswer
<1>1. IInv => VerdictHeardEveryAnswer
  BY DEF IInv
<1> QED BY <1>1, Invariance, PTL

\* A reviewed session's verdict, answers and text evidence never change
\* (api/app.py:352, manager.py:312-332).
THEOREM TextIsFinal == Spec => TextFactsFinal
<1>1. IInv /\ [Next]_vars =>
        [session.status = "reviewed" =>
          /\ session'.status = "reviewed" /\ session'.source = session.source
          /\ \A q \in Questions : answers'[q].ver = answers[q].ver
          /\ evidence' \ Media = evidence \ Media]_vars
  BY ReviewedIsFinal DEF IInv, Final
<1> QED BY <1>1, Invariance, PTL DEF Spec, TextFactsFinal
-----------------------------------------------------------------------------
(*************************************************************************)
(* LearningSession implements SessionPromise, for any calls, evidence,   *)
(* questions and bounds. A submission shows or says, a stored question   *)
(* asks, the verdict closes, and all the rest - the lock, the log, the   *)
(* audit, the failures - is stuttering. The step that needs the inductive*)
(* invariant is the verdict: its basis is read off the log, and must be  *)
(* what the database says the learner said.                              *)
(*************************************************************************)

\* The answers a verdict's draft was written after are the stored ones.
LEMMA BasisHeard ==
    ASSUME IInv, session.status = "reviewed", NEW q \in Questions
    PROVE  Heard(q) = answers[q].ver
<1> DEFINE heard == {v \in 0..MaxVersion :
            \E d \in DOMAIN native : /\ native[d].id = session.source
                                    /\ \E i \in 1..d : native[i].kind = "answer"
                                          /\ native[i].of = q /\ native[i].ver = v}
           v0 == answers[q].ver
<1>0. /\ TypeOK /\ LogInv /\ VerdictHeardEveryAnswer
      /\ Len(native) \in Nat /\ DOMAIN native = 1..Len(native)
  BY EventTypes DEF IInv
<1>1. v0 \in 0..MaxVersion
  <2>1. answers[q] \in AnswerRows
    BY <1>0 DEF TypeOK
  <2> QED BY <2>1 DEF AnswerRows
<1>2. \A v \in heard : v \in 1..v0
  BY <1>0 DEF LogInv
<1>3. v0 > 0 => v0 \in heard
  <2> SUFFICES ASSUME v0 > 0 PROVE v0 \in heard
    OBVIOUS
  <2>1. PICK d \in DOMAIN native :
            /\ native[d].id = session.source
            /\ \A p \in Questions : answers[p].ver > 0 =>
                  \E i \in 1..(d - 1) : native[i].kind = "answer" /\ native[i].of = p
                                       /\ native[i].ver = answers[p].ver
    BY <1>0 DEF VerdictHeardEveryAnswer
  <2>2. PICK i \in 1..(d - 1) : native[i].kind = "answer" /\ native[i].of = q /\ native[i].ver = v0
    BY <2>1
  <2>3. i \in 1..d
    BY <1>0, <2>1, <2>2
  <2> QED BY <1>1, <2>1, <2>2, <2>3
<1>4. Heard(q) = IF heard = {} THEN 0 ELSE Latest(heard)
  BY DEF Heard
<1> HIDE DEF heard, v0
<1>5. CASE v0 = 0
  BY <1>2, <1>4, <1>5 DEF v0
<1>6. CASE v0 > 0
  <2>1. \A j \in heard : j <= v0
    BY <1>1, <1>2
  <2>2. \A j \in heard : (\A k \in heard : k <= j) => j = v0
    BY <1>1, <1>2, <1>3, <1>6
  <2>3. Latest(heard) = v0
    BY <1>3, <1>6, <2>1, <2>2 DEF Latest
  <2> QED BY <1>3, <1>4, <1>6, <2>3 DEF v0
<1> QED BY <1>1, <1>5, <1>6

\* The text evidence of the session.
Shown == evidence \ Media
\* The refinement mapping of Promise, by name.
State == CASE session.status = "reviewed" -> "closed"
           [] session.status = "awaiting_user" -> "asked"
           [] OTHER -> "open"
Basis == [q \in Questions |-> IF session.status = "reviewed" THEN Heard(q) ELSE 0]

\* The basis of a verdict is what was said; there is none before.
BasisIsSaid ==
    /\ session.status = "reviewed" => Basis = Said
    /\ session.status # "reviewed" => Basis = [q \in Questions |-> 0]

\* The invariant gives every verdict that basis.
LEMMA BasisOf == IInv => BasisIsSaid
BY BasisHeard DEF BasisIsSaid, Basis, Said

\* A step that leaves the session open shows, says, asks or stutters.
LEMMA OpenSteps ==
    ASSUME TypeOK, [Next]_vars, session.status # "reviewed", session'.status # "reviewed"
    PROVE  \/ \E e \in Evidence \ Media : Shown' = Shown \cup {e} /\ Said' = Said /\ State' = State
           \/ \E q \in Questions : Said' = [Said EXCEPT ![q] = @ + 1] /\ Shown' = Shown /\ State' = State
           \/ State' = "asked" /\ Shown' = Shown /\ Said' = Said
           \/ Shown' = Shown /\ Said' = Said /\ State' = State
<1> DEFINE Same == Shown' = Shown /\ Said' = Said /\ State' = State
<1>0. session \in Rows /\ answers \in [Questions -> AnswerRows]
  BY DEF TypeOK
<1>1. ASSUME NEW c \in Calls, CreateSession(c) PROVE Same
  <2>1. session.status = "none" /\ session'.status = "running"
    BY <1>0, <1>1 DEF CreateSession, Rows
  <2> QED BY <1>1, <2>1 DEF CreateSession, Shown, Said, State
<1>2. ASSUME NEW c \in Calls, SubmitEvidence(c)
      PROVE  \E e \in Evidence \ Media : Shown' = Shown \cup {e} /\ Said' = Said /\ State' = State
  BY <1>2 DEF SubmitEvidence, Shown, Said, State
<1>3. ASSUME NEW c \in Calls, SubmitAnswer(c)
      PROVE  Same \/ \E q \in Questions :
                Said' = [Said EXCEPT ![q] = @ + 1] /\ Shown' = Shown /\ State' = State
  <2>0. Shown' = Shown /\ State' = State
    BY <1>3 DEF SubmitAnswer, Shown, State
  <2>1. CASE answers' = answers
    BY <2>0, <2>1 DEF Said
  <2>2. ASSUME NEW q \in Questions, answers' = [answers EXCEPT ![q] = Revised(@)]
        PROVE  Said' = [Said EXCEPT ![q] = @ + 1]
    <3>1. Revised(answers[q]).ver = answers[q].ver + 1
      BY DEF Revised
    <3>2. \A p \in Questions : answers'[p].ver = IF p = q THEN answers[p].ver + 1 ELSE answers[p].ver
      BY <1>0, <2>2, <3>1
    <3> QED BY <3>2 DEF Said
  <2> QED BY <1>3, <2>0, <2>1, <2>2 DEF SubmitAnswer
<1>4. ASSUME NEW c \in Calls, PublishImage(c) PROVE Same
  BY <1>4 DEF PublishImage, Shown, Said, State
<1>5. ASSUME NEW c \in Calls, ConfirmMessage(c) PROVE Same
  <2>1. session'.status = session.status /\ evidence' = evidence
    BY <1>0, <1>5 DEF ConfirmMessage, MarkConfirmed, Rows
  <2>2. \A q \in Questions : answers'[q].ver = answers[q].ver
    BY <1>0, <1>5 DEF ConfirmMessage, MarkConfirmed, AnswerRows
  <2> QED BY <2>1, <2>2 DEF Shown, Said, State
<1>6. ASSUME NEW c \in Calls, PersistQuestion(c)
      PROVE  Same \/ (State' = "asked" /\ Shown' = Shown /\ Said' = Said)
  <2>1. session' = session \/ session'.status = "awaiting_user"
    BY <1>0, <1>6 DEF PersistQuestion, AddReview, Rows
  <2> QED BY <1>6, <2>1 DEF PersistQuestion, Shown, Said, State
<1>7. ASSUME NEW c \in Calls, PersistReview(c) PROVE Same
  <2>1. session' = session
    BY <1>0, <1>7 DEF PersistReview, AddReview, Rows
  <2> QED BY <1>7, <2>1 DEF PersistReview, Shown, Said, State
<1>8. ASSUME NEW c \in Calls,
             \/ AskReview(c) \/ SessionBusy(c)
             \/ OpenConversation(c) \/ Reconcile(c) \/ Prepare(c) \/ SendMessage(c) \/ SyncDone(c)
             \/ LoadScoringFacts(c) \/ ExtractNothing(c) \/ AgentStep(c) \/ AgentStops(c) \/ CallFails(c)
      PROVE  UNCHANGED db
  BY <1>8 DEF AskReview, SessionBusy, OpenConversation, Reconcile, Prepare, SendMessage, SyncDone,
       LoadScoringFacts, ExtractNothing, AgentStep, AgentStops, CallFails, Emit
<1>9. ASSUME LogEvent \/ ProjectEvent \/ Crash \/ UNCHANGED vars PROVE UNCHANGED db
  BY <1>9 DEF LogEvent, ProjectEvent, Crash, vars, db
<1>10. UNCHANGED db => Same
  BY DEF db, Shown, Said, State
<1> QED
  BY <1>1, <1>2, <1>3, <1>4, <1>5, <1>6, <1>7, <1>8, <1>9, <1>10 DEF Next, Serve

\* The initial states are initial states of the promise.
LEMMA PromiseInit == Init => Promise!Init
<1> SUFFICES ASSUME Init PROVE Promise!Init
  OBVIOUS
<1>1. session.status \in {"none", "running"} /\ evidence \subseteq Evidence
  BY SessionAssumption DEF Init
<1>2. \A q \in Questions : answers[q].ver = 0
  BY DEF Init
<1> QED BY <1>1, <1>2 DEF Promise!Init

\* Every step is a step of the promise or a stutter.
LEMMA PromiseStep ==
    ASSUME TypeOK, BasisIsSaid, BasisIsSaid', [Next]_vars
    PROVE  [Promise!Next]_(Promise!promiseVars)
<1> DEFINE Show == /\ State # "closed" /\ \E e \in Evidence \ Media : Shown' = Shown \cup {e}
                   /\ UNCHANGED <<Said, State, Basis>>
           Say == /\ State # "closed" /\ \E q \in Questions : Said' = [Said EXCEPT ![q] = @ + 1]
                  /\ UNCHANGED <<Shown, State, Basis>>
           Ask == State # "closed" /\ State' = "asked" /\ UNCHANGED <<Shown, Said, Basis>>
           Close == /\ State # "closed" /\ State' = "closed" /\ Basis' = Said
                    /\ UNCHANGED <<Shown, Said>>
           Stays == UNCHANGED <<Shown, Said, State, Basis>>
<1>1. CASE session.status = "reviewed"
  <2>1. Final
    BY <1>1, ReviewedIsFinal
  <2>2. Shown' = Shown /\ Said' = Said /\ State = "closed" /\ State' = "closed"
    BY <1>1, <2>1 DEF Final, Shown, Said, State
  <2>3. Basis' = Basis
    BY <1>1, <2>1, <2>2 DEF BasisIsSaid, Final
  <2> QED BY <2>2, <2>3 DEF Promise!promiseVars, Shown, Said, State, Basis
<1>2. CASE session.status # "reviewed" /\ session'.status = "reviewed"
  <2>1. PICK c \in Calls : AddsVerdict(c)
    BY <1>2, SessionSteps
  <2>2. UNCHANGED <<Shown, Said>> /\ State # "closed" /\ State' = "closed"
    BY <1>2, <2>1 DEF AddsVerdict, PersistReview, Shown, Said, State
  <2>3. Basis' = Said
    BY <1>2, <2>2 DEF BasisIsSaid
  <2>4. Close
    BY <2>2, <2>3
  <2> QED BY <2>4 DEF Promise!Next, Promise!Close, Shown, Said, State, Basis
<1>3. CASE session.status # "reviewed" /\ session'.status # "reviewed"
  <2>1. State # "closed" /\ Basis' = Basis
    BY <1>3 DEF State, BasisIsSaid
  <2>2. Show \/ Say \/ Ask \/ Stays
    BY <1>3, <2>1, OpenSteps
  <2>3. CASE Show
    BY <2>3 DEF Promise!Next, Promise!Show, Shown, Said, State, Basis
  <2>4. CASE Say
    BY <2>4 DEF Promise!Next, Promise!Say, Shown, Said, State, Basis
  <2>5. CASE Ask
    BY <2>5 DEF Promise!Next, Promise!Ask, Shown, Said, State, Basis
  <2>6. CASE Stays
    BY <2>6 DEF Promise!promiseVars, Shown, Said, State, Basis
  <2> QED BY <2>2, <2>3, <2>4, <2>5, <2>6
<1> QED BY <1>1, <1>2, <1>3

\* LearningSession implements SessionPromise: with all its calls, failures and
\* crashes a session is what its learner was promised.
THEOREM KeepsItsPromise == Spec => KeepsPromise
<1>1. Init => Promise!Init
  BY PromiseInit
<1>2. IInv => BasisIsSaid
  BY BasisOf
<1>3. TypeOK /\ BasisIsSaid /\ BasisIsSaid' /\ [Next]_vars => [Promise!Next]_(Promise!promiseVars)
  BY PromiseStep
<1>4. IInv => TypeOK
  BY DEF IInv
<1> QED BY <1>1, <1>2, <1>3, <1>4, Invariance, PTL DEF Spec, KeepsPromise, Promise!Spec
-----------------------------------------------------------------------------
(*************************************************************************)
(* What the rows and the audit log of LearningSession say is true, and   *)
(* the agent reads every fact, for any calls, evidence, questions and    *)
(* bounds.                                                               *)
(*                                                                       *)
(* The argument: a message keeps its shape from the rows to the log      *)
(* (ShapeInv), so what was delivered is what a row is marked for; a text *)
(* that the log lacks is still to be sent (TextInv); a review is stored  *)
(* while the session is open (OpenInv), from an event that no question's *)
(* review came from (AskedInv); and nothing is added to the log between  *)
(* the reconciliation and the reading of the audit (CaughtUpInv).        *)
(*************************************************************************)

\* A message is of one of the forms the synchronizer builds, or an older release built.
Shaped(m) == /\ m.kind = "goal" => m.of = None /\ m.ver = 1
             /\ m.kind = "evidence" => m.ver \in {0, 1}
             /\ m.kind = "context" => m.ver = 1

\* This release sends the text with the evidence.
Textual(m) == m.kind = "evidence" => m.ver = 1

ShapeInv ==
    /\ \A i \in DOMAIN native : Shaped(native[i])
    /\ \A m \in job.todo : Shaped(m) /\ Textual(m)
    /\ Coming => Shaped(wire.ev) /\ Textual(wire.ev)

\* The log has the text of e.
TextIn(e) == \E i \in DOMAIN native :
    native[i].kind \in {"evidence", "context"} /\ native[i].of = e /\ native[i].ver = 1

TextComes(e) == \/ ContextMessage(e) \in job.todo
                \/ EvidenceMessage(e) \in job.todo /\ ~Delivered(EvidenceMessage(e))

\* A synchronisation forgets no text.
TextInv ==
    /\ \A c \in Calls : pc[c] = "sync" => \A e \in evidence \ Media : TextIn(e) \/ TextComes(e)
    /\ \A c \in Calls : Synchronised(c) => \A e \in evidence \ Media : TextIn(e)

\* A review that is past its decision has an open session.
OpenInv == \A c \in Calls : Synchronised(c) /\ pc[c] # "decide" => session.status # "reviewed"

\* The review of a question names the question.
AskedInv == \A r \in reviews : r.status = "awaiting_user" =>
    \E i \in DOMAIN native : native[i].id = r.source /\ native[i].kind = "question"

\* A run is over when its result is read, and nothing is under way.
CaughtUpInv ==
    /\ \A c \in Calls : job.ran /\ pc[c] \in Locked => pc[c] \in {"reconcile", "extract"}
    /\ \A c \in Calls : \/ pc[c] = "prepare" /\ job.pass = "restored"
                        \/ pc[c] = "extract" /\ job.ran
                        => Unprojected = {}

RInv == /\ IInv /\ ShapeInv /\ TextInv /\ ConfirmedWasDelivered
        /\ OpenInv /\ AskedInv /\ VerdictRecordsAgree /\ ProjectedOnce /\ CaughtUpInv
-----------------------------------------------------------------------------
(* What grows *)

\* The log stays as it is, or an event is appended.
LEMMA LogGrows ==
    ASSUME IInv, [Next]_vars
    PROVE  native' = native \/ LogEvent
BY QuietSteps, Emitted DEF IInv, Quiet, SubmitAnswer, SendMessage, AgentStep, Emit

\* Nothing that is in the log goes.
LEMMA LogKeeps ==
    ASSUME IInv, [Next]_vars
    PROVE  /\ \A i \in DOMAIN native : i \in DOMAIN native' /\ native'[i] = native[i]
           /\ \A e : TextIn(e) => TextIn(e)'
           /\ \A m : Delivered(m) => Delivered(m)'
<1>1. \A i \in DOMAIN native : i \in DOMAIN native' /\ native'[i] = native[i]
  <2>1. CASE native' = native
    BY <2>1
  <2>2. CASE LogEvent
    BY <2>2, LogAppend DEF IInv
  <2> QED BY <2>1, <2>2, LogGrows
<1>2. ASSUME NEW e, TextIn(e) PROVE TextIn(e)'
  BY <1>1, <1>2 DEF TextIn
<1>3. ASSUME NEW m, Delivered(m) PROVE Delivered(m)'
  BY <1>1, <1>3 DEF Delivered
<1> QED BY <1>1, <1>2, <1>3

\* Messages to send are added by the beginning of a synchronisation only.
LEMMA TodoShrinks ==
    ASSUME TypeOK, [Next]_vars
    PROVE  job'.todo \subseteq job.todo \/ \E c \in Calls : Prepare(c)
<1> DEFINE Kept == job'.todo \subseteq job.todo
<1>0. /\ NoJob.todo = {} /\ job \in Jobs
      /\ \A j \in Jobs : /\ \A f : [j EXCEPT !.facts = f].todo = j.todo
                         /\ \A p : [j EXCEPT !.pass = p].todo = j.todo
                         /\ [j EXCEPT !.ran = TRUE].todo = j.todo
  BY DEF NoJob, TypeOK, Jobs
<1>1. ASSUME NEW c \in Calls, ConfirmMessage(c) PROVE Kept
  BY <1>0, <1>1 DEF ConfirmMessage, Jobs
<1>2. ASSUME NEW c \in Calls, SyncDone(c) PROVE Kept
  <2>1. job' = NoJob \/ job' = [job EXCEPT !.pass = "later"]
    BY <1>2 DEF SyncDone, Release
  <2>2. [job EXCEPT !.pass = "later"].todo = job.todo
    BY <1>0
  <2> QED BY <1>0, <2>1, <2>2
<1>3. ASSUME NEW c \in Calls, LoadScoringFacts(c) PROVE Kept
  <2>1. job' = NoJob \/ job' = [job EXCEPT !.facts = Facts]
    BY <1>3 DEF LoadScoringFacts, Release
  <2>2. [job EXCEPT !.facts = Facts].todo = job.todo
    BY <1>0
  <2> QED BY <1>0, <2>1, <2>2
<1>4. ASSUME NEW c \in Calls, OpenConversation(c) PROVE Kept
  <2>1. NoJob \in Jobs /\ job' = [NoJob EXCEPT !.pass = IF open THEN "first" ELSE "restored"]
    BY <1>4, JobTypes DEF OpenConversation
  <2> QED BY <1>0, <2>1
<1>5. ASSUME NEW c \in Calls,
             \/ CreateSession(c) \/ SubmitEvidence(c) \/ SubmitAnswer(c) \/ PublishImage(c)
             \/ AskReview(c) \/ SessionBusy(c) \/ Reconcile(c) \/ SendMessage(c) \/ AgentStep(c)
      PROVE  Kept
  BY <1>5 DEF CreateSession, SubmitEvidence, SubmitAnswer, PublishImage, AskReview, SessionBusy,
       Reconcile, SendMessage, AgentStep, Emit
<1>6. ASSUME NEW c \in Calls,
             PersistQuestion(c) \/ PersistReview(c) \/ ExtractNothing(c) \/ AgentStops(c) \/ CallFails(c)
      PROVE  Kept
  BY <1>0, <1>6 DEF PersistQuestion, PersistReview, ExtractNothing, AgentStops, CallFails, Release
<1>7. ASSUME LogEvent \/ ProjectEvent \/ Crash \/ UNCHANGED vars PROVE Kept
  BY <1>0, <1>7 DEF LogEvent, ProjectEvent, Crash, vars
<1> QED BY <1>1, <1>2, <1>3, <1>4, <1>5, <1>6, <1>7 DEF Next, Serve
-----------------------------------------------------------------------------
(* The shapes of the messages *)

\* What the synchronizer builds is shaped, and what the agent says is no message.
LEMMA PendingShaped ==
    /\ \A m \in PendingMessages : Shaped(m) /\ Textual(m)
    /\ \A m \in AgentMessages : Shaped(m) /\ Textual(m)
<1> USE DEF Shaped, Textual, Message
<1>1. ASSUME NEW m \in PendingMessages PROVE Shaped(m) /\ Textual(m)
  <2>1. \/ m = GoalMessage
        \/ \E e \in evidence : m = EvidenceMessage(e) \/ m = ContextMessage(e)
        \/ \E q \in Questions : m = AnswerMessage(q, answers[q].ver)
    BY <1>1 DEF PendingMessages
  <2> QED BY <2>1 DEF GoalMessage, EvidenceMessage, ContextMessage, AnswerMessage
<1>2. ASSUME NEW m \in AgentMessages PROVE Shaped(m) /\ Textual(m)
  BY <1>2 DEF AgentMessages
<1> QED BY <1>1, <1>2

\* Every action keeps the shapes.
LEMMA ShapeStep ==
    ASSUME IInv, ShapeInv, [Next]_vars
    PROVE  ShapeInv'
<1>0. TypeOK /\ LockInv /\ TodoInv /\ job \in Jobs
  BY DEF IInv, TypeOK
<1>1. \A m \in job'.todo : Shaped(m) /\ Textual(m)
  <2>1. CASE job'.todo \subseteq job.todo
    BY <2>1 DEF ShapeInv
  <2>2. ASSUME NEW c \in Calls, Prepare(c) PROVE job'.todo \subseteq PendingMessages
    BY <1>0, <2>2 DEF Prepare, Jobs
  <2> QED BY <1>0, <2>1, <2>2, TodoShrinks, PendingShaped
<1>2. CASE LogEvent
  <2>1. \A i \in DOMAIN native' : Shaped(native'[i])
    BY <1>0, <1>2, LogAppend DEF ShapeInv
  <2>2. ~Coming'
    BY <1>0, <1>2, LogAppend
  <2> QED BY <1>1, <2>1, <2>2 DEF ShapeInv
<1>3. CASE Quiet
  BY <1>1, <1>3 DEF Quiet, ShapeInv
<1>4. ASSUME NEW c \in Calls, SubmitAnswer(c) PROVE ShapeInv'
  BY <1>1, <1>4 DEF SubmitAnswer, ShapeInv, Coming
<1>5. ASSUME NEW c \in Calls, SendMessage(c) \/ AgentStep(c) PROVE ShapeInv'
  <2>1. PICK m : Emit(m) /\ Shaped(m) /\ Textual(m)
    BY <1>5, PendingShaped DEF SendMessage, AgentStep, ShapeInv
  <2>2. /\ wire'.ev.kind = m.kind /\ wire'.ev.of = m.of /\ wire'.ev.ver = m.ver
        /\ native' = native
    BY <1>0, <2>1, Emitted
  <2>3. Shaped(wire'.ev) /\ Textual(wire'.ev)
    BY <2>1, <2>2 DEF Shaped, Textual
  <2> QED BY <1>1, <2>2, <2>3 DEF ShapeInv
<1> QED BY <1>0, <1>2, <1>3, <1>4, <1>5, QuietSteps
-----------------------------------------------------------------------------
(* The text of the evidence *)

\* What the synchronisation that begins has yet to send is what the log lacks.
LEMMA PrepareText ==
    ASSUME IInv, ShapeInv, NEW c \in Calls, Prepare(c), NEW e \in evidence \ Media
    PROVE  TextIn(e)' \/ TextComes(e)'
<1>0. /\ TypeOK /\ job \in Jobs /\ native' = native
      /\ \A i \in DOMAIN native : Shaped(native[i])
  BY DEF IInv, TypeOK, Prepare, ShapeInv
<1>1. EvidenceMessage(e).of = e /\ ContextMessage(e).of = e
  BY DEF EvidenceMessage, ContextMessage, Message
<1>2. \A m \in PendingMessages : m.of = e => m \in job'.todo
  <2>1. PICK skipped \in SUBSET {m \in PendingMessages : m.of \in Media /\ ~Delivered(m)} :
          job' = [job EXCEPT !.todo = PendingMessages \ skipped]
    BY DEF Prepare
  <2> QED BY <1>0, <2>1 DEF Jobs
<1>3. EvidenceMessage(e) \in PendingMessages
  BY DEF PendingMessages
<1>4. CASE ~Delivered(EvidenceMessage(e))
  <2>1. ~Delivered(EvidenceMessage(e))'
    BY <1>0, <1>4 DEF Delivered
  <2> QED BY <1>1, <1>2, <1>3, <2>1 DEF TextComes
<1>5. CASE Delivered(EvidenceMessage(e))
  <2>1. PICK i \in DOMAIN native : native[i].kind = "evidence" /\ native[i].of = e
    BY <1>5 DEF Delivered, SameKey, EvidenceMessage, Message
  <2>2. CASE native[i].ver = 1
    BY <1>0, <2>1, <2>2 DEF TextIn
  <2>3. CASE native[i].ver = 0 /\ Delivered(ContextMessage(e))
    <3>1. PICK k \in DOMAIN native : native[k].kind = "context" /\ native[k].of = e
      BY <2>3 DEF Delivered, SameKey, ContextMessage, Message
    <3> QED BY <1>0, <3>1 DEF TextIn, Shaped
  <2>4. CASE native[i].ver = 0 /\ ~Delivered(ContextMessage(e))
    <3>1. SameKey(native[i], BareMessage(e))
      BY <2>1 DEF SameKey, BareMessage, Message
    <3>2. ContextMessage(e) \in PendingMessages
      BY <2>4, <3>1 DEF PendingMessages
    <3> QED BY <1>1, <1>2, <3>2 DEF TextComes
  <2> QED BY <1>0, <2>1, <2>2, <2>3, <2>4 DEF Shaped
<1> QED BY <1>4, <1>5

\* A message that is confirmed was delivered, with its text.
LEMMA ConfirmText ==
    ASSUME IInv, ShapeInv, NEW c \in Calls, ConfirmMessage(c), NEW e, TextIn(e) \/ TextComes(e)
    PROVE  TextIn(e)' \/ TextComes(e)'
<1>0. job \in Jobs /\ native' = native /\ \A i \in DOMAIN native : Shaped(native[i])
  BY DEF IInv, TypeOK, ConfirmMessage, ShapeInv
<1>1. PICK m \in job.todo : Delivered(m) /\ job' = [job EXCEPT !.todo = @ \ {m}]
  BY DEF ConfirmMessage
<1>2. job'.todo = job.todo \ {m}
  BY <1>0, <1>1 DEF Jobs
<1>3. CASE TextIn(e)
  BY <1>0, <1>3 DEF TextIn
<1>4. CASE EvidenceMessage(e) \in job.todo /\ ~Delivered(EvidenceMessage(e))
  <2>1. EvidenceMessage(e) \in job'.todo
    BY <1>1, <1>2, <1>4
  <2>2. ~Delivered(EvidenceMessage(e))'
    BY <1>0, <1>4 DEF Delivered
  <2> QED BY <2>1, <2>2 DEF TextComes
<1>5. CASE ContextMessage(e) \in job.todo
  <2>1. CASE m = ContextMessage(e)
    <3>1. PICK k \in DOMAIN native : native[k].kind = "context" /\ native[k].of = e
      BY <1>1, <2>1 DEF Delivered, SameKey, ContextMessage, Message
    <3> QED BY <1>0, <3>1 DEF TextIn, Shaped
  <2>2. CASE m # ContextMessage(e)
    BY <1>2, <1>5, <2>2 DEF TextComes
  <2> QED BY <2>1, <2>2
<1> QED BY <1>3, <1>4, <1>5 DEF TextComes

\* An evidence that reaches the log brings its text.
LEMMA LogText ==
    ASSUME IInv, ShapeInv, LogEvent, NEW e, TextIn(e) \/ TextComes(e)
    PROVE  TextIn(e)' \/ TextComes(e)'
<1>0. TypeOK /\ job' = job
  BY DEF IInv, LogEvent
<1>1. CASE TextIn(e)
  BY <1>1, LogKeeps DEF Next
<1>2. CASE ContextMessage(e) \in job.todo
  BY <1>0, <1>2 DEF TextComes
<1>3. CASE EvidenceMessage(e) \in job.todo /\ ~Delivered(EvidenceMessage(e))
  <2>1. CASE Delivered(EvidenceMessage(e))'
    <3>1. PICK i \in DOMAIN native' : SameKey(native'[i], EvidenceMessage(e))
      BY <2>1 DEF Delivered
    <3>2. native'[i] = wire.ev
      BY <1>0, <1>3, <3>1, LogAppend DEF Delivered
    <3>3. wire.ev.kind = "evidence" /\ wire.ev.of = e /\ wire.ev.ver = 1
      BY <1>0, <3>1, <3>2, LogAppend DEF SameKey, EvidenceMessage, Message, ShapeInv, Textual
    <3> QED BY <3>1, <3>2, <3>3 DEF TextIn
  <2>2. CASE ~Delivered(EvidenceMessage(e))'
    BY <1>0, <1>3, <2>2 DEF TextComes
  <2> QED BY <2>1, <2>2
<1> QED BY <1>1, <1>2, <1>3 DEF TextComes

\* Nothing of the text is under way when nothing is left to send.
LEMMA NothingToSend ==
    ASSUME job.todo = {}, NEW e, TextIn(e) \/ TextComes(e)
    PROVE  TextIn(e)
BY DEF TextComes

\* A step that the texts do not notice.
TextQuiet ==
    /\ native' = native /\ evidence' \ Media = evidence \ Media
    /\ \A c \in Calls : pc'[c] = "sync" => pc[c] = "sync" /\ job'.todo = job.todo
    /\ \A c \in Calls : Synchronised(c)' => Synchronised(c)

\* It loses none.
LEMMA TextQuietKeeps ==
    ASSUME TextQuiet, TextInv
    PROVE  TextInv'
<1>1. \A e : TextIn(e)' <=> TextIn(e)
  BY DEF TextQuiet, TextIn
<1>2. \A e : job'.todo = job.todo => (TextComes(e)' <=> TextComes(e))
  BY DEF TextQuiet, TextComes, Delivered
<1> QED BY <1>1, <1>2 DEF TextQuiet, TextInv

\* Nor does a step after which no call is past its preparations.
LEMMA TextVacuous ==
    ASSUME \A c \in Calls : pc'[c] # "sync" /\ ~Synchronised(c)'
    PROVE  TextInv'
BY DEF TextInv

\* Every action keeps the texts.
LEMMA TextStep ==
    ASSUME IInv, ShapeInv, TextInv, [Next]_vars
    PROVE  TextInv'
<1>0. /\ TypeOK /\ LockInv /\ job \in Jobs /\ pc \in [Calls -> Steps] /\ None \notin Calls
  BY NoneAssumption DEF IInv, TypeOK
<1> USE <1>0 DEF Steps, Locked, Synchronised, db
<1>1. ASSUME NEW c \in Calls, SubmitEvidence(c) \/ PublishImage(c) PROVE TextInv'
  <2>1. \A d \in Calls : pc[d] \notin Locked
    BY <1>1, NobodyUnlocked DEF SubmitEvidence, PublishImage
  <2>2. \A d \in Calls : pc'[d] # "sync" /\ ~Synchronised(d)'
    BY <1>1, <2>1 DEF SubmitEvidence, PublishImage, AskManager
  <2> QED BY <2>2, TextVacuous
<1>2. ASSUME NEW c \in Calls, Prepare(c) PROVE TextInv'
  <2>1. \A d \in Calls : ~Synchronised(d)'
    BY <1>2, OneHolder DEF Prepare, Goto
  <2>2. evidence' = evidence
    BY <1>2 DEF Prepare
  <2> QED BY <1>2, <2>1, <2>2, PrepareText DEF TextInv
<1>3. ASSUME NEW c \in Calls, ConfirmMessage(c) PROVE TextInv'
  <2>1. /\ pc[c] = "sync" /\ pc' = pc /\ evidence' = evidence
        /\ \A d \in Calls : ~Synchronised(d)'
    BY <1>3, OneHolder DEF ConfirmMessage
  <2>2. \A e \in evidence \ Media : TextIn(e) \/ TextComes(e)
    BY <2>1 DEF TextInv
  <2> QED BY <1>3, <2>1, <2>2, ConfirmText DEF TextInv
<1>4. ASSUME LogEvent PROVE TextInv'
  <2>1. pc' = pc /\ evidence' = evidence /\ job' = job
    BY <1>4 DEF LogEvent
  <2>2. \A e : TextIn(e) => TextIn(e)'
    BY LogKeeps
  <2> QED BY <1>4, <2>1, <2>2, LogText DEF TextInv
<1>5. ASSUME NEW c \in Calls, SyncDone(c) PROVE TextInv'
  <2>1. /\ pc[c] = "sync" /\ job.todo = {} /\ native' = native /\ evidence' = evidence
        /\ pc'[c] \in {"decide", "prepare", "idle"} /\ \A d \in Calls \ {c} : pc'[d] = pc[d]
    BY <1>5 DEF SyncDone, Release, Finish, Goto
  <2>2. \A d \in Calls \ {c} : pc'[d] \notin Locked
    BY <2>1, OneHolder
  <2>3. \A e \in evidence \ Media : TextIn(e)
    BY <2>1, NothingToSend DEF TextInv
  <2>4. \A e \in evidence' \ Media : TextIn(e)'
    BY <2>1, <2>3 DEF TextIn
  <2> QED BY <2>1, <2>2, <2>4 DEF TextInv
<1>6. ASSUME NEW c \in Calls, OpenConversation(c) PROVE TextInv'
  <2>1. /\ \A d \in Calls : pc[d] \notin Locked
        /\ pc' = [pc EXCEPT ![c] = IF open THEN "prepare" ELSE "reconcile"]
        /\ job'.ran = FALSE
    BY <1>6, NobodyUnlocked DEF OpenConversation, Goto, NoJob
  <2> QED BY <2>1, TextVacuous
<1>7. ASSUME NEW c \in Calls,
             CreateSession(c) \/ SubmitAnswer(c) \/ AskReview(c) \/ SessionBusy(c)
      PROVE  TextQuiet
  BY <1>7 DEF CreateSession, SubmitAnswer, AskReview, SessionBusy, AskManager, Finish, TextQuiet
<1>8. ASSUME NEW c \in Calls, Reconcile(c) PROVE TextQuiet
  BY <1>8 DEF Reconcile, Goto, TextQuiet
<1>9. ASSUME NEW c \in Calls, SendMessage(c) \/ AgentStep(c) PROVE TextQuiet
  BY <1>9 DEF SendMessage, AgentStep, Emit, TextQuiet
<1>10. ASSUME NEW c \in Calls, LoadScoringFacts(c) PROVE TextQuiet
  <2>1. CASE session.status = "reviewed"
    <3>1. /\ pc[c] = "decide" /\ pc' = [pc EXCEPT ![c] = "idle"] /\ native' = native /\ evidence' = evidence
      BY <1>10, <2>1 DEF LoadScoringFacts, Release, Finish
    <3>2. \A d \in Calls : pc'[d] \notin Locked
      BY <3>1, OneHolder
    <3> QED BY <3>1, <3>2 DEF TextQuiet
  <2>2. CASE session.status # "reviewed"
    <3>1. /\ pc[c] = "decide" /\ pc' = [pc EXCEPT ![c] = "extract"]
          /\ native' = native /\ evidence' = evidence
      BY <1>10, <2>2 DEF LoadScoringFacts, Goto
    <3>2. \A d \in Calls \ {c} : pc'[d] \notin Locked
      BY <3>1, OneHolder
    <3> QED BY <3>1, <3>2 DEF TextQuiet
  <2> QED BY <2>1, <2>2
<1>11. ASSUME NEW c \in Calls, PersistQuestion(c) \/ PersistReview(c) \/ CallFails(c) PROVE TextInv'
  <2>1. pc[c] \in Locked /\ pc' = [pc EXCEPT ![c] = "idle"]
    BY <1>11 DEF PersistQuestion, PersistReview, CallFails, Release, Finish
  <2>2. \A d \in Calls : pc'[d] \notin Locked
    BY <2>1, OneHolder
  <2> QED BY <2>2, TextVacuous
<1>12. ASSUME NEW c \in Calls, ExtractNothing(c) PROVE TextQuiet
  <2>1. /\ pc[c] = "extract" /\ pc'[c] \in {"idle", "agent"} /\ native' = native /\ evidence' = evidence
        /\ \A d \in Calls \ {c} : pc'[d] = pc[d]
    BY <1>12 DEF ExtractNothing, Release, Finish, Goto
  <2>2. \A d \in Calls \ {c} : pc'[d] \notin Locked
    BY <2>1, OneHolder
  <2> QED BY <2>1, <2>2 DEF TextQuiet
<1>13. ASSUME NEW c \in Calls, AgentStops(c) PROVE TextQuiet
  <2>1. /\ pc[c] = "agent" /\ pc' = [pc EXCEPT ![c] = "reconcile"] /\ native' = native /\ evidence' = evidence
    BY <1>13 DEF AgentStops, Goto
  <2>2. \A d \in Calls \ {c} : pc'[d] \notin Locked
    BY <2>1, OneHolder
  <2> QED BY <2>1, <2>2 DEF TextQuiet
<1>14. ASSUME Crash PROVE TextInv'
  BY <1>14, TextVacuous DEF Crash
<1>15. ASSUME ProjectEvent \/ UNCHANGED vars PROVE TextQuiet
  BY <1>15 DEF ProjectEvent, vars, TextQuiet
<1> QED BY <1>1, <1>2, <1>3, <1>4, <1>5, <1>6, <1>7, <1>8, <1>9, <1>10, <1>11, <1>12, <1>13,
           <1>14, <1>15, TextQuietKeeps DEF Next, Serve
-----------------------------------------------------------------------------
(* What a mark in a row means *)

Has(kind, of, v) == \E i \in DOMAIN native :
    native[i].kind = kind /\ native[i].of = of /\ native[i].ver \in v

\* The three marks, apart.
LEMMA Marks ==
    /\ ConfirmedWasDelivered <=>
          /\ session.goal => Has("goal", None, {1})
          /\ \A e \in confirmed : Has("evidence", e, {0, 1})
          /\ \A q \in Questions : answers[q].synced => Has("answer", q, {answers[q].ver})
    /\ ConfirmedWasDelivered' <=>
          /\ session'.goal => Has("goal", None, {1})'
          /\ \A e \in confirmed' : Has("evidence", e, {0, 1})'
          /\ \A q \in Questions : answers'[q].synced => Has("answer", q, {answers[q].ver})'
BY DEF ConfirmedWasDelivered, Has

\* A step sets no mark, or the mark of a message that was delivered.
LEMMA MarkSteps ==
    ASSUME TypeOK, [Next]_vars
    PROVE  \/ \E c \in Calls : ConfirmMessage(c)
           \/ /\ session'.goal = session.goal /\ confirmed' = confirmed
              /\ \A q \in Questions : answers'[q].synced => answers'[q] = answers[q]
<1> DEFINE Same == /\ session'.goal = session.goal /\ confirmed' = confirmed
                   /\ \A q \in Questions : answers'[q].synced => answers'[q] = answers[q]
<1>0. session \in Rows /\ answers \in [Questions -> AnswerRows]
  BY DEF TypeOK
<1>1. ASSUME NEW c \in Calls, CreateSession(c) PROVE Same
  BY <1>0, <1>1 DEF CreateSession, Rows
<1>2. ASSUME NEW c \in Calls, SubmitAnswer(c) PROVE Same
  <2>1. ASSUME NEW q \in Questions, answers' = [answers EXCEPT ![q] = Revised(@)]
        PROVE  \A p \in Questions : answers'[p].synced => answers'[p] = answers[p]
    BY <1>0, <2>1 DEF Revised
  <2> QED BY <1>2, <2>1 DEF SubmitAnswer
<1>3. ASSUME NEW c \in Calls, PersistQuestion(c) \/ PersistReview(c) PROVE Same
  BY <1>0, <1>3 DEF PersistQuestion, PersistReview, AddReview, Rows
<1>4. ASSUME NEW c \in Calls,
             \/ SubmitEvidence(c) \/ PublishImage(c) \/ AskReview(c) \/ SessionBusy(c)
             \/ OpenConversation(c) \/ Reconcile(c) \/ Prepare(c) \/ SendMessage(c) \/ SyncDone(c)
             \/ LoadScoringFacts(c) \/ ExtractNothing(c) \/ AgentStep(c) \/ AgentStops(c) \/ CallFails(c)
      PROVE  Same
  BY <1>4 DEF SubmitEvidence, PublishImage, AskReview, SessionBusy, OpenConversation,
       Reconcile, Prepare, SendMessage, SyncDone, LoadScoringFacts, ExtractNothing, AgentStep, AgentStops,
       CallFails, Emit, db
<1>5. ASSUME LogEvent \/ ProjectEvent \/ Crash \/ UNCHANGED vars PROVE Same
  BY <1>5 DEF LogEvent, ProjectEvent, Crash, vars, db
<1> QED BY <1>1, <1>2, <1>3, <1>4, <1>5 DEF Next, Serve

\* Every action keeps the marks true.
LEMMA ConfirmedStep ==
    ASSUME IInv, ShapeInv, ConfirmedWasDelivered, [Next]_vars
    PROVE  ConfirmedWasDelivered'
<1>0. /\ TypeOK /\ session \in Rows /\ answers \in [Questions -> AnswerRows]
      /\ \A i \in DOMAIN native : Shaped(native[i])
  BY DEF IInv, TypeOK, ShapeInv
<1>1. \A kind, of, v : Has(kind, of, v) => Has(kind, of, v)'
  BY LogKeeps DEF Has
<1>2. /\ session.goal => Has("goal", None, {1})
      /\ \A e \in confirmed : Has("evidence", e, {0, 1})
      /\ \A q \in Questions : answers[q].synced => Has("answer", q, {answers[q].ver})
  BY Marks
<1>3. CASE /\ session'.goal = session.goal /\ confirmed' = confirmed
           /\ \A q \in Questions : answers'[q].synced => answers'[q] = answers[q]
  <2>1. ASSUME NEW q \in Questions, answers'[q].synced
        PROVE  Has("answer", q, {answers[q].ver})'
    <3>1. Has("answer", q, {answers[q].ver}) /\ answers'[q] = answers[q]
      BY <1>2, <1>3, <2>1
    <3> QED BY <3>1, LogKeeps DEF Has
  <2> QED BY <1>1, <1>2, <1>3, <2>1, Marks
<1>4. ASSUME NEW c \in Calls, ConfirmMessage(c) PROVE ConfirmedWasDelivered'
  <2>1. PICK m \in job.todo : Delivered(m) /\ MarkConfirmed(m)
    BY <1>4 DEF ConfirmMessage
  <2>2. PICK i \in DOMAIN native : SameKey(native[i], m)
    BY <2>1 DEF Delivered
  <2>3. session'.goal => Has("goal", None, {1})'
    <3>1. m.kind = "goal" => Has("goal", None, {1})
      BY <1>0, <2>2 DEF Has, SameKey, Shaped
    <3>2. session'.goal = session.goal \/ m.kind = "goal"
      BY <2>1 DEF MarkConfirmed
    <3> QED BY <1>1, <1>2, <3>1, <3>2
  <2>4. ASSUME NEW e \in confirmed' PROVE Has("evidence", e, {0, 1})'
    <3>1. m.kind = "evidence" => Has("evidence", m.of, {0, 1})
      BY <1>0, <2>2 DEF Has, SameKey, Shaped
    <3>2. e \in confirmed \/ (m.kind = "evidence" /\ e = m.of)
      BY <2>1 DEF MarkConfirmed
    <3> QED BY <1>1, <1>2, <3>1, <3>2
  <2>5. ASSUME NEW q \in Questions, answers'[q].synced
        PROVE  Has("answer", q, {answers[q].ver})'
    <3>1. m.kind = "answer" => Has("answer", m.of, {m.ver})
      BY <2>2 DEF Has, SameKey
    <3>2. \/ answers'[q] = answers[q]
          \/ m.kind = "answer" /\ m.of = q /\ answers'[q].ver = answers[q].ver /\ answers[q].ver = m.ver
      BY <1>0, <2>1 DEF MarkConfirmed, AnswerRows
    <3>3. Has("answer", q, {answers'[q].ver})
      BY <1>2, <2>5, <3>1, <3>2
    <3>4. native' = native
      BY <1>4 DEF ConfirmMessage
    <3> QED BY <3>3, <3>4 DEF Has
  <2> QED BY <2>3, <2>4, <2>5, Marks
<1> QED BY <1>0, <1>3, <1>4, MarkSteps
-----------------------------------------------------------------------------
(* Reviews *)

\* A review that is past its decision was past it before, or has just decided.
LEMMA Deciding ==
    ASSUME TypeOK, LockInv, [Next]_vars, NEW c \in Calls,
           Synchronised(c)', pc'[c] # "decide", ~(Synchronised(c) /\ pc[c] # "decide")
    PROVE  session' = session /\ session.status # "reviewed"
<1>0. pc \in [Calls -> Steps] /\ job \in Jobs
  BY DEF TypeOK
<1> USE <1>0 DEF Steps, Locked, Synchronised
<1>1. ASSUME NEW d \in Calls, CreateSession(d) \/ SubmitEvidence(d) \/ SubmitAnswer(d) \/ AskReview(d)
      PROVE  FALSE
  BY <1>1 DEF CreateSession, SubmitEvidence, SubmitAnswer, AskReview, AskManager
<1>2. ASSUME NEW d \in Calls, PublishImage(d) \/ ConfirmMessage(d) \/ SendMessage(d) \/ AgentStep(d)
      PROVE  FALSE
  <2>1. pc' = pc /\ job'.ran = job.ran
    BY <1>2 DEF PublishImage, ConfirmMessage, SendMessage, AgentStep, Emit, Jobs
  <2> QED BY <2>1
<1>3. ASSUME NEW d \in Calls, SessionBusy(d) PROVE FALSE
  BY <1>3 DEF SessionBusy, Finish
<1>4. ASSUME NEW d \in Calls, OpenConversation(d) PROVE FALSE
  <2>1. job'.ran = FALSE
    BY <1>4 DEF OpenConversation, NoJob
  <2> QED BY <1>4, <2>1 DEF OpenConversation, Goto
<1>5. ASSUME NEW d \in Calls, Reconcile(d) PROVE FALSE
  BY <1>5, OneHolder DEF Reconcile, Goto
<1>6. ASSUME NEW d \in Calls, Prepare(d) PROVE FALSE
  <2>1. /\ pc' = [pc EXCEPT ![d] = "sync"] /\ pc[d] = "prepare"
    BY <1>6 DEF Prepare, Goto
  <2> QED BY <2>1, OneHolder
<1>7. ASSUME NEW d \in Calls, SyncDone(d) PROVE FALSE
  <2>1. /\ pc[d] = "sync" /\ pc'[d] \in {"decide", "prepare", "idle"}
        /\ \A e \in Calls \ {d} : pc'[e] = pc[e]
    BY <1>7 DEF SyncDone, Release, Finish, Goto
  <2> QED BY <2>1, OneHolder
<1>8. ASSUME NEW d \in Calls, LoadScoringFacts(d)
      PROVE  session' = session /\ session.status # "reviewed"
  <2>1. CASE session.status = "reviewed"
    <3>1. pc[d] = "decide" /\ pc' = [pc EXCEPT ![d] = "idle"]
      BY <1>8, <2>1 DEF LoadScoringFacts, Release, Finish
    <3> QED BY <3>1, OneHolder
  <2> QED BY <1>8, <2>1 DEF LoadScoringFacts, db
<1>9. ASSUME NEW d \in Calls, PersistQuestion(d) \/ PersistReview(d) \/ CallFails(d) PROVE FALSE
  <2>1. pc[d] \in Locked /\ pc' = [pc EXCEPT ![d] = "idle"]
    BY <1>9 DEF PersistQuestion, PersistReview, CallFails, Release, Finish
  <2> QED BY <2>1, OneHolder
<1>10. ASSUME NEW d \in Calls, ExtractNothing(d) PROVE FALSE
  <2>1. /\ pc[d] = "extract" /\ pc'[d] \in {"idle", "agent"}
        /\ \A e \in Calls \ {d} : pc'[e] = pc[e]
    BY <1>10 DEF ExtractNothing, Release, Finish, Goto
  <2> QED BY <2>1, OneHolder
<1>11. ASSUME NEW d \in Calls, AgentStops(d) PROVE FALSE
  <2>1. pc[d] = "agent" /\ pc' = [pc EXCEPT ![d] = "reconcile"]
    BY <1>11 DEF AgentStops, Goto
  <2> QED BY <2>1, OneHolder
<1>12. ASSUME LogEvent \/ ProjectEvent \/ UNCHANGED vars PROVE FALSE
  <2>1. pc' = pc /\ job' = job
    BY <1>12 DEF LogEvent, ProjectEvent, vars
  <2> QED BY <2>1
<1>13. ASSUME Crash PROVE FALSE
  BY <1>13 DEF Crash
<1> QED BY <1>1, <1>2, <1>3, <1>4, <1>5, <1>6, <1>7, <1>8, <1>9, <1>10, <1>11, <1>12, <1>13
        DEF Next, Serve

\* The step that stores a review lets go of the lock, and nobody else has it.
LEMMA StoringReleases ==
    ASSUME TypeOK, LockInv, NEW c \in Calls, PersistReview(c)
    PROVE  \A d \in Calls : pc'[d] \notin Locked
<1>1. pc[c] = "extract" /\ pc' = [pc EXCEPT ![c] = "idle"] /\ pc \in [Calls -> Steps]
  BY DEF PersistReview, Release, Finish, TypeOK
<1> QED BY <1>1, OneHolder DEF Locked, Steps

\* Every action keeps a review's session open until the review is stored.
LEMMA OpenStep ==
    ASSUME IInv, OpenInv, [Next]_vars
    PROVE  OpenInv'
<1>0. TypeOK /\ LockInv
  BY DEF IInv
<1> SUFFICES ASSUME NEW c \in Calls, Synchronised(c)', pc'[c] # "decide"
             PROVE  session'.status # "reviewed"
  BY DEF OpenInv
<1>1. CASE Synchronised(c) /\ pc[c] # "decide"
  <2>1. session.status # "reviewed"
    BY <1>1 DEF OpenInv
  <2>2. ASSUME NEW d \in Calls, PersistReview(d) PROVE FALSE
    BY <1>0, <2>2, StoringReleases DEF Synchronised, Locked, Steps
  <2> QED BY <1>0, <2>1, <2>2, SessionSteps DEF AddsVerdict
<1>2. CASE ~(Synchronised(c) /\ pc[c] # "decide")
  BY <1>0, <1>2, Deciding
<1> QED BY <1>1, <1>2

\* Reviews are added by two steps only.
LEMMA ReviewSteps ==
    ASSUME [Next]_vars
    PROVE  reviews' = reviews \/ \E c \in Calls : PersistQuestion(c) \/ PersistReview(c)
<1>1. ASSUME NEW c \in Calls,
             \/ CreateSession(c) \/ SubmitEvidence(c) \/ SubmitAnswer(c) \/ PublishImage(c)
             \/ AskReview(c) \/ SessionBusy(c)
             \/ OpenConversation(c) \/ Reconcile(c) \/ Prepare(c) \/ SendMessage(c) \/ ConfirmMessage(c)
             \/ SyncDone(c) \/ LoadScoringFacts(c) \/ ExtractNothing(c) \/ AgentStep(c) \/ AgentStops(c)
             \/ CallFails(c)
      PROVE  reviews' = reviews
  BY <1>1 DEF CreateSession, SubmitEvidence, SubmitAnswer, PublishImage, AskReview, SessionBusy,
       OpenConversation, Reconcile, Prepare, SendMessage, ConfirmMessage, SyncDone, LoadScoringFacts,
       ExtractNothing, AgentStep, AgentStops, CallFails, Emit, db
<1>2. ASSUME LogEvent \/ ProjectEvent \/ Crash \/ UNCHANGED vars PROVE reviews' = reviews
  BY <1>2 DEF LogEvent, ProjectEvent, Crash, vars, db
<1> QED BY <1>1, <1>2 DEF Next, Serve

\* Every action keeps the reviews of questions with their questions.
LEMMA AskedStep ==
    ASSUME IInv, AskedInv, [Next]_vars
    PROVE  AskedInv'
<1>0. TypeOK
  BY DEF IInv
<1> SUFFICES ASSUME NEW r \in reviews', r.status = "awaiting_user"
             PROVE  \E i \in DOMAIN native' : native'[i].id = r.source /\ native'[i].kind = "question"
  BY DEF AskedInv
<1>1. CASE r \in reviews
  BY <1>1, LogKeeps DEF AskedInv
<1>2. CASE r \notin reviews
  <2>1. PICK c \in Calls : PersistQuestion(c)
    <3>1. ASSUME NEW c \in Calls, PersistReview(c) PROVE FALSE
      BY <1>2, <3>1 DEF PersistReview, AddReview
    <3> QED BY <1>2, <3>1, ReviewSteps
  <2> DEFINE k == Latest(Standing("question"))
  <2>2. Standing("question") # {} /\ native' = native /\ AddReview("awaiting_user", native[k].id)
    BY <2>1 DEF PersistQuestion, AwaitsLearner
  <2>3. k \in Standing("question")
    BY <1>0, <2>2, StandingLatest
  <2> HIDE DEF k
  <2>4. k \in DOMAIN native /\ native[k].kind = "question" /\ r.source = native[k].id
    BY <1>2, <2>2, <2>3 DEF Standing, AddReview
  <2> QED BY <2>2, <2>4
<1> QED BY <1>1, <1>2
-----------------------------------------------------------------------------
(* The audit log *)

Marked(s, type) == {i \in DOMAIN s : s[i].type = type}

\* What appending an entry does to the entries of a type.
LEMMA Appended ==
    ASSUME NEW s \in Seq(Entries), NEW e \in Entries
    PROVE  /\ Append(s, e) \in Seq(Entries) /\ Len(s) \in Nat /\ DOMAIN s = 1..Len(s)
           /\ DOMAIN Append(s, e) = 1..(Len(s) + 1)
           /\ \A i \in 1..Len(s) : Append(s, e)[i] = s[i]
           /\ Append(s, e)[Len(s) + 1] = e
           /\ Marked(Append(s, e), e.type) = Marked(s, e.type) \cup {Len(s) + 1}
           /\ \A type : type # e.type => Marked(Append(s, e), type) = Marked(s, type)
<1>1. Append(s, e) \in Seq(Entries) /\ Len(Append(s, e)) = Len(s) + 1
  BY AppendProperties
<1>2. /\ Len(s) \in Nat /\ DOMAIN s = 1..Len(s) /\ DOMAIN Append(s, e) = 1..(Len(s) + 1)
      /\ \A i \in 1..Len(s) : Append(s, e)[i] = s[i]
      /\ Append(s, e)[Len(s) + 1] = e
  BY <1>1, AppendProperties, LenProperties
<1>3. Marked(Append(s, e), e.type) = Marked(s, e.type) \cup {Len(s) + 1}
  BY <1>2 DEF Marked
<1>4. ASSUME NEW type, type # e.type PROVE Marked(Append(s, e), type) = Marked(s, type)
  BY <1>2, <1>4 DEF Marked
<1> QED BY <1>1, <1>2, <1>3, <1>4

\* A step of the audit log: an entry for an event that had none, or those of a new
\* session or of a review.
Projects == \E id \in Nat : ~HasSource(id) /\ audit' = Append(audit, [type |-> "native", src |-> id])
Creates == audit' = Append(audit, [type |-> "created", src |-> 0])

\* These are the steps that write it.
LEMMA AuditSteps ==
    ASSUME TypeOK, [Next]_vars
    PROVE  audit' = audit \/ Projects \/ Creates \/ \E c \in Calls : PersistReview(c)
<1>1. ASSUME NEW c \in Calls, CreateSession(c) PROVE Creates
  BY <1>1 DEF CreateSession, Creates
<1>2. ASSUME NEW c \in Calls, Reconcile(c) PROVE audit' = audit \/ Projects
  <2>1. CASE Unprojected # {}
    <3> DEFINE k == Least(Unprojected)
    <3>0. Unprojected \in SUBSET Nat
      BY EventTypes DEF Unprojected
    <3>1. k \in Unprojected
      BY <2>1, <3>0, LeastExists
    <3>2. audit' = Append(audit, [type |-> "native", src |-> native[k].id])
      BY <1>2, <2>1 DEF Reconcile
    <3> HIDE DEF k
    <3>3. native[k].id \in Nat /\ ~HasSource(native[k].id)
      BY <3>1, EventTypes DEF Unprojected
    <3> QED BY <3>2, <3>3 DEF Projects
  <2>2. CASE Unprojected = {}
    BY <1>2, <2>2 DEF Reconcile
  <2> QED BY <2>1, <2>2
<1>3. ASSUME ProjectEvent PROVE audit' = audit \/ Projects
  <2>1. wire.ev \in Events
    BY WireTypes DEF TypeOK
  <2>2. wire.ev.id \in Nat
    BY <2>1 DEF Events
  <2> QED BY <1>3, <2>2 DEF ProjectEvent, Projects
<1>4. ASSUME NEW c \in Calls,
             \/ SubmitEvidence(c) \/ SubmitAnswer(c) \/ PublishImage(c) \/ AskReview(c) \/ SessionBusy(c)
             \/ OpenConversation(c) \/ Prepare(c) \/ SendMessage(c) \/ ConfirmMessage(c)
             \/ SyncDone(c) \/ LoadScoringFacts(c) \/ PersistQuestion(c) \/ ExtractNothing(c)
             \/ AgentStep(c) \/ AgentStops(c) \/ CallFails(c)
      PROVE  audit' = audit
  BY <1>4 DEF SubmitEvidence, SubmitAnswer, PublishImage, AskReview, SessionBusy,
       OpenConversation, Prepare, SendMessage, ConfirmMessage, SyncDone, LoadScoringFacts,
       PersistQuestion, ExtractNothing, AgentStep, AgentStops, CallFails, Emit
<1>5. ASSUME LogEvent \/ Crash \/ UNCHANGED vars PROVE audit' = audit
  BY <1>5 DEF LogEvent, Crash, vars
<1> QED BY <1>1, <1>2, <1>3, <1>4, <1>5 DEF Next, Serve

\* The entries a review adds to an audit log that has none of its type.
LEMMA FirstEntries ==
    ASSUME NEW s \in Seq(Entries), NEW id \in Nat, Marked(s, "score") = {}, Marked(s, "review") = {},
           NEW t, t = AppendOnce(AppendOnce(s, [type |-> "score", src |-> id]),
                                 [type |-> "review", src |-> id])
    PROVE  /\ \A type \in {"score", "review"} :
                 \E i \in Marked(t, type) : Marked(t, type) = {i} /\ t[i].src = id
           /\ DOMAIN s \subseteq DOMAIN t /\ \A i \in DOMAIN s : t[i] = s[i]
           /\ \A type : type \notin {"score", "review"} => Marked(t, type) = Marked(s, type)
<1> DEFINE S == [type |-> "score", src |-> id]
           R == [type |-> "review", src |-> id]
           u == Append(s, S)
<1>0. S \in Entries /\ R \in Entries /\ S.type = "score" /\ R.type = "review" /\ S.src = id /\ R.src = id
  BY EntryTypes
<1> HIDE DEF S, R
<1>1. AppendOnce(s, S) = u
  BY <1>0 DEF AppendOnce, Marked
<1>2. /\ u \in Seq(Entries) /\ Len(s) \in Nat /\ DOMAIN s = 1..Len(s) /\ DOMAIN u = 1..(Len(s) + 1)
      /\ \A i \in 1..Len(s) : u[i] = s[i]
      /\ u[Len(s) + 1] = S
      /\ Marked(u, "score") = Marked(s, "score") \cup {Len(s) + 1}
      /\ \A type : type # "score" => Marked(u, type) = Marked(s, type)
  BY <1>0, Appended
<1> HIDE DEF u
<1>3. AppendOnce(u, R) = Append(u, R)
  BY <1>0, <1>2 DEF AppendOnce, Marked
<1>4. t = Append(u, R)
  BY <1>1, <1>3 DEF S, R
<1>5. /\ Len(u) \in Nat /\ DOMAIN u = 1..Len(u) /\ DOMAIN t = 1..(Len(u) + 1)
      /\ \A i \in 1..Len(u) : t[i] = u[i]
      /\ t[Len(u) + 1] = R
      /\ Marked(t, "review") = Marked(u, "review") \cup {Len(u) + 1}
      /\ \A type : type # "review" => Marked(t, type) = Marked(u, type)
  <2>1. u \in Seq(Entries) /\ R \in Entries
    BY <1>0, <1>2
  <2>2. /\ Len(u) \in Nat /\ DOMAIN u = 1..Len(u) /\ DOMAIN Append(u, R) = 1..(Len(u) + 1)
        /\ \A i \in 1..Len(u) : Append(u, R)[i] = u[i]
        /\ Append(u, R)[Len(u) + 1] = R
        /\ Marked(Append(u, R), R.type) = Marked(u, R.type) \cup {Len(u) + 1}
        /\ \A type : type # R.type => Marked(Append(u, R), type) = Marked(u, type)
    BY <2>1, Appended
  <2> QED BY <1>0, <1>4, <2>2
<1>6. Len(s) + 1 \in DOMAIN u
  BY <1>2
<1>7. Marked(t, "score") = {Len(s) + 1} /\ t[Len(s) + 1].src = id
  BY <1>0, <1>2, <1>5, <1>6
<1>8. Marked(t, "review") = {Len(u) + 1} /\ t[Len(u) + 1].src = id
  BY <1>0, <1>2, <1>5
<1>9. DOMAIN s \subseteq DOMAIN t /\ \A i \in DOMAIN s : t[i] = s[i]
  BY <1>2, <1>5
<1>10. ASSUME NEW type, type \notin {"score", "review"} PROVE Marked(t, type) = Marked(s, type)
  BY <1>2, <1>5, <1>10
<1> QED BY <1>7, <1>8, <1>9, <1>10

Completed == {r \in reviews : r.status = "completed"}

\* The story the records tell, apart.
LEMMA Story ==
    /\ VerdictRecordsAgree <=>
          IF session.status = "reviewed"
            THEN /\ Completed = {[source |-> session.source, status |-> "completed"]}
                 /\ \A type \in {"score", "review"} :
                       \E i \in Marked(audit, type) : Marked(audit, type) = {i} /\ audit[i].src = session.source
            ELSE Completed = {} /\ Marked(audit, "score") = {} /\ Marked(audit, "review") = {}
    /\ VerdictRecordsAgree' <=>
          IF session'.status = "reviewed"
            THEN /\ Completed' = {[source |-> session'.source, status |-> "completed"]}
                 /\ \A type \in {"score", "review"} :
                       \E i \in Marked(audit', type) : Marked(audit', type) = {i} /\ audit'[i].src = session'.source
            ELSE Completed' = {} /\ Marked(audit', "score") = {} /\ Marked(audit', "review") = {}
BY DEF VerdictRecordsAgree, Completed, Marked

\* No other step adds a completed review, a score or a review.completed.
LEMMA OtherRecords ==
    ASSUME TypeOK, [Next]_vars, ~\E c \in Calls : PersistReview(c)
    PROVE  /\ Completed' = Completed
           /\ \A type \in {"score", "review"} :
                 /\ Marked(audit', type) = Marked(audit, type)
                 /\ \A i \in Marked(audit, type) : audit'[i] = audit[i]
<1>1. Completed' = Completed
  <2>1. CASE reviews' = reviews
    BY <2>1 DEF Completed
  <2>2. ASSUME NEW c \in Calls, PersistQuestion(c) PROVE Completed' = Completed
    BY <2>2 DEF PersistQuestion, AddReview, Completed
  <2> QED BY <2>1, <2>2, ReviewSteps
<1>2. ASSUME NEW e \in Entries, audit' = Append(audit, e), e.type \notin {"score", "review"},
             NEW type \in {"score", "review"}
      PROVE  /\ Marked(audit', type) = Marked(audit, type)
             /\ \A i \in Marked(audit, type) : audit'[i] = audit[i]
  <2>1. audit \in Seq(Entries)
    BY DEF TypeOK
  <2>2. Marked(audit, type) \subseteq DOMAIN audit
    BY DEF Marked
  <2> QED BY <1>2, <2>1, <2>2, Appended
<1>3. CASE audit' = audit
  BY <1>1, <1>3
<1>4. CASE Creates
  <2>1. [type |-> "created", src |-> 0] \in Entries /\ [type |-> "created", src |-> 0].type = "created"
    BY EntryTypes
  <2> QED BY <1>1, <1>2, <1>4, <2>1 DEF Creates
<1>5. CASE Projects
  <2>1. PICK id \in Nat : audit' = Append(audit, [type |-> "native", src |-> id])
    BY <1>5 DEF Projects
  <2>2. [type |-> "native", src |-> id] \in Entries /\ [type |-> "native", src |-> id].type = "native"
    BY EntryTypes
  <2> QED BY <1>1, <1>2, <2>1, <2>2
<1> QED BY <1>3, <1>4, <1>5, AuditSteps

\* The step that stores a review, of a session that has none.
LEMMA StoresReview ==
    ASSUME IInv, OpenInv, AskedInv, VerdictRecordsAgree, NEW c \in Calls, PersistReview(c)
    PROVE  \E id \in Nat :
              /\ session'.status = "reviewed" /\ session'.source = id
              /\ Completed = {} /\ Marked(audit, "score") = {} /\ Marked(audit, "review") = {}
              /\ reviews' = reviews \cup {[source |-> id, status |-> "completed"]}
              /\ audit' = AppendOnce(AppendOnce(audit, [type |-> "score", src |-> id]),
                                     [type |-> "review", src |-> id])
<1>0. TypeOK /\ IdInv /\ session \in Rows /\ reviews \subseteq ReviewRows
  BY DEF IInv, TypeOK
<1>1. session.status # "reviewed"
  BY DEF OpenInv, PersistReview, Synchronised
<1>2. Completed = {} /\ Marked(audit, "score") = {} /\ Marked(audit, "review") = {}
  BY <1>1, Story
<1> DEFINE d == Latest(Standing("draft"))
<1>3. Standing("draft") # {} /\ AddReview("completed", native[d].id)
      /\ audit' = AppendOnce(AppendOnce(audit, [type |-> "score", src |-> native[d].id]),
                             [type |-> "review", src |-> native[d].id])
  BY DEF PersistReview, CanComplete
<1>4. d \in Standing("draft")
  BY <1>0, <1>3, StandingLatest
<1> HIDE DEF d
<1>5. d \in DOMAIN native /\ native[d].kind = "draft" /\ native[d].id \in Nat
  BY <1>0, <1>4, EventTypes DEF Standing
<1>6. ~\E r \in reviews : r.source = native[d].id
  <2> SUFFICES ASSUME NEW r \in reviews, r.source = native[d].id PROVE FALSE
    OBVIOUS
  <2>1. r.status = "completed" \/ r.status = "awaiting_user"
    BY <1>0 DEF ReviewRows
  <2>2. CASE r.status = "completed"
    BY <1>2, <2>2 DEF Completed
  <2>3. CASE r.status = "awaiting_user"
    <3>1. PICK i \in DOMAIN native : native[i].id = r.source /\ native[i].kind = "question"
      BY <2>3 DEF AskedInv
    <3>2. i = d
      BY <1>0, <1>5, <3>1 DEF IdInv
    <3> QED BY <1>5, <3>1, <3>2
  <2> QED BY <2>1, <2>2, <2>3
<1>7. /\ reviews' = reviews \cup {[source |-> native[d].id, status |-> "completed"]}
      /\ session' = [session EXCEPT !.status = "reviewed", !.source = native[d].id]
  BY <1>1, <1>3, <1>6 DEF AddReview
<1>8. session'.status = "reviewed" /\ session'.source = native[d].id
  BY <1>0, <1>7 DEF Rows
<1> QED BY <1>2, <1>3, <1>5, <1>7, <1>8

\* Every action keeps the records of a verdict together.
LEMMA RecordsStep ==
    ASSUME IInv, OpenInv, AskedInv, VerdictRecordsAgree, [Next]_vars
    PROVE  VerdictRecordsAgree'
<1>0. TypeOK /\ audit \in Seq(Entries)
  BY DEF IInv, TypeOK
<1>1. ASSUME NEW c \in Calls, PersistReview(c) PROVE VerdictRecordsAgree'
  <2>1. PICK id \in Nat :
              /\ session'.status = "reviewed" /\ session'.source = id
              /\ Completed = {} /\ Marked(audit, "score") = {} /\ Marked(audit, "review") = {}
              /\ reviews' = reviews \cup {[source |-> id, status |-> "completed"]}
              /\ audit' = AppendOnce(AppendOnce(audit, [type |-> "score", src |-> id]),
                                     [type |-> "review", src |-> id])
    BY <1>1, StoresReview
  <2>2. Completed' = {[source |-> id, status |-> "completed"]}
    BY <2>1 DEF Completed
  <2>3. \A type \in {"score", "review"} :
           \E i \in Marked(audit', type) : Marked(audit', type) = {i} /\ audit'[i].src = id
    BY <1>0, <2>1, FirstEntries
  <2> QED BY <2>1, <2>2, <2>3, Story
<1>2. CASE ~\E c \in Calls : PersistReview(c)
  <2>1. \/ session'.status = session.status /\ session'.source = session.source
        \/ session.status # "reviewed" /\ session'.status # "reviewed"
    BY <1>0, <1>2, SessionSteps DEF AddsVerdict
  <2>2. /\ Completed' = Completed
        /\ \A type \in {"score", "review"} :
              /\ Marked(audit', type) = Marked(audit, type)
              /\ \A i \in Marked(audit, type) : audit'[i] = audit[i]
    BY <1>0, <1>2, OtherRecords
  <2>3. CASE session.status # "reviewed"
    BY <2>1, <2>2, <2>3, Story
  <2>4. CASE session.status = "reviewed"
    <3>1. Completed = {[source |-> session.source, status |-> "completed"]}
      BY <2>4, Story
    <3>2. ASSUME NEW type \in {"score", "review"}
          PROVE  \E i \in Marked(audit', type) : Marked(audit', type) = {i} /\ audit'[i].src = session'.source
      <4>1. PICK i \in Marked(audit, type) : Marked(audit, type) = {i} /\ audit[i].src = session.source
        BY <2>4, Story
      <4> QED BY <2>1, <2>2, <2>4, <4>1
    <3> QED BY <2>1, <2>2, <2>4, <3>1, <3>2, Story
  <2> QED BY <2>3, <2>4
<1> QED BY <1>1, <1>2

\* Every action keeps the native entries single.
LEMMA ProjectedStep ==
    ASSUME IInv, OpenInv, AskedInv, VerdictRecordsAgree, ProjectedOnce, [Next]_vars
    PROVE  ProjectedOnce'
<1>0. TypeOK /\ audit \in Seq(Entries)
  BY DEF IInv, TypeOK
<1>1. CASE audit' = audit
  BY <1>1 DEF ProjectedOnce
<1>2. CASE Creates
  <2> DEFINE e == [type |-> "created", src |-> 0]
  <2>1. e \in Entries /\ e.type # "native"
    BY EntryTypes
  <2>2. audit' = Append(audit, e)
    BY <1>2 DEF Creates
  <2> HIDE DEF e
  <2> QED BY <1>0, <2>1, <2>2, Appended DEF ProjectedOnce
<1>3. CASE Projects
  <2>1. PICK id \in Nat : ~HasSource(id) /\ audit' = Append(audit, [type |-> "native", src |-> id])
    BY <1>3 DEF Projects
  <2> DEFINE e == [type |-> "native", src |-> id]
  <2>2. e \in Entries /\ e.type = "native" /\ e.src = id
    BY EntryTypes
  <2>3. audit' = Append(audit, e)
    BY <2>1
  <2> HIDE DEF e
  <2>4. \A i \in DOMAIN audit : audit[i] # e
    BY <2>1, <2>2 DEF HasSource
  <2> QED BY <1>0, <2>2, <2>3, <2>4, Appended DEF ProjectedOnce
<1>4. ASSUME NEW c \in Calls, PersistReview(c) PROVE ProjectedOnce'
  <2>1. PICK id \in Nat :
              /\ Marked(audit, "score") = {} /\ Marked(audit, "review") = {}
              /\ audit' = AppendOnce(AppendOnce(audit, [type |-> "score", src |-> id]),
                                     [type |-> "review", src |-> id])
    BY <1>4, StoresReview
  <2>2. /\ \A i \in DOMAIN audit : audit'[i] = audit[i]
        /\ \A type : type \notin {"score", "review"} => Marked(audit', type) = Marked(audit, type)
    BY <1>0, <2>1, FirstEntries
  <2>3. Marked(audit', "native") = Marked(audit, "native")
    BY <2>2
  <2> QED BY <2>2, <2>3 DEF ProjectedOnce, Marked
<1> QED BY <1>0, <1>1, <1>2, <1>3, <1>4, AuditSteps

\* No entry of the audit log goes.
LEMMA SourcesKept ==
    ASSUME IInv, OpenInv, AskedInv, VerdictRecordsAgree, [Next]_vars, NEW id, HasSource(id)
    PROVE  HasSource(id)'
<1>0. TypeOK /\ audit \in Seq(Entries)
  BY DEF IInv, TypeOK
<1>1. PICK i \in DOMAIN audit : audit[i].type = "native" /\ audit[i].src = id
  BY DEF HasSource
<1>2. CASE audit' = audit
  BY <1>1, <1>2 DEF HasSource
<1>3. ASSUME NEW e \in Entries, audit' = Append(audit, e) PROVE HasSource(id)'
  BY <1>0, <1>1, <1>3, Appended DEF HasSource
<1>4. CASE Creates
  BY <1>3, <1>4, EntryTypes DEF Creates
<1>5. CASE Projects
  <2>1. PICK n \in Nat : audit' = Append(audit, [type |-> "native", src |-> n])
    BY <1>5 DEF Projects
  <2> QED BY <1>3, <2>1, EntryTypes
<1>6. ASSUME NEW c \in Calls, PersistReview(c) PROVE HasSource(id)'
  <2>1. PICK n \in Nat :
              /\ Marked(audit, "score") = {} /\ Marked(audit, "review") = {}
              /\ audit' = AppendOnce(AppendOnce(audit, [type |-> "score", src |-> n]),
                                     [type |-> "review", src |-> n])
    BY <1>6, StoresReview
  <2>2. DOMAIN audit \subseteq DOMAIN audit' /\ \A k \in DOMAIN audit : audit'[k] = audit[k]
    BY <1>0, <2>1, FirstEntries
  <2> QED BY <1>1, <2>2 DEF HasSource
<1> QED BY <1>0, <1>2, <1>4, <1>5, <1>6, AuditSteps

\* A run that is over, or a restore that is: the log is about to be read.
Reads(c) == \/ pc[c] = "prepare" /\ job.pass = "restored"
            \/ pc[c] = "extract" /\ job.ran
Over(c) == job.ran /\ pc[c] \in Locked => pc[c] \in {"reconcile", "extract"}
Reconciled == native' = native /\ audit' = audit /\ Unprojected = {}

\* What a call that has just come to read has reconciled.
LEMMA Reading ==
    ASSUME TypeOK, LockInv, [Next]_vars, \A c \in Calls : Over(c), NEW c \in Calls
    PROVE  Over(c)' /\ (Reads(c)' => Reads(c) \/ Reconciled)
<1>0. pc \in [Calls -> Steps] /\ job \in Jobs /\ NoJob.ran = FALSE /\ NoJob \in Jobs
  BY JobTypes DEF TypeOK, NoJob
<1>j. \A j \in Jobs : /\ \A S : [j EXCEPT !.todo = S].ran = j.ran /\ [j EXCEPT !.todo = S].pass = j.pass
                      /\ \A f : [j EXCEPT !.facts = f].ran = j.ran
                      /\ \A p : [j EXCEPT !.pass = p].ran = j.ran /\ [j EXCEPT !.pass = p].pass = p
  BY DEF Jobs
<1> DEFINE Goal == Over(c)' /\ (Reads(c)' => Reads(c) \/ Reconciled)
           Still(d) == pc[d] \in Locked /\ \A e \in Calls \ {d} : pc'[e] = pc[e]
<1>s. ASSUME NEW d \in Calls, Still(d), c # d PROVE pc'[c] \notin Locked
  BY <1>s, OneHolder DEF Locked, Steps
<1>i. pc'[c] \notin Locked => Goal
  BY DEF Over, Reads, Locked, Steps
<1>k. pc'[c] = pc[c] /\ job'.ran = job.ran /\ job'.pass = job.pass => Goal
  BY DEF Over, Reads
<1> HIDE DEF Goal
<1>o. Over(c)
  OBVIOUS
<1> USE <1>0 DEF Steps, Locked
<1>1. ASSUME NEW d \in Calls, CreateSession(d) \/ SubmitEvidence(d) \/ SubmitAnswer(d) \/ AskReview(d)
      PROVE  Goal
  <2>1. job' = job /\ pc' = [pc EXCEPT ![d] = "runtime"]
    BY <1>1 DEF CreateSession, SubmitEvidence, SubmitAnswer, AskReview, AskManager
  <2> QED BY <1>i, <1>k, <2>1
<1>2. ASSUME NEW d \in Calls, PublishImage(d) \/ SendMessage(d) \/ AgentStep(d)
      PROVE  Goal
  <2>1. pc' = pc /\ job' = job
    BY <1>2 DEF PublishImage, SendMessage, AgentStep, Emit
  <2> QED BY <1>k, <2>1
<1>3. ASSUME NEW d \in Calls, SessionBusy(d) PROVE Goal
  <2>1. job' = job /\ pc' = [pc EXCEPT ![d] = "idle"]
    BY <1>3 DEF SessionBusy, Finish
  <2> QED BY <1>i, <1>k, <2>1
<1>4. ASSUME NEW d \in Calls, OpenConversation(d) PROVE Goal
  <2>1. job' = [NoJob EXCEPT !.pass = IF open THEN "first" ELSE "restored"]
    BY <1>4 DEF OpenConversation
  <2>2. job'.ran = FALSE /\ job'.pass = IF open THEN "first" ELSE "restored"
    BY <1>j, <2>1
  <2>3. /\ pc' = [pc EXCEPT ![d] = IF open THEN "prepare" ELSE "reconcile"]
        /\ \A e \in Calls : pc[e] \notin Locked
    BY <1>4, NobodyUnlocked DEF OpenConversation, Goto
  <2>4. CASE c # d
    BY <1>i, <2>3, <2>4
  <2>5. CASE c = d
    BY <2>2, <2>3, <2>5 DEF Goal, Over, Reads
  <2> QED BY <2>4, <2>5
<1>5. ASSUME NEW d \in Calls, Reconcile(d) PROVE Goal
  <2>1. native' = native /\ job' = job
    BY <1>5 DEF Reconcile
  <2>2. CASE Unprojected # {}
    <3>1. pc' = pc
      BY <1>5, <2>2 DEF Reconcile
    <3> QED BY <1>k, <2>1, <3>1
  <2>3. CASE Unprojected = {}
    <3>1. /\ pc' = [pc EXCEPT ![d] = IF job.ran THEN "extract" ELSE "prepare"] /\ audit' = audit
          /\ pc[d] = "reconcile"
      BY <1>5, <2>3 DEF Reconcile, Goto
    <3>2. CASE c = d
      BY <2>1, <2>3, <3>1, <3>2 DEF Goal, Over, Reads, Reconciled
    <3>3. CASE c # d
      BY <1>s, <1>i, <3>1, <3>3
    <3> QED BY <3>2, <3>3
  <2> QED BY <2>2, <2>3
<1>6. ASSUME NEW d \in Calls, Prepare(d) PROVE Goal
  <2>1. pc' = [pc EXCEPT ![d] = "sync"] /\ pc[d] = "prepare"
    BY <1>6 DEF Prepare, Goto
  <2>0. PICK S : job' = [job EXCEPT !.todo = PendingMessages \ S]
    BY <1>6 DEF Prepare
  <2>4. job'.ran = job.ran
    BY <1>j, <2>0
  <2>2. CASE c = d
    BY <1>o, <2>1, <2>2, <2>4 DEF Goal, Over, Reads
  <2>3. CASE c # d
    BY <1>s, <1>i, <2>1, <2>3
  <2> QED BY <2>2, <2>3
<1>7. ASSUME NEW d \in Calls, SyncDone(d) PROVE Goal
  <2>1. /\ pc[d] = "sync" /\ pc'[d] \in {"decide", "prepare", "idle"}
        /\ \A e \in Calls \ {d} : pc'[e] = pc[e]
        /\ pc'[d] # "idle" => job' = [job EXCEPT !.pass = "later"]
    BY <1>7 DEF SyncDone, Release, Finish, Goto
  <2>0. [job EXCEPT !.pass = "later"].ran = job.ran /\ [job EXCEPT !.pass = "later"].pass = "later"
    BY <1>j
  <2>2. pc'[d] # "idle" => job'.ran = job.ran /\ job'.pass = "later"
    BY <2>0, <2>1
  <2>3. CASE c = d
    BY <1>o, <2>1, <2>2, <2>3 DEF Goal, Over, Reads
  <2>4. CASE c # d
    BY <1>s, <1>i, <2>1, <2>4
  <2> QED BY <2>3, <2>4
<1>8. ASSUME NEW d \in Calls, LoadScoringFacts(d) PROVE Goal
  <2>1. /\ pc[d] = "decide" /\ pc'[d] \in {"extract", "idle"}
        /\ \A e \in Calls \ {d} : pc'[e] = pc[e]
        /\ pc'[d] # "idle" => job' = [job EXCEPT !.facts = Facts]
    BY <1>8 DEF LoadScoringFacts, Release, Finish, Goto
  <2>0. [job EXCEPT !.facts = Facts].ran = job.ran
    BY <1>j
  <2>2. pc'[d] # "idle" => job'.ran = job.ran
    BY <2>0, <2>1
  <2>3. CASE c = d
    BY <1>o, <2>1, <2>2, <2>3 DEF Goal, Over, Reads
  <2>4. CASE c # d
    BY <1>s, <1>i, <2>1, <2>4
  <2> QED BY <2>3, <2>4
<1>9. ASSUME NEW d \in Calls, PersistQuestion(d) \/ PersistReview(d) \/ CallFails(d) PROVE Goal
  <2>1. pc[d] \in Locked /\ pc' = [pc EXCEPT ![d] = "idle"]
    BY <1>9 DEF PersistQuestion, PersistReview, CallFails, Release, Finish
  <2>2. pc'[c] \notin Locked
    BY <1>s, <2>1
  <2> QED BY <1>i, <2>2
<1>10. ASSUME NEW d \in Calls, ExtractNothing(d) PROVE Goal
  <2>1. /\ pc[d] = "extract" /\ pc'[d] \in {"idle", "agent"}
        /\ \A e \in Calls \ {d} : pc'[e] = pc[e]
        /\ pc'[d] # "idle" => job' = job /\ ~job.ran
    BY <1>10 DEF ExtractNothing, Release, Finish, Goto
  <2>2. CASE c = d
    BY <2>1, <2>2 DEF Goal, Over, Reads
  <2>3. CASE c # d
    BY <1>s, <1>i, <2>1, <2>3
  <2> QED BY <2>2, <2>3
<1>11. ASSUME NEW d \in Calls, AgentStops(d) PROVE Goal
  <2>1. pc[d] = "agent" /\ pc' = [pc EXCEPT ![d] = "reconcile"]
    BY <1>11 DEF AgentStops, Goto
  <2>2. CASE c = d
    BY <2>1, <2>2 DEF Goal, Over, Reads
  <2>3. CASE c # d
    BY <1>s, <1>i, <2>1, <2>3
  <2> QED BY <2>2, <2>3
<1>12. ASSUME LogEvent \/ ProjectEvent \/ UNCHANGED vars PROVE Goal
  <2>1. pc' = pc /\ job' = job
    BY <1>12 DEF LogEvent, ProjectEvent, vars
  <2> QED BY <1>k, <2>1
<1>13. ASSUME Crash PROVE Goal
  BY <1>13, <1>i DEF Crash
<1>14. ASSUME NEW d \in Calls, ConfirmMessage(d) PROVE Goal
  <2>1. PICK m \in job.todo : job' = [job EXCEPT !.todo = @ \ {m}]
    BY <1>14 DEF ConfirmMessage
  <2>2. job'.ran = job.ran /\ job'.pass = job.pass
    BY <1>j, <2>1
  <2> QED BY <1>k, <1>14, <2>2 DEF ConfirmMessage
<1> QED BY <1>1, <1>2, <1>3, <1>4, <1>5, <1>6, <1>7, <1>8, <1>9, <1>10, <1>11, <1>12, <1>13, <1>14
        DEF Next, Serve, Goal

\* Every action keeps the audit log caught up where it is read.
LEMMA CaughtUpStep ==
    ASSUME IInv, OpenInv, AskedInv, VerdictRecordsAgree, CaughtUpInv, [Next]_vars
    PROVE  CaughtUpInv'
<1>0. TypeOK /\ LockInv /\ \A c \in Calls : Over(c)
  BY DEF IInv, CaughtUpInv, Over
<1>1. \A c \in Calls : Over(c)'
  BY <1>0, Reading
<1>2. ASSUME NEW c \in Calls, Reads(c)' PROVE (Unprojected = {})'
  <2>1. CASE Reconciled
    BY <2>1 DEF Reconciled, Unprojected, HasSource
  <2>2. CASE Reads(c)
    <3>1. Unprojected = {}
      BY <2>2 DEF CaughtUpInv, Reads
    <3>2. native' = native
      <4> SUFFICES ASSUME LogEvent PROVE FALSE
        BY LogGrows
      <4>1. wire # NoWire /\ pc[c] \in Locked /\ pc[c] \notin {"sync", "agent"}
        BY <2>2 DEF LogEvent, Reads, Locked, Steps
      <4> QED BY <1>0, <4>1 DEF LockInv
    <3>3. \A id : HasSource(id) => HasSource(id)'
      BY SourcesKept
    <3> QED BY <3>1, <3>2, <3>3 DEF Unprojected
  <2> QED BY <1>0, <1>2, <2>1, <2>2, Reading
<1> QED BY <1>1, <1>2 DEF CaughtUpInv, Over, Reads
-----------------------------------------------------------------------------
(* The invariant *)

\* The rows and the logs a session may begin with: none, or those of the earlier release.
Began == /\ session.goal = FALSE /\ confirmed = {} /\ native = <<>> /\ audit = <<>>
Migrated(e) ==
    /\ confirmed = {e}
    /\ DOMAIN native = {1, 2}
    /\ native[1].kind = "goal" /\ native[1].of = None /\ native[1].ver = 1
    /\ native[2].kind = "evidence" /\ native[2].of = e /\ native[2].ver = 0
    /\ DOMAIN audit = {1, 2, 3}
    /\ audit[1].type = "created"
    /\ \A i \in {2, 3} : audit[i].type = "native" /\ audit[i].src = i - 1

\* There is no other beginning.
LEMMA Beginnings ==
    ASSUME Init
    PROVE  /\ Began \/ \E e \in Legacy : Migrated(e)
           /\ session.status # "reviewed" /\ reviews = {}
           /\ pc = [c \in Calls |-> "idle"] /\ job.todo = {} /\ job.ran = FALSE /\ ~Coming
           /\ \A q \in Questions : answers[q].synced = FALSE
<1>1. /\ session.status # "reviewed" /\ reviews = {}
      /\ pc = [c \in Calls |-> "idle"] /\ job.todo = {} /\ job.ran = FALSE /\ ~Coming
      /\ \A q \in Questions : answers[q].synced = FALSE
  BY DEF Init, NoJob, Coming
<1>2. CASE /\ session = [status |-> "none", source |-> 0, goal |-> FALSE]
           /\ confirmed = {} /\ native = <<>> /\ audit = <<>>
  BY <1>1, <1>2 DEF Began
<1>3. ASSUME NEW e \in Legacy,
             confirmed = {e}, native = <<Event(GoalMessage, 1), Event(BareMessage(e), 2)>>,
             audit = << [type |-> "created", src |-> 0],
                        [type |-> "native", src |-> 1], [type |-> "native", src |-> 2] >>
      PROVE  Migrated(e)
  <2>1. /\ DOMAIN native = {1, 2}
        /\ native[1].kind = "goal" /\ native[1].of = None /\ native[1].ver = 1
        /\ native[2].kind = "evidence" /\ native[2].of = e /\ native[2].ver = 0
    BY <1>3 DEF Event, GoalMessage, BareMessage, Message
  <2>2. /\ DOMAIN audit = {1, 2, 3} /\ audit[1].type = "created"
        /\ audit[2].type = "native" /\ audit[2].src = 1
        /\ audit[3].type = "native" /\ audit[3].src = 2
    BY <1>3
  <2> QED BY <1>3, <2>1, <2>2 DEF Migrated
<1>4. Began \/ \E e \in Legacy : Migrated(e)
  BY <1>2, <1>3 DEF Init
<1> QED BY <1>1, <1>4

\* Both beginnings satisfy the invariant.
LEMMA RecordsBegin == Init => RInv
<1> SUFFICES ASSUME Init PROVE RInv
  OBVIOUS
<1>1. /\ session.status # "reviewed" /\ reviews = {}
      /\ pc = [c \in Calls |-> "idle"] /\ job.todo = {} /\ job.ran = FALSE /\ ~Coming
      /\ \A q \in Questions : answers[q].synced = FALSE
  BY Beginnings
<1>2. TextInv /\ OpenInv /\ AskedInv /\ CaughtUpInv
  BY <1>1 DEF TextInv, OpenInv, AskedInv, CaughtUpInv, Synchronised
<1>3. IInv
  BY Initially
<1>4. CASE Began
  <2>1. ShapeInv /\ ConfirmedWasDelivered
    BY <1>1, <1>4 DEF Began, ShapeInv, ConfirmedWasDelivered
  <2>2. VerdictRecordsAgree /\ ProjectedOnce
    BY <1>1, <1>4 DEF Began, VerdictRecordsAgree, ProjectedOnce
  <2> QED BY <1>2, <1>3, <2>1, <2>2 DEF RInv
<1>5. ASSUME NEW e \in Legacy, Migrated(e) PROVE RInv
  <2>1. ShapeInv
    BY <1>1, <1>5 DEF Migrated, ShapeInv, Shaped
  <2>2. ConfirmedWasDelivered
    <3>1. Has("goal", None, {1}) /\ Has("evidence", e, {0, 1})
      BY <1>5 DEF Migrated, Has
    <3>2. \A f \in confirmed : Has("evidence", f, {0, 1})
      BY <1>5, <3>1 DEF Migrated
    <3> QED BY <1>1, <3>1, <3>2, Marks
  <2>3. VerdictRecordsAgree
    <3>1. Marked(audit, "score") = {} /\ Marked(audit, "review") = {}
      BY <1>5 DEF Migrated, Marked
    <3> QED BY <1>1, <3>1, Story DEF Completed
  <2>4. ProjectedOnce
    <3> SUFFICES ASSUME NEW i \in DOMAIN audit, NEW j \in DOMAIN audit,
                        audit[i].type = "native", audit[j] = audit[i]
                 PROVE  i = j
      BY DEF ProjectedOnce
    <3>1. i \in {2, 3} /\ j \in {2, 3}
      BY <1>5 DEF Migrated
    <3>2. audit[i].src = i - 1 /\ audit[j].src = j - 1
      BY <1>5, <3>1 DEF Migrated
    <3> QED BY <3>1, <3>2
  <2> QED BY <1>2, <1>3, <2>1, <2>2, <2>3, <2>4 DEF RInv
<1> QED BY <1>4, <1>5, Beginnings

\* The invariant is inductive.
LEMMA RecordsKeep == RInv /\ [Next]_vars => RInv'
<1> SUFFICES ASSUME RInv, [Next]_vars PROVE RInv'
  OBVIOUS
<1>1. IInv' /\ ShapeInv' /\ TextInv' /\ ConfirmedWasDelivered'
  BY InvStep, ShapeStep, TextStep, ConfirmedStep DEF RInv
<1>2. OpenInv' /\ AskedInv' /\ VerdictRecordsAgree'
  BY OpenStep, AskedStep, RecordsStep DEF RInv
<1>3. ProjectedOnce' /\ CaughtUpInv'
  BY ProjectedStep, CaughtUpStep DEF RInv
<1> QED BY <1>1, <1>2, <1>3 DEF RInv

\* It holds of every session.
THEOREM RecordsInvariance == Spec => []RInv
BY RecordsBegin, RecordsKeep, PTL DEF Spec

\* A row is marked as synchronised only when the log holds its message
\* (synchronizer.py:57-109), and the session row, the reviews and the audit events tell
\* one verdict, although a review is retried after failures and crashes
\* (result_extractor.py:184-282, repositories.py:1285-1316).
THEOREM RecordsTrue == Spec => []RecordsAreTrue
<1>1. RInv => RecordsAreTrue
  BY DEF RInv, RecordsAreTrue
<1> QED BY <1>1, RecordsInvariance, PTL

\* When the agent may run, the log holds the text of every text evidence, also of what
\* the earlier release sent without it (synchronizer.py:202-252), and every answer.
THEOREM FactsRead == Spec => []AgentReadsEveryFact
<1>1. RInv => AgentReadsEveryFact
  BY DEF RInv, IInv, TextInv, FactsInv, TextIn, Told, Synchronised, AgentReadsEveryFact
<1> QED BY <1>1, RecordsInvariance, PTL

\* The audit has each event of the log once, and all of them when a conversation has
\* just been restored and when a run's result is read (projector.py:47-81).
THEOREM AuditFaithful == Spec => []AuditIsFaithful
<1>1. ASSUME RInv PROVE AuditIsFaithful
  <2>1. audit \in Seq(Entries) /\ TypeOK
    BY <1>1 DEF RInv, IInv, TypeOK
  <2>2. \A k \in DOMAIN audit : audit[k] \in Entries
    BY <2>1, LenProperties, ElementOfSeq
  <2>3. ASSUME NEW id, HasSource(id)
        PROVE  \E k \in DOMAIN audit : audit[k] = [type |-> "native", src |-> id]
    BY <2>2, <2>3 DEF HasSource, Entries
  <2>4. ASSUME NEW c \in Calls, \/ pc[c] = "prepare" /\ job.pass = "restored"
                                \/ pc[c] = "extract" /\ job.ran,
               NEW i \in DOMAIN native, native[i].kind \notin {"context", "draft"}
        PROVE  HasSource(native[i].id)
    BY <1>1, <2>4 DEF RInv, CaughtUpInv, Unprojected, Projectable
  <2> QED BY <1>1, <2>3, <2>4 DEF RInv, AuditIsFaithful, AuditCaughtUp
<1> QED BY <1>1, RecordsInvariance, PTL
=============================================================================
