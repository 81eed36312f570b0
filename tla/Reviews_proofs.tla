--------------------------- MODULE Reviews_proofs ---------------------------
(*************************************************************************)
(* The safety of reviews, for any sessions, calls, permits, evidence,     *)
(* visual model and goal.                                                *)
(*                                                                       *)
(* First who may run one (ConversationManager). Its inductive invariant   *)
(* adds to the checked ones what the steps rely on: which steps hold the  *)
(* run lock, which make a call active, and that nothing leaves a shutdown *)
(* but through an empty active set.                                       *)
(*                                                                       *)
(* Then what one writes (ReviewVerdict). The inductive invariant says that*)
(* a check which saw an image holds three facts or more, and that the one *)
(* record there may be is that of the last standing draft of a log that   *)
(* grows no more. The properties follow from what such a record is.       *)
(*************************************************************************)
EXTENDS ConversationManager, ReviewVerdict, FiniteSetTheorems, SequenceTheorems,
        WellFoundedInduction, TLAPS

Holding == {"check", "restore", "decide", "admit", "agent", "unlock"}
Registered == {"restore", "decide", "admit", "agent"}

\* The run lock is held by the call that is between its two ends.
LockInv ==
    /\ \A r \in Reviews : rpc[r] \in Holding <=> lock[SessionOf[r]] = r
    /\ \A d \in Senders : spc[d] \in Sessions => lock[spc[d]] = d

ActiveInv == \A r \in Reviews : r \in active <=> rpc[r] \notin {"idle", "done"}

\* A registered call is active, on the session it is registered for.
RunningInv ==
    /\ \A r \in Reviews : rpc[r] \in Registered => running[SessionOf[r]] = r
    /\ \A s \in Sessions : running[s] # None => running[s] \in active /\ SessionOf[running[s]] = s

EarlyInv ==
    \A r \in early : /\ rpc[r] \notin {"idle", "admit", "agent"}
                     /\ rpc[r] # "done" => r \in interrupted

ShutdownInv ==
    /\ accepting => outcome = None /\ \A k \in Closers : kpc[k] = "idle"
    /\ \A k \in Closers : kpc[k] = "close" =>
          active = {} /\ (Senders = {} => handles \subseteq todo[k])
    /\ outcome = "complete" => active = {} /\ (Senders = {} => handles = {})

IInv == TypeOK /\ PermitsAddUp /\ LockInv /\ ActiveInv /\ RunningInv /\ EarlyInv /\ ShutdownInv
-----------------------------------------------------------------------------
Agents == {r \in Reviews : rpc[r] = "agent"}

\* What one element more or less does to the size of a finite set.
LEMMA AddOne ==
    ASSUME NEW S, NEW x, IsFiniteSet(S), x \notin S
    PROVE  Cardinality(S \cup {x}) = Cardinality(S) + 1
BY FS_AddElement

\* One agent less, one element less.
LEMMA RemoveOne ==
    ASSUME NEW S, NEW x, IsFiniteSet(S), x \in S
    PROVE  Cardinality(S \ {x}) = Cardinality(S) - 1 /\ Cardinality(S \ {x}) \in Nat
<1>1. IsFiniteSet(S \ {x}) /\ Cardinality(S \ {x}) = Cardinality(S) - 1
  BY FS_RemoveElement
<1> QED BY <1>1, FS_CardinalityType

\* A call holds a permit exactly while its agent runs: one enters the set as one
\* permit goes, and leaves it as the permit comes back.
LEMMA PermitsStep ==
    ASSUME TypeOK, PermitsAddUp, [Next]_vars
    PROVE  PermitsAddUp' /\ permits' \in 0..MaxConcurrent
<1> USE ManagerAssumption DEF TypeOK, PermitsAddUp, Step, ReviewSteps
<1> DEFINE A == Agents
<1>1. IsFiniteSet(A) /\ Cardinality(A) \in Nat /\ permits + Cardinality(A) = MaxConcurrent
  BY FS_Subset, FS_CardinalityType DEF Agents
<1>0. permits' + Cardinality(A') = MaxConcurrent => PermitsAddUp'
  BY DEF Agents
<1>2. ASSUME NEW r \in Reviews, Admit(r) PROVE PermitsAddUp' /\ permits' \in 0..MaxConcurrent
  <2>1. A' = A \cup {r} /\ r \notin A /\ permits > 0 /\ permits' = permits - 1
    BY <1>2 DEF Admit, Agents
  <2> HIDE DEF A
  <2>2. Cardinality(A') = Cardinality(A) + 1
    BY ONLY <1>1, <2>1, AddOne
  <2> QED BY <1>0, <1>1, <2>1, <2>2
<1>3. ASSUME NEW r \in Reviews, AgentEnds(r) PROVE PermitsAddUp' /\ permits' \in 0..MaxConcurrent
  <2>1. A' = A \ {r} /\ r \in A /\ permits' = permits + 1
    BY <1>3 DEF AgentEnds, Agents
  <2> HIDE DEF A
  <2>2. Cardinality(A') = Cardinality(A) - 1 /\ Cardinality(A') \in Nat
    BY ONLY <1>1, <2>1, RemoveOne
  <2> QED BY <1>0, <1>1, <2>1, <2>2
<1>4. ASSUME permits' = permits, A' = A PROVE PermitsAddUp' /\ permits' \in 0..MaxConcurrent
  BY <1>4 DEF Agents
<1>5. \/ \E r \in Reviews : Admit(r) \/ AgentEnds(r)
      \/ permits' = permits /\ A' = A
  <2>1. ASSUME NEW r \in Reviews, ReviewStep(r), ~Admit(r), ~AgentEnds(r)
        PROVE  permits' = permits /\ A' = A
    BY <2>1 DEF Agents, ReviewStep, TakeRunLock, RunLockTimeout, RegisterRunning, Restore, Decide,
                AdmissionTimeout, Unlock, Leave
  <2>2. ASSUME NEW r \in Reviews, Enter(r) \/ Cancel(r) \/ InterruptConversation(r)
        PROVE  permits' = permits /\ A' = A
    BY <2>2 DEF Agents, Enter, Cancel, InterruptConversation
  <2>3. ASSUME NEW d \in Senders, Submit(d) PROVE permits' = permits /\ A' = A
    BY <2>3 DEF Agents, Submit
  <2>4. ASSUME NEW k \in Closers, StartClosing(k) \/ JoinClosing(k) \/ CloserStep(k)
        PROVE  permits' = permits /\ A' = A
    BY <2>4 DEF Agents, StartClosing, JoinClosing, CloserStep, Drain, CloseHandle, CloseTimeout,
                CompleteClosing, AwaitClosing
  <2> QED BY <2>1, <2>2, <2>3, <2>4 DEF Next, vars, Agents
<1> QED BY <1>2, <1>3, <1>4, <1>5
-----------------------------------------------------------------------------
Inv == LockInv /\ ActiveInv /\ RunningInv /\ EarlyInv /\ ShutdownInv

\* The other parts are inductive together: what is registered depends on who holds
\* the lock, and what a shutdown leaves on who is active.
LEMMA InvStep == TypeOK /\ permits' \in 0..MaxConcurrent /\ Inv /\ [Next]_vars => TypeOK' /\ Inv'
<1> SUFFICES ASSUME TypeOK, permits' \in 0..MaxConcurrent, Inv, [Next]_vars PROVE TypeOK' /\ Inv'
  OBVIOUS
<1> USE ManagerAssumption DEF TypeOK, Inv, LockInv, ActiveInv, RunningInv, EarlyInv, ShutdownInv,
        Holding, Registered, Holders, ReviewSteps, CloserSteps, Step, Closer, shutdown, history, None
<1>1. ASSUME NEW r \in Reviews, Enter(r) PROVE TypeOK' /\ Inv'
  BY <1>1 DEF Enter
<1>2. ASSUME NEW r \in Reviews, TakeRunLock(r) PROVE TypeOK' /\ Inv'
  BY <1>2 DEF TakeRunLock
<1>3. ASSUME NEW r \in Reviews, RunLockTimeout(r) PROVE TypeOK' /\ Inv'
  BY <1>3 DEF RunLockTimeout
<1>4. ASSUME NEW r \in Reviews, RegisterRunning(r) PROVE TypeOK' /\ Inv'
  BY <1>4 DEF RegisterRunning
<1>5. ASSUME NEW r \in Reviews, Restore(r) PROVE TypeOK' /\ Inv'
  BY <1>5 DEF Restore
<1>6. ASSUME NEW r \in Reviews, Decide(r) PROVE TypeOK' /\ Inv'
  BY <1>6 DEF Decide
<1>7. ASSUME NEW r \in Reviews, Admit(r) PROVE TypeOK' /\ Inv'
  BY <1>7 DEF Admit
<1>8. ASSUME NEW r \in Reviews, AdmissionTimeout(r) PROVE TypeOK' /\ Inv'
  BY <1>8 DEF AdmissionTimeout
<1>9. ASSUME NEW r \in Reviews, AgentEnds(r) PROVE TypeOK' /\ Inv'
  BY <1>9 DEF AgentEnds
<1>10. ASSUME NEW r \in Reviews, Unlock(r) PROVE TypeOK' /\ Inv'
  BY <1>10 DEF Unlock
<1>11. ASSUME NEW r \in Reviews, Leave(r) PROVE TypeOK' /\ Inv'
  BY <1>11 DEF Leave, StillMine
<1>12. ASSUME NEW r \in Reviews, Cancel(r) PROVE TypeOK' /\ Inv'
  BY <1>12 DEF Cancel
<1>13. ASSUME NEW r \in Reviews, InterruptConversation(r) PROVE TypeOK' /\ Inv'
  BY <1>13 DEF InterruptConversation, InAgent
<1>14. ASSUME NEW d \in Senders, Submit(d) PROVE TypeOK' /\ Inv'
  BY <1>14 DEF Submit, Send
<1>15. ASSUME NEW k \in Closers, StartClosing(k) PROVE TypeOK' /\ Inv'
  <2>1. \A s : InAgent(s) \subseteq Reviews
    BY DEF InAgent
  <2>2. stopped' \subseteq Reviews
    BY <1>15, <2>1 DEF StartClosing
  <2>3. kpc' \in [Closers -> CloserSteps]
    BY <1>15 DEF StartClosing
  <2>4. interrupted' \subseteq Reviews
    BY <1>15 DEF StartClosing
  <2>5. accepting' \in BOOLEAN
    BY <1>15 DEF StartClosing
  <2>6. UNCHANGED <<active, running, handles, lock, permits, rpc, spc, todo, outcome, caught, early>>
    BY <1>15 DEF StartClosing
  <2>7. TypeOK'
    BY <2>2, <2>3, <2>4, <2>5, <2>6
  <2>8. Inv'
    BY <1>15 DEF StartClosing
  <2> QED BY <2>7, <2>8
<1>16. ASSUME NEW k \in Closers, JoinClosing(k) PROVE TypeOK' /\ Inv'
  BY <1>16 DEF JoinClosing
<1>17. ASSUME NEW k \in Closers, Drain(k) PROVE TypeOK' /\ Inv'
  BY <1>17 DEF Drain, Drained
<1>18. ASSUME NEW k \in Closers, CloseHandle(k) PROVE TypeOK' /\ Inv'
  BY <1>18 DEF CloseHandle
<1>19. ASSUME NEW k \in Closers, CloseTimeout(k) PROVE TypeOK' /\ Inv'
  BY <1>19 DEF CloseTimeout
<1>20. ASSUME NEW k \in Closers, CompleteClosing(k) PROVE TypeOK' /\ Inv'
  BY <1>20 DEF CompleteClosing
<1>21. ASSUME NEW k \in Closers, AwaitClosing(k) PROVE TypeOK' /\ Inv'
  BY <1>21 DEF AwaitClosing
<1>22. CASE UNCHANGED vars
  BY <1>22 DEF vars
<1> QED
  BY <1>1, <1>2, <1>3, <1>4, <1>5, <1>6, <1>7, <1>8, <1>9, <1>10, <1>11,
     <1>12, <1>13, <1>14, <1>15, <1>16, <1>17, <1>18, <1>19, <1>20, <1>21, <1>22
  DEF Next, ReviewStep, CloserStep

\* The invariant holds at the start.
LEMMA Initially == Init => IInv
<1> SUFFICES ASSUME Init PROVE IInv
  OBVIOUS
<1>1. {r \in Reviews : rpc[r] = "agent"} = {}
  BY DEF Init
<1>2. PermitsAddUp
  BY <1>1, FS_EmptySet, ManagerAssumption DEF Init, PermitsAddUp
<1> QED
  BY <1>2, ManagerAssumption
  DEF Init, IInv, TypeOK, LockInv, ActiveInv, RunningInv, EarlyInv, ShutdownInv,
      Holding, Registered, Holders, ReviewSteps, CloserSteps, None

\* IInv is an inductive invariant of the manager.
THEOREM Invariance == Spec => []IInv
<1>1. IInv /\ [Next]_vars => IInv'
  BY PermitsStep, InvStep DEF IInv, Inv
<1> QED BY <1>1, Initially, PTL DEF Spec

\* Every variable of the manager keeps its type, and permits its range.
THEOREM Typed == Spec => []TypeOK
BY Invariance, PTL DEF IInv

\* manager.py:302-306: a review that may run an agent holds its session's run lock
\* and is the one that interrupt() finds.
THEOREM RunningRegistered == Spec => []RunningIsRegistered
<1>1. IInv => RunningIsRegistered
  BY DEF IInv, LockInv, RunningInv, Holding, Registered, RunningIsRegistered
<1> QED BY <1>1, Invariance, PTL

\* provider_admission.py:33-43: runs in progress and free permits add up to the limit.
THEOREM PermitsConserved == Spec => []PermitsAddUp
BY Invariance, PTL DEF IInv

\* manager.py:339-346: an interrupt that comes before the decision to run is obeyed.
THEOREM EarlyCancelObeyed == Spec => []EarlyCancelNeverRuns
<1>1. IInv => EarlyCancelNeverRuns
  BY DEF IInv, EarlyInv, EarlyCancelNeverRuns
<1> QED BY <1>1, Invariance, PTL

\* manager.py:450-465: a complete shutdown has left no review behind, ...
THEOREM ShutdownQuiet == Spec => []ShutdownIsQuiet
<1>1. IInv => ShutdownIsQuiet
  BY DEF IInv, ShutdownInv, RunningInv, ShutdownIsQuiet
<1> QED BY <1>1, Invariance, PTL

\* ... nor, when nothing but reviews opens conversations, an open one.
THEOREM ShutdownCloses == Spec => []ShutdownClosesHandles
<1>1. IInv => ShutdownClosesHandles
  BY DEF IInv, ShutdownInv, ShutdownClosesHandles
<1> QED BY <1>1, Invariance, PTL
-----------------------------------------------------------------------------
\* The order in which the first and the last of a set of positions are found.
Before == {p \in Nat \X Nat : p[1] < p[2]}
\* That order is well founded.
LEMMA BeforeWF == IsWellFoundedOn(Before, Nat)
BY NatLessThanWellFounded DEF OpToRel, Before

\* A set of positions has a first one.
LEMMA OldestIs ==
    ASSUME NEW S \in SUBSET Nat, S # {}
    PROVE  Oldest(S) \in S /\ \A j \in S : Oldest(S) <= j
<1>1. PICK x \in S : \A y \in S : ~ (<<y, x>> \in Before)
  BY BeforeWF, WFMin
<1>2. \A y \in S : x \in Nat /\ y \in Nat /\ ~ (y < x)
  BY <1>1 DEF Before
<1>3. \A y \in S : x <= y
  BY <1>2
<1> QED BY <1>3 DEF Oldest

\* A set of positions of a log of n events has a last one.
LEMMA NewestIs ==
    ASSUME NEW n \in Nat, NEW S \in SUBSET (1..n), S # {}
    PROVE  Newest(S) \in S /\ \A j \in S : j <= Newest(S)
<1> DEFINE T == {n - i : i \in S}
<1>1. \A i \in S : i \in Int /\ n - i \in Nat
  OBVIOUS
<1>2. T \subseteq Nat /\ T # {}
  BY <1>1
<1>3. \E x \in T : \A y \in T : ~ (<<y, x>> \in Before)
  <2> HIDE DEF T
  <2> QED BY <1>2, BeforeWF, WFMin
<1>4. PICK i \in S : \A y \in T : ~ (<<y, n - i>> \in Before)
  BY <1>3
<1>5. \A j \in S : j <= i
  <2> SUFFICES ASSUME NEW j \in S PROVE j <= i
    OBVIOUS
  <2>1. ~ (<<n - j, n - i>> \in Before)
    BY <1>4
  <2>2. ~ (n - j < n - i)
    BY <2>1, <1>1 DEF Before
  <2> QED BY <2>2
<1> QED BY <1>5 DEF Newest

\* Positions of a sequence.
ArePositions(S) == \E n \in Nat : S \in SUBSET (1..n)

\* At(s, S) holds an element of s for every position in S, and nothing else.
LEMMA AtIs ==
    ASSUME NEW s, NEW S, ArePositions(S)
    PROVE  /\ Cardinality(S) \in Nat
           /\ DOMAIN At(s, S) = 1..Cardinality(S)
           /\ \A k \in 1..Cardinality(S) : \E i \in S : At(s, S)[k] = s[i]
           /\ \A i \in S : \E k \in 1..Cardinality(S) : At(s, S)[k] = s[i]
<1> DEFINE c == Cardinality(S)
           Upto(i) == {j \in S : j <= i}
           Rank(i) == Cardinality(Upto(i))
           r == [i \in S |-> Rank(i)]
<1>0. PICK n \in Nat : S \in SUBSET (1..n)
  BY DEF ArePositions
<1>01. \A i \in S : i \in Int
  BY <1>0
<1>1. IsFiniteSet(S) /\ c \in Nat
  <2>1. IsFiniteSet(1..n)
    BY FS_Interval
  <2>2. IsFiniteSet(S)
    BY <1>0, <2>1, FS_Subset
  <2> QED BY <2>2, FS_CardinalityType
<1>2. \A i \in S : IsFiniteSet(Upto(i)) /\ Rank(i) \in Nat /\ Rank(i) <= c /\ Rank(i) # 0
  <2> SUFFICES ASSUME NEW i \in S
               PROVE  IsFiniteSet(Upto(i)) /\ Rank(i) \in Nat /\ Rank(i) <= c /\ Rank(i) # 0
    OBVIOUS
  <2>0. i <= i
    BY <1>01
  <2>1. Upto(i) \in SUBSET S /\ i \in Upto(i)
    BY <2>0
  <2> HIDE DEF Upto
  <2>2. IsFiniteSet(Upto(i)) /\ Rank(i) <= c
    BY <2>1, <1>1, FS_Subset
  <2>3. Rank(i) \in Nat
    BY <2>2, FS_CardinalityType
  <2>4. Rank(i) # 0
    BY <2>1, <2>2, FS_EmptySet
  <2> QED BY <2>2, <2>3, <2>4
<1>3. \A i, j \in S : i < j => Rank(i) # Rank(j)
  <2> SUFFICES ASSUME NEW i \in S, NEW j \in S, i < j, Rank(i) = Rank(j) PROVE FALSE
    OBVIOUS
  <2>0. j <= j /\ \A m \in S : m <= i => m <= j
    BY <1>01
  <2>1. Upto(i) \in SUBSET Upto(j)
    BY <2>0
  <2>2. j \in Upto(j) /\ j \notin Upto(i)
    BY <1>01, <2>0
  <2> HIDE DEF Upto
  <2>3. Upto(i) = Upto(j)
    BY <2>1, <1>2, FS_Subset
  <2> QED BY <2>2, <2>3
<1>4. \A i, j \in S : Rank(i) = Rank(j) => i = j
  <2> HIDE DEF Rank
  <2>1. \A i, j \in S : i < j \/ j < i \/ i = j
    BY <1>01
  <2> QED BY <2>1, <1>3
<1>5. r \in [S -> 1..c]
  <2> HIDE DEF Upto, Rank, c
  <2>1. \A i \in S : Rank(i) \in 1..c
    BY <1>1, <1>2
  <2> QED BY <2>1
<1>6. r \in Injection(S, 1..c)
  <2> HIDE DEF Rank, c
  <2> QED BY <1>4, <1>5 DEF Injection, IsInjective
<1>7. IsFiniteSet(1..c) /\ Cardinality(1..c) = c
  <2> HIDE DEF c
  <2> QED BY <1>1, FS_Interval
<1>8. r \in Surjection(S, 1..c)
  <2>1. Cardinality(S) = Cardinality(1..c)
    BY <1>7
  <2> HIDE DEF r, c
  <2> QED BY <1>6, <1>7, <2>1, FS_Injection
<1>9. \A k \in 1..c : \E i \in S : Rank(i) = k
  <2> HIDE DEF Rank, c
  <2> QED BY <1>8 DEF Surjection
<1>10. At(s, S) = [k \in 1..c |-> s[CHOOSE i \in S : Rank(i) = k]]
  BY DEF At
<1>11. \A k \in 1..c : \E i \in S : At(s, S)[k] = s[i]
  <2> HIDE DEF Rank, c
  <2> QED BY <1>9, <1>10
<1>12. \A i \in S : Rank(i) \in 1..c /\ At(s, S)[Rank(i)] = s[i]
  <2> SUFFICES ASSUME NEW i \in S PROVE Rank(i) \in 1..c /\ At(s, S)[Rank(i)] = s[i]
    OBVIOUS
  <2> HIDE DEF Upto, Rank, c
  <2>1. Rank(i) \in 1..c
    BY <1>1, <1>2
  <2>2. (CHOOSE j \in S : Rank(j) = Rank(i)) = i
    BY <1>4
  <2> QED BY <2>1, <2>2, <1>10
<1> HIDE DEF Rank
<1> QED BY <1>1, <1>10, <1>11, <1>12

\* Picking elements of a sequence gives a sequence.
LEMMA AtIsSeq ==
    ASSUME NEW T, NEW s \in Seq(T), NEW S \in SUBSET (DOMAIN s)
    PROVE  At(s, S) \in Seq(T) /\ Len(At(s, S)) = Cardinality(S) /\ Cardinality(S) \in Nat
<1>1. Len(s) \in Nat /\ DOMAIN s = 1..Len(s) /\ \A i \in DOMAIN s : s[i] \in T
  BY LenProperties, ElementOfSeq
<1>2. ArePositions(S)
  BY <1>1 DEF ArePositions
<1> DEFINE c == Cardinality(S)
           a == At(s, S)
<1>3. c \in Nat /\ DOMAIN a = 1..c /\ \A k \in 1..c : \E i \in S : a[k] = s[i]
  BY <1>2, AtIs
<1>4. \A k \in 1..c : a[k] \in T
  BY <1>1, <1>3
<1>5. a = [k \in 1..c |-> a[k]]
  BY DEF At
<1> HIDE DEF a, c
<1>6. a \in [1..c -> T]
  BY <1>4, <1>5
<1> QED BY <1>3, <1>6 DEF a, c
-----------------------------------------------------------------------------
ToolNames == {"text", "image", "url", "legacy"}
Statuses == {"success", "failed", "inconclusive", "unsupported"}
Items == [of: Ids, text: Text]
Checks == [kind: {"check"}, tool: ToolNames, of: Ids \cup {Unknown}, status: Statuses,
           facts: Seq(VisualFacts), explained: Text]
Events == {Question, Reply, DraftEvent} \cup Checks

\* A check of an image that succeeded named three facts or more.
SawEnough(event) ==
    event.kind = "check" /\ event.tool = "image" /\ event.status = "success" =>
        Len(event.facts) >= MinVisualFacts


TypeInv ==
    /\ evidence \in Seq(Items) /\ run.evidence \in Seq(Items)
    /\ log \in Seq(Events)

\* The facts a model may name are a sequence of facts.
LEMMA ParseIs ==
    ASSUME NEW list \in Seq(VisualFacts \cup {Blank})
    PROVE  Parse(list) \in Seq(VisualFacts)
<1> DEFINE m == Smaller(Len(list), MaxVisualFacts)
           kept == SubSeq(list, 1, m)
           first == {i \in DOMAIN kept :
                       kept[i] # Blank /\ \A j \in 1..(i - 1) : kept[j] # kept[i]}
           a == At(kept, first)
<1>1. m \in Nat /\ m <= Len(list) /\ \A i \in 1..m : list[i] \in VisualFacts \cup {Blank}
  <2>1. Len(list) \in Nat /\ \A i \in 1..Len(list) : list[i] \in VisualFacts \cup {Blank}
    BY LenProperties, ElementOfSeq
  <2>2. m \in Nat /\ m <= Len(list)
    BY <2>1 DEF Smaller, MaxVisualFacts
  <2> HIDE DEF m
  <2> QED BY <2>1, <2>2
<1>2. kept \in Seq(VisualFacts \cup {Blank})
  <2> HIDE DEF m
  <2>1. 1 \in Int /\ m \in Int
    BY <1>1
  <2> QED BY <1>1, <2>1, SubSeqProperties
<1> HIDE DEF kept
<1>3. first \in SUBSET (DOMAIN kept)
  OBVIOUS
<1>4. ArePositions(first) /\ \A i \in first : kept[i] \in VisualFacts
  <2>1. DOMAIN kept = 1..Len(kept) /\ Len(kept) \in Nat
    BY <1>2, LenProperties
  <2>2. \A i \in DOMAIN kept : kept[i] \in VisualFacts \cup {Blank}
    BY <1>2, <2>1, ElementOfSeq
  <2> QED BY <2>1, <2>2 DEF ArePositions
<1> HIDE DEF first
<1>5. a \in Seq(VisualFacts \cup {Blank}) /\ Len(a) = Cardinality(first)
  BY <1>2, <1>3, AtIsSeq
<1>6. \A k \in 1..Len(a) : a[k] \in VisualFacts
  <2>1. \A k \in 1..Cardinality(first) : \E i \in first : At(kept, first)[k] = kept[i]
    BY <1>4, AtIs
  <2> QED BY <1>4, <1>5, <2>1
<1> HIDE DEF a
<1>7. Len(a) \in Nat /\ a \in [1..Len(a) -> VisualFacts]
  BY <1>5, <1>6, LenProperties
<1>8. a \in Seq(VisualFacts)
  BY <1>7
<1> QED BY <1>8 DEF a, first, kept, Parse

\* The image tool reports no facts or three and more.
LEMMA InspectIs ==
    ASSUME NEW facts \in FactsNamed
    PROVE  facts \in Seq(VisualFacts) /\ (facts # <<>> => Len(facts) >= MinVisualFacts)
<1>1. PICK first \in Responses, second \in Responses : facts = Inspect(first, second)
  BY DEF FactsNamed
<1>2. first.list \in Seq(VisualFacts \cup {Blank}) /\ second.list \in Seq(VisualFacts \cup {Blank})
  BY VerdictAssumption
<1>3. Parse(first.list) \in Seq(VisualFacts) /\ Parse(second.list) \in Seq(VisualFacts)
  BY <1>2, ParseIs
<1>4. <<>> \in Seq(VisualFacts)
  OBVIOUS
<1> QED BY <1>1, <1>3, <1>4 DEF Inspect, Enough

\* A check is made of its tool, its evidence, its status, its facts and its explanation.
LEMMA ObservedIs ==
    ASSUME NEW tool \in ToolNames, NEW e \in Ids \cup {Unknown}, NEW status \in Statuses,
           NEW facts \in Seq(VisualFacts), NEW explained \in Text,
           tool # "image" \/ status # "success" \/ Len(facts) >= MinVisualFacts
    PROVE  Observed(tool, e, status, facts, explained) \in Checks
             /\ SawEnough(Observed(tool, e, status, facts, explained))
BY DEF Observed, Checks, SawEnough

\* A sequence of pieces of evidence is a function to them.
LEMMA ItemsAre ==
    ASSUME NEW items \in Seq(Items)
    PROVE  /\ DOMAIN items = 1..Len(items) /\ Len(items) \in Nat
           /\ \A n \in DOMAIN items : items[n].of \in Ids /\ items[n].text \in Text
<1>1. DOMAIN items = 1..Len(items) /\ Len(items) \in Nat /\ \A n \in DOMAIN items : items[n] \in Items
  BY LenProperties, ElementOfSeq
<1> QED BY <1>1 DEF Items

\* Whatever the agent looks at with whatever tool, it observes a check, and a
\* successful look at an image has named enough.
LEMMA LookIs ==
    ASSUME TypeInv, NEW tool \in Tools, NEW e \in Named, NEW event \in Observations(tool, e)
    PROVE  event \in Checks /\ SawEnough(event)
<1>1. NoText \in Text
  BY DEF NoText, Text
<1>0. \A n \in DOMAIN evidence : evidence[n].of \in Ids /\ evidence[n].text \in Text
  BY ItemsAre DEF TypeInv
<1>2. e \in Ids \cup {Unknown}
  BY <1>0 DEF Named
<1>3. Stored(e) => ContentOf(e) \in Text
  BY <1>0 DEF Stored, ContentOf
<1>4. \A tt \in ToolNames : \A status \in Statuses :
         tt # "image" \/ status # "success" =>
            NothingSeen(tt, e, status) \in Checks /\ SawEnough(NothingSeen(tt, e, status))
  <2>1. <<>> \in Seq(VisualFacts)
    OBVIOUS
  <2> QED BY <1>1, <1>2, <2>1, ObservedIs DEF NothingSeen
<1> HIDE DEF NothingSeen
<1>5. CASE tool = "text"
  <2>1. \E status \in {"failed", "unsupported", "success"} : event = NothingSeen("text", e, status)
    BY <1>5 DEF Observations, CheckText
  <2> QED BY <1>4, <2>1 DEF ToolNames, Statuses
<1>6. CASE tool = "image"
  <2> DEFINE x == IF Stored(e) THEN ContentOf(e) ELSE NoText
  <2>1. x \in Text
    BY <1>1, <1>3
  <2>2. event \in ImageChecks(e, ImageReadings(e), x, FactsNamed)
    BY <1>6 DEF Observations
  <2> HIDE DEF x
  <2>3. CASE \E facts \in FactsNamed : facts # <<>> /\ event = Observed("image", e, "success", facts, x)
    <3>1. PICK facts \in FactsNamed : facts # <<>> /\ event = Observed("image", e, "success", facts, x)
      BY <2>3
    <3>2. facts \in Seq(VisualFacts) /\ Len(facts) >= MinVisualFacts
      BY <3>1, InspectIs
    <3> QED BY <1>2, <2>1, <3>1, <3>2, ObservedIs DEF ToolNames, Statuses
  <2>4. CASE \E status \in {"failed", "inconclusive"} : event = NothingSeen("image", e, status)
    BY <1>4, <2>4 DEF ToolNames, Statuses
  <2> QED BY <2>2, <2>3, <2>4 DEF ImageChecks, ReadFailure
<1>7. CASE tool = "url"
  <2>1. \E status \in {"failed", "unsupported", "success", "inconclusive"} : event = NothingSeen("url", e, status)
    BY <1>7 DEF Observations, LinkStatuses
  <2> QED BY <1>4, <2>1 DEF ToolNames, Statuses
<1>8. CASE tool = "legacy"
  <2>1. event = NothingSeen("legacy", e, "success")
    BY <1>8 DEF Observations
  <2> QED BY <1>4, <2>1 DEF ToolNames, Statuses
<1> QED BY <1>5, <1>6, <1>7, <1>8, VerdictAssumption
-----------------------------------------------------------------------------
\* The checks that saw an image.
Seen == {i \in OfKind("check") : log[i].tool = "image" /\ log[i].status = "success"}

\* What a lineage has to say of a check that saw an image.
LineAt(i) ==
    LET facts == Identities(log[i].of, i, log[i].facts)
    IN  [of |-> log[i].of, source |-> i, projection |-> Projection(log[i].of, i, facts),
         consumed |-> InOrder(facts), facts |-> facts]
TextAt(i) == Join(log[i].explained, FactText(log[i].facts))

LogInv == \A i \in DOMAIN log : SawEnough(log[i])

\* The log is a function to events.
LEMMA LogIs ==
    ASSUME log \in Seq(Events)
    PROVE  /\ DOMAIN log = 1..Len(log) /\ Len(log) \in Nat
           /\ \A i \in DOMAIN log : log[i] \in Events
           /\ \A i \in OfKind("check") : log[i] \in Checks
<1>1. DOMAIN log = 1..Len(log) /\ Len(log) \in Nat /\ \A i \in DOMAIN log : log[i] \in Events
  BY LenProperties, ElementOfSeq
<1>2. \A x \in Events : x.kind = "check" => x \in Checks
  BY DEF Events, Question, Reply, DraftEvent
<1> QED BY <1>1, <1>2 DEF OfKind

\* A check that saw an image holds three facts or more.
LEMMA SeenIs ==
    ASSUME log \in Seq(Events), LogInv, NEW i \in Seen
    PROVE  /\ log[i].facts \in Seq(VisualFacts) /\ Len(log[i].facts) >= MinVisualFacts
           /\ log[i].facts # <<>> /\ Len(log[i].facts) \in Nat
           /\ DOMAIN log[i].facts = 1..Len(log[i].facts)
<1>1. i \in OfKind("check") /\ i \in DOMAIN log /\ log[i].kind = "check"
        /\ log[i].tool = "image" /\ log[i].status = "success"
  BY DEF Seen, OfKind
<1>2. log[i] \in Checks /\ SawEnough(log[i])
  BY <1>1, LogIs DEF LogInv
<1>3. log[i].facts \in Seq(VisualFacts) /\ Len(log[i].facts) >= MinVisualFacts
  BY <1>1, <1>2 DEF Checks, SawEnough
<1> DEFINE f == log[i].facts
<1> HIDE DEF f
<1>4. f \in Seq(VisualFacts) /\ Len(f) >= 3
  BY <1>3 DEF f, MinVisualFacts
<1>5. f # <<>> /\ Len(f) \in Nat /\ DOMAIN f = 1..Len(f)
  BY <1>4, LenProperties, EmptySeq
<1> QED BY <1>3, <1>5 DEF f

\* A function on 1..m is a sequence of its values.
LEMMA FunctionIsSeq ==
    ASSUME NEW m \in Nat, NEW g, DOMAIN g = 1..m, g = [n \in 1..m |-> g[n]]
    PROVE  g \in Seq({g[n] : n \in 1..m}) /\ Len(g) = m
<1> DEFINE S == {g[n] : n \in 1..m}
<1>1. \A n \in 1..m : g[n] \in S
  OBVIOUS
<1> HIDE DEF S
<1>2. g \in [1..m -> S]
  BY <1>1
<1>3. g \in Seq(S) /\ Len(g) = m
  BY <1>2
<1> QED BY <1>3 DEF S

\* The facts of a check that saw an image, with their identities.
LEMMA IdentitiesAre ==
    ASSUME log \in Seq(Events), LogInv, NEW i \in Seen
    PROVE  LET facts == LineAt(i).facts
           IN  /\ DOMAIN facts = 1..Len(log[i].facts) /\ facts # <<>>
               /\ Len(facts) = Len(log[i].facts)
               /\ facts \in Seq({facts[n] : n \in DOMAIN facts})
               /\ DOMAIN LineAt(i).consumed = 1..Len(log[i].facts)
               /\ LineAt(i).consumed \in Seq({LineAt(i).consumed[n] : n \in DOMAIN facts})
               /\ Len(LineAt(i).consumed) = Len(log[i].facts)
               /\ \A n \in DOMAIN facts :
                    /\ facts[n] = [id |-> <<log[i].of, i, n, log[i].facts[n]>>, digest |-> log[i].facts[n]]
                    /\ LineAt(i).consumed[n] = <<log[i].of, i, n, log[i].facts[n]>>
<1> DEFINE m == Len(log[i].facts)
           f == log[i].facts
           e == log[i].of
           facts == [n \in 1..m |-> [id |-> <<e, i, n, f[n]>>, digest |-> f[n]]]
           order == [n \in 1..m |-> <<e, i, n, f[n]>>]
<1>1. m \in Nat /\ m >= 3 /\ DOMAIN f = 1..m
  BY SeenIs DEF MinVisualFacts
<1>2. LineAt(i).facts = facts
  BY <1>1 DEF LineAt, Identities, Fact
<1>3. LineAt(i).consumed = order
  BY <1>1 DEF LineAt, Identities, Fact, InOrder
<1> HIDE DEF m, f, e
<1>6. DOMAIN facts = 1..m /\ DOMAIN order = 1..m
  OBVIOUS
<1>7. \A n \in 1..m : facts[n] = [id |-> <<e, i, n, f[n]>>, digest |-> f[n]] /\ order[n] = <<e, i, n, f[n]>>
  OBVIOUS
<1>8. facts = [n \in 1..m |-> facts[n]] /\ order = [n \in 1..m |-> order[n]]
  OBVIOUS
<1> HIDE DEF facts, order
<1>4. facts \in Seq({facts[n] : n \in 1..m}) /\ Len(facts) = m
  BY <1>1, <1>6, <1>8, FunctionIsSeq
<1>5. order \in Seq({order[n] : n \in 1..m}) /\ Len(order) = m
  BY <1>1, <1>6, <1>8, FunctionIsSeq
<1>9. facts # <<>>
  BY <1>1, <1>6
<1> HIDE DEF m
<1>10. /\ DOMAIN facts = 1..m /\ facts # <<>>
       /\ Len(facts) = m
       /\ facts \in Seq({facts[n] : n \in DOMAIN facts})
       /\ DOMAIN order = 1..m
       /\ order \in Seq({order[n] : n \in DOMAIN facts})
       /\ Len(order) = m
       /\ \A n \in DOMAIN facts :
            facts[n] = [id |-> <<e, i, n, f[n]>>, digest |-> f[n]] /\ order[n] = <<e, i, n, f[n]>>
  BY <1>4, <1>5, <1>6, <1>7, <1>9
<1> QED BY <1>2, <1>3, <1>10 DEF m, f, e
-----------------------------------------------------------------------------
IsWindow(window) == window \in SUBSET OfKind("check")

\* The narrative of a check that saw an image.
StoryAt(i) == [of |-> log[i].of, source |-> i, facts |-> LineAt(i).facts, text |-> TextAt(i)]

\* The narrative of an image with a usable check is that of the oldest.
LEMMA UsableIs ==
    ASSUME log \in Seq(Events), LogInv, NEW window, IsWindow(window),
           NEW e, Usable(e, window) # {}
    PROVE  \E i \in Seen : i \in window /\ log[i].of = e /\ Narrative(e, window) = StoryAt(i)
<1> DEFINE i == Oldest(Usable(e, window))
<1>0. OfKind("check") \in SUBSET Nat
  BY LogIs DEF OfKind
<1>1. Usable(e, window) \in SUBSET Nat
  BY <1>0 DEF Usable, IsWindow
<1>2. i \in Usable(e, window)
  BY <1>1, OldestIs
<1>3. i \in window /\ log[i].of = e /\ i \in Seen
  BY <1>2 DEF Usable, Succeeded, StatusRead, Seen, IsWindow
<1>4. log[i].facts # <<>>
  BY <1>3, SeenIs
<1>5. Narrative(e, window) =
        [of |-> e, source |-> i, facts |-> Identities(e, i, log[i].facts),
         text |-> Join(log[i].explained, FactText(log[i].facts))]
  BY <1>4 DEF Narrative
<1> HIDE DEF i
<1>6. Narrative(e, window) = StoryAt(i)
  BY <1>3, <1>5 DEF StoryAt, LineAt, TextAt
<1> QED BY <1>3, <1>6

Narrated(items, window) == {n \in DOMAIN items : IsImage(items[n].of) /\ Usable(items[n].of, window) # {}}

\* A review tells one narrative for every image with a usable check, and no other.
LEMMA NarrativesAre ==
    ASSUME log \in Seq(Events), LogInv, NEW window, IsWindow(window), NEW items \in Seq(Items)
    PROVE  LET stories == Narratives(items, window) IN
           /\ \E m \in Nat : DOMAIN stories = 1..m
           /\ stories = [k \in DOMAIN stories |-> stories[k]]
           /\ \A k \in DOMAIN stories : \E i \in Seen : i \in window /\ stories[k] = StoryAt(i)
           /\ \A n \in Narrated(items, window) : \E k \in DOMAIN stories :
                 stories[k] = Narrative(items[n].of, window)
           /\ DOMAIN stories # {} => items # <<>>
<1> DEFINE N == Narrated(items, window)
           c == Cardinality(N)
           narrated == At(items, N)
           stories == [k \in DOMAIN narrated |-> Narrative(narrated[k].of, window)]
<1>0. Narratives(items, window) = stories
  BY DEF Narratives, Narrated
<1>1. ArePositions(N)
  BY ItemsAre DEF ArePositions, Narrated
<1>2. /\ c \in Nat /\ DOMAIN narrated = 1..c
      /\ \A k \in 1..c : \E n \in N : narrated[k] = items[n]
      /\ \A n \in N : \E k \in 1..c : narrated[k] = items[n]
  BY <1>1, AtIs
<1>3. \A n \in N : n \in DOMAIN items /\ Usable(items[n].of, window) # {}
  BY DEF Narrated
<1> HIDE DEF c, narrated, N
<1>4. DOMAIN stories = 1..c /\ c \in Nat
  BY <1>2
<1>5. \A k \in 1..c : \E n \in N : stories[k] = Narrative(items[n].of, window)
  BY <1>2
<1>6. \A n \in N : \E k \in 1..c : stories[k] = Narrative(items[n].of, window)
  BY <1>2
<1>7. stories = [k \in DOMAIN stories |-> stories[k]]
  OBVIOUS
<1> HIDE DEF stories
<1>8. \A k \in 1..c : \E i \in Seen : i \in window /\ stories[k] = StoryAt(i)
  <2> SUFFICES ASSUME NEW k \in 1..c PROVE \E i \in Seen : i \in window /\ stories[k] = StoryAt(i)
    OBVIOUS
  <2>1. PICK n \in N : stories[k] = Narrative(items[n].of, window)
    BY <1>5
  <2> DEFINE e == items[n].of
  <2>2. Usable(e, window) # {}
    BY <1>3
  <2> HIDE DEF e
  <2>3. \E i \in Seen : i \in window /\ log[i].of = e /\ Narrative(e, window) = StoryAt(i)
    BY <2>2, UsableIs
  <2> QED BY <2>1, <2>3 DEF e
<1>9. 1..c # {} => items # <<>>
  <2> SUFFICES ASSUME NEW k \in 1..c PROVE items # <<>>
    OBVIOUS
  <2>1. PICK n \in N : stories[k] = Narrative(items[n].of, window)
    BY <1>5
  <2> QED BY <1>3
<1> QED BY <1>0, <1>4, <1>6, <1>7, <1>8, <1>9 DEF N

Lines == {LineAt(i) : i \in Seen}

\* Every narrative has consumed facts, so each has its line in the lineage.
LEMMA LineageIs ==
    ASSUME log \in Seq(Events), LogInv, NEW window, IsWindow(window), NEW items \in Seq(Items)
    PROVE  LET stories == Narratives(items, window)
               lineage == Lineage(stories)
           IN  /\ lineage \in Seq(Lines)
               /\ \A k \in DOMAIN lineage : \E i \in Seen :
                     i \in window /\ lineage[k] = LineAt(i) /\ \E j \in DOMAIN stories : stories[j] = StoryAt(i)
               /\ \A j \in DOMAIN stories : \E k \in DOMAIN lineage :
                     lineage[k] = LineAt(stories[j].source)
<1> DEFINE stories == Narratives(items, window)
           N == {n \in DOMAIN stories : stories[n].facts # <<>>}
           c == Cardinality(N)
           consuming == At(stories, N)
           lineage == Lineage(stories)
<1>1. /\ \E m \in Nat : DOMAIN stories = 1..m
      /\ \A k \in DOMAIN stories : \E i \in Seen : i \in window /\ stories[k] = StoryAt(i)
  BY NarrativesAre
<1> HIDE DEF stories
<1>20. \A i \in Seen : StoryAt(i).facts # <<>> /\ StoryAt(i).source = i
  BY IdentitiesAre DEF StoryAt
<1>2. \A k \in DOMAIN stories : \E i \in Seen :
        i \in window /\ stories[k] = StoryAt(i) /\ stories[k].facts # <<>> /\ stories[k].source = i
  BY <1>1, <1>20
<1>3. N = DOMAIN stories
  BY <1>2
<1>30. ArePositions(N)
  BY <1>1 DEF ArePositions
<1>4. /\ c \in Nat /\ DOMAIN consuming = 1..c
      /\ \A k \in 1..c : \E n \in N : consuming[k] = stories[n]
      /\ \A n \in N : \E k \in 1..c : consuming[k] = stories[n]
  <2> HIDE DEF N
  <2> QED BY <1>30, AtIs
<1>5. lineage = [k \in 1..c |->
           [of |-> consuming[k].of, source |-> consuming[k].source,
            projection |-> Projection(consuming[k].of, consuming[k].source, consuming[k].facts),
            consumed |-> InOrder(consuming[k].facts), facts |-> consuming[k].facts]]
  BY <1>4 DEF Lineage
<1> HIDE DEF c, consuming, lineage, N
<1>7. \A k \in 1..c, i \in Seen : consuming[k] = StoryAt(i) => lineage[k] = LineAt(i)
  BY <1>5 DEF StoryAt, LineAt
<1>8. DOMAIN lineage = 1..c /\ lineage = [k \in 1..c |-> lineage[k]]
  BY <1>5
<1>9. \A k \in 1..c : \E i \in Seen :
        i \in window /\ lineage[k] = LineAt(i) /\ \E j \in DOMAIN stories : stories[j] = StoryAt(i)
  <2> SUFFICES ASSUME NEW k \in 1..c
               PROVE  \E i \in Seen : i \in window /\ lineage[k] = LineAt(i)
                                        /\ \E j \in DOMAIN stories : stories[j] = StoryAt(i)
    OBVIOUS
  <2>1. PICK j \in DOMAIN stories : consuming[k] = stories[j]
    BY <1>3, <1>4
  <2>2. PICK i \in Seen : i \in window /\ stories[j] = StoryAt(i)
    BY <1>2
  <2> QED BY <2>1, <2>2, <1>7
<1>10. \A j \in DOMAIN stories : \E k \in 1..c : lineage[k] = LineAt(stories[j].source)
  BY <1>2, <1>3, <1>4, <1>7
<1>11. lineage \in Seq(Lines)
  <2>1. \A k \in 1..c : lineage[k] \in Lines
    BY <1>9 DEF Lines
  <2>2. lineage \in [1..c -> Lines]
    BY <1>8, <2>1
  <2> QED BY <1>4, <2>2
<1> QED BY <1>8, <1>9, <1>10, <1>11 DEF lineage, stories
-----------------------------------------------------------------------------
\* The record of a review is that of the last standing draft of the log.
IsRecord(s) ==
    LET window == Window(Newest(StandingDrafts))
    IN  /\ StandingDrafts # {}
        /\ s.items \in Seq(Items) /\ PolicyHolds(s.items, window)
        /\ NoneTwice(s.lineage)
        /\ s = [id |-> Newest(StandingDrafts), source |-> Newest(StandingDrafts),
                verdict |-> ScoreOf(s.items, s.given, window), given |-> s.given, items |-> s.items,
                lineage |-> Lineage(Narratives(s.items, window)),
                consumed |-> Consumed(Lineage(Narratives(s.items, window)))]

\* There is one review, and what was written and told is its record.
ReviewInv ==
    /\ session.status # "reviewed" => scores = <<>> /\ reviews = <<>>
    /\ session.status = "reviewed" =>
          /\ ~run.busy /\ Len(scores) = 1 /\ DOMAIN scores = {1} /\ Len(reviews) = 1
          /\ IsRecord(scores[1]) /\ session.verdict = scores[1].verdict
          /\ reviews[1] = [id |-> scores[1].id, source |-> scores[1].id, score |-> scores[1].id,
                           projections |-> Projections(scores[1].lineage)]
    /\ told.status = "completed" => session.status = "reviewed" /\ told.verdict = session.verdict

VerdictInv == TypeInv /\ LogInv /\ ReviewInv

\* What is read off the log stays as it is while the log does.
LEMMA LogSame ==
    ASSUME log' = log
    PROVE  \A s : IsRecord(s)' <=> IsRecord(s)
<1>1. \A k : OfKind(k)' = OfKind(k)
  BY DEF OfKind
<1>2. LastAnswer' = LastAnswer
  BY <1>1 DEF LastAnswer
<1>3. StandingDrafts' = StandingDrafts
  BY <1>1, <1>2 DEF StandingDrafts
<1>4. \A d : Window(d)' = Window(d)
  BY <1>1 DEF Window
<1>5. \A i : Succeeded(i)' = Succeeded(i)
  BY DEF Succeeded
<1>6. \A e, w : Usable(e, w)' = Usable(e, w)
  BY <1>5 DEF Usable
<1>7. \A e, w : Narrative(e, w)' = Narrative(e, w)
  BY <1>6 DEF Narrative
<1>8. \A items, w : Narratives(items, w)' = Narratives(items, w)
  BY <1>6, <1>7 DEF Narratives
<1>9. \A items, w : PolicyHolds(items, w)' <=> PolicyHolds(items, w)
  BY <1>5 DEF PolicyHolds
<1>10. \A items, given, w : ScoreOf(items, given, w)' = ScoreOf(items, given, w)
  BY <1>5, <1>8 DEF ScoreOf
<1> QED BY <1>3, <1>4, <1>8, <1>9, <1>10 DEF IsRecord
-----------------------------------------------------------------------------
\* A sequence of one element.
LEMMA OneOf ==
    ASSUME NEW s, s = <<>>, NEW x
    PROVE  Len(Append(s, x)) = 1 /\ DOMAIN Append(s, x) = {1} /\ Append(s, x)[1] = x
<1>1. Append(s, x) = <<x>>
  OBVIOUS
<1> QED BY <1>1

\* A review that ends leaves its record, or the session without one.
LEMMA ExtractStep ==
    ASSUME ReviewInv, session.status # "reviewed", NEW items \in Seq(Items), NEW given,
           Extract(items, given), log' = log, ~run'.busy
    PROVE  ReviewInv'
<1>0. scores = <<>> /\ reviews = <<>>
  BY DEF ReviewInv
<1>1. CASE Outcome(items) = "awaiting_user"
  <2>1. /\ session' = [status |-> "awaiting_user", verdict |-> NoVerdict]
        /\ told'.status = "awaiting_user" /\ scores' = scores /\ reviews' = reviews
    BY <1>1 DEF Extract, Shown, Tell
  <2> QED BY <1>0, <2>1 DEF ReviewInv
<1>2. CASE Outcome(items) = "completed"
  <2> DEFINE d == Newest(StandingDrafts)
             lineage == Lineage(Narratives(items, Window(d)))
             verdict == ScoreOf(items, given, Window(d))
             rec == [id |-> d, source |-> d, verdict |-> verdict, given |-> given,
                     items |-> items, lineage |-> lineage, consumed |-> Consumed(lineage)]
             done == [id |-> d, source |-> d, score |-> d, projections |-> Projections(lineage)]
  <2>1. StandingDrafts # {} /\ PolicyHolds(items, Window(d))
    BY <1>2 DEF Outcome
  <2>2. ~Recorded(scores, d)
    BY <1>0 DEF Recorded
  <2>3. PersistReview(items, given)
    BY <1>2 DEF Extract
  <2>4. /\ NoneTwice(lineage) /\ scores' = Append(scores, rec) /\ reviews' = Append(reviews, done)
        /\ session' = [status |-> "reviewed", verdict |-> verdict]
        /\ told' = [status |-> "completed", verdict |-> verdict]
    BY <2>2, <2>3 DEF PersistReview, Shown, Tell
  <2>5. rec.items = items /\ rec.given = given /\ rec.lineage = lineage /\ rec.id = d /\ rec.verdict = verdict
    OBVIOUS
  <2>6. IsRecord(rec)
    <3>1. rec = [id |-> d, source |-> d, verdict |-> ScoreOf(items, given, Window(d)), given |-> given,
                 items |-> items, lineage |-> lineage, consumed |-> Consumed(lineage)]
      OBVIOUS
    <3> HIDE DEF rec
    <3> QED BY <2>1, <2>4, <2>5, <3>1 DEF IsRecord
  <2> HIDE DEF d, lineage, verdict, rec
  <2>7. Len(scores') = 1 /\ DOMAIN scores' = {1} /\ scores'[1] = rec
    BY <1>0, <2>4, OneOf
  <2>8. Len(reviews') = 1 /\ reviews'[1] = done
    <3> HIDE DEF done
    <3> QED BY <1>0, <2>4, OneOf
  <2>9. IsRecord(scores[1])'
    BY <2>6, <2>7, LogSame
  <2> QED BY <2>4, <2>5, <2>7, <2>8, <2>9 DEF ReviewInv
<1>3. CASE Outcome(items) = "failed"
  <2>1. told'.status = "failed" /\ session' = session /\ scores' = scores /\ reviews' = reviews
    BY <1>3 DEF Extract, Tell
  <2> QED BY <1>0, <2>1 DEF ReviewInv
<1>4. Outcome(items) \in {"awaiting_user", "completed", "failed"}
  BY DEF Outcome
<1> QED BY <1>1, <1>2, <1>3, <1>4

\* What no review changes: the log may grow while there is no review yet.
LEMMA NoReviewStep ==
    ASSUME ReviewInv, UNCHANGED <<session, scores, reviews>>,
           session.status = "reviewed" => log' = log /\ ~run'.busy,
           told' = told \/ told'.status # "completed"
    PROVE  ReviewInv'
<1>1. CASE session.status = "reviewed"
  <2>1. IsRecord(scores[1])' <=> IsRecord(scores'[1])
    BY <1>1, LogSame
  <2> QED BY <1>1, <2>1 DEF ReviewInv
<1>2. CASE session.status # "reviewed"
  BY <1>2 DEF ReviewInv
<1> QED BY <1>1, <1>2

\* An event more leaves the events of the log and what they saw.
LEMMA LogStep ==
    ASSUME TypeInv, LogInv, NEW event \in Events, SawEnough(event), log' = Append(log, event)
    PROVE  log' \in Seq(Events) /\ LogInv'
<1>1. /\ Append(log, event) \in Seq(Events) /\ Len(Append(log, event)) = Len(log) + 1
      /\ \A i \in 1..Len(log) : Append(log, event)[i] = log[i]
      /\ Append(log, event)[Len(log) + 1] = event
  BY AppendProperties DEF TypeInv
<1>2. DOMAIN log' = 1..(Len(log) + 1) /\ DOMAIN log = 1..Len(log) /\ Len(log) \in Nat
  BY <1>1, LenProperties DEF TypeInv
<1>3. \A i \in 1..(Len(log) + 1) : i \in 1..Len(log) \/ i = Len(log) + 1
  BY <1>2
<1>4. \A i \in DOMAIN log' : SawEnough(log'[i])
  BY <1>1, <1>2, <1>3 DEF LogInv
<1>5. LogInv'
  BY <1>4 DEF LogInv, SawEnough
<1> QED BY <1>1, <1>5
-----------------------------------------------------------------------------
\* The events that are not checks.
LEMMA PlainEvents ==
    ASSUME NEW event \in {Question, Reply, DraftEvent}
    PROVE  event \in Events /\ SawEnough(event)
BY DEF Question, Reply, DraftEvent, Events, SawEnough

\* The inductive invariant of a session's reviews.
LEMMA VerdictStep == VerdictInv /\ [VerdictNext]_verdictVars => VerdictInv'
<1> SUFFICES ASSUME VerdictInv, [VerdictNext]_verdictVars PROVE VerdictInv'
  OBVIOUS
<1> USE DEF VerdictInv
<1>1. ASSUME NEW e \in Ids, NEW t \in Text, SubmitEvidence(e, t) PROVE VerdictInv'
  <2> DEFINE item == [of |-> e, text |-> t]
  <2>1. item \in Items
    BY DEF Items
  <2>2. evidence' = Append(evidence, item) /\ UNCHANGED <<answers, log, run, session, scores, reviews, told>>
    BY <1>1 DEF SubmitEvidence
  <2> HIDE DEF item
  <2>3. evidence' \in Seq(Items)
    BY <2>1, <2>2 DEF TypeInv
  <2>4. LogInv'
    BY <2>2 DEF LogInv, SawEnough
  <2>5. ReviewInv'
    BY <2>2, NoReviewStep DEF ReviewInv
  <2> QED BY <2>2, <2>3, <2>4, <2>5 DEF TypeInv
<1>2. ASSUME NEW t \in Texts, Answer(t) PROVE VerdictInv'
  <2>1. log' = Append(log, Reply) /\ session.status # "reviewed"
        /\ UNCHANGED <<evidence, run, session, scores, reviews, told>>
    BY <1>2 DEF Answer
  <2>2. log' \in Seq(Events) /\ LogInv'
    BY <2>1, LogStep, PlainEvents
  <2>3. ReviewInv'
    BY <2>1, NoReviewStep
  <2> QED BY <2>1, <2>2, <2>3 DEF TypeInv
<1>3. ASSUME NEW event \in Events, SawEnough(event), Observe(event) PROVE VerdictInv'
  <2>1. log' = Append(log, event) /\ run.busy
        /\ UNCHANGED <<evidence, answers, run, session, scores, reviews, told>>
    BY <1>3 DEF Observe
  <2>2. log' \in Seq(Events) /\ LogInv'
    BY <1>3, <2>1, LogStep
  <2>3. session.status # "reviewed"
    BY <2>1 DEF ReviewInv
  <2>4. ReviewInv'
    BY <2>1, <2>3, NoReviewStep
  <2> QED BY <2>1, <2>2, <2>4 DEF TypeInv
<1>4. CASE Review
  <2>1. ~run.busy /\ UNCHANGED <<evidence, answers, log>>
    BY <1>4 DEF Review
  <2>2. LogInv'
    BY <2>1 DEF LogInv, SawEnough
  <2>3. CASE session.status = "reviewed"
    <3>1. told' = [status |-> "completed", verdict |-> session.verdict]
          /\ UNCHANGED <<run, session, scores, reviews>>
      BY <1>4, <2>3 DEF Review, Tell
    <3>2. IsRecord(scores[1])' <=> IsRecord(scores'[1])
      BY <2>1, LogSame
    <3>3. ReviewInv'
      BY <2>3, <3>1, <3>2 DEF ReviewInv
    <3> QED BY <2>1, <2>2, <3>1, <3>3 DEF TypeInv
  <2>4. CASE session.status # "reviewed" /\ Outcome(evidence) # "failed"
    <3>1. Extract(evidence, answers) /\ UNCHANGED run
      BY <1>4, <2>4 DEF Review
    <3>2. ReviewInv'
      BY <2>1, <2>4, <3>1, ExtractStep DEF TypeInv
    <3> QED BY <2>1, <2>2, <3>1, <3>2 DEF TypeInv
  <2>5. CASE session.status # "reviewed" /\ Outcome(evidence) = "failed"
    <3>1. run' = Load /\ UNCHANGED <<session, scores, reviews, told>>
      BY <1>4, <2>5 DEF Review
    <3>2. run'.evidence = evidence
      BY <3>1 DEF Load
    <3>3. ReviewInv'
      BY <2>1, <2>5, <3>1, NoReviewStep
    <3> QED BY <2>1, <2>2, <3>2, <3>3 DEF TypeInv
  <2> QED BY <2>3, <2>4, <2>5
<1>5. ASSUME run' = [NoRun EXCEPT !.runs = run.runs], UNCHANGED <<evidence, answers, log>>, ReviewInv'
      PROVE  VerdictInv'
  <2>1. run'.evidence = <<>>
    BY <1>5 DEF NoRun
  <2>2. LogInv'
    BY <1>5 DEF LogInv, SawEnough
  <2>3. <<>> \in Seq(Items)
    OBVIOUS
  <2> QED BY <1>5, <2>1, <2>2, <2>3 DEF TypeInv
<1>6. CASE EndRun
  <2>1. run.busy /\ Extract(run.evidence, run.answers) /\ UNCHANGED <<evidence, answers, log>>
        /\ run' = [NoRun EXCEPT !.runs = run.runs]
    BY <1>6 DEF EndRun
  <2>2. session.status # "reviewed" /\ ~run'.busy
    BY <2>1 DEF ReviewInv, NoRun
  <2>3. ReviewInv'
    BY <2>1, <2>2, ExtractStep DEF TypeInv
  <2> QED BY <2>1, <2>3, <1>5
<1>7. CASE RunFails
  <2>1. /\ run.busy /\ UNCHANGED <<evidence, answers, log, session, scores, reviews>>
        /\ run' = [NoRun EXCEPT !.runs = run.runs] /\ told'.status = "failed"
    BY <1>7 DEF RunFails, Tell
  <2>2. session.status # "reviewed"
    BY <2>1 DEF ReviewInv
  <2>3. ReviewInv'
    BY <2>1, <2>2, NoReviewStep
  <2> QED BY <2>1, <2>3, <1>5
<1>8. CASE UNCHANGED verdictVars
  <2>1. UNCHANGED <<evidence, answers, log, run, session, scores, reviews, told>>
    BY <1>8 DEF verdictVars
  <2>2. LogInv'
    BY <2>1 DEF LogInv, SawEnough
  <2>3. ReviewInv'
    BY <2>1, NoReviewStep DEF ReviewInv
  <2> QED BY <2>1, <2>2, <2>3 DEF TypeInv
<1>9. ASSUME NEW tool \in Tools, NEW e \in Named, Look(tool, e) PROVE VerdictInv'
  <2>1. PICK event \in Observations(tool, e) : Observe(event)
    BY <1>9 DEF Look
  <2>2. event \in Events /\ SawEnough(event)
    BY LookIs DEF Events
  <2> QED BY <2>1, <2>2, <1>3
<1>10. CASE AskLearner \/ SubmitDraft
  BY <1>3, <1>10, PlainEvents DEF AskLearner, SubmitDraft
<1>11. Texts \subseteq Text /\ NoText \in Text
  BY VerdictAssumption DEF NoText, Text
<1>12. ASSUME NEW e \in Notes \cup Images, NEW t \in Texts, SubmitEvidence(e, t) PROVE VerdictInv'
  BY <1>1, <1>11, <1>12 DEF Ids
<1>13. ASSUME NEW e \in Links, SubmitEvidence(e, NoText) PROVE VerdictInv'
  BY <1>1, <1>11, <1>13 DEF Ids
<1> QED BY <1>2, <1>4, <1>6, <1>7, <1>8, <1>9, <1>10, <1>12, <1>13 DEF VerdictNext

\* The invariant holds at the start.
LEMMA VerdictInitially == VerdictInit => VerdictInv
<1> SUFFICES ASSUME VerdictInit PROVE VerdictInv
  OBVIOUS
<1>1. evidence = <<>> /\ log = <<>> /\ run.evidence = <<>> /\ session.status = "running"
      /\ scores = <<>> /\ reviews = <<>> /\ told.status = "none"
  BY DEF VerdictInit, NoRun
<1>2. TypeInv
  BY <1>1 DEF TypeInv
<1>3. LogInv
  BY <1>1 DEF LogInv
<1>4. ReviewInv
  BY <1>1 DEF ReviewInv
<1> QED BY <1>2, <1>3, <1>4 DEF VerdictInv

\* VerdictInv is an inductive invariant of a session's reviews.
THEOREM VerdictInvariance == VerdictSpec => []VerdictInv
BY VerdictInitially, VerdictStep, PTL DEF VerdictSpec
-----------------------------------------------------------------------------
\* A check that saw an image lists each of its facts under an identity of its own.
LEMMA FactIdsAre ==
    ASSUME log \in Seq(Events), LogInv, NEW i \in Seen
    PROVE  Cardinality(FactIds(LineAt(i))) >= MinVisualFacts
<1> DEFINE m == Len(log[i].facts)
           order == LineAt(i).consumed
           T == FactIds(LineAt(i))
<1>1. m \in Nat /\ m >= MinVisualFacts
  BY SeenIs
<1>2. DOMAIN order = 1..m /\ \A n \in 1..m : order[n] = <<log[i].of, i, n, log[i].facts[n]>>
  BY IdentitiesAre
<1>3. order \in Seq({order[n] : n \in 1..m})
  BY IdentitiesAre
<1>4. order = [n \in 1..m |-> order[n]]
  <2>1. order \in [1..Len(order) -> {order[n] : n \in 1..m}]
    BY <1>3, LenProperties
  <2> HIDE DEF order
  <2> QED BY <1>2, <2>1
<1>5. T = {order[n] : n \in 1..m}
  BY <1>2 DEF FactIds, ToSet
<1> HIDE DEF order, T, m
<1>6. order \in [1..m -> T]
  BY <1>4, <1>5
<1>7. \A a, b \in 1..m : order[a] = order[b] => a = b
  BY <1>2
<1>8. order \in Injection(1..m, T) /\ order \in Surjection(1..m, T)
  BY <1>2, <1>5, <1>6, <1>7 DEF Injection, IsInjective, Surjection
<1>9. ExistsBijection(1..m, T)
  BY <1>8 DEF ExistsBijection, Bijection
<1>10. IsFiniteSet(1..m) /\ Cardinality(1..m) = m
  BY <1>1, FS_Interval
<1>11. Cardinality(T) = m
  BY <1>9, <1>10, FS_Bijection
<1> QED BY <1>1, <1>11 DEF T

\* The one record there is.
LEMMA TheRecord ==
    ASSUME VerdictInv, NEW n \in DOMAIN scores
    PROVE  n = 1 /\ IsRecord(scores[1]) /\ session.status = "reviewed"
<1>1. scores # <<>>
  OBVIOUS
<1> QED BY <1>1 DEF VerdictInv, ReviewInv

\* image_narrative_provider.py:84-112: every image of a recorded review was found to show
\* three facts or more, by a check that came after the draft before the one under review.
THEOREM EveryImageNarrated == VerdictSpec => []ImagesAreNarrated
<1>1. VerdictInv => ImagesAreNarrated
  <2> SUFFICES ASSUME VerdictInv, NEW n \in DOMAIN scores, NEW m \in DOMAIN scores[n].items,
                      IsImage(scores[n].items[m].of)
               PROVE  \E k \in DOMAIN scores[n].lineage :
                        LET item == scores[n].lineage[k] IN
                        /\ item.of = scores[n].items[m].of /\ Cardinality(FactIds(item)) >= MinVisualFacts
                        /\ item.source < scores[n].source
                        /\ log[item.source].of = scores[n].items[m].of
                        /\ log[item.source].status = "success"
                        /\ \A i \in OfKind("draft") : i < item.source \/ i >= scores[n].source
    BY DEF ImagesAreNarrated
  <2> DEFINE s == scores[n]
             e == s.items[m].of
             d == Newest(StandingDrafts)
             w == Window(d)
             stories == Narratives(s.items, w)
  <2>1. IsRecord(s)
    BY TheRecord
  <2>2. log \in Seq(Events) /\ LogInv
    BY DEF VerdictInv, TypeInv
  <2>3. IsWindow(w)
    BY DEF IsWindow, Window
  <2>4. s.items \in Seq(Items) /\ PolicyHolds(s.items, w) /\ s.source = d
        /\ s.lineage = Lineage(stories) /\ StandingDrafts # {}
    BY <2>1 DEF IsRecord
  <2>5. \A i \in w : i \in OfKind("check") /\ i < d /\ i > Newest({j \in OfKind("draft") : j < d})
    BY DEF Window
  <2> HIDE DEF s, d, w, stories
  <2>6. PICK j \in w : Succeeded(j) /\ log[j].tool = "image" /\ log[j].of = e
                         /\ Len(log[j].facts) >= MinVisualFacts
    BY <2>4 DEF PolicyHolds, s
  <2>7. j \in Seen
    BY <2>5, <2>6 DEF Seen, Succeeded, StatusRead
  <2>8. j \in Usable(e, w)
    BY <2>2, <2>6, <2>7, SeenIs DEF Usable
  <2> HIDE DEF e
  <2>9. PICK i \in Seen : i \in w /\ log[i].of = e /\ Narrative(e, w) = StoryAt(i)
    BY <2>2, <2>3, <2>8, UsableIs
  <2>10. m \in Narrated(s.items, w)
    BY <2>8 DEF Narrated, e, s
  <2>11. \E k \in DOMAIN stories : stories[k] = Narrative(e, w)
    <3>1. \A x \in Narrated(s.items, w) : \E k \in DOMAIN stories : stories[k] = Narrative(s.items[x].of, w)
      <4>1. s.items \in Seq(Items)
        BY <2>4
      <4> HIDE DEF s
      <4>2. \A x \in Narrated(s.items, w) : \E k \in DOMAIN Narratives(s.items, w) :
               Narratives(s.items, w)[k] = Narrative(s.items[x].of, w)
        BY ONLY <2>2, <2>3, <4>1, NarrativesAre
      <4> QED BY <4>2 DEF stories
    <3> QED BY <2>10, <3>1 DEF e
  <2>12. PICK k \in DOMAIN s.lineage : s.lineage[k] = LineAt(i)
    <3>1. \A x \in DOMAIN stories : \E k \in DOMAIN s.lineage : s.lineage[k] = LineAt(stories[x].source)
      BY <2>2, <2>3, <2>4, LineageIs DEF stories
    <3>2. StoryAt(i).source = i
      BY DEF StoryAt
    <3> QED BY <2>9, <2>11, <3>1, <3>2
  <2>13. s.lineage[k].of = e /\ s.lineage[k].source = i
    BY <2>9, <2>12 DEF LineAt
  <2>14. Cardinality(FactIds(s.lineage[k])) >= MinVisualFacts
    BY <2>2, <2>12, FactIdsAre
  <2>15. i < d /\ log[i].status = "success"
    BY <2>5, <2>9 DEF Seen
  <2>16. \A x \in OfKind("draft") : x < i \/ x >= d
    <3> DEFINE before == {x \in OfKind("draft") : x < d}
    <3>1. OfKind("draft") \in SUBSET (1..Len(log)) /\ Len(log) \in Nat /\ i \in Nat
      BY <2>2, LogIs DEF OfKind, Seen
    <3>2. d \in StandingDrafts
      <4>1. StandingDrafts \in SUBSET (1..Len(log))
        BY <3>1 DEF StandingDrafts
      <4> QED BY <2>4, <3>1, <4>1, NewestIs DEF d
    <3>3. d \in Nat
      BY <3>1, <3>2 DEF StandingDrafts
    <3> SUFFICES ASSUME NEW x \in OfKind("draft"), x < d PROVE x < i
      BY <3>1, <3>3
    <3>4. before \in SUBSET (1..Len(log)) /\ before # {} /\ x \in before
      BY <3>1
    <3> HIDE DEF before
    <3>5. Newest(before) \in before /\ x <= Newest(before)
      BY <3>1, <3>4, NewestIs
    <3>6. Newest(before) \in Nat /\ x \in Nat
      <4>1. Newest(before) \in 1..Len(log) /\ x \in 1..Len(log)
        BY <3>1, <3>4, <3>5
      <4> QED BY <3>1, <4>1
    <3>7. i > Newest(before)
      BY <2>5, <2>9 DEF before
    <3> QED BY <3>1, <3>5, <3>6, <3>7
  <2> QED BY <2>4, <2>9, <2>13, <2>14, <2>15, <2>16 DEF s, e
<1> QED BY <1>1, VerdictInvariance, PTL
-----------------------------------------------------------------------------
Earns(t) == ~RestatesGoal(t) /\ ~(Units(t) < 9) /\ ~t.filler /\ t.related

\* What the points of scoring.py:242-284 come to: sixty or more exactly if a text earned
\* them, or no text is a copy and the answers did.
LEMMA ScoreIs ==
    ASSUME NEW submitted \in BOOLEAN, NEW texts, texts # {} => submitted, NEW answer, NEW checked
    PROVE  ScoreSession(submitted, texts, answer, checked).status = "LikelyLearning" <=>
             \/ \E t \in texts : Earns(t)
             \/ /\ submitted /\ \A t \in texts : ~RestatesGoal(t)
                /\ HasSpecificAnswer(answer) /\ answer.related
<1> DEFINE A == Independent(texts) # {}
           C == Copied(texts) # {}
           H == HasSpecificAnswer(answer)
           R == answer.related
           G == OnlyGeneric(texts, answer, checked)
           P == Points(texts, answer).score
           result == ScoreSession(submitted, texts, answer, checked)
<1>1. A <=> \E t \in texts : Earns(t)
  BY DEF Independent, Copied, IsSpecificAligned, IsGeneric, Earns
<1>2. C <=> \E t \in texts : RestatesGoal(t)
  BY DEF Copied
<1>3. G => ~A /\ ~H
  BY DEF OnlyGeneric, Independent, IsSpecificAligned
<1>4. A => submitted
  BY DEF Independent
<1>5. P = 45 + (IF A THEN 12 ELSE 0) + (IF A \/ (H /\ R) THEN 8 ELSE 0) + (IF H THEN 10 ELSE 0)
  BY DEF Points, Verdict, Award
<1>6. result.status = IF submitted /\ ~(C /\ ~A) /\ ~(~C /\ G) /\ Smaller(P, 82) >= 60
                      THEN "LikelyLearning"
                      ELSE IF submitted THEN "WeakEvidence" ELSE "InsufficientEvidence"
  BY DEF ScoreSession, Verdict
<1> HIDE DEF A, C, H, R, G, P, result
<1>7. Smaller(P, 82) >= 60 <=> A \/ (H /\ R)
  <2>1. CASE A
    BY <2>1, <1>5 DEF Smaller
  <2>2. CASE ~A /\ H /\ R
    BY <2>2, <1>5 DEF Smaller
  <2>3. CASE ~A /\ ~(H /\ R)
    BY <2>3, <1>5 DEF Smaller
  <2> QED BY <2>1, <2>2, <2>3
<1>8. result.status = "LikelyLearning" <=>
        submitted /\ ~(C /\ ~A) /\ ~(~C /\ G) /\ Smaller(P, 82) >= 60
  BY <1>6
<1>9. result.status = "LikelyLearning" <=> A \/ (submitted /\ ~C /\ H /\ R)
  BY <1>3, <1>4, <1>7, <1>8
<1>10. C <=> ~ \A t \in texts : ~RestatesGoal(t)
  BY <1>2
<1>11. result.status = "LikelyLearning" <=>
         \/ \E t \in texts : Earns(t)
         \/ submitted /\ (\A t \in texts : ~RestatesGoal(t)) /\ H /\ R
  BY <1>1, <1>9, <1>10
<1> QED BY <1>11 DEF H, R, result

\* The texts a review scores are the notes and what its lineage says was seen.
LEMMA ScoredTexts ==
    ASSUME log \in Seq(Events), LogInv, NEW window, IsWindow(window), NEW items \in Seq(Items)
    PROVE  LET stories == Narratives(items, window)
               lineage == Lineage(stories)
           IN  {stories[k].text : k \in DOMAIN stories} = {TextAt(lineage[k].source) : k \in DOMAIN lineage}
<1> DEFINE stories == Narratives(items, window)
           lineage == Lineage(stories)
<1>1. /\ \A k \in DOMAIN lineage : \E i \in Seen :
             i \in window /\ lineage[k] = LineAt(i) /\ \E j \in DOMAIN stories : stories[j] = StoryAt(i)
      /\ \A j \in DOMAIN stories : \E k \in DOMAIN lineage : lineage[k] = LineAt(stories[j].source)
  BY LineageIs
<1>2. \A k \in DOMAIN stories : \E i \in Seen : i \in window /\ stories[k] = StoryAt(i)
  BY NarrativesAre
<1>3. \A i \in Seen : StoryAt(i).text = TextAt(i) /\ StoryAt(i).source = i /\ LineAt(i).source = i
  BY DEF StoryAt, LineAt
<1> HIDE DEF stories, lineage
<1>4. \A k \in DOMAIN stories : \E l \in DOMAIN lineage : stories[k].text = TextAt(lineage[l].source)
  BY <1>1, <1>2, <1>3
<1>5. \A l \in DOMAIN lineage : \E k \in DOMAIN stories : stories[k].text = TextAt(lineage[l].source)
  BY <1>1, <1>3
<1>6. {stories[k].text : k \in DOMAIN stories} = {TextAt(lineage[k].source) : k \in DOMAIN lineage}
  BY <1>4, <1>5
<1> QED BY <1>6 DEF stories, lineage

\* scoring.py:176-303: a learning is likely exactly if something earned it, whatever the
\* texts, the facts the model named and the answers.
THEOREM VerdictEarned == VerdictSpec => []LikelyIffEarned
<1>1. VerdictInv => LikelyIffEarned
  <2> SUFFICES ASSUME VerdictInv, NEW n \in DOMAIN scores
               PROVE  LET s == scores[n]
                          notes == {s.items[m].text : m \in {i \in DOMAIN s.items : s.items[i].of \in Notes}}
                          seen == {TextAt(s.lineage[k].source) : k \in DOMAIN s.lineage}
                          answer == JoinedAnswers(s.given)
                      IN  s.verdict.status = "LikelyLearning" <=>
                            \/ \E t \in notes \cup seen : Earns(t)
                            \/ /\ s.items # <<>> /\ \A t \in notes \cup seen : ~RestatesGoal(t)
                               /\ HasSpecificAnswer(answer) /\ answer.related
    BY DEF LikelyIffEarned, TextAt, Earns, HasSpecificAnswer
  <2> DEFINE s == scores[n]
             w == Window(Newest(StandingDrafts))
             stories == Narratives(s.items, w)
             notes == {s.items[m].text : m \in {i \in DOMAIN s.items : s.items[i].of \in Notes}}
             seen == {TextAt(s.lineage[k].source) : k \in DOMAIN s.lineage}
             answer == JoinedAnswers(s.given)
             checked == \E i \in w : Succeeded(i)
  <2>1. IsRecord(s)
    BY TheRecord
  <2>2. log \in Seq(Events) /\ LogInv /\ IsWindow(w)
    BY DEF VerdictInv, TypeInv, IsWindow, Window
  <2>3. s.items \in Seq(Items) /\ s.lineage = Lineage(stories)
        /\ s.verdict = ScoreOf(s.items, s.given, w)
    BY <2>1 DEF IsRecord
  <2> HIDE DEF s, w
  <2>4. seen = {stories[k].text : k \in DOMAIN stories}
    <3> DEFINE items == s.items
    <3>1. items \in Seq(Items)
      BY <2>3
    <3> HIDE DEF items
    <3>2. {Narratives(items, w)[k].text : k \in DOMAIN Narratives(items, w)} =
          {TextAt(Lineage(Narratives(items, w))[k].source) : k \in DOMAIN Lineage(Narratives(items, w))}
      BY ONLY <2>2, <3>1, ScoredTexts
    <3> QED BY <2>3, <3>2 DEF items
  <2>5. s.verdict = ScoreSession(s.items # <<>>, notes \cup seen, answer, checked)
    BY <2>3, <2>4 DEF ScoreOf
  <2>6. notes \cup seen # {} => s.items # <<>>
    <3>1. seen # {} => s.items # <<>>
      <4>1. DOMAIN stories # {} => s.items # <<>>
        BY <2>2, <2>3, NarrativesAre
      <4> QED BY <2>4, <4>1
    <3>2. notes # {} => s.items # <<>>
      OBVIOUS
    <3> QED BY <3>1, <3>2
  <2> HIDE DEF seen, notes, answer, checked
  <2>7. (s.items # <<>>) \in BOOLEAN
    OBVIOUS
  <2>8. ScoreSession(s.items # <<>>, notes \cup seen, answer, checked).status = "LikelyLearning" <=>
             \/ \E t \in notes \cup seen : Earns(t)
             \/ /\ s.items # <<>> /\ \A t \in notes \cup seen : ~RestatesGoal(t)
                /\ HasSpecificAnswer(answer) /\ answer.related
    <3> DEFINE texts == notes \cup seen
               submitted == s.items # <<>>
    <3>1. submitted \in BOOLEAN /\ (texts # {} => submitted)
      BY <2>6
    <3> HIDE DEF texts, submitted
    <3>2. ScoreSession(submitted, texts, answer, checked).status = "LikelyLearning" <=>
             \/ \E t \in texts : Earns(t)
             \/ /\ submitted /\ \A t \in texts : ~RestatesGoal(t)
                /\ HasSpecificAnswer(answer) /\ answer.related
      BY <3>1, ScoreIs
    <3> QED BY <3>2 DEF texts, submitted
  <2> QED BY <2>5, <2>8 DEF seen, notes, answer, s
<1> QED BY <1>1, VerdictInvariance, PTL
-----------------------------------------------------------------------------
\* The line of a check agrees with the log, ...
LEMMA LineAgrees ==
    ASSUME log \in Seq(Events), LogInv, NEW i \in Seen
    PROVE  AgreesWithLog(LineAt(i))
<1>1. LineAt(i).facts # <<>>
  BY IdentitiesAre
<1>2. /\ i \in OfKind("check") /\ log[i].tool = "image" /\ log[i].status = "success"
  BY DEF Seen
<1> QED BY <1>1, <1>2 DEF AgreesWithLog, LineAt

\* ... and what agrees with the log is the line of the check it names.
LEMMA AgreeingIs ==
    ASSUME NEW item, AgreesWithLog(item)
    PROVE  /\ item.source \in Seen /\ item.of = log[item.source].of
           /\ item.facts = LineAt(item.source).facts
           /\ item.consumed = LineAt(item.source).consumed
           /\ item.projection = LineAt(item.source).projection
<1>1. item.source \in Seen /\ item.of = log[item.source].of
  BY DEF AgreesWithLog, Seen
<1>2. item.facts = LineAt(item.source).facts
  BY DEF AgreesWithLog, LineAt
<1>3. item.consumed = LineAt(item.source).consumed
  BY DEF AgreesWithLog, LineAt
<1>4. item.projection = LineAt(item.source).projection
  BY DEF AgreesWithLog, LineAt
<1> QED BY <1>1, <1>2, <1>3, <1>4

\* A line is a record of five fields, and its projection names its evidence and its check.
LEMMA LineIs ==
    ASSUME NEW i
    PROVE  /\ LineAt(i) = [of |-> LineAt(i).of, source |-> LineAt(i).source, projection |-> LineAt(i).projection,
                           consumed |-> LineAt(i).consumed, facts |-> LineAt(i).facts]
           /\ LineAt(i).of = log[i].of /\ LineAt(i).source = i
           /\ LineAt(i).projection = <<log[i].of, i, LineAt(i).consumed>>
BY DEF LineAt, Projection

\* A line that names another check or other evidence disagrees with its projection.
LEMMA OtherSource ==
    ASSUME NEW i \in Seen, NEW j, AgreesWithLog([LineAt(i) EXCEPT !.source = j])
    PROVE  [LineAt(i) EXCEPT !.source = j] = LineAt(i)
<1> DEFINE line == LineAt(i)
           x == [line EXCEPT !.source = j]
<1>1. /\ line = [of |-> line.of, source |-> line.source, projection |-> line.projection,
                 consumed |-> line.consumed, facts |-> line.facts]
      /\ line.source = i /\ line.projection = <<log[i].of, i, line.consumed>>
  BY LineIs
<1> HIDE DEF line
<1>2. x.source = j /\ x.projection = line.projection
  BY <1>1
<1>3. x.projection = LineAt(x.source).projection
  BY AgreeingIs DEF line
<1>4. LineAt(j).projection = <<log[j].of, j, LineAt(j).consumed>>
  BY LineIs
<1>5. i = j
  BY <1>1, <1>2, <1>3, <1>4
<1>6. x = line
  BY <1>1, <1>5
<1> QED BY <1>6 DEF line

\* The same of the evidence a line names.
LEMMA OtherEvidence ==
    ASSUME NEW i \in Seen, NEW e, AgreesWithLog([LineAt(i) EXCEPT !.of = e])
    PROVE  [LineAt(i) EXCEPT !.of = e] = LineAt(i)
<1> DEFINE line == LineAt(i)
           x == [line EXCEPT !.of = e]
<1>1. /\ line = [of |-> line.of, source |-> line.source, projection |-> line.projection,
                 consumed |-> line.consumed, facts |-> line.facts]
      /\ line.source = i /\ line.of = log[i].of
  BY LineIs
<1> HIDE DEF line
<1>2. x.source = i /\ x.of = e
  BY <1>1
<1>3. x.of = log[x.source].of
  BY AgreeingIs DEF line
<1>4. x = line
  BY <1>1, <1>2, <1>3
<1> QED BY <1>4 DEF line

\* A fact that says something else is not the fact the log holds.
LEMMA OtherDigest ==
    ASSUME log \in Seq(Events), LogInv, NEW i \in Seen, NEW f,
           AgreesWithLog([LineAt(i) EXCEPT !.facts[1].digest = f])
    PROVE  [LineAt(i) EXCEPT !.facts[1].digest = f] = LineAt(i)
<1> DEFINE line == LineAt(i)
           facts == line.facts
           changed == [facts EXCEPT ![1].digest = f]
           x == [line EXCEPT !.facts = changed]
<1>1. /\ line = [of |-> line.of, source |-> line.source, projection |-> line.projection,
                 consumed |-> line.consumed, facts |-> line.facts]
      /\ line.source = i
  BY LineIs
<1>2. /\ facts \in Seq({facts[n] : n \in DOMAIN facts}) /\ 1 \in DOMAIN facts
      /\ facts[1] = [id |-> facts[1].id, digest |-> facts[1].digest]
  <2>1. Len(log[i].facts) \in Nat /\ Len(log[i].facts) >= 3
    BY SeenIs DEF MinVisualFacts
  <2>2. /\ facts \in Seq({facts[n] : n \in DOMAIN facts}) /\ DOMAIN facts = 1..Len(log[i].facts)
        /\ \A n \in DOMAIN facts :
              facts[n] = [id |-> <<log[i].of, i, n, log[i].facts[n]>>, digest |-> log[i].facts[n]]
    BY IdentitiesAre
  <2> HIDE DEF facts
  <2>3. 1 \in DOMAIN facts
    BY <2>1, <2>2
  <2>4. facts[1] = [id |-> facts[1].id, digest |-> facts[1].digest]
    <3>1. facts[1] = [id |-> <<log[i].of, i, 1, log[i].facts[1]>>, digest |-> log[i].facts[1]]
      BY <2>2, <2>3
    <3>2. facts[1].id = <<log[i].of, i, 1, log[i].facts[1]>> /\ facts[1].digest = log[i].facts[1]
      BY <3>1
    <3> QED BY ONLY <3>1, <3>2
  <2> QED BY <2>2, <2>3, <2>4
<1>3. [LineAt(i) EXCEPT !.facts[1].digest = f] = x
  OBVIOUS
<1>4. AgreesWithLog(x)
  BY <1>3
<1> HIDE DEF line
<1>5. x.source = i /\ x.facts = changed
  BY <1>1
<1>6. changed = facts
  <2>1. x.facts = LineAt(x.source).facts
    BY <1>4, AgreeingIs
  <2> QED BY <1>5, <2>1 DEF line
<1>7. x = line
  BY <1>1, <1>6
<1> QED BY <1>3, <1>7 DEF line

\* A line without its first fact, or without its identity, is one short.
LEMMA ShortLine ==
    ASSUME log \in Seq(Events), LogInv, NEW i \in Seen
    PROVE  /\ ~AgreesWithLog([LineAt(i) EXCEPT !.facts = Tail(@)])
           /\ ~AgreesWithLog([LineAt(i) EXCEPT !.consumed = Tail(@)])
<1> DEFINE line == LineAt(i)
<1>1. /\ line = [of |-> line.of, source |-> line.source, projection |-> line.projection,
                 consumed |-> line.consumed, facts |-> line.facts]
      /\ line.source = i
  BY LineIs
<1>2. Len(log[i].facts) \in Nat /\ Len(log[i].facts) >= 3
  BY SeenIs DEF MinVisualFacts
<1>3. /\ line.facts \in Seq({line.facts[n] : n \in DOMAIN line.facts}) /\ Len(line.facts) = Len(log[i].facts)
      /\ line.consumed \in Seq({line.consumed[n] : n \in DOMAIN line.facts})
      /\ Len(line.consumed) = Len(log[i].facts)
  BY IdentitiesAre
<1>4. ASSUME NEW S, NEW q \in Seq(S), Len(q) = Len(log[i].facts) PROVE Tail(q) # q
  <2>1. q # <<>>
    BY <1>2, <1>4
  <2>2. Len(Tail(q)) = Len(q) - 1
    BY <1>4, <2>1, HeadTailProperties
  <2> QED BY <1>2, <1>4, <2>2
<1>5. Tail(line.facts) # line.facts /\ Tail(line.consumed) # line.consumed
  BY <1>3, <1>4
<1>6. ASSUME AgreesWithLog([line EXCEPT !.facts = Tail(line.facts)]) PROVE FALSE
  <2> DEFINE x == [line EXCEPT !.facts = Tail(line.facts)]
  <2>1. x.facts = LineAt(x.source).facts
    BY <1>6, AgreeingIs
  <2> HIDE DEF line
  <2>2. x.source = i /\ x.facts = Tail(line.facts)
    BY <1>1
  <2> HIDE DEF x
  <2>3. x.facts = line.facts
    BY <2>1, <2>2 DEF line
  <2> QED BY <1>5, <2>2, <2>3
<1>7. ASSUME AgreesWithLog([line EXCEPT !.consumed = Tail(line.consumed)]) PROVE FALSE
  <2> DEFINE x == [line EXCEPT !.consumed = Tail(line.consumed)]
  <2>1. x.consumed = LineAt(x.source).consumed
    BY <1>7, AgreeingIs
  <2> HIDE DEF line
  <2>2. x.source = i /\ x.consumed = Tail(line.consumed)
    BY <1>1
  <2> HIDE DEF x
  <2>3. x.consumed = line.consumed
    BY <2>1, <2>2 DEF line
  <2> QED BY <1>5, <2>2, <2>3
<1> QED BY <1>6, <1>7

Backwards(line) == [line EXCEPT !.facts = Reverse(@), !.consumed = Reverse(@)]

\* The facts of a line are in the order of the log, so their reverse is another.
LEMMA ReversedLine ==
    ASSUME log \in Seq(Events), LogInv, NEW i \in Seen
    PROVE  ~AgreesWithLog(Backwards(LineAt(i)))
<1> DEFINE line == LineAt(i)
           m == Len(log[i].facts)
           back == Reverse(line.consumed)
           x == Backwards(line)
<1>1. /\ line = [of |-> line.of, source |-> line.source, projection |-> line.projection,
                 consumed |-> line.consumed, facts |-> line.facts]
      /\ line.source = i
  BY LineIs
<1>2. m \in Nat /\ m >= 3
  BY SeenIs DEF MinVisualFacts
<1>3. /\ Len(line.consumed) = m
      /\ \A n \in 1..m : line.consumed[n] = <<log[i].of, i, n, log[i].facts[n]>>
  BY IdentitiesAre
<1> HIDE DEF m
<1>4. back[1] = line.consumed[m]
  <2>1. 1 \in 1..m /\ (m - 1) + 1 = m
    BY <1>2
  <2> HIDE DEF line
  <2> QED BY <1>3, <2>1 DEF Reverse
<1>5. line.consumed[m] # line.consumed[1]
  <2>1. 1 \in 1..m /\ m \in 1..m /\ m # 1
    BY <1>2
  <2> HIDE DEF line
  <2> QED BY <1>3, <2>1
<1>6. x.source = i /\ x.consumed = back
  <2> HIDE DEF line
  <2> QED BY <1>1 DEF Backwards
<1> SUFFICES ASSUME AgreesWithLog(x) PROVE FALSE
  OBVIOUS
<1>7. x.consumed = LineAt(x.source).consumed
  BY AgreeingIs
<1> HIDE DEF x, back
<1>8. back = line.consumed
  BY <1>6, <1>7
<1> QED BY <1>4, <1>5, <1>8

\* No check that saw an image holds one fact only.
LEMMA LoneFact ==
    ASSUME log \in Seq(Events), LogInv, NEW x, NEW e, NEW j, NEW f,
           x.facts = Identities(e, j, <<f>>)
    PROVE  ~AgreesWithLog(x)
<1> SUFFICES ASSUME AgreesWithLog(x) PROVE FALSE
  OBVIOUS
<1>1. x.source \in Seen /\ x.facts = LineAt(x.source).facts
  BY AgreeingIs
<1> DEFINE m == Len(log[x.source].facts)
<1>2. m \in Nat /\ m >= 3
  BY <1>1, SeenIs DEF MinVisualFacts
<1>3. DOMAIN x.facts = 1..m
  <2>1. \A i \in Seen : DOMAIN LineAt(i).facts = 1..Len(log[i].facts)
    BY IdentitiesAre
  <2> QED BY <1>1, <2>1
<1>4. DOMAIN x.facts = {1}
  BY DEF Identities
<1>5. 2 \in 1..m
  BY <1>2
<1>6. 2 \in DOMAIN x.facts
  BY <1>3, <1>5
<1>7. \A n \in DOMAIN x.facts : n = 1
  BY <1>4
<1> QED BY <1>6, <1>7
-----------------------------------------------------------------------------
\* What the reader asks of a score event, whatever the review event says.
Sound(s) ==
    /\ \A k \in DOMAIN s.lineage : AgreesWithLog(s.lineage[k])
    /\ NoneTwice(s.lineage) /\ s.consumed = Consumed(s.lineage)

\* A score event the reader accepts is sound.
LEMMA AcceptedIsSound ==
    ASSUME NEW s, NEW reviewed, ReadsBack(<<s>>, reviewed)
    PROVE  Sound(s)
BY DEF ReadsBack, Sound

\* The fields of a record, and what its lineage is made of.
LEMMA RecordIs ==
    ASSUME log \in Seq(Events), LogInv, NEW s, IsRecord(s)
    PROVE  /\ s = [id |-> s.id, source |-> s.source, verdict |-> s.verdict, given |-> s.given,
                   items |-> s.items, lineage |-> s.lineage, consumed |-> s.consumed]
           /\ s.consumed = Consumed(s.lineage) /\ NoneTwice(s.lineage)
           /\ s.lineage \in Seq(Lines)
           /\ \A k \in DOMAIN s.lineage : \E i \in Seen : s.lineage[k] = LineAt(i)
<1> DEFINE d == Newest(StandingDrafts)
           w == Window(d)
           items == s.items
           given == s.given
           lineage == Lineage(Narratives(items, w))
           verdict == ScoreOf(items, given, w)
           consumed == Consumed(lineage)
<1>1. /\ items \in Seq(Items) /\ NoneTwice(s.lineage)
      /\ s = [id |-> d, source |-> d, verdict |-> verdict, given |-> given, items |-> items,
              lineage |-> lineage, consumed |-> consumed]
  BY DEF IsRecord
<1>2. IsWindow(w)
  BY DEF IsWindow, Window
<1> HIDE DEF d, verdict, given, items, consumed, w
<1>3. lineage \in Seq(Lines) /\ \A k \in DOMAIN lineage : \E i \in Seen : lineage[k] = LineAt(i)
  <2>1. items \in Seq(Items)
    BY <1>1
  <2>2. /\ lineage \in Seq(Lines)
        /\ \A k \in DOMAIN lineage : \E i \in Seen :
              i \in w /\ lineage[k] = LineAt(i)
                /\ \E j \in DOMAIN Narratives(items, w) : Narratives(items, w)[j] = StoryAt(i)
    BY <2>1, <1>2, LineageIs
  <2> QED BY <2>2
<1> HIDE DEF lineage
<1>4. s.lineage = lineage /\ s.consumed = consumed /\ s.id = d /\ s.source = d /\ s.verdict = verdict
  BY <1>1
<1>5. s = [id |-> s.id, source |-> s.source, verdict |-> s.verdict, given |-> s.given,
           items |-> s.items, lineage |-> s.lineage, consumed |-> s.consumed]
  BY ONLY <1>1, <1>4 DEF items, given
<1> QED BY <1>1, <1>3, <1>4, <1>5 DEF consumed

\* A record is sound, and its lineage has one line for each check.
LEMMA RecordIsSound ==
    ASSUME log \in Seq(Events), LogInv, NEW s, IsRecord(s)
    PROVE  /\ Sound(s)
           /\ \A j, k \in DOMAIN s.lineage : s.lineage[j].source = s.lineage[k].source => j = k
<1>1. \A k \in DOMAIN s.lineage : AgreesWithLog(s.lineage[k])
  BY RecordIs, LineAgrees
<1>2. \A j, k \in DOMAIN s.lineage : s.lineage[j].source = s.lineage[k].source =>
         s.lineage[j].projection = s.lineage[k].projection
  BY <1>1, AgreeingIs
<1>3. NoneTwice(s.lineage)
  BY RecordIs
<1>4. \A j, k \in DOMAIN s.lineage : s.lineage[j].source = s.lineage[k].source => j = k
  BY <1>2, <1>3 DEF NoneTwice
<1> QED BY <1>1, <1>4, RecordIs DEF Sound

\* Another line in the place of one: the reader asks the same of it.
LEMMA PutLine ==
    ASSUME log \in Seq(Events), LogInv, NEW s, IsRecord(s), NEW k \in DOMAIN s.lineage,
           NEW x, Sound([s EXCEPT !.lineage[k] = x])
    PROVE  AgreesWithLog(x) /\ (x = s.lineage[k] => [s EXCEPT !.lineage[k] = x] = s)
<1> DEFINE L == s.lineage
           M == [L EXCEPT ![k] = x]
           t == [s EXCEPT !.lineage = M]
<1>1. /\ s = [id |-> s.id, source |-> s.source, verdict |-> s.verdict, given |-> s.given,
              items |-> s.items, lineage |-> s.lineage, consumed |-> s.consumed]
      /\ L \in Seq(Lines)
  BY RecordIs
<1>2. [s EXCEPT !.lineage[k] = x] = t
  OBVIOUS
<1>3. L = [n \in DOMAIN L |-> L[n]]
  <2> HIDE DEF L
  <2> QED BY <1>1
<1> HIDE DEF L, M
<1>4. t.lineage = M
  BY <1>1
<1>5. k \in DOMAIN M /\ M[k] = x
  BY <1>3 DEF M, L
<1>6. x = L[k] => M = L
  BY <1>3 DEF M
<1>7. M = L => t = s
  BY <1>1 DEF L
<1>8. AgreesWithLog(x)
  BY <1>2, <1>4, <1>5 DEF Sound
<1> QED BY <1>2, <1>6, <1>7, <1>8 DEF L

\* A score event with any one of its facts changed is not sound.
LEMMA AlteredIs ==
    ASSUME log \in Seq(Events), LogInv, NEW s, IsRecord(s), NEW t \in Altered(s), t # s
    PROVE  ~Sound(t)
<1> SUFFICES ASSUME Sound(t) PROVE FALSE
  OBVIOUS
<1>1. ASSUME NEW f \in s.consumed, t = [s EXCEPT !.consumed = @ \ {f}] PROVE FALSE
  <2> DEFINE rest == s.consumed \ {f}
  <2>1. t = [s EXCEPT !.consumed = rest]
    BY <1>1
  <2>2. f \notin rest
    OBVIOUS
  <2> HIDE DEF rest
  <2>3. /\ s = [id |-> s.id, source |-> s.source, verdict |-> s.verdict, given |-> s.given,
                items |-> s.items, lineage |-> s.lineage, consumed |-> s.consumed]
        /\ s.consumed = Consumed(s.lineage)
    BY RecordIs
  <2>4. t.consumed = rest /\ t.lineage = s.lineage
    BY <2>1, <2>3
  <2>5. t.consumed = Consumed(t.lineage)
    BY DEF Sound
  <2> QED BY <1>1, <2>2, <2>3, <2>4, <2>5
<1>2. ASSUME NEW k \in DOMAIN s.lineage, NEW x, t = [s EXCEPT !.lineage[k] = x]
      PROVE  AgreesWithLog(x) /\ x # s.lineage[k]
  BY <1>2, PutLine
<1>3. ASSUME NEW k \in DOMAIN s.lineage,
             \/ \E i \in DOMAIN log : t = [s EXCEPT !.lineage[k].source = i]
             \/ \E e \in Ids : t = [s EXCEPT !.lineage[k].of = e]
             \/ \E f \in VisualFacts : t = [s EXCEPT !.lineage[k].facts[1].digest = f]
             \/ t = [s EXCEPT !.lineage[k].facts = Tail(@)]
             \/ t = [s EXCEPT !.lineage[k].consumed = Tail(@)]
      PROVE  FALSE
  <2>1. PICK i \in Seen : s.lineage[k] = LineAt(i)
    BY RecordIs
  <2>2. ASSUME NEW j, t = [s EXCEPT !.lineage[k].source = j] PROVE FALSE
    <3> DEFINE x == [s.lineage[k] EXCEPT !.source = j]
    <3>1. t = [s EXCEPT !.lineage[k] = x]
      BY <2>2
    <3> HIDE DEF x
    <3>2. AgreesWithLog(x) /\ x # s.lineage[k]
      BY <3>1, <1>2
    <3> QED BY <2>1, <3>2, OtherSource DEF x
  <2>3. ASSUME NEW e, t = [s EXCEPT !.lineage[k].of = e] PROVE FALSE
    <3> DEFINE x == [s.lineage[k] EXCEPT !.of = e]
    <3>1. t = [s EXCEPT !.lineage[k] = x]
      BY <2>3
    <3> HIDE DEF x
    <3>2. AgreesWithLog(x) /\ x # s.lineage[k]
      BY <3>1, <1>2
    <3> QED BY <2>1, <3>2, OtherEvidence DEF x
  <2>4. ASSUME NEW f, t = [s EXCEPT !.lineage[k].facts[1].digest = f] PROVE FALSE
    <3> DEFINE x == [s.lineage[k] EXCEPT !.facts[1].digest = f]
    <3>1. t = [s EXCEPT !.lineage[k] = x]
      BY <2>4
    <3> HIDE DEF x
    <3>2. AgreesWithLog(x) /\ x # s.lineage[k]
      BY <3>1, <1>2
    <3> QED BY <2>1, <3>2, OtherDigest DEF x
  <2>5. ASSUME t = [s EXCEPT !.lineage[k].facts = Tail(@)] PROVE FALSE
    <3> DEFINE x == [s.lineage[k] EXCEPT !.facts = Tail(@)]
    <3>1. t = [s EXCEPT !.lineage[k] = x]
      BY <2>5
    <3> HIDE DEF x
    <3>2. AgreesWithLog(x)
      BY <3>1, <1>2
    <3> QED BY <2>1, <3>2, ShortLine DEF x
  <2>6. ASSUME t = [s EXCEPT !.lineage[k].consumed = Tail(@)] PROVE FALSE
    <3> DEFINE x == [s.lineage[k] EXCEPT !.consumed = Tail(@)]
    <3>1. t = [s EXCEPT !.lineage[k] = x]
      BY <2>6
    <3> HIDE DEF x
    <3>2. AgreesWithLog(x)
      BY <3>1, <1>2
    <3> QED BY <2>1, <3>2, ShortLine DEF x
  <2> QED BY <1>3, <2>2, <2>3, <2>4, <2>5, <2>6
<1>4. ASSUME NEW k \in DOMAIN s.lineage,
             t = [s EXCEPT !.lineage[k].facts = Reverse(@), !.lineage[k].consumed = Reverse(@)]
      PROVE  FALSE
  <2>1. PICK i \in Seen : s.lineage[k] = LineAt(i)
    BY RecordIs
  <2> DEFINE x == Backwards(s.lineage[k])
  <2>2. s.lineage = [n \in DOMAIN s.lineage |-> s.lineage[n]]
    BY RecordIs
  <2>3. t = [s EXCEPT !.lineage[k] = x]
    BY <1>4, <2>1, <2>2, RecordIs DEF Backwards
  <2> HIDE DEF x
  <2>4. AgreesWithLog(x)
    BY <2>3, <1>2
  <2>5. ~AgreesWithLog(Backwards(LineAt(i)))
    BY ReversedLine
  <2> QED BY <2>1, <2>4, <2>5 DEF x
<1>5. ASSUME NEW k \in DOMAIN s.lineage, t = [s EXCEPT !.lineage = Append(@, s.lineage[k])] PROVE FALSE
  <2> DEFINE L == s.lineage
             M == Append(L, L[k])
             m == Len(L)
  <2>1. L \in Seq(Lines) /\ s = [id |-> s.id, source |-> s.source, verdict |-> s.verdict, given |-> s.given,
                                 items |-> s.items, lineage |-> s.lineage, consumed |-> s.consumed]
    BY RecordIs
  <2>2. t.lineage = M
    BY <1>5, <2>1
  <2> HIDE DEF L
  <2>3. m \in Nat /\ DOMAIN L = 1..m /\ k \in 1..m /\ L[k] \in Lines
    BY <2>1, LenProperties, ElementOfSeq DEF L
  <2>4. /\ M \in Seq(Lines) /\ Len(M) = m + 1 /\ M[m + 1] = L[k]
        /\ \A n \in 1..m : M[n] = L[n]
    BY <2>1, <2>3, AppendProperties
  <2>5. DOMAIN M = 1..(m + 1)
    BY <2>4, LenProperties
  <2> HIDE DEF M, m
  <2>6. k \in DOMAIN M /\ m + 1 \in DOMAIN M /\ k # m + 1 /\ M[k] = M[m + 1]
    BY <2>3, <2>4, <2>5
  <2>7. NoneTwice(M)
    BY <2>2 DEF Sound
  <2> QED BY <2>6, <2>7 DEF NoneTwice
<1>6. ASSUME NEW k \in DOMAIN s.lineage, NEW i \in DOMAIN log, NEW f \in VisualFacts, t = MadeUp(s, k, i, f)
      PROVE  FALSE
  <2> DEFINE facts == Identities(s.lineage[k].of, i, <<f>>)
             order == InOrder(facts)
             projection == Projection(s.lineage[k].of, i, facts)
             x == [s.lineage[k] EXCEPT !.source = i, !.facts = facts, !.consumed = order,
                                       !.projection = projection]
             new == {Fact(s.lineage[k].of, i, 1, f)}
             M == [s.lineage EXCEPT ![k] = x]
  <2>1. t = [s EXCEPT !.lineage = M, !.consumed = new]
    BY <1>6 DEF MadeUp
  <2>2. PICK j \in Seen : s.lineage[k] = LineAt(j)
    BY RecordIs
  <2>3. /\ s.lineage = [n \in DOMAIN s.lineage |-> s.lineage[n]]
        /\ s = [id |-> s.id, source |-> s.source, verdict |-> s.verdict, given |-> s.given,
                items |-> s.items, lineage |-> s.lineage, consumed |-> s.consumed]
    BY RecordIs
  <2>4. s.lineage[k] = [of |-> s.lineage[k].of, source |-> s.lineage[k].source,
                        projection |-> s.lineage[k].projection,
                        consumed |-> s.lineage[k].consumed, facts |-> s.lineage[k].facts]
    BY <2>2, LineIs
  <2> HIDE DEF facts, order, projection, new
  <2>5. x.facts = facts
    BY <2>4
  <2> HIDE DEF x
  <2>6. k \in DOMAIN M /\ M[k] = x
    BY <2>3
  <2> HIDE DEF M
  <2>7. t.lineage = M
    BY <2>1, <2>3
  <2>8. AgreesWithLog(x)
    BY <2>6, <2>7 DEF Sound
  <2> QED BY <2>5, <2>8, LoneFact DEF facts
<1>7. ASSUME NEW k \in DOMAIN s.lineage, t \in Misnamed(s, k) PROVE FALSE
  BY <1>3, <1>7, ZenonT(30) DEF Misnamed
<1>8. ASSUME NEW k \in DOMAIN s.lineage, t \in Misplaced(s, k) PROVE FALSE
  BY <1>3, <1>4, <1>5, <1>8, ZenonT(30) DEF Misplaced
<1>9. ASSUME NEW k \in DOMAIN s.lineage, t \in {MadeUp(s, k, i, f) : i \in DOMAIN log, f \in VisualFacts} PROVE FALSE
  BY <1>6, <1>9
<1> DEFINE A == {[s EXCEPT !.consumed = @ \ {f}] : f \in s.consumed}
           B(k) == Misnamed(s, k) \cup Misplaced(s, k)
                     \cup {MadeUp(s, k, i, f) : i \in DOMAIN log, f \in VisualFacts}
<1>10. Altered(s) = A \cup UNION {B(k) : k \in DOMAIN s.lineage}
  BY DEF Altered
<1>11. t \notin A
  BY <1>1
<1>12. ASSUME NEW k \in DOMAIN s.lineage, t \in B(k) PROVE FALSE
  <2> DEFINE C == {MadeUp(s, k, i, f) : i \in DOMAIN log, f \in VisualFacts}
  <2>1. t \notin C
    BY <1>9
  <2> HIDE DEF C
  <2>2. t \in Misnamed(s, k) \cup Misplaced(s, k) \cup C
    BY <1>12 DEF C
  <2> QED BY <2>1, <2>2, <1>7, <1>8
<1> HIDE DEF A, B
<1> QED BY <1>10, <1>11, <1>12
-----------------------------------------------------------------------------
\* result_extractor.py:184-257 and 418-566: what a review writes its reader accepts, what is
\* changed of it is refused, and it is what the client is told.
THEOREM RecordExact == VerdictSpec => []RecordIsExact
<1>1. VerdictInv => LineageReadsBack
  <2> SUFFICES ASSUME VerdictInv, scores # <<>>, scores[1].lineage # <<>>
               PROVE  ReadsBack(scores, reviews)
    BY DEF LineageReadsBack
  <2>1. log \in Seq(Events) /\ LogInv
    BY DEF VerdictInv, TypeInv
  <2>2. /\ Len(scores) = 1 /\ Len(reviews) = 1 /\ IsRecord(scores[1])
        /\ reviews[1] = [id |-> scores[1].id, source |-> scores[1].id, score |-> scores[1].id,
                         projections |-> Projections(scores[1].lineage)]
    BY DEF VerdictInv, ReviewInv
  <2> DEFINE s == scores[1]
             r == reviews[1]
  <2>3. StandingDrafts # {} /\ s.id = Newest(StandingDrafts) /\ s.source = Newest(StandingDrafts)
    BY <2>2 DEF IsRecord
  <2>4. /\ Sound(s)
        /\ \A j, k \in DOMAIN s.lineage : s.lineage[j].source = s.lineage[k].source => j = k
    BY <2>1, <2>2, RecordIsSound
  <2>5. r.id = s.id /\ r.source = s.id /\ r.score = s.id /\ r.projections = Projections(s.lineage)
    BY <2>2
  <2> QED BY <2>2, <2>3, <2>4, <2>5 DEF ReadsBack, Sound
<1>2. VerdictInv => AlteredIsRefused
  <2> SUFFICES ASSUME VerdictInv, NEW n \in DOMAIN scores, NEW s \in Altered(scores[n]) \ {scores[n]},
                      NEW reviewed, ReadsBack(<<s>>, reviewed)
               PROVE  FALSE
    BY DEF AlteredIsRefused
  <2>1. log \in Seq(Events) /\ LogInv
    BY DEF VerdictInv, TypeInv
  <2>2. IsRecord(scores[n])
    BY TheRecord
  <2>3. ~Sound(s)
    BY <2>1, <2>2, AlteredIs
  <2> QED BY <2>3, AcceptedIsSound
<1>3. VerdictInv => ToldIsRecorded
  <2> SUFFICES ASSUME VerdictInv, told.status = "completed" PROVE ToldIsRecorded
    BY DEF ToldIsRecorded
  <2>1. session.status = "reviewed" /\ told.verdict = session.verdict
    BY DEF VerdictInv, ReviewInv
  <2>2. DOMAIN scores = {1} /\ session.verdict = scores[1].verdict
    BY <2>1 DEF VerdictInv, ReviewInv
  <2>3. scores # <<>>
    <3>1. 1 \in DOMAIN scores
      BY <2>2
    <3> QED BY <3>1
  <2> QED BY <2>1, <2>2, <2>3 DEF ToldIsRecorded
<1>4. VerdictInv => RecordIsExact
  BY <1>1, <1>2, <1>3 DEF RecordIsExact
<1> QED BY <1>4, VerdictInvariance, PTL
=============================================================================
