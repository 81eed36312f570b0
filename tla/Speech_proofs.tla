----------------------- MODULE Speech_proofs -----------------------
(*************************************************************************)
(* The safety of SpeechRequests, for any requests, keys, keyrings, slots,  *)
(* times and restarts: the provider is called once per key at most, and a  *)
(* client has a transcript only of a request whose row succeeded; and a    *)
(* request in work keeps its lease, its audio and a slot of its own.       *)
(*                                                                         *)
(* The argument: a key has one row (RowsInv), a service waits for one       *)
(* transaction at a time, the one its stage asks for (WaitInv), a          *)
(* transaction that holds its row finds it as it found it (HeldInv), and   *)
(* the stage of a service never goes back (CallInv). What a request has    *)
(* lasts longer than its own time, and all of it runs at one pace (KInv).  *)
(*************************************************************************)
EXTENDS SpeechRequests, SpeechComposer, FiniteSetTheorems, WellFoundedInduction, TLAPS

\* A key has one row, of a version the process knows.
RowsInv ==
    /\ \A r \in Requests : row[r] # NoRow => key[r] \in Keys /\ row[r].version \in keyring.keys
    /\ \A q, r \in Requests : row[q] # NoRow /\ row[r] # NoRow /\ key[q] = key[r] => q = r
    /\ \A r \in Requests : pc[r] \in {"idle", "identity"} => row[r] = NoRow
    /\ \A r \in Requests : pc[r] = "identity" => key[r] \in Keys
    /\ \A r \in Requests : row[r] = NoRow => pc[r] \in {"idle", "identity", "done"}
    /\ phase = "down" => jobs = {} /\ \A r \in Requests : pc[r] \in {"idle", "done"}

\* A service waits for one transaction, the next of its stage or the last.
WaitInv ==
    /\ \A j \in jobs : row[j.of] # NoRow
    /\ \A j \in jobs : j.awaited =>
          \/ pc[j.of] = "wait" /\ stage[j.of] # "succeeded" /\ j.to = NextState[stage[j.of]]
          \/ pc[j.of] = "closing" /\ j.to \in Terminal \ {"succeeded"}
    /\ \A j, o \in jobs : j.awaited /\ o.awaited /\ j.of = o.of => j = o
    /\ \A r \in Requests : pc[r] = "work" => stage[r] # "succeeded"
    /\ \A r \in Requests : pc[r] = "calling" => stage[r] = "dispatching"

\* A row that is locked stays as the transaction saw it.
HeldInv ==
    /\ \A j \in jobs : j.held => Legal(j)
    /\ \A j, o \in jobs : j.held /\ o.held /\ j.of = o.of => j = o

\* What a row's state says of the call.
SentInv ==
    \A r \in Requests : row[r] # NoRow =>
        /\ row[r].state \in {"dispatching", "succeeded", "ambiguous"} => row[r].sent
        /\ row[r].state = "cancelled" => ~row[r].sent

\* A call is made at the one moment a service begins to dispatch, when its row says so.
CallInv ==
    /\ \A r \in Requests : row[r] # NoRow /\ calls[key[r]] > 0 =>
          /\ stage[r] \in {"dispatching", "succeeded"} /\ row[r].sent
          /\ ~(pc[r] = "work" /\ stage[r] = "dispatching")
    /\ \A k \in Keys : calls[k] <= 1
    /\ \A k \in Keys : calls[k] = 1 => \E r \in Requests : key[r] = k /\ row[r].sent
    /\ \A r \in Requests :
          /\ stage[r] \in {"dispatching", "succeeded"} => row[r] # NoRow /\ row[r].sent
          /\ stage[r] = "succeeded" => row[r].state = "succeeded"
          /\ reply[r] = "transcript" => stage[r] = "succeeded"

IInv == TypeOK /\ RowsInv /\ WaitInv /\ HeldInv /\ SentInv /\ CallInv
-----------------------------------------------------------------------------
(* The slots, and the values the variables take *)

SlotsTyped == slots \in [Slots!Numbers -> Slots!Slot]

\* The operations on the slots keep the rows of the table well formed.
LEMMA SlotsReclaimed ==
    ASSUME NEW s \in [Slots!Numbers -> Slots!Slot]
    PROVE  Slots!Reclaim(s) \in [Slots!Numbers -> Slots!Slot]
BY SpeechAssumption DEF Slots!Reclaim, Slots!Slot, Slots!Free, Slots!Nobody

\* A release keeps the slots well formed.
LEMMA SlotsReleased ==
    ASSUME NEW s \in [Slots!Numbers -> Slots!Slot], NEW r
    PROVE  Slots!Release(s, r) \in [Slots!Numbers -> Slots!Slot]
BY SpeechAssumption DEF Slots!Release, Slots!Slot, Slots!Free, Slots!Nobody

\* So does a claim.
LEMMA SlotsClaimed ==
    ASSUME NEW s \in [Slots!Numbers -> Slots!Slot], NEW r \in Requests \cup Rivals,
           NEW t \in 0..Total
    PROVE  Slots!Claim(s, r, t) \in [Slots!Numbers -> Slots!Slot]
<1> DEFINE known == Slots!Reclaim(s)
           free == Slots!Claimable(known)
           i == CHOOSE n \in free : \A o \in free : n <= o
<1>1. known \in [Slots!Numbers -> Slots!Slot]
  BY SlotsReclaimed
<1> HIDE DEF known
<1>2. [known EXCEPT ![i].by = r, ![i].left = t] \in [Slots!Numbers -> Slots!Slot]
  BY <1>1 DEF Slots!Slot
<1>3. Slots!Claim(s, r, t) = known
      \/ Slots!Claim(s, r, t) = [known EXCEPT ![i].by = r, ![i].left = t]
  BY DEF Slots!Claim, known
<1> QED BY <1>1, <1>2, <1>3

\* So does time.
LEMMA SlotsAged ==
    ASSUME NEW s \in [Slots!Numbers -> Slots!Slot]
    PROVE  Slots!Age(s) \in [Slots!Numbers -> Slots!Slot]
BY SpeechAssumption DEF Slots!Age, Slots!Slot

\* So does a reconciliation with another number of slots.
LEMMA SlotsReconciled ==
    ASSUME NEW s \in [Slots!Numbers -> Slots!Slot], NEW count \in Nat
    PROVE  Slots!Reconcile(s, count) \in [Slots!Numbers -> Slots!Slot]
<1>1. \A i \in Slots!Numbers : (i <= count) \in BOOLEAN
  OBVIOUS
<1> QED BY <1>1 DEF Slots!Reconcile, Slots!Slot

\* How the states of a row follow each other.
LEMMA States ==
    /\ Active = {"admitted", "uploading", "scanning", "inspecting", "dispatching"}
    /\ \A s \in Active : NextState[s] \in Active \cup {"succeeded"}
    /\ \A s \in Active : NextState[s] = "dispatching" <=> s = "inspecting"
    /\ \A s \in Active : NextState[s] = "succeeded" <=> s = "dispatching"
    /\ Terminal \cap Active = {} /\ None \notin Active \cup Terminal
BY DEF Active, NextState, Terminal, None

\* A row that is there has a state.
LEMMA RowShape ==
    ASSUME TypeOK, NEW r \in Requests
    PROVE  /\ row[r] = NoRow <=> row[r].state = None
           /\ row[r] # NoRow => row[r] \in Row
           /\ row[r].sent \in BOOLEAN /\ row[r].gen \in Nat /\ row[r].lease \in 0..Lease
           /\ row[r] = NoRow => ~row[r].sent
<1>1. row[r] \in Row \/ row[r] = NoRow
  BY DEF TypeOK
<1>2. 0 \in 0..Lease
  BY SpeechAssumption
<1>3. CASE row[r] = NoRow
  BY <1>2, <1>3 DEF NoRow
<1>4. CASE row[r] \in Row
  BY <1>4, States DEF Row, NoRow
<1> QED BY <1>1, <1>3, <1>4
-----------------------------------------------------------------------------
(* Steps that write no row *)

\* What one coroutine does without a row, and what it may do to the rest.
LEMMA Quietly ==
    ASSUME IInv, UNCHANGED <<row, key, calls, stage, keyring>>,
           \A r \in Requests : pc'[r] # pc[r] =>
               \/ row[r] # NoRow /\ pc'[r] \in {"wait", "calling", "closing", "cleanup"}
               \/ pc'[r] = "done" /\ pc[r] # "idle"
               \/ pc'[r] = "calling" /\ pc[r] = "work",
           \A r \in Requests : reply'[r] = "transcript" => stage[r] = "succeeded",
           phase' = "down" => jobs' = {} /\ \A r \in Requests : pc'[r] \in {"idle", "done"}
    PROVE  RowsInv' /\ SentInv' /\ CallInv'
<1>1. RowsInv'
  BY DEF IInv, RowsInv
<1>2. SentInv'
  BY DEF IInv, SentInv
<1>3. CallInv'
  BY DEF IInv, CallInv
<1> QED BY <1>1, <1>2, <1>3

\* The transactions of one request change, and where its coroutine is.
LEMMA Rescheduled ==
    ASSUME IInv, UNCHANGED <<row, stage>>, NEW r \in Requests, row[r] # NoRow,
           \A q \in Requests : q # r => pc'[q] = pc[q],
           pc'[r] = "work" => stage[r] # "succeeded",
           pc'[r] = "calling" => stage[r] = "dispatching",
           \A j \in jobs' : j.of # r => j \in jobs,
           \A j \in jobs' : j.of = r /\ j.awaited =>
               \/ pc'[r] = "wait" /\ stage[r] # "succeeded" /\ j.to = NextState[stage[r]]
               \/ pc'[r] = "closing" /\ j.to \in Terminal \ {"succeeded"},
           \A j, o \in jobs' : j.of = r /\ o.of = r /\ j.awaited /\ o.awaited => j = o,
           \A j \in jobs' : j.of = r /\ j.held => Legal(j),
           \A j, o \in jobs' : j.of = r /\ o.of = r /\ j.held /\ o.held => j = o
    PROVE  WaitInv' /\ HeldInv'
<1>1. \A j \in jobs : j.of \in Requests
  BY DEF IInv, TypeOK, Job
<1>2. \A j \in jobs' : row'[j.of] # NoRow
  BY DEF IInv, WaitInv
<1>3. ASSUME NEW j \in jobs', j.awaited
      PROVE  \/ pc'[j.of] = "wait" /\ stage'[j.of] # "succeeded" /\ j.to = NextState[stage'[j.of]]
             \/ pc'[j.of] = "closing" /\ j.to \in Terminal \ {"succeeded"}
  BY <1>1, <1>3 DEF IInv, WaitInv
<1>4. \A j, o \in jobs' : j.awaited /\ o.awaited /\ j.of = o.of => j = o
  BY DEF IInv, WaitInv
<1>5. ASSUME NEW q \in Requests
      PROVE  /\ pc'[q] = "work" => stage'[q] # "succeeded"
             /\ pc'[q] = "calling" => stage'[q] = "dispatching"
  <2>1. CASE q = r
    BY <2>1
  <2>2. CASE q # r
    BY <2>2 DEF IInv, WaitInv
  <2> QED BY <2>1, <2>2
<1>6. WaitInv'
  BY <1>2, <1>3, <1>4, <1>5 DEF WaitInv
<1>7. \A j \in jobs' : j.held => Legal(j)'
  BY DEF IInv, HeldInv, Legal
<1>8. \A j, o \in jobs' : j.held /\ o.held /\ j.of = o.of => j = o
  BY DEF IInv, HeldInv
<1> QED BY <1>6, <1>7, <1>8 DEF HeldInv

\* A new transaction, field by field.
LEMMA NewJob ==
    ASSUME NEW r \in Requests, NEW to \in Active \cup Terminal, NEW gen \in Nat,
           NEW aw \in BOOLEAN
    PROVE  /\ New(r, to, gen, aw) \in Job
           /\ New(r, to, gen, aw).of = r /\ New(r, to, gen, aw).to = to
           /\ New(r, to, gen, aw).held = FALSE /\ New(r, to, gen, aw).awaited = aw
BY DEF New, Job

\* A token is a number.
LEMMA Tokens ==
    ASSUME NEW r \in Requests
    PROVE  Token(r) \in Nat
BY DEF Token

\* What the jobs of a coroutine that gives up become: nobody waits for one of them.
LEMMA GivenUpJobs ==
    ASSUME IInv, NEW r \in Requests
    PROVE  /\ GivenUp(r) \subseteq Job
           /\ \A j \in GivenUp(r) : j.of # r => j \in jobs
           /\ \A j \in GivenUp(r) : j.of = r => ~j.awaited
           /\ \A j \in GivenUp(r) : j.of = r /\ j.held => Legal(j)
           /\ \A j, o \in GivenUp(r) : j.of = r /\ o.of = r /\ j.held /\ o.held => j = o
<1> DEFINE Now(h) == IF h.of = r /\ h.awaited THEN [h EXCEPT !.awaited = FALSE] ELSE h
<1>1. ASSUME NEW h \in jobs
      PROVE  /\ Now(h) \in Job /\ Now(h).of = h.of /\ Now(h).to = h.to /\ Now(h).gen = h.gen
             /\ Now(h).held = h.held
             /\ (h.of = r => ~Now(h).awaited) /\ (h.of # r => Now(h) = h)
  <2>1. h \in Job
    BY DEF IInv, TypeOK
  <2> QED BY <2>1 DEF Job
<1>2. ASSUME NEW j \in GivenUp(r)
      PROVE  \E h \in jobs : j = Now(h)
  BY <1>2 DEF GivenUp, Awaited
<1> HIDE DEF Now
<1>3. GivenUp(r) \subseteq Job
  BY <1>1, <1>2
<1>4. \A j \in GivenUp(r) : (j.of # r => j \in jobs) /\ (j.of = r => ~j.awaited)
  BY <1>1, <1>2
<1>5. ASSUME NEW j \in GivenUp(r), j.of = r, j.held
      PROVE  Legal(j)
  <2>1. PICK h \in jobs : j = Now(h)
    BY <1>2
  <2>2. h.held /\ j.of = h.of /\ j.to = h.to /\ j.gen = h.gen
    BY <1>1, <1>5, <2>1
  <2> QED BY <2>2 DEF IInv, HeldInv, Legal
<1>6. ASSUME NEW j \in GivenUp(r), NEW o \in GivenUp(r), j.of = r, o.of = r, j.held, o.held
      PROVE  j = o
  <2>1. PICK g \in jobs : j = Now(g)
    BY <1>2
  <2>2. PICK h \in jobs : o = Now(h)
    BY <1>2
  <2>3. g = h
    BY <1>1, <1>6, <2>1, <2>2 DEF IInv, HeldInv
  <2> QED BY <2>1, <2>2, <2>3
<1> QED BY <1>3, <1>4, <1>5, <1>6

\* A coroutine that waits for nothing has no transaction of its own.
LEMMA NoneAwaited ==
    ASSUME IInv, NEW r \in Requests, pc[r] \notin {"wait", "closing"}
    PROVE  \A j \in jobs : j.of = r => ~j.awaited
BY DEF IInv, WaitInv

\* A service that submits the next transaction waits for that one alone.
LEMMA SubmitKeeps ==
    ASSUME IInv, UNCHANGED <<row, stage>>, NEW r \in Requests, row[r] # NoRow,
           pc[r] \in {"work", "calling"}, Submit(r, NextState[stage[r]])
    PROVE  /\ WaitInv' /\ HeldInv' /\ jobs' \subseteq Job
           /\ \E p \in {"wait", "cleanup"} : pc' = [pc EXCEPT ![r] = p]
<1>0. stage[r] \in Active
  <2>1. stage[r] \in Active \cup {"succeeded"}
    BY DEF IInv, TypeOK
  <2>2. stage[r] # "succeeded"
    BY DEF IInv, WaitInv
  <2> QED BY <2>1, <2>2
<1>1. jobs \subseteq Job /\ \A j \in jobs : j.of = r => ~j.awaited
  BY NoneAwaited DEF IInv, TypeOK
<1> DEFINE to == NextState[stage[r]]
<1>2. to \in Active \cup Terminal /\ Fallback(to) \in Terminal
  BY <1>0, States DEF Fallback, Terminal
<1> HIDE DEF to
<1>3. CASE InTime(r)
  <2>1. pc' = [pc EXCEPT ![r] = "wait"] /\ jobs' = jobs \cup {New(r, to, Token(r), TRUE)}
    BY <1>3 DEF Submit, Go, to
  <2> DEFINE new == New(r, to, Token(r), TRUE)
  <2>2. new \in Job /\ new.of = r /\ new.to = to /\ ~new.held /\ new.awaited
    BY <1>2, NewJob, Tokens
  <2> HIDE DEF new
  <2>3. jobs' = jobs \cup {new}
    BY <2>1 DEF new
  <2>4. \A j \in jobs' : j.of # r => j \in jobs
    BY <2>2, <2>3
  <2>5. \A j \in jobs' : j.of = r /\ j.awaited => j = new
    BY <1>1, <2>3
  <2>6. \A j \in jobs' : j.held => j \in jobs
    BY <2>2, <2>3
  <2>7. stage[r] # "succeeded"
    BY <1>0, States DEF Terminal
  <2>8. WaitInv' /\ HeldInv'
    <3>1. pc'[r] = "wait" /\ \A q \in Requests : q # r => pc'[q] = pc[q]
      BY <2>1 DEF IInv, TypeOK
    <3>2. \A j \in jobs' : j.of = r /\ j.held => Legal(j)
      BY <2>6 DEF IInv, HeldInv
    <3>3. \A j, o \in jobs' : j.of = r /\ o.of = r /\ j.held /\ o.held => j = o
      BY <2>6 DEF IInv, HeldInv
    <3> QED BY <2>2, <2>4, <2>5, <2>7, <3>1, <3>2, <3>3, Rescheduled DEF to
  <2> QED BY <1>1, <2>1, <2>2, <2>3, <2>8
<1>4. CASE ~InTime(r)
  <2> DEFINE new == New(r, Fallback(to), Token(r), FALSE)
  <2>1. pc' = [pc EXCEPT ![r] = "cleanup"] /\ jobs' = jobs \cup {new}
    BY <1>4 DEF Submit, Go, to
  <2>2. new \in Job /\ new.of = r /\ ~new.held /\ ~new.awaited
    <3>1. Fallback(to) \in Active \cup Terminal /\ Token(r) \in Nat
      BY <1>2, Tokens
    <3> DEFINE last == Fallback(to)
    <3> HIDE DEF last
    <3>2. last \in Active \cup Terminal /\ new = New(r, last, Token(r), FALSE)
      BY <3>1 DEF last
    <3> HIDE DEF new
    <3> QED BY <3>1, <3>2, NewJob
  <2> HIDE DEF new
  <2>3. /\ \A j \in jobs' : j.of # r => j \in jobs
        /\ \A j \in jobs' : j.of = r => ~j.awaited
        /\ \A j \in jobs' : j.held => j \in jobs
    BY <1>1, <2>1, <2>2
  <2>4. WaitInv' /\ HeldInv'
    <3>1. pc'[r] = "cleanup" /\ \A q \in Requests : q # r => pc'[q] = pc[q]
      BY <2>1 DEF IInv, TypeOK
    <3>2. \A j \in jobs' : j.of = r /\ j.held => Legal(j)
      BY <2>3 DEF IInv, HeldInv
    <3>3. \A j, o \in jobs' : j.of = r /\ o.of = r /\ j.held /\ o.held => j = o
      BY <2>3 DEF IInv, HeldInv
    <3> QED BY <2>3, <3>1, <3>2, <3>3, Rescheduled
  <2> QED BY <1>1, <2>1, <2>2, <2>4
<1> QED BY <1>3, <1>4

\* Whatever is left over, a finalize waits for its own transaction or for none.
LEMMA FinalizeKeeps ==
    ASSUME IInv, UNCHANGED <<row, stage>>, NEW r \in Requests, row[r] # NoRow,
           NEW leftover \in SUBSET Job, NEW to \in Terminal \ {"succeeded"},
           \A j \in leftover : j.of # r => j \in jobs,
           \A j \in leftover : j.of = r => ~j.awaited,
           \A j \in leftover : j.of = r /\ j.held => Legal(j),
           \A j, o \in leftover : j.of = r /\ o.of = r /\ j.held /\ o.held => j = o,
           Finalize(r, to, leftover)
    PROVE  /\ WaitInv' /\ HeldInv' /\ jobs' \subseteq Job
           /\ \E p \in {"closing", "cleanup"} : pc' = [pc EXCEPT ![r] = p]
<1>1. CASE left[r] > 0
  <2> DEFINE new == New(r, to, Token(r), TRUE)
  <2>1. pc' = [pc EXCEPT ![r] = "closing"] /\ jobs' = leftover \cup {new}
    BY <1>1 DEF Finalize, Go
  <2>0. to \in Active \cup Terminal
    OBVIOUS
  <2>2. new \in Job /\ new.of = r /\ new.to = to /\ ~new.held /\ new.awaited
    BY <2>0, Tokens DEF New, Job
  <2> HIDE DEF new
  <2>3. /\ \A j \in jobs' : j.of # r => j \in jobs
        /\ \A j \in jobs' : j.of = r /\ j.awaited => j = new
        /\ \A j \in jobs' : j.held => j \in leftover
    BY <2>1, <2>2
  <2>4. WaitInv' /\ HeldInv'
    <3>1. pc'[r] = "closing" /\ \A q \in Requests : q # r => pc'[q] = pc[q]
      BY <2>1 DEF IInv, TypeOK
    <3> QED BY <2>2, <2>3, <3>1, Rescheduled
  <2> QED BY <2>1, <2>2, <2>4
<1>2. CASE ~(left[r] > 0)
  <2>1. pc' = [pc EXCEPT ![r] = "cleanup"] /\ jobs' = leftover
    BY <1>2 DEF Finalize, Go
  <2>2. WaitInv' /\ HeldInv'
    <3>1. pc'[r] = "cleanup" /\ \A q \in Requests : q # r => pc'[q] = pc[q]
      BY <2>1 DEF IInv, TypeOK
    <3> QED BY <2>1, <3>1, Rescheduled
  <2> QED BY <2>1, <2>2
<1> QED BY <1>1, <1>2

\* A write of the middleware is one that nobody waits for.
LEMMA MiddlewareJobs ==
    ASSUME NEW r \in Requests, NEW to \in Terminal
    PROVE  /\ FromMiddleware(r, to) \subseteq Job
           /\ \A j \in FromMiddleware(r, to) : j.of = r /\ ~j.awaited /\ ~j.held
<1>1. to \in Active \cup Terminal
  OBVIOUS
<1>2. New(r, to, 1, FALSE) \in Job /\ New(r, to, 1, FALSE).of = r
      /\ ~New(r, to, 1, FALSE).awaited /\ ~New(r, to, 1, FALSE).held
  BY <1>1 DEF New, Job
<1> QED BY <1>2 DEF FromMiddleware
-----------------------------------------------------------------------------
(* The service *)

\* A file that is written or removed keeps its type.
LEMMA FileTyped ==
    ASSUME IInv, NEW r \in Requests
    PROVE  /\ [file EXCEPT ![r] = 0] \in [Requests -> 0..NoFile]
           /\ [file EXCEPT ![r] = NoFile] \in [Requests -> 0..NoFile]
<1>1. 0 \in 0..NoFile /\ NoFile \in 0..NoFile
  BY SpeechAssumption DEF NoFile
<1> QED BY <1>1 DEF IInv, TypeOK

\* From work on, a service has its row.
LEMMA Served ==
    ASSUME IInv, NEW r \in Requests, pc[r] \in {"work", "wait", "calling", "closing", "cleanup"}
    PROVE  row[r] # NoRow
BY DEF IInv, RowsInv

\* Work done in time, and the transaction that follows it.
LEMMA SubmitStep ==
    ASSUME IInv, NEW r \in Requests, pc[r] \in {"work", "calling"},
           Submit(r, NextState[stage[r]]),
           UNCHANGED <<row, calls, key, reply, stage, left, server>>,
           file' \in [Requests -> 0..NoFile], slots' \in [Slots!Numbers -> Slots!Slot]
    PROVE  IInv'
<1>0. row[r] # NoRow
  BY Served
<1>1. /\ WaitInv' /\ HeldInv' /\ jobs' \subseteq Job
      /\ \E p \in {"wait", "cleanup"} : pc' = [pc EXCEPT ![r] = p]
  BY <1>0, SubmitKeeps
<1>2. TypeOK'
  BY <1>1 DEF IInv, TypeOK, Steps, server
<1>3. RowsInv' /\ SentInv' /\ CallInv'
  <2>1. \A q \in Requests : pc'[q] # pc[q] =>
            row[q] # NoRow /\ pc'[q] \in {"wait", "calling", "closing", "cleanup"}
    BY <1>0, <1>1 DEF IInv, TypeOK
  <2>2. phase' # "down"
    BY DEF IInv, RowsInv, server
  <2>3. \A q \in Requests : reply'[q] = "transcript" => stage[q] = "succeeded"
    BY DEF IInv, CallInv
  <2> QED BY <2>1, <2>2, <2>3, Quietly DEF server
<1> QED BY <1>1, <1>2, <1>3 DEF IInv

\* Upload, scan and inspection, and the claim of a slot.
LEMMA WorkKeeps ==
    ASSUME IInv, NEW r \in Requests, Upload(r) \/ ClaimAsrSlot(r)
    PROVE  IInv'
<1>1. /\ pc[r] = "work" /\ UNCHANGED <<row, calls, key, reply, stage, left, server>>
  BY DEF Upload, ClaimAsrSlot, client
<1>2. file' \in [Requests -> 0..NoFile] /\ slots' \in [Slots!Numbers -> Slots!Slot]
  <2>1. file \in [Requests -> 0..NoFile] /\ slots \in [Slots!Numbers -> Slots!Slot]
        /\ left[r] \in 0..Total
    BY DEF IInv, TypeOK
  <2>2. CASE Upload(r)
    BY <2>1, <2>2, FileTyped DEF Upload
  <2>3. CASE ClaimAsrSlot(r)
    BY <2>1, <2>3, SlotsClaimed DEF ClaimAsrSlot
  <2> QED BY <2>2, <2>3
<1>3. Submit(r, NextState[stage[r]]) \/ UNCHANGED <<pc, jobs>>
  BY DEF Upload, ClaimAsrSlot, NextState
<1>4. CASE Submit(r, NextState[stage[r]])
  BY <1>1, <1>2, <1>4, SubmitStep
<1>5. CASE UNCHANGED <<pc, jobs>>
  BY <1>1, <1>2, <1>5 DEF IInv, TypeOK, RowsInv, WaitInv, HeldInv, Legal, SentInv, CallInv, server
<1> QED BY <1>3, <1>4, <1>5

\* The end of the service's own work: a finalize, and what it leaves.
LEMMA FinalizeStep ==
    ASSUME IInv, NEW r \in Requests, pc[r] \in {"work", "calling"},
           NEW to \in Terminal \ {"succeeded"}, Finalize(r, to, jobs),
           UNCHANGED <<row, calls, key, reply, stage, left, server, slots>>,
           file' \in [Requests -> 0..NoFile]
    PROVE  IInv'
<1>1. jobs \in SUBSET Job /\ \A j \in jobs : j.of = r => ~j.awaited
  BY NoneAwaited DEF IInv, TypeOK
<1>2. row[r] # NoRow
  BY Served
<1>3. /\ WaitInv' /\ HeldInv' /\ jobs' \subseteq Job
      /\ \E p \in {"closing", "cleanup"} : pc' = [pc EXCEPT ![r] = p]
  BY <1>1, <1>2, FinalizeKeeps DEF IInv, HeldInv
<1>4. TypeOK'
  BY <1>3 DEF IInv, TypeOK, Steps, server
<1>5. RowsInv' /\ SentInv' /\ CallInv'
  <2>1. \A q \in Requests : pc'[q] # pc[q] =>
            row[q] # NoRow /\ pc'[q] \in {"wait", "calling", "closing", "cleanup"}
    BY <1>2, <1>3 DEF IInv, TypeOK
  <2>2. phase' # "down"
    BY DEF IInv, RowsInv, server
  <2>3. \A q \in Requests : reply'[q] = "transcript" => stage[q] = "succeeded"
    BY DEF IInv, CallInv
  <2> QED BY <2>1, <2>2, <2>3, Quietly DEF server
<1> QED BY <1>3, <1>4, <1>5 DEF IInv

\* The work fails.
LEMMA FailKeeps ==
    ASSUME IInv, NEW r \in Requests, WorkFails(r)
    PROVE  IInv'
<1>1. "failed_terminal" \in Terminal \ {"succeeded"}
  BY DEF Terminal
<1>2. file' \in [Requests -> 0..NoFile]
  BY FileTyped DEF WorkFails, IInv, TypeOK
<1> QED BY <1>1, <1>2, FinalizeStep DEF WorkFails, client

\* The provider answers, or does not.
LEMMA ReturnKeeps ==
    ASSUME IInv, NEW r \in Requests, ProviderReturns(r)
    PROVE  IInv'
<1>1. {"failed_terminal", "ambiguous"} \subseteq Terminal \ {"succeeded"}
  BY DEF Terminal
<1>2. /\ pc[r] = "calling" /\ row[r] # NoRow /\ file' \in [Requests -> 0..NoFile]
      /\ UNCHANGED <<row, calls, key, reply, stage, left, server, slots>>
  BY Served DEF ProviderReturns, client, IInv, TypeOK
<1>3. CASE Finalize(r, "failed_terminal", jobs) \/ Finalize(r, "ambiguous", jobs)
  BY <1>1, <1>2, <1>3, FinalizeStep
<1>4. CASE Submit(r, "succeeded")
  <2>1. NextState[stage[r]] = "succeeded"
    BY <1>2 DEF IInv, WaitInv, NextState
  <2>2. slots' \in [Slots!Numbers -> Slots!Slot]
    BY <1>2 DEF IInv, TypeOK
  <2> QED BY <1>2, <1>4, <2>1, <2>2, SubmitStep
<1> QED BY <1>2, <1>3, <1>4 DEF ProviderReturns

\* The middleware refuses the body.
LEMMA RejectKeeps ==
    ASSUME IInv, NEW r \in Requests, Reject(r)
    PROVE  IInv'
<1> DEFINE more == FromMiddleware(r, "failed_terminal")
<1>1. /\ pc[r] = "work" /\ row[r] # NoRow /\ pc' = [pc EXCEPT ![r] = "done"]
      /\ jobs' = jobs \cup more /\ reply' = [reply EXCEPT ![r] = "error"]
      /\ UNCHANGED <<row, key, calls, stage, left, server, slots, file>>
  BY Served DEF Reject, Go, Tell
<1>2. more \subseteq Job /\ \A j \in more : j.of = r /\ ~j.awaited /\ ~j.held
  BY MiddlewareJobs DEF Terminal
<1> HIDE DEF more
<1>3. /\ pc'[r] = "done" /\ \A q \in Requests : q # r => pc'[q] = pc[q]
      /\ \A q \in Requests : reply'[q] # reply[q] => reply'[q] = "error"
  BY <1>1 DEF IInv, TypeOK
<1>4. TypeOK'
  BY <1>1, <1>2 DEF IInv, TypeOK, Steps, Replies, server
<1>5. WaitInv' /\ HeldInv'
  <2>1. \A j \in jobs : j.of = r => ~j.awaited
    BY <1>1, NoneAwaited
  <2>2. /\ \A j \in jobs' : j.of # r => j \in jobs
        /\ \A j \in jobs' : j.of = r => ~j.awaited
        /\ \A j \in jobs' : j.held => j \in jobs
    BY <1>1, <1>2, <2>1
  <2>3. \A j \in jobs' : j.of = r /\ j.held => Legal(j)
    BY <2>2 DEF IInv, HeldInv
  <2>4. \A j, o \in jobs' : j.of = r /\ o.of = r /\ j.held /\ o.held => j = o
    BY <2>2 DEF IInv, HeldInv
  <2> QED BY <1>1, <1>3, <2>2, <2>3, <2>4, Rescheduled
<1>6. RowsInv' /\ SentInv' /\ CallInv'
  <2>1. phase' # "down"
    BY <1>1 DEF IInv, RowsInv, server
  <2>2. \A q \in Requests : reply'[q] = "transcript" => stage[q] = "succeeded"
    BY <1>3 DEF IInv, CallInv
  <2>3. \A q \in Requests : pc'[q] # pc[q] => pc'[q] = "done" /\ pc[q] # "idle"
    BY <1>1, <1>3
  <2> QED BY <1>1, <2>1, <2>2, <2>3, Quietly DEF server
<1> QED BY <1>4, <1>5, <1>6 DEF IInv

\* The call of the provider: the one step that counts.
LEMMA CallKeeps ==
    ASSUME IInv, NEW r \in Requests, CallProvider(r)
    PROVE  IInv'
<1>1. /\ pc[r] = "work" /\ stage[r] = "dispatching" /\ row[r] # NoRow
      /\ UNCHANGED <<row, slots, file, key, reply, stage, left, server>>
  BY Served DEF CallProvider
<1>2. CASE Finalize(r, "ambiguous", jobs) /\ UNCHANGED calls
  <2>1. "ambiguous" \in Terminal \ {"succeeded"} /\ file' \in [Requests -> 0..NoFile]
    BY <1>1 DEF Terminal, IInv, TypeOK
  <2> QED BY <1>1, <1>2, <2>1, FinalizeStep
<1>3. CASE /\ pc' = [pc EXCEPT ![r] = "calling"] /\ UNCHANGED jobs
           /\ calls' = [calls EXCEPT ![key[r]] = @ + 1]
  <2>1. calls[key[r]] = 0 /\ key[r] \in Keys
    BY <1>1 DEF IInv, TypeOK, RowsInv, CallInv
  <2>2. calls' = [calls EXCEPT ![key[r]] = 1] /\ calls \in [Keys -> Nat]
    BY <1>3, <2>1 DEF IInv, TypeOK
  <2>3. pc'[r] = "calling" /\ \A q \in Requests : q # r => pc'[q] = pc[q]
    BY <1>3 DEF IInv, TypeOK
  <2>4. TypeOK'
    <3>0. "calling" \in Steps
      BY DEF Steps
    <3>1. pc' \in [Requests -> Steps] /\ calls' \in [Keys -> Nat]
      BY <1>3, <2>1, <2>2, <3>0 DEF IInv, TypeOK
    <3> QED BY <1>1, <1>3, <3>1 DEF IInv, TypeOK, server
  <2>5. WaitInv' /\ HeldInv'
    <3>1. \A j \in jobs : j.of = r => ~j.awaited
      BY <1>1, NoneAwaited
    <3>2. \A j \in jobs' : j.of = r /\ j.held => Legal(j)
      BY <1>3 DEF IInv, HeldInv
    <3>3. \A j, o \in jobs' : j.of = r /\ o.of = r /\ j.held /\ o.held => j = o
      BY <1>3 DEF IInv, HeldInv
    <3> QED BY <1>1, <1>3, <2>3, <3>1, <3>2, <3>3, Rescheduled
  <2>6. RowsInv' /\ SentInv'
    BY <1>1, <1>3, <2>3 DEF IInv, RowsInv, SentInv, server
  <2>7. CallInv'
    <3>1. \A q \in Requests : row[q] # NoRow /\ q # r => key[q] # key[r] /\ key[q] \in Keys
      BY <1>1 DEF IInv, RowsInv
    <3>2. row[r].sent
      BY <1>1 DEF IInv, CallInv
    <3>3. ASSUME NEW q \in Requests, row[q] # NoRow, calls'[key[q]] > 0
          PROVE  /\ stage[q] \in {"dispatching", "succeeded"} /\ row[q].sent
                 /\ ~(pc'[q] = "work" /\ stage[q] = "dispatching")
      <4>1. CASE q = r
        BY <1>1, <2>3, <3>2, <4>1
      <4>2. CASE q # r
        BY <2>2, <2>3, <3>1, <3>3, <4>2 DEF IInv, CallInv
      <4> QED BY <4>1, <4>2
    <3>4. \A k \in Keys : calls'[k] <= 1
      BY <2>1, <2>2 DEF IInv, CallInv
    <3>5. \A k \in Keys : calls'[k] = 1 => \E q \in Requests : key[q] = k /\ row[q].sent
      BY <2>1, <2>2, <3>2 DEF IInv, CallInv
    <3> QED BY <1>1, <3>3, <3>4, <3>5 DEF IInv, CallInv
  <2> QED BY <2>4, <2>5, <2>6, <2>7 DEF IInv
<1> QED BY <1>2, <1>3 DEF CallProvider, Go

\* The coroutine of r moves on with the transactions it leaves; no row changes.
LEMMA Moved ==
    ASSUME IInv, NEW r \in Requests, row[r] # NoRow, phase # "down",
           UNCHANGED <<row, calls, key, stage, left, server>>,
           NEW p \in {"wait", "calling", "closing", "cleanup", "done"},
           pc' = [pc EXCEPT ![r] = p], p \in {"calling", "done"} => pc[r] \in {"work", "cleanup"},
           jobs' \subseteq Job, WaitInv', HeldInv',
           slots' \in [Slots!Numbers -> Slots!Slot], file' \in [Requests -> 0..NoFile],
           reply' \in [Requests -> Replies],
           \A q \in Requests : reply'[q] = "transcript" => stage[q] = "succeeded"
    PROVE  IInv'
<1>1. p \in Steps
  BY DEF Steps
<1>2. TypeOK'
  BY <1>1 DEF IInv, TypeOK, server
<1>3. \A q \in Requests : pc'[q] # pc[q] => q = r /\ pc'[q] = p
  BY DEF IInv, TypeOK
<1>4. RowsInv' /\ SentInv' /\ CallInv'
  BY <1>3, Quietly DEF server
<1> QED BY <1>2, <1>4 DEF IInv

\* A wait times out.
LEMMA TimeoutKeeps ==
    ASSUME IInv, NEW r \in Requests, WaitTimesOut(r)
    PROVE  IInv'
<1>1. /\ pc[r] \in {"wait", "closing"} /\ row[r] # NoRow /\ phase # "down"
      /\ pc' = [pc EXCEPT ![r] = "cleanup"] /\ jobs' = GivenUp(r) \cup Fallbacks(r)
      /\ UNCHANGED <<row, slots, file, key, calls, reply, stage, left, server>>
  <2>1. pc[r] \in {"wait", "closing"}
    BY DEF WaitTimesOut
  <2>2. row[r] # NoRow /\ phase # "down"
    BY <2>1, Served DEF IInv, RowsInv
  <2> QED BY <2>1, <2>2 DEF WaitTimesOut, Go, client
<1>2. /\ Fallbacks(r) \subseteq Job
      /\ \A j \in Fallbacks(r) : j.of = r /\ ~j.awaited /\ ~j.held
  <2>1. ASSUME NEW j \in Job
        PROVE  /\ New(r, Fallback(j.to), j.gen, FALSE) \in Job
               /\ New(r, Fallback(j.to), j.gen, FALSE).of = r
               /\ ~New(r, Fallback(j.to), j.gen, FALSE).awaited
               /\ ~New(r, Fallback(j.to), j.gen, FALSE).held
    <3>1. Fallback(j.to) \in Active \cup Terminal /\ j.gen \in Nat
      BY DEF Fallback, Terminal, Job
    <3> QED BY <3>1 DEF New, Job
  <2>2. jobs \subseteq Job
    BY DEF IInv, TypeOK
  <2>3. \A j \in Fallbacks(r) : \E h \in jobs : j = New(r, Fallback(h.to), h.gen, FALSE)
    BY DEF Fallbacks, Awaited
  <2> QED BY <2>1, <2>2, <2>3
<1>3. /\ jobs' \subseteq Job
      /\ \A j \in jobs' : j.of # r => j \in jobs
      /\ \A j \in jobs' : j.of = r => ~j.awaited
      /\ \A j \in jobs' : j.of = r /\ j.held => Legal(j)
      /\ \A j, o \in jobs' : j.of = r /\ o.of = r /\ j.held /\ o.held => j = o
  BY <1>1, <1>2, GivenUpJobs
<1>4. pc'[r] = "cleanup" /\ \A q \in Requests : q # r => pc'[q] = pc[q]
  BY <1>1 DEF IInv, TypeOK
<1>5. WaitInv' /\ HeldInv'
  BY <1>1, <1>3, <1>4, Rescheduled
<1>6. /\ slots' \in [Slots!Numbers -> Slots!Slot] /\ file' \in [Requests -> 0..NoFile]
      /\ reply' \in [Requests -> Replies]
      /\ \A q \in Requests : reply'[q] = "transcript" => stage[q] = "succeeded"
  BY <1>1 DEF IInv, TypeOK, CallInv
<1> QED BY <1>1, <1>3, <1>5, <1>6, Moved

\* A request is cancelled.
LEMMA CancelKeeps ==
    ASSUME IInv, NEW r \in Requests, Cancel(r)
    PROVE  IInv'
<1> DEFINE last == IF InTime(r) THEN "cancelled" ELSE "failed_terminal"
           to == IF stage[r] = "dispatching" THEN "ambiguous" ELSE "cancelled"
           abandoned == GivenUp(r) \cup FromMiddleware(r, last)
<1>1. /\ pc[r] \in {"work", "wait", "calling", "closing"} /\ row[r] # NoRow /\ phase # "down"
      /\ UNCHANGED <<row, slots, file, key, calls, reply, stage, left, server>>
  <2>1. pc[r] \in {"work", "wait", "calling", "closing"}
    BY DEF Cancel
  <2>2. row[r] # NoRow /\ phase # "down"
    BY <2>1, Served DEF IInv, RowsInv
  <2> QED BY <2>1, <2>2 DEF Cancel, client
<1>2. \/ pc' = [pc EXCEPT ![r] = "cleanup"] /\ jobs' = abandoned
      \/ Finalize(r, to, abandoned)
  BY DEF Cancel, Go
<1>3. last \in Terminal /\ to \in Terminal \ {"succeeded"}
  BY DEF Terminal
<1>4. /\ FromMiddleware(r, last) \subseteq Job
      /\ \A j \in FromMiddleware(r, last) : j.of = r /\ ~j.awaited /\ ~j.held
  BY <1>3, MiddlewareJobs
<1>5. /\ abandoned \in SUBSET Job
      /\ \A j \in abandoned : j.of # r => j \in jobs
      /\ \A j \in abandoned : j.of = r => ~j.awaited
      /\ \A j \in abandoned : j.of = r /\ j.held => Legal(j)
      /\ \A j, o \in abandoned : j.of = r /\ o.of = r /\ j.held /\ o.held => j = o
  BY <1>4, GivenUpJobs
<1> HIDE DEF abandoned, to, last
<1>6. /\ WaitInv' /\ HeldInv' /\ jobs' \subseteq Job
      /\ \E p \in {"closing", "cleanup"} : pc' = [pc EXCEPT ![r] = p]
  <2>1. CASE pc' = [pc EXCEPT ![r] = "cleanup"] /\ jobs' = abandoned
    <3>1. pc'[r] = "cleanup" /\ \A q \in Requests : q # r => pc'[q] = pc[q]
      BY <2>1 DEF IInv, TypeOK
    <3> QED BY <1>1, <1>5, <2>1, <3>1, Rescheduled
  <2>2. CASE Finalize(r, to, abandoned)
    BY <1>1, <1>3, <1>5, <2>2, FinalizeKeeps
  <2> QED BY <1>2, <2>1, <2>2
<1>7. /\ slots' \in [Slots!Numbers -> Slots!Slot] /\ file' \in [Requests -> 0..NoFile]
      /\ reply' \in [Requests -> Replies]
      /\ \A q \in Requests : reply'[q] = "transcript" => stage[q] = "succeeded"
  BY <1>1 DEF IInv, TypeOK, CallInv
<1> QED BY <1>1, <1>6, <1>7, Moved

\* The cleanup, and what the client is told after it.
LEMMA CleanupKeeps ==
    ASSUME IInv, NEW r \in Requests, Cleanup(r)
    PROVE  IInv'
<1>1. /\ pc[r] = "cleanup" /\ row[r] # NoRow /\ phase # "down"
      /\ pc' = [pc EXCEPT ![r] = "done"]
      /\ UNCHANGED <<row, jobs, key, calls, stage, left, server>>
  <2>1. pc[r] = "cleanup"
    BY DEF Cleanup
  <2>2. row[r] # NoRow /\ phase # "down"
    BY <2>1, Served DEF IInv, RowsInv
  <2> QED BY <2>1, <2>2 DEF Cleanup, Go, Tell
<1>2. PICK what \in {"error", "transcript", "unavailable"} :
          /\ reply' = [reply EXCEPT ![r] = what]
          /\ what = "transcript" => stage[r] = "succeeded"
  BY DEF Cleanup, Tell
<1>3. slots' \in [Slots!Numbers -> Slots!Slot] /\ file' \in [Requests -> 0..NoFile]
  BY FileTyped, SlotsReleased DEF Cleanup, IInv, TypeOK
<1>4. jobs' \subseteq Job /\ reply' \in [Requests -> Replies]
  BY <1>1, <1>2 DEF IInv, TypeOK, Replies
<1>5. WaitInv' /\ HeldInv'
  <2>1. \A j \in jobs : j.of = r => ~j.awaited
    BY <1>1, NoneAwaited
  <2>2. pc'[r] = "done" /\ \A q \in Requests : q # r => pc'[q] = pc[q]
    BY <1>1 DEF IInv, TypeOK
  <2>3. \A j \in jobs' : j.of = r /\ j.held => Legal(j)
    BY <1>1 DEF IInv, HeldInv
  <2>4. \A j, o \in jobs' : j.of = r /\ o.of = r /\ j.held /\ o.held => j = o
    BY <1>1 DEF IInv, HeldInv
  <2> QED BY <1>1, <2>1, <2>2, <2>3, <2>4, Rescheduled
<1>6. \A q \in Requests : reply'[q] = "transcript" => stage[q] = "succeeded"
  BY <1>2 DEF IInv, TypeOK, CallInv
<1> QED BY <1>1, <1>3, <1>4, <1>5, <1>6, Moved

\* A release that ends late.
LEMMA ReleaseKeeps ==
    ASSUME IInv, NEW r \in Requests, LateRelease(r)
    PROVE  IInv'
<1>1. slots' \in [Slots!Numbers -> Slots!Slot]
  BY SlotsReleased DEF LateRelease, IInv, TypeOK
<1>2. UNCHANGED <<row, file, jobs, key, reply, calls, pc, stage, left, phase, keyring, restarts>>
  BY DEF LateRelease, client, process, server
<1> QED BY <1>1, <1>2 DEF IInv, TypeOK, RowsInv, WaitInv, HeldInv, Legal, SentInv, CallInv
-----------------------------------------------------------------------------
(* The transactions in their threads *)

\* A transaction ends without a commit, and its coroutine goes where that leads.
LEMMA Dropped ==
    ASSUME IInv, NEW j \in jobs, UNCHANGED <<row, slots, file, client, stage, left, server>>,
           NEW to \in Terminal \ {"succeeded"},
           \/ UNCHANGED pc /\ jobs' = jobs \ {j}
           \/ j.awaited /\ Go(j.of, "cleanup") /\ jobs' = jobs \ {j}
           \/ j.awaited /\ Finalize(j.of, to, jobs \ {j})
    PROVE  IInv'
<1> DEFINE r == j.of
<1>1. /\ jobs \subseteq Job /\ r \in Requests /\ row[r] # NoRow /\ phase # "down"
      /\ UNCHANGED <<row, slots, file, key, calls, reply, stage, left, server>>
  BY DEF IInv, TypeOK, Job, WaitInv, RowsInv, client
<1> HIDE DEF r
<1>2. /\ slots' \in [Slots!Numbers -> Slots!Slot] /\ file' \in [Requests -> 0..NoFile]
      /\ reply' \in [Requests -> Replies]
      /\ \A q \in Requests : reply'[q] = "transcript" => stage[q] = "succeeded"
  BY <1>1 DEF IInv, TypeOK, CallInv
<1>3. CASE UNCHANGED pc /\ jobs' = jobs \ {j}
  <2>1. WaitInv' /\ HeldInv'
    BY <1>1, <1>3 DEF IInv, WaitInv, HeldInv, Legal
  <2> QED BY <1>1, <1>3, <2>1 DEF IInv, TypeOK, RowsInv, SentInv, CallInv, server
<1>4. CASE j.awaited /\ Go(r, "cleanup") /\ jobs' = jobs \ {j}
  <2>1. \A o \in jobs' : o.of = r => ~o.awaited
    BY <1>4 DEF IInv, WaitInv, r
  <2>2. pc' = [pc EXCEPT ![r] = "cleanup"] /\ pc'[r] = "cleanup"
        /\ \A q \in Requests : q # r => pc'[q] = pc[q]
    BY <1>1, <1>4 DEF Go, IInv, TypeOK
  <2>3. WaitInv' /\ HeldInv'
    BY <1>1, <1>4, <2>1, <2>2, Rescheduled DEF IInv, HeldInv
  <2>4. jobs' \subseteq Job
    BY <1>1, <1>4
  <2> QED BY <1>1, <1>2, <2>2, <2>3, <2>4, Moved
<1>5. CASE j.awaited /\ Finalize(r, to, jobs \ {j})
  <2>1. \A o \in jobs \ {j} : o.of = r => ~o.awaited
    BY <1>5 DEF IInv, WaitInv, r
  <2>2. /\ jobs \ {j} \in SUBSET Job
        /\ \A o \in jobs \ {j} : o.held => Legal(o)
        /\ \A o, p \in jobs \ {j} : o.held /\ p.held /\ o.of = p.of => o = p
    BY <1>1 DEF IInv, HeldInv
  <2>3. /\ \A o \in jobs \ {j} : o.of # r => o \in jobs
        /\ \A o \in jobs \ {j} : o.of = r /\ o.held => Legal(o)
        /\ \A o, p \in jobs \ {j} : o.of = r /\ p.of = r /\ o.held /\ p.held => o = p
    BY <2>2
  <2>4. /\ WaitInv' /\ HeldInv' /\ jobs' \subseteq Job
        /\ \E p \in {"closing", "cleanup"} : pc' = [pc EXCEPT ![r] = p]
    BY <1>1, <1>5, <2>1, <2>2, <2>3, FinalizeKeeps
  <2> QED BY <1>1, <1>2, <2>4, Moved
<1> QED BY <1>3, <1>4, <1>5 DEF r

\* It raises.
LEMMA ErrorKeeps ==
    ASSUME IInv, NEW j \in jobs, JobFails(j)
    PROVE  IInv'
<1>1. Fallback(j.to) \in Terminal \ {"succeeded"}
  BY DEF Fallback, Terminal
<1> QED BY <1>1, Dropped DEF JobFails, Failed

\* A thread reads the row, and finds it legal or not.
LEMMA RunKeeps ==
    ASSUME IInv, NEW j \in jobs, RunJob(j)
    PROVE  IInv'
<1> DEFINE r == j.of
<1>1. /\ jobs \subseteq Job /\ r \in Requests /\ row[r] # NoRow /\ phase # "down" /\ ~j.held
      /\ \A o \in jobs : o.held => o.of # r
      /\ UNCHANGED <<row, slots, file, key, calls, reply, stage, left, server>>
  BY DEF RunJob, IInv, TypeOK, Job, WaitInv, RowsInv, client
<1> HIDE DEF r
<1>2. CASE Refused(j)
  <2>1. "failed_terminal" \in Terminal \ {"succeeded"}
    BY DEF Terminal
  <2> QED BY <1>2, <2>1, Dropped DEF RunJob, Refused
<1>3. CASE /\ Legal(j) /\ UNCHANGED pc
           /\ jobs' = (jobs \ {j}) \cup {[j EXCEPT !.held = TRUE]}
  <2> DEFINE new == [j EXCEPT !.held = TRUE]
  <2>1. /\ new \in Job /\ new.of = j.of /\ new.to = j.to /\ new.gen = j.gen
        /\ new.awaited = j.awaited /\ new.held
    BY <1>1 DEF Job
  <2> HIDE DEF new
  <2>2. jobs' = (jobs \ {j}) \cup {new}
    BY <1>3 DEF new
  <2>3. /\ \A o \in jobs' : row[o.of] # NoRow
        /\ \A o \in jobs' : o.awaited =>
              \/ pc[o.of] = "wait" /\ stage[o.of] # "succeeded" /\ o.to = NextState[stage[o.of]]
              \/ pc[o.of] = "closing" /\ o.to \in Terminal \ {"succeeded"}
        /\ \A o, p \in jobs' : o.awaited /\ p.awaited /\ o.of = p.of => o = p
    BY <2>1, <2>2 DEF IInv, WaitInv
  <2>4. WaitInv'
    BY <1>1, <1>3, <2>3 DEF IInv, WaitInv
  <2>5. Legal(new)
    BY <1>3, <2>1 DEF Legal
  <2>6. /\ \A o \in jobs' : o.held => Legal(o)
        /\ \A o, p \in jobs' : o.held /\ p.held /\ o.of = p.of => o = p
    BY <1>1, <2>1, <2>2, <2>5 DEF IInv, HeldInv, r
  <2>7. HeldInv'
    BY <1>1, <2>6 DEF HeldInv, Legal
  <2>8. jobs' \subseteq Job
    BY <1>1, <2>1, <2>2
  <2> QED BY <1>1, <1>3, <2>4, <2>7, <2>8 DEF IInv, TypeOK, RowsInv, SentInv, CallInv, server
<1> QED BY <1>2, <1>3 DEF RunJob

\* What a transaction writes, and that every other row stays.
LEMMA WrittenRow ==
    ASSUME TypeOK, NEW r \in Requests, row[r] # NoRow, NEW to \in Active \cup Terminal
    PROVE  /\ Written(r, to) \in [Requests -> Row \cup {NoRow}]
           /\ Written(r, to)[r] \in Row /\ Written(r, to)[r].state = to
           /\ Written(r, to)[r].version = row[r].version
           /\ Written(r, to)[r].lease = (IF to \in Active THEN Lease ELSE 0)
           /\ Written(r, to)[r].sent = (row[r].sent \/ to = "dispatching")
           /\ \A q \in Requests : q # r => Written(r, to)[q] = row[q]
<1> DEFINE gen == row[r].gen + 1
           lease == IF to \in Active THEN Lease ELSE 0
           bound == row[r].bound \/ to = "scanning"
           sent == row[r].sent \/ to = "dispatching"
           new == [row[r] EXCEPT !.state = to, !.gen = gen, !.lease = lease,
                                 !.bound = bound, !.sent = sent]
<1>1. row[r] \in Row
  BY RowShape
<1>2. gen \in Nat /\ bound \in BOOLEAN /\ sent \in BOOLEAN
  BY <1>1 DEF Row
<1>3. lease \in 0..Lease
  BY SpeechAssumption
<1>4. Written(r, to) = [row EXCEPT ![r] = new]
  BY DEF Written, TypeOK
<1> HIDE DEF gen, lease, bound, sent
<1>5. new \in Row /\ new.state = to /\ new.version = row[r].version /\ new.sent = sent
      /\ new.lease = lease
  BY <1>1, <1>2, <1>3 DEF Row
<1> HIDE DEF new
<1> QED BY <1>4, <1>5 DEF TypeOK, sent, lease

\* A thread commits what it found legal.
LEMMA CommitKeeps ==
    ASSUME IInv, NEW j \in jobs, CommitJob(j)
    PROVE  IInv'
<1> DEFINE r == j.of
           to == j.to
<1>1. /\ jobs \subseteq Job /\ r \in Requests /\ row[r] # NoRow /\ phase # "down" /\ j.held
      /\ to \in Active \cup Terminal /\ Legal(j)
      /\ jobs' = jobs \ {j}
      /\ UNCHANGED <<slots, file, key, calls, reply, left, server>>
  BY DEF CommitJob, IInv, TypeOK, Job, WaitInv, HeldInv, RowsInv, client
<1>2. /\ row[r].state \in Active
      /\ to \in Active \cup {"succeeded"} => NextState[row[r].state] = to
      /\ to = "cancelled" => ~row[r].sent
      /\ to = "ambiguous" => row[r].sent
  BY <1>1 DEF Legal
<1>3. /\ row' = Written(r, to)
      /\ \/ ~j.awaited /\ UNCHANGED <<pc, stage>>
         \/ /\ j.awaited /\ pc' = [pc EXCEPT ![r] = IF to \in Terminal THEN "cleanup" ELSE "work"]
            /\ stage' = IF to \in Active \cup {"succeeded"}
                          THEN [stage EXCEPT ![r] = to] ELSE stage
  BY DEF CommitJob, Go
<1>4. /\ row' \in [Requests -> Row \cup {NoRow}] /\ row'[r] \in Row /\ row'[r].state = to
      /\ row'[r].version = row[r].version
      /\ row'[r].sent = (row[r].sent \/ to = "dispatching")
      /\ \A q \in Requests : q # r => row'[q] = row[q]
  BY <1>1, <1>3, WrittenRow DEF IInv
<1>5. \/ j.awaited /\ pc[r] = "wait" /\ stage[r] # "succeeded" /\ to = NextState[stage[r]]
      \/ j.awaited /\ pc[r] = "closing" /\ to \in Terminal \ {"succeeded"}
      \/ ~j.awaited
  BY DEF IInv, WaitInv
<1>6. row'[r] # NoRow
  BY <1>4, States DEF Row, NoRow
<1>7. /\ \A q \in Requests : q # r => pc'[q] = pc[q] /\ stage'[q] = stage[q]
      /\ pc'[r] = pc[r] \/ pc'[r] = "cleanup" \/ (pc'[r] = "work" /\ to \notin Terminal)
      /\ stage'[r] # stage[r] => stage'[r] = to /\ j.awaited /\ to \in Active \cup {"succeeded"}
  <2>1. CASE ~j.awaited /\ UNCHANGED <<pc, stage>>
    BY <2>1
  <2>2. CASE /\ j.awaited /\ pc' = [pc EXCEPT ![r] = IF to \in Terminal THEN "cleanup" ELSE "work"]
             /\ stage' = IF to \in Active \cup {"succeeded"}
                           THEN [stage EXCEPT ![r] = to] ELSE stage
    BY <1>1, <2>2 DEF IInv, TypeOK
  <2> QED BY <1>3, <2>1, <2>2
<1> HIDE DEF r, to
<1>8. TypeOK'
  <2>1. pc' \in [Requests -> Steps] /\ stage' \in [Requests -> Active \cup {"succeeded"}]
    BY <1>3 DEF IInv, TypeOK, Steps
  <2>2. jobs' \subseteq Job
    BY <1>1
  <2> QED BY <1>1, <1>4, <2>1, <2>2 DEF IInv, TypeOK, server
<1>9. RowsInv'
  <2>1. \A q \in Requests : row'[q] # NoRow => row[q] # NoRow /\ row'[q].version = row[q].version
    BY <1>1, <1>4
  <2>2. \A q \in Requests : row'[q] = NoRow => row[q] = NoRow /\ pc'[q] = pc[q]
    BY <1>4, <1>6, <1>7
  <2>3. \A q \in Requests : pc'[q] \in {"idle", "identity"} => pc[q] = pc'[q] /\ row'[q] = row[q]
    BY <1>1, <1>4, <1>7 DEF IInv, RowsInv
  <2>4. phase' # "down" /\ UNCHANGED <<key, keyring>>
    BY <1>1 DEF server
  <2> QED BY <2>1, <2>2, <2>3, <2>4 DEF IInv, RowsInv
<1>10. SentInv'
  <2>1. ASSUME NEW q \in Requests, row'[q] # NoRow
        PROVE  /\ row'[q].state \in {"dispatching", "succeeded", "ambiguous"} => row'[q].sent
               /\ row'[q].state = "cancelled" => ~row'[q].sent
    <3>1. CASE q = r
      <4>1. to = "succeeded" => row[r].sent
        BY <1>1, <1>2, States DEF IInv, SentInv
      <4> QED BY <1>2, <1>4, <3>1, <4>1
    <3>2. CASE q # r
      BY <1>4, <2>1, <3>2 DEF IInv, SentInv
    <3> QED BY <3>1, <3>2
  <2> QED BY <2>1 DEF SentInv
<1>11. \A o \in jobs' : o.of = r => (~o.held) /\ (j.awaited => ~o.awaited)
  BY <1>1 DEF IInv, WaitInv, HeldInv, r
<1>12. WaitInv'
  <2>1. \A o \in jobs' : row'[o.of] # NoRow
    <3>1. \A o \in jobs' : o.of \in Requests /\ row[o.of] # NoRow
      BY <1>1 DEF IInv, WaitInv, Job
    <3> QED BY <1>4, <1>6, <3>1
  <2>2. ASSUME NEW o \in jobs', o.awaited
        PROVE  \/ pc'[o.of] = "wait" /\ stage'[o.of] # "succeeded" /\ o.to = NextState[stage'[o.of]]
               \/ pc'[o.of] = "closing" /\ o.to \in Terminal \ {"succeeded"}
    <3>1. o \in jobs /\ o.of \in Requests
      BY <1>1 DEF Job
    <3>2. CASE o.of = r
      <4>1. ~j.awaited
        BY <1>11, <2>2, <3>2
      <4> QED BY <1>3, <2>2, <3>1, <4>1 DEF IInv, WaitInv
    <3>3. CASE o.of # r
      BY <1>7, <2>2, <3>1, <3>3 DEF IInv, WaitInv
    <3> QED BY <3>2, <3>3
  <2>3. \A o, p \in jobs' : o.awaited /\ p.awaited /\ o.of = p.of => o = p
    BY <1>1 DEF IInv, WaitInv
  <2>4. ASSUME NEW q \in Requests
        PROVE  /\ pc'[q] = "work" => stage'[q] # "succeeded"
               /\ pc'[q] = "calling" => stage'[q] = "dispatching"
    <3>1. CASE q = r /\ pc'[r] = pc[r] /\ ~j.awaited
      BY <1>3, <3>1 DEF IInv, WaitInv
    <3>2. CASE q = r /\ j.awaited
      <4>1. pc'[r] = "cleanup" \/ (pc'[r] = "work" /\ to \notin Terminal)
        BY <1>1, <1>3, <3>2 DEF IInv, TypeOK
      <4>2. to \notin Terminal => stage'[r] = to
        BY <1>1, <1>3, <3>2 DEF IInv, TypeOK
      <4> QED BY <3>2, <4>1, <4>2 DEF Terminal
    <3>3. CASE q # r
      BY <1>7, <3>3 DEF IInv, WaitInv
    <3> QED BY <1>3, <3>1, <3>2, <3>3
  <2> QED BY <2>1, <2>2, <2>3, <2>4 DEF WaitInv
<1>13. HeldInv'
  <2>1. ASSUME NEW o \in jobs', o.held
        PROVE  Legal(o)'
    <3>1. o.of # r /\ o \in jobs /\ o.of \in Requests
      BY <1>1, <1>11, <2>1 DEF Job
    <3>2. row'[o.of] = row[o.of]
      BY <1>4, <3>1
    <3>3. Legal(o)
      BY <2>1, <3>1 DEF IInv, HeldInv
    <3> QED BY <3>2, <3>3 DEF Legal
  <2>2. \A o, p \in jobs' : o.held /\ p.held /\ o.of = p.of => o = p
    BY <1>1 DEF IInv, HeldInv
  <2> QED BY <2>1, <2>2 DEF HeldInv
<1>14. CallInv'
  <2>1. stage[r] # "succeeded"
    BY <1>1, <1>2, States DEF IInv, CallInv, Terminal
  <2>2. row'[r].sent \in BOOLEAN /\ (row[r].sent => row'[r].sent)
    BY <1>4
  <2>4. j.awaited /\ to = "dispatching" => stage[r] = "inspecting"
    BY <1>1, <1>5, States DEF IInv, TypeOK, Terminal
  <2>5. calls[key[r]] > 0 => stage[r] = "dispatching"
    BY <1>1, <2>1 DEF IInv, CallInv
  <2>6. calls[key[r]] > 0 =>
          /\ stage'[r] \in {"dispatching", "succeeded"} /\ row'[r].sent
          /\ ~(pc'[r] = "work" /\ stage'[r] = "dispatching")
    <3>1. SUFFICES ASSUME calls[key[r]] > 0
                   PROVE  /\ stage'[r] \in {"dispatching", "succeeded"} /\ row'[r].sent
                          /\ ~(pc'[r] = "work" /\ stage'[r] = "dispatching")
      OBVIOUS
    <3>2. stage[r] = "dispatching" /\ row[r].sent /\ pc[r] # "work"
      BY <1>1, <2>5, <3>1 DEF IInv, CallInv
    <3>3. CASE ~j.awaited
      BY <1>3, <2>2, <3>2, <3>3
    <3>4. CASE j.awaited
      <4>1. to \in Terminal
        BY <1>5, <3>2, <3>4 DEF NextState, Terminal
      <4>2. pc'[r] = "cleanup"
        BY <1>1, <1>3, <3>4, <4>1 DEF IInv, TypeOK
      <4>3. stage'[r] = "dispatching" \/ stage'[r] = "succeeded"
        BY <1>7, <3>2, <4>1 DEF Terminal, Active, NextState
      <4> QED BY <2>2, <3>2, <4>2, <4>3
    <3> QED BY <3>3, <3>4
  <2>7. /\ stage'[r] \in {"dispatching", "succeeded"} => row'[r].sent
        /\ stage'[r] = "succeeded" => row'[r].state = "succeeded"
    <3>1. stage[r] = "dispatching" => row[r].sent
      BY <1>1 DEF IInv, CallInv
    <3>2. to = "succeeded" => row[r].sent
      BY <1>1, <1>2, States DEF IInv, SentInv
    <3> QED BY <1>4, <1>7, <2>1, <2>2, <3>1, <3>2
  <2>8. \A q \in Requests : q # r => row'[q] = row[q] /\ stage'[q] = stage[q] /\ pc'[q] = pc[q]
    BY <1>4, <1>7
  <2>9. reply[r] # "transcript"
    BY <1>1, <2>1 DEF IInv, CallInv
  <2>10. \A k \in Keys : calls[k] = 1 => \E q \in Requests : key[q] = k /\ row'[q].sent
    BY <1>1, <2>2, <2>8 DEF IInv, CallInv
  <2>11. ASSUME NEW q \in Requests
         PROVE  /\ row'[q] # NoRow /\ calls[key[q]] > 0 =>
                      /\ stage'[q] \in {"dispatching", "succeeded"} /\ row'[q].sent
                      /\ ~(pc'[q] = "work" /\ stage'[q] = "dispatching")
                /\ stage'[q] \in {"dispatching", "succeeded"} => row'[q] # NoRow /\ row'[q].sent
                /\ stage'[q] = "succeeded" => row'[q].state = "succeeded"
                /\ reply[q] = "transcript" => stage'[q] = "succeeded"
    <3>1. CASE q = r
      BY <1>6, <2>6, <2>7, <2>9, <3>1
    <3>2. CASE q # r
      BY <2>8, <3>2 DEF IInv, CallInv
    <3> QED BY <3>1, <3>2
  <2>12. UNCHANGED <<calls, key, reply>> /\ \A k \in Keys : calls[k] <= 1
    BY <1>1 DEF IInv, CallInv
  <2> QED BY <2>10, <2>11, <2>12 DEF CallInv
<1> QED BY <1>8, <1>9, <1>10, <1>12, <1>13, <1>14 DEF IInv
-----------------------------------------------------------------------------
(* Admission *)

\* A request arrives with a key.
LEMMA EnterKeeps ==
    ASSUME IInv, NEW r \in Requests, Enter(r)
    PROVE  IInv'
<1>1. /\ pc[r] = "idle" /\ row[r] = NoRow /\ phase = "open"
      /\ pc' = [pc EXCEPT ![r] = "identity"] /\ left' = [left EXCEPT ![r] = Total]
      /\ UNCHANGED <<row, slots, file, jobs, reply, calls, stage, server>>
  BY DEF Enter, Go, IInv, RowsInv
<1>2. PICK k \in Keys : key' = [key EXCEPT ![r] = k]
  BY DEF Enter
<1>3. /\ pc'[r] = "identity" /\ key'[r] = k
      /\ \A q \in Requests : q # r => pc'[q] = pc[q] /\ key'[q] = key[q]
  BY <1>1, <1>2 DEF IInv, TypeOK
<1>4. TypeOK'
  <2>1. Total \in 0..Total
    BY SpeechAssumption
  <2> QED BY <1>1, <1>2, <2>1 DEF IInv, TypeOK, Steps, server
<1>5. RowsInv'
  BY <1>1, <1>3 DEF IInv, RowsInv, server
<1>6. WaitInv' /\ HeldInv'
  <2>1. \A j \in jobs : j.of # r /\ j.of \in Requests
    BY <1>1 DEF IInv, WaitInv, TypeOK, Job
  <2> QED BY <1>1, <1>3, <2>1 DEF IInv, WaitInv, HeldInv, Legal
<1>7. SentInv'
  BY <1>1 DEF IInv, SentInv
<1>8. CallInv'
  <2>1. ~row[r].sent
    BY <1>1, RowShape DEF IInv
  <2> QED BY <1>1, <1>3, <2>1 DEF IInv, CallInv
<1> QED BY <1>4, <1>5, <1>6, <1>7, <1>8 DEF IInv

\* Who finds no duplicate under the versions the process knows has a key of its own.
LEMMA AdmitKeeps ==
    ASSUME IInv, NEW r \in Requests, Admit(r)
    PROVE  IInv'
<1>1. /\ pc[r] = "identity" /\ row[r] = NoRow /\ phase # "down" /\ key[r] \in Keys
      /\ UNCHANGED <<slots, file, jobs, stage, left, phase, keyring, restarts, key, calls>>
  BY DEF Admit, IInv, RowsInv, server, client, Tell
<1>2. \A j \in jobs : j.of # r /\ j.of \in Requests
  BY <1>1 DEF IInv, WaitInv, TypeOK, Job
<1>3. CASE /\ UNCHANGED row /\ pc' = [pc EXCEPT ![r] = "done"]
           /\ \E what \in Replies \ {"transcript"} : reply' = [reply EXCEPT ![r] = what]
  <2>1. pc'[r] = "done" /\ \A q \in Requests : q # r => pc'[q] = pc[q]
    BY <1>3 DEF IInv, TypeOK
  <2>2. \A q \in Requests : reply'[q] = "transcript" => stage[q] = "succeeded"
    BY <1>3 DEF IInv, TypeOK, CallInv
  <2>3. TypeOK'
    BY <1>1, <1>3 DEF IInv, TypeOK, Steps
  <2>4. WaitInv' /\ HeldInv'
    BY <1>1, <1>2, <1>3, <2>1 DEF IInv, WaitInv, HeldInv, Legal
  <2>5. \A q \in Requests : pc'[q] # pc[q] => pc'[q] = "done" /\ pc[q] # "idle"
    BY <1>1, <2>1
  <2>6. RowsInv' /\ SentInv' /\ CallInv'
    BY <1>1, <1>3, <2>2, <2>5, Quietly
  <2> QED BY <2>3, <2>4, <2>6 DEF IInv
<1>4. CASE /\ Duplicates(r) = {}
           /\ row' = [row EXCEPT ![r] = [state |-> "admitted", gen |-> 1, lease |-> Lease,
                         sent |-> FALSE, bound |-> FALSE, version |-> keyring.active]]
           /\ \/ pc' = [pc EXCEPT ![r] = "work"] /\ UNCHANGED reply
              \/ pc' = [pc EXCEPT ![r] = "done"] /\ reply' = [reply EXCEPT ![r] = "error"]
  <2> DEFINE new == [state |-> "admitted", gen |-> 1, lease |-> Lease,
                     sent |-> FALSE, bound |-> FALSE, version |-> keyring.active]
  <2>1. /\ new \in Row /\ new.version \in keyring.keys /\ new # NoRow
        /\ new.state = "admitted" /\ ~new.sent
    <3>1. keyring.active \in Versions /\ keyring.active \in keyring.keys
      BY SpeechAssumption DEF IInv, TypeOK
    <3>2. Lease \in 0..Lease /\ "admitted" \in Active \cup Terminal
      BY SpeechAssumption, States
    <3>3. new \in Row
      BY <3>1, <3>2 DEF Row
    <3> QED BY <3>1, <3>3 DEF NoRow, None
  <2>2. row' = [row EXCEPT ![r] = new]
    BY <1>4
  <2> HIDE DEF new
  <2>3. row'[r] = new /\ \A q \in Requests : q # r => row'[q] = row[q] /\ pc'[q] = pc[q]
    BY <1>4, <2>2 DEF IInv, TypeOK
  <2>4. \A q \in Requests : row[q] # NoRow => key[q] # key[r]
    <3>1. \A q \in Requests : row[q] # NoRow => row[q].version \in keyring.keys
      BY DEF IInv, RowsInv
    <3> QED BY <1>4, <3>1 DEF Duplicates, EnteredBefore
  <2>5. pc'[r] \in {"work", "done"}
    BY <1>4 DEF IInv, TypeOK
  <2>6. calls[key[r]] = 0
    <3>1. calls[key[r]] \in Nat /\ calls[key[r]] <= 1
      BY <1>1 DEF IInv, TypeOK, CallInv
    <3>2. calls[key[r]] # 1
      <4>1. SUFFICES ASSUME calls[key[r]] = 1
                     PROVE  FALSE
        OBVIOUS
      <4>2. PICK q \in Requests : key[q] = key[r] /\ row[q].sent
        BY <1>1, <4>1 DEF IInv, CallInv
      <4> QED BY <2>4, <4>2, RowShape DEF IInv
    <3> QED BY <3>1, <3>2
  <2>7. stage[r] \notin {"dispatching", "succeeded"}
    BY <1>1 DEF IInv, CallInv
  <2>8. reply'[r] # "transcript" /\ \A q \in Requests : q # r => reply'[q] = reply[q]
    BY <1>4, <2>7 DEF IInv, TypeOK, CallInv
  <2>9. TypeOK'
    <3>1. row' \in [Requests -> Row \cup {NoRow}]
      BY <2>1, <2>2 DEF IInv, TypeOK
    <3>2. pc' \in [Requests -> Steps] /\ reply' \in [Requests -> Replies]
      BY <1>4 DEF IInv, TypeOK, Steps, Replies
    <3> QED BY <1>1, <3>1, <3>2 DEF IInv, TypeOK
  <2>10. RowsInv'
    BY <1>1, <2>1, <2>3, <2>4, <2>5 DEF IInv, RowsInv
  <2>11. WaitInv' /\ HeldInv'
    BY <1>1, <1>2, <2>3, <2>5, <2>7 DEF IInv, WaitInv, HeldInv, Legal
  <2>12. SentInv'
    BY <2>1, <2>3 DEF IInv, SentInv
  <2>13. CallInv'
    <3>1. \A k \in Keys : calls[k] = 1 => \E q \in Requests : key[q] = k /\ row'[q].sent
      <4>1. ~row[r].sent
        BY <1>1, RowShape DEF IInv
      <4> QED BY <2>3, <4>1 DEF IInv, CallInv
    <3>2. ASSUME NEW q \in Requests
          PROVE  /\ row'[q] # NoRow /\ calls[key[q]] > 0 =>
                       /\ stage[q] \in {"dispatching", "succeeded"} /\ row'[q].sent
                       /\ ~(pc'[q] = "work" /\ stage[q] = "dispatching")
                 /\ stage[q] \in {"dispatching", "succeeded"} => row'[q] # NoRow /\ row'[q].sent
                 /\ stage[q] = "succeeded" => row'[q].state = "succeeded"
                 /\ reply'[q] = "transcript" => stage[q] = "succeeded"
      <4>1. CASE q = r
        BY <2>6, <2>7, <2>8, <4>1
      <4>2. CASE q # r
        BY <2>3, <2>8, <4>2 DEF IInv, CallInv
      <4> QED BY <4>1, <4>2
    <3>3. \A k \in Keys : calls[k] <= 1
      BY DEF IInv, CallInv
    <3> QED BY <1>1, <3>1, <3>2, <3>3 DEF CallInv
  <2> QED BY <2>9, <2>10, <2>11, <2>12, <2>13 DEF IInv
<1>5. \A q \in Requests : DuplicateReply(q) \in Replies \ {"transcript"}
  BY DEF DuplicateReply, Replies
<1>6. "quota" \in Replies \ {"transcript"}
  BY DEF Replies
<1>7. \A q \in Duplicates(r) : q \in Requests
  BY DEF Duplicates, EnteredBefore
<1> QED BY <1>3, <1>4, <1>5, <1>6, <1>7 DEF Admit, Go, Tell, client
-----------------------------------------------------------------------------
(* Time, the sweeper, and the life of the process *)

\* Time counts down within its bounds.
LEMMA LessBounds ==
    ASSUME NEW n \in Nat, NEW m \in 0..n
    PROVE  Less(m) \in 0..n
BY DEF Less

\* Time passes.
LEMMA TickKeeps ==
    ASSUME IInv, Tick
    PROVE  IInv'
<1>1. /\ left' = [r \in Requests |-> Less(left[r])]
      /\ row' = [r \in Requests |-> [row[r] EXCEPT !.lease = Less(@)]]
      /\ slots' = Slots!Age(slots)
      /\ file' = [r \in Requests |-> IF file[r] >= StaleAfter THEN file[r] ELSE file[r] + 1]
      /\ UNCHANGED <<jobs, key, reply, calls, pc, stage, phase, keyring, restarts>>
  BY DEF Tick, client, server
<1>2. ASSUME NEW r \in Requests
      PROVE  /\ row[r] = NoRow => row'[r] = NoRow
             /\ row[r] # NoRow => row'[r] \in Row
             /\ row'[r].state = row[r].state /\ row'[r].gen = row[r].gen
             /\ row'[r].sent = row[r].sent /\ row'[r].version = row[r].version
  <2>1. row'[r] = [row[r] EXCEPT !.lease = Less(row[r].lease)]
    BY <1>1
  <2>2. CASE row[r] = NoRow
    <3>1. Less(row[r].lease) = row[r].lease
      BY <2>2 DEF NoRow, Less
    <3>2. row'[r] = row[r]
      BY <2>1, <2>2, <3>1 DEF NoRow
    <3> QED BY <2>2, <3>2
  <2>3. CASE row[r] # NoRow
    <3>1. row[r] \in Row
      BY <2>3, RowShape DEF IInv
    <3>2. Less(row[r].lease) \in 0..Lease
      BY <3>1, SpeechAssumption, LessBounds DEF Row
    <3> QED BY <2>1, <2>3, <3>1, <3>2 DEF Row
  <2> QED BY <2>2, <2>3
<1>3. \A r \in Requests : row'[r] = NoRow <=> row[r] = NoRow
  <2>1. NoRow \notin Row
    BY States DEF Row, NoRow
  <2> QED BY <1>2, <2>1
<1>4. TypeOK'
  <2>1. row' \in [Requests -> Row \cup {NoRow}]
    BY <1>1, <1>2
  <2>2. left' \in [Requests -> 0..Total]
    BY <1>1, LessBounds, SpeechAssumption DEF IInv, TypeOK
  <2>3. file' \in [Requests -> 0..NoFile]
    BY <1>1, SpeechAssumption DEF IInv, TypeOK, NoFile
  <2>4. slots' \in [Slots!Numbers -> Slots!Slot]
    BY <1>1, SlotsAged DEF IInv, TypeOK
  <2> QED BY <1>1, <2>1, <2>2, <2>3, <2>4 DEF IInv, TypeOK
<1>5. \A j \in jobs : j.of \in Requests
  BY DEF IInv, TypeOK, Job
<1>0. \A r \in Requests : /\ row'[r].state = row[r].state /\ row'[r].gen = row[r].gen
                          /\ row'[r].sent = row[r].sent /\ row'[r].version = row[r].version
  BY <1>2
<1>6. UNCHANGED <<jobs, key, reply, calls, pc, stage, phase, keyring, restarts>>
  BY <1>1
<1>7. RowsInv'
  BY <1>0, <1>3, <1>6 DEF IInv, RowsInv
<1>8. WaitInv'
  BY <1>3, <1>5, <1>6 DEF IInv, WaitInv
<1>9. SentInv'
  BY <1>0, <1>3 DEF IInv, SentInv
<1>10. HeldInv'
  BY <1>0, <1>5, <1>6 DEF IInv, HeldInv, Legal
<1>11. CallInv'
  BY <1>0, <1>3, <1>6 DEF IInv, CallInv
<1> QED BY <1>4, <1>7, <1>8, <1>9, <1>10, <1>11 DEF IInv

\* The sweeper writes no row that a transaction holds, and no row that has ended.
LEMMA SweptKeeps ==
    ASSUME IInv, SweepEffect, \A j \in jobs : j.held => ~Expired(j.of),
           UNCHANGED <<jobs, key, reply, calls, pc, stage, left>>,
           slots' \in [Slots!Numbers -> Slots!Slot],
           keyring' \in Keyrings, restarts' \in 0..MaxRestarts,
           phase' \in {"open", "closing"},
           \A r \in Requests : row[r] # NoRow => row[r].version \in keyring'.keys
    PROVE  IInv'
<1>1. ASSUME NEW r \in Requests, Expired(r)
      PROVE  /\ row[r] # NoRow /\ row'[r] # NoRow /\ row'[r] \in Row
             /\ row'[r].state \in {"ambiguous", "failed_terminal"}
             /\ row'[r].version = row[r].version
             /\ row'[r].sent = row[r].sent
             /\ row'[r].state = "ambiguous" => row[r].sent
  <2>1. row[r] # NoRow
    BY <1>1, RowShape, States DEF IInv, Expired
  <2>2. /\ Recovered(r) \in Active \cup Terminal
        /\ Recovered(r) \in {"ambiguous", "failed_terminal"}
        /\ Recovered(r) = "ambiguous" => row[r].sent
    BY DEF Recovered, Terminal
  <2>3. row'[r] = Written(r, Recovered(r))[r]
    BY <1>1 DEF SweepEffect
  <2>4. row[r].sent \in BOOLEAN
    BY RowShape DEF IInv
  <2>5. /\ row'[r] \in Row /\ row'[r].state = Recovered(r)
        /\ row'[r].version = row[r].version
        /\ row'[r].sent = (row[r].sent \/ Recovered(r) = "dispatching")
    BY <2>1, <2>2, <2>3, WrittenRow DEF IInv
  <2>6. row'[r] # NoRow
    BY <2>5, States DEF Row, NoRow
  <2>7. row'[r].sent = row[r].sent
    BY <2>2, <2>4, <2>5
  <2> QED BY <2>1, <2>2, <2>5, <2>6, <2>7
<1>2. \A r \in Requests : ~Expired(r) => row'[r] = row[r]
  BY DEF SweepEffect
<1>3. \A r \in Requests : /\ row'[r] = NoRow <=> row[r] = NoRow
                          /\ row'[r].version = row[r].version /\ row'[r].sent = row[r].sent
  BY <1>1, <1>2
<1>4. TypeOK'
  <2>1. row' = [r \in Requests |-> row'[r]]
    BY DEF SweepEffect
  <2>2. \A r \in Requests : row'[r] \in Row \cup {NoRow}
    BY <1>1, <1>2 DEF IInv, TypeOK
  <2>3. row' \in [Requests -> Row \cup {NoRow}]
    BY <2>1, <2>2
  <2>4. file' \in [Requests -> 0..NoFile]
    BY SpeechAssumption DEF SweepEffect, IInv, TypeOK, NoFile
  <2> QED BY <2>3, <2>4 DEF IInv, TypeOK
<1>5. \A j \in jobs : j.of \in Requests
  BY DEF IInv, TypeOK, Job
<1>6. RowsInv' /\ WaitInv'
  BY <1>3, <1>5 DEF IInv, RowsInv, WaitInv
<1>7. HeldInv'
  BY <1>2, <1>5 DEF IInv, HeldInv, Legal
<1>8. SentInv'
  BY <1>1, <1>2, <1>3 DEF IInv, SentInv
<1>9. CallInv'
  <2>1. \A r \in Requests : stage[r] = "succeeded" => row'[r].state = "succeeded"
    <3>1. \A r \in Requests : stage[r] = "succeeded" => ~Expired(r)
      BY States DEF IInv, CallInv, Expired, Terminal
    <3> QED BY <1>2, <3>1 DEF IInv, CallInv
  <2> QED BY <1>3, <2>1 DEF IInv, CallInv
<1> QED BY <1>4, <1>6, <1>7, <1>8, <1>9 DEF IInv

\* The sweeper.
LEMMA SweepKeeps ==
    ASSUME IInv, Sweep
    PROVE  IInv'
<1>1. slots' \in [Slots!Numbers -> Slots!Slot]
  BY SlotsReclaimed DEF Sweep, IInv, TypeOK
<1>2. /\ SweepEffect /\ \A j \in jobs : j.held => ~Expired(j.of)
      /\ UNCHANGED <<jobs, key, reply, calls, pc, stage, left>>
      /\ keyring' \in Keyrings /\ restarts' \in 0..MaxRestarts
      /\ phase' \in {"open", "closing"}
      /\ \A r \in Requests : row[r] # NoRow => row[r].version \in keyring'.keys
  BY DEF Sweep, IInv, TypeOK, RowsInv, client, process, server
<1> QED BY <1>1, <1>2, SweptKeeps

\* A restart: its keyring knows every row.
LEMMA RestartKeeps ==
    ASSUME IInv, Restart
    PROVE  IInv'
<1>1. slots' \in [Slots!Numbers -> Slots!Slot]
  <2>1. PICK count \in 1..MaxSlots : slots' = Slots!Reclaim(Slots!Reconcile(slots, count))
    BY DEF Restart
  <2>2. count \in Nat
    BY SpeechAssumption
  <2> QED BY <2>1, <2>2, SlotsReconciled, SlotsReclaimed DEF IInv, TypeOK
<1>2. /\ SweepEffect /\ \A j \in jobs : j.held => ~Expired(j.of)
      /\ UNCHANGED <<jobs, key, reply, calls, pc, stage, left>>
      /\ keyring' \in Keyrings /\ restarts' \in 0..MaxRestarts
      /\ phase' \in {"open", "closing"}
      /\ \A r \in Requests : row[r] # NoRow => row[r].version \in keyring'.keys
  BY DEF Restart, Ready, IInv, TypeOK, RowsInv, client, process
<1> QED BY <1>1, <1>2, SweptKeeps

\* A shutdown begins.
LEMMA ClosingKeeps ==
    ASSUME IInv, StartClosing
    PROVE  IInv'
<1>1. /\ phase = "open" /\ phase' = "closing"
      /\ UNCHANGED <<row, slots, file, jobs, key, reply, calls, pc, stage, left, keyring, restarts>>
  BY DEF StartClosing, client, process
<1> QED BY <1>1 DEF IInv, TypeOK, RowsInv, WaitInv, HeldInv, Legal, SentInv, CallInv

\* What a rival does touches the slots alone.
LEMMA RivalKeeps ==
    ASSUME IInv, NEW w \in Rivals, RivalClaims(w) \/ RivalReleases(w)
    PROVE  IInv'
<1>1. UNCHANGED <<row, file, jobs, key, reply, calls, pc, stage, left, phase, keyring, restarts>>
  BY DEF RivalClaims, RivalReleases, client, process, server
<1>2. SlotsTyped
  BY DEF IInv, TypeOK, SlotsTyped
<1>3. SlotsTyped'
  <2>1. CASE RivalReleases(w)
    BY <1>2, <2>1, SlotsReleased DEF RivalReleases, SlotsTyped
  <2>2. CASE RivalClaims(w)
    <3>1. PICK t \in (Reserve + 1)..Total : slots' = Slots!Claim(slots, w, t)
      BY <2>2 DEF RivalClaims
    <3>2. t \in 0..Total
      BY SpeechAssumption
    <3> QED BY <1>2, <3>1, <3>2, SlotsClaimed DEF SlotsTyped
  <2> QED BY <2>1, <2>2
<1>4. TypeOK'
  BY <1>1, <1>3 DEF IInv, TypeOK, SlotsTyped
<1>5. RowsInv' /\ WaitInv' /\ HeldInv' /\ SentInv' /\ CallInv'
  BY <1>1 DEF IInv, RowsInv, WaitInv, HeldInv, Legal, SentInv, CallInv
<1> QED BY <1>4, <1>5 DEF IInv

\* The process ends, and its threads with it.
LEMMA ExitKeeps ==
    ASSUME IInv, Exit
    PROVE  IInv'
<1>1. /\ phase' = "down" /\ restarts' = restarts + 1 /\ jobs' = {}
      /\ pc' = [r \in Requests |-> IF pc[r] = "idle" THEN "idle" ELSE "done"]
      /\ UNCHANGED <<row, slots, file, key, reply, calls, stage, left, keyring>>
  BY DEF Exit, client
<1>2. restarts' \in 0..MaxRestarts
  BY SpeechAssumption DEF Exit, IInv, TypeOK
<1>3. TypeOK'
  BY <1>1, <1>2 DEF IInv, TypeOK, Steps
<1>4. RowsInv' /\ WaitInv' /\ HeldInv' /\ SentInv' /\ CallInv'
  BY <1>1 DEF IInv, RowsInv, WaitInv, HeldInv, SentInv, CallInv
<1> QED BY <1>3, <1>4 DEF IInv
-----------------------------------------------------------------------------
(* The theorems *)

\* The invariant holds at the start.
LEMMA Starts == Init => IInv
<1> SUFFICES ASSUME Init
             PROVE  IInv
  OBVIOUS
<1>1. \A i \in Slots!Numbers : Slots!Free(TRUE) \in Slots!Slot
  BY SpeechAssumption DEF Slots!Free, Slots!Nobody, Slots!Slot
<1>2. NoFile \in 0..NoFile /\ 0 \in 0..Total /\ 0 \in 0..MaxRestarts
  BY SpeechAssumption DEF NoFile
<1>3. TypeOK
  BY <1>1, <1>2 DEF Init, TypeOK, Steps, Replies, Active, NextState
<1>4. RowsInv /\ WaitInv /\ HeldInv /\ SentInv
  BY DEF Init, RowsInv, WaitInv, HeldInv, SentInv
<1>5. CallInv
  <2>1. /\ \A r \in Requests : row[r] = NoRow /\ stage[r] = "admitted" /\ reply[r] = None
        /\ \A k \in Keys : calls[k] = 0
    BY DEF Init
  <2> QED BY <2>1 DEF CallInv, None
<1> QED BY <1>3, <1>4, <1>5 DEF IInv

\* Every step keeps the invariant.
LEMMA Keeps == IInv /\ [Next]_vars => IInv'
<1> SUFFICES ASSUME IInv, [Next]_vars
             PROVE  IInv'
  OBVIOUS
<1>1. ASSUME NEW r \in Requests, RequestStep(r)
      PROVE  IInv'
  <2>1. CASE Enter(r) \/ Reject(r) \/ Cancel(r) \/ LateRelease(r)
    BY <2>1, EnterKeeps, RejectKeeps, CancelKeeps, ReleaseKeeps
  <2>2. CASE Admit(r) \/ Upload(r) \/ ClaimAsrSlot(r) \/ WorkFails(r)
    BY <2>2, AdmitKeeps, WorkKeeps, FailKeeps
  <2>3. CASE CallProvider(r) \/ ProviderReturns(r) \/ WaitTimesOut(r) \/ Cleanup(r)
    BY <2>3, CallKeeps, ReturnKeeps, TimeoutKeeps, CleanupKeeps
  <2> QED BY <1>1, <2>1, <2>2, <2>3 DEF RequestStep, Proceed
<1>2. ASSUME NEW j \in jobs, RunJob(j) \/ CommitJob(j) \/ JobFails(j)
      PROVE  IInv'
  BY <1>2, RunKeeps, CommitKeeps, ErrorKeeps
<1>3. CASE Tick \/ Sweep \/ StartClosing \/ Exit \/ Restart
  BY <1>3, TickKeeps, SweepKeeps, ClosingKeeps, ExitKeeps, RestartKeeps
<1>4. ASSUME NEW w \in Rivals, RivalClaims(w) \/ RivalReleases(w)
      PROVE  IInv'
  BY <1>4, RivalKeeps
<1>5. CASE UNCHANGED vars
  BY <1>5 DEF vars, client, process, server, IInv, TypeOK, RowsInv, WaitInv, HeldInv, Legal,
              SentInv, CallInv
<1> QED BY <1>1, <1>2, <1>3, <1>4, <1>5 DEF Next

\* The inductive invariant holds of every run, for any constants the assumption allows.
THEOREM Inductive == Spec => []IInv
BY Starts, Keeps, PTL DEF Spec

\* Rows, slots, transactions and replies are the ones the tables and the code name.
THEOREM TypesHold == Spec => []TypeOK
<1>1. IInv => TypeOK
  BY DEF IInv
<1> QED BY Inductive, <1>1, PTL

\* CalledAtMostOnce, for any number of requests, keys, keyrings and restarts: the
\* provider is called once per idempotency key at most, under a row that says so first
\* (commit_dispatching before the call of the provider in SpeechService.process).
THEOREM CalledOnce == Spec => []CalledAtMostOnce
<1>1. IInv => CalledAtMostOnce
  BY DEF IInv, CallInv, CalledAtMostOnce
<1> QED BY Inductive, <1>1, PTL

\* TranscriptIsRecorded, for any constants: a client is answered with a transcript only
\* of a request whose row succeeded, and every row that succeeded or is ambiguous says
\* the audio was sent, none that was cancelled does.
THEOREM TranscriptRecorded == Spec => []TranscriptIsRecorded
<1>1. ASSUME IInv, NEW r \in Requests
      PROVE  /\ reply[r] = "transcript" => row[r].state = "succeeded"
             /\ row[r].state \in {"succeeded", "ambiguous"} => row[r].sent
             /\ row[r].state = "cancelled" => ~row[r].sent
  <2>1. reply[r] = "transcript" => row[r].state = "succeeded"
    BY <1>1 DEF IInv, CallInv
  <2>2. CASE row[r] = NoRow
    BY <2>1, <2>2 DEF NoRow, None
  <2>3. CASE row[r] # NoRow
    BY <1>1, <2>1, <2>3 DEF IInv, SentInv
  <2> QED BY <2>2, <2>3
<1>2. IInv => TranscriptIsRecorded
  BY <1>1 DEF TranscriptIsRecorded
<1> QED BY Inductive, <1>2, PTL
-----------------------------------------------------------------------------
(* What a request in work keeps: its time, its lease, its audio and its slot *)

Working == {"work", "wait", "calling"}
HasAudio(r) ==
    /\ pc[r] \in Working
    /\ stage[r] \in {"scanning", "inspecting", "dispatching"} \/ (stage[r] = "uploading" /\ pc[r] = "wait")
HasSlot(r) ==
    /\ pc[r] \in Working
    /\ stage[r] = "dispatching" \/ (stage[r] = "inspecting" /\ pc[r] = "wait")
Claimed(r) ==
    \/ pc[r] \in {"closing", "cleanup", "done"} \/ stage[r] = "dispatching"
    \/ pc[r] = "wait" /\ stage[r] = "inspecting"

\* What r has lasts as long as r may work, and no slot is its own before it claims one.
Keeping(r) ==
    /\ pc[r] \in Working \cup {"identity"} => left[r] >= Reserve
    /\ row[r].state \in Active => row[r].lease >= left[r]
    /\ HasAudio(r) => file[r] + left[r] <= Total
    /\ HasSlot(r) => \E i \in Slots!Numbers :
                        slots[i].by = r /\ slots[i].left >= left[r] /\ slots[i].enabled
    /\ (\E i \in Slots!Numbers : slots[i].by = r) => Claimed(r)
    /\ pc[r] \in {"idle", "identity"} => stage[r] = "admitted"

KInv == IInv /\ \A r \in Requests : Keeping(r)

\* A step on the slots that leaves r its lease and gives it no other.
Spares(r) == \A i \in Slots!Numbers :
    /\ slots[i].by = r /\ slots[i].left > 0 =>
          slots'[i].by = r /\ slots'[i].left = slots[i].left /\ slots'[i].enabled = slots[i].enabled
    /\ slots'[i].by = r => slots[i].by = r

\* The sizes of the constants.
LEMMA Sizes ==
    /\ Total \in Nat /\ Reserve \in Nat /\ Lease \in Nat /\ StaleAfter \in Nat
    /\ 0 < Reserve /\ Reserve < Total /\ Total <= Lease /\ Total < StaleAfter
    /\ NoFile = StaleAfter + 1
BY SpeechAssumption DEF NoFile

\* The values at one request are numbers.
LEMMA Values ==
    ASSUME TypeOK, NEW r \in Requests
    PROVE  /\ left[r] \in Nat /\ left[r] <= Total /\ file[r] \in Nat /\ row[r].lease \in Nat
           /\ row[r].lease <= Lease
           /\ \A i \in Slots!Numbers : slots[i] \in Slots!Slot /\ slots[i].left \in Nat
<1>1. left[r] \in 0..Total /\ file[r] \in 0..NoFile /\ NoFile \in Nat
  BY Sizes DEF TypeOK
<1>2. row[r].lease \in 0..Lease
  BY RowShape
<1>3. \A i \in Slots!Numbers : slots[i] \in Slots!Slot
  BY DEF TypeOK
<1>4. \A s \in Slots!Slot : s.left \in Nat
  BY DEF Slots!Slot
<1> QED BY <1>1, <1>2, <1>3, <1>4, Sizes

\* A request that has nothing to do with a step keeps what it has.
LEMMA Others ==
    ASSUME TypeOK, NEW r \in Requests, Keeping(r), Spares(r),
           pc'[r] = pc[r], stage'[r] = stage[r], left'[r] = left[r],
           HasAudio(r) => file'[r] = file[r],
           row'[r] = row[r] \/ row'[r].state \notin Active
    PROVE  Keeping(r)'
<1>1. HasSlot(r)' => \E i \in Slots!Numbers :
                        slots'[i].by = r /\ slots'[i].left >= left'[r] /\ slots'[i].enabled
  <2> SUFFICES ASSUME HasSlot(r)'
               PROVE  \E i \in Slots!Numbers :
                        slots'[i].by = r /\ slots'[i].left >= left'[r] /\ slots'[i].enabled
    OBVIOUS
  <2>1. HasSlot(r) /\ left[r] >= Reserve
    BY DEF HasSlot, Keeping
  <2>2. PICK i \in Slots!Numbers : slots[i].by = r /\ slots[i].left >= left[r] /\ slots[i].enabled
    BY <2>1 DEF Keeping
  <2>3. slots[i].left > 0
    BY <2>1, <2>2, Sizes, Values
  <2> QED BY <2>2, <2>3 DEF Spares
<1>2. (\E i \in Slots!Numbers : slots'[i].by = r) => Claimed(r)'
  BY DEF Spares, Keeping, Claimed
<1>3. HasAudio(r)' => file'[r] + left'[r] <= Total
  BY DEF Keeping, HasAudio
<1> QED BY <1>1, <1>2, <1>3 DEF Keeping

\* A request that stops working keeps what is left.
LEMMA Leaves ==
    ASSUME TypeOK, NEW r \in Requests, Keeping(r),
           pc'[r] \in {"closing", "cleanup", "done"}, left'[r] = left[r],
           row'[r] = row[r] \/ row'[r].state \notin Active
    PROVE  Keeping(r)'
<1>1. ~HasAudio(r)' /\ ~HasSlot(r)' /\ Claimed(r)'
  BY DEF HasAudio, HasSlot, Claimed, Working
<1> QED BY <1>1 DEF Keeping, Working

\* Slots that stay as they are, or lose what ran out or is given back, spare the others.
LEMMA Sparing ==
    ASSUME TypeOK, NEW r \in Requests
    PROVE  /\ slots' = slots => Spares(r)
           /\ slots' = Slots!Reclaim(slots) => Spares(r)
           /\ \A q : q # r /\ slots' = Slots!Release(slots, q) => Spares(r)
           /\ \A q : slots' = Slots!Release(slots, q) =>
                 \A i \in Slots!Numbers : slots'[i].by = r => slots[i].by = r
<1>0. \A i \in Slots!Numbers : slots[i].left \in Nat
  BY Values
<1>1. r # Slots!Nobody
  BY SpeechAssumption DEF Slots!Nobody
<1>2. \A b : Slots!Free(b).by = Slots!Nobody
  BY DEF Slots!Free
<1>3. slots' = slots => Spares(r)
  BY DEF Spares
<1>4. slots' = Slots!Reclaim(slots) => Spares(r)
  BY <1>0, <1>1, <1>2 DEF Spares, Slots!Reclaim
<1>5. ASSUME NEW q, slots' = Slots!Release(slots, q)
      PROVE  /\ q # r => Spares(r)
             /\ \A i \in Slots!Numbers : slots'[i].by = r => slots[i].by = r
  BY <1>1, <1>2, <1>5 DEF Spares, Slots!Release
<1> QED BY <1>3, <1>4, <1>5

\* The order in which the lowest free slot is found.
Below == {p \in Nat \X Nat : p[1] < p[2]}
\* It is well founded.
LEMMA BelowWF == IsWellFoundedOn(Below, Nat)
BY NatLessThanWellFounded DEF OpToRel, Below

\* There is a lowest one.
LEMMA Lowest ==
    ASSUME NEW S \in SUBSET Nat, S # {}
    PROVE  (CHOOSE n \in S : \A o \in S : n <= o) \in S
<1>1. \E x \in S : \A y \in S : ~ (<<y, x>> \in Below)
  BY BelowWF, WFMin
<1>2. PICK x \in S : \A y \in S : ~ (<<y, x>> \in Below)
  BY <1>1
<1>3. \A y \in S : x \in Nat /\ y \in Nat /\ ~ (y < x)
  BY <1>2 DEF Below
<1>4. \A y \in S : x <= y
  BY <1>3
<1> QED BY <1>4

\* A claim gives r an enabled slot for the time asked, or none, and takes nobody's.
LEMMA Claiming ==
    ASSUME TypeOK, NEW r \in Requests \cup Rivals, NEW t \in Nat, t > 0,
           slots' = Slots!Claim(slots, r, t),
           \A i \in Slots!Numbers : slots[i].by # r
    PROVE  /\ \A q \in Requests : q # r => Spares(q)
           /\ \/ ~Slots!Holds(slots', r) /\ \A i \in Slots!Numbers : slots'[i].by # r
              \/ \E i \in Slots!Numbers :
                    slots'[i].by = r /\ slots'[i].left = t /\ slots'[i].enabled
<1> DEFINE known == Slots!Reclaim(slots)
           free == Slots!Claimable(known)
           i == CHOOSE n \in free : \A o \in free : n <= o
<1>0. slots \in [Slots!Numbers -> Slots!Slot] /\ r # Slots!Nobody
  BY SpeechAssumption DEF TypeOK, Slots!Nobody
<1>1. known \in [Slots!Numbers -> Slots!Slot] /\ \A n \in Slots!Numbers : known[n].by # r
  <2>1. known \in [Slots!Numbers -> Slots!Slot]
    BY <1>0, SlotsReclaimed
  <2>2. \A n \in Slots!Numbers : known[n].by # r
    BY <1>0 DEF Slots!Reclaim, Slots!Free
  <2> QED BY <2>1, <2>2
<1>2. ASSUME NEW q \in Requests, NEW n \in Slots!Numbers
      PROVE  /\ slots[n].by = q /\ slots[n].left > 0 => known[n] = slots[n]
             /\ known[n].by = q => slots[n].by = q
  <2>1. q # Slots!Nobody /\ \A b : Slots!Free(b).by = Slots!Nobody
    BY SpeechAssumption DEF Slots!Nobody, Slots!Free
  <2>2. known[n] = IF slots[n].left = 0 THEN Slots!Free(slots[n].enabled) ELSE slots[n]
    BY DEF Slots!Reclaim
  <2> QED BY <2>1, <2>2
<1>3. slots' = IF free = {} THEN known ELSE [known EXCEPT ![i].by = r, ![i].left = t]
  BY DEF Slots!Claim
<1>4. free # {} => i \in Slots!Numbers /\ known[i].enabled /\ known[i].by = Slots!Nobody
  <2>1. free \in SUBSET Nat
    BY DEF Slots!Claimable, Slots!Numbers
  <2>2. free # {} => i \in free
    <3> HIDE DEF free
    <3> QED BY <2>1, Lowest
  <2> QED BY <2>2 DEF Slots!Claimable
<1> HIDE DEF known, free, i
<1>5. CASE free = {}
  <2>1. \A n \in Slots!Numbers : slots'[n].by # r
    BY <1>1, <1>3, <1>5
  <2>2. ~Slots!Holds(slots', r)
    BY <2>1 DEF Slots!Holds
  <2>3. \A q \in Requests : Spares(q)
    BY <1>2, <1>3, <1>5 DEF Spares
  <2> QED BY <2>1, <2>2, <2>3
<1>6. CASE free # {}
  <2>1. slots' = [known EXCEPT ![i].by = r, ![i].left = t]
    BY <1>3, <1>6
  <2>2. /\ slots'[i].by = r /\ slots'[i].left = t /\ slots'[i].enabled = known[i].enabled
        /\ \A n \in Slots!Numbers : n # i => slots'[n] = known[n]
    BY <1>1, <1>4, <1>6, <2>1 DEF Slots!Slot
  <2>3. ASSUME NEW q \in Requests, q # r PROVE Spares(q)
    <3> SUFFICES ASSUME NEW n \in Slots!Numbers
                 PROVE  /\ slots[n].by = q /\ slots[n].left > 0 =>
                             slots'[n].by = q /\ slots'[n].left = slots[n].left
                               /\ slots'[n].enabled = slots[n].enabled
                        /\ slots'[n].by = q => slots[n].by = q
      BY DEF Spares
    <3>1. CASE n # i
      BY <1>2, <2>2, <3>1
    <3>2. CASE n = i
      <4>1. q # Slots!Nobody
        BY SpeechAssumption DEF Slots!Nobody
      <4> QED BY <1>2, <1>4, <1>6, <2>2, <2>3, <3>2, <4>1
    <3> QED BY <3>1, <3>2
  <2> QED BY <1>4, <1>6, <2>2, <2>3
<1> QED BY <1>5, <1>6

\* One request stops working and the others keep what they have.
LEMMA OneLeaves ==
    ASSUME KInv, NEW r \in Requests, UNCHANGED <<row, stage, left>>,
           pc'[r] \in {"closing", "cleanup", "done"},
           \A q \in Requests : q # r => pc'[q] = pc[q] /\ file'[q] = file[q] /\ Spares(q)
    PROVE  \A q \in Requests : Keeping(q)'
<1>1. TypeOK
  BY DEF KInv, IInv
<1>2. Keeping(r)'
  BY <1>1, Leaves DEF KInv
<1>3. ASSUME NEW q \in Requests, q # r PROVE Keeping(q)'
  BY <1>1, <1>3, Others DEF KInv
<1> QED BY <1>2, <1>3

\* The steps that are only that.
LEMMA LeavingKept ==
    ASSUME KInv, NEW r \in Requests,
           Reject(r) \/ WorkFails(r) \/ WaitTimesOut(r) \/ Cancel(r) \/ Cleanup(r)
    PROVE  \A q \in Requests : Keeping(q)'
<1>1. TypeOK /\ pc \in [Requests -> Steps] /\ file \in [Requests -> 0..NoFile]
  BY DEF KInv, IInv, TypeOK
<1>2. UNCHANGED <<row, stage, left>>
  BY DEF Reject, WorkFails, WaitTimesOut, Cancel, Cleanup
<1>3. \E p \in {"closing", "cleanup", "done"} : pc' = [pc EXCEPT ![r] = p]
  BY DEF Reject, WorkFails, WaitTimesOut, Cancel, Cleanup, Finalize, Go
<1>4. \A q \in Requests : q # r => file'[q] = file[q]
  BY <1>1 DEF Reject, WorkFails, WaitTimesOut, Cancel, Cleanup
<1>5. slots' = slots \/ slots' = Slots!Release(slots, r)
  BY DEF Reject, WorkFails, WaitTimesOut, Cancel, Cleanup
<1>6. \A q \in Requests : q # r => Spares(q)
  BY <1>1, <1>5, Sparing
<1>7. pc'[r] \in {"closing", "cleanup", "done"} /\ \A q \in Requests : q # r => pc'[q] = pc[q]
  BY <1>1, <1>3
<1> QED BY <1>2, <1>4, <1>6, <1>7, OneLeaves

\* A release that took longer than its request.
LEMMA ReleaseKept ==
    ASSUME KInv, NEW r \in Requests, LateRelease(r)
    PROVE  \A q \in Requests : Keeping(q)'
<1>1. TypeOK /\ pc[r] = "done" /\ UNCHANGED <<row, stage, left, pc, file>>
        /\ slots' = Slots!Release(slots, r)
  BY DEF KInv, IInv, LateRelease, process
<1>2. \A q \in Requests : q # r => Spares(q)
  BY <1>1, Sparing
<1> QED BY <1>1, <1>2, OneLeaves

\* Work that goes on to its transaction, on time or not.
LEMMA SubmitKept ==
    ASSUME KInv, NEW r \in Requests, NEW to, Submit(r, to), UNCHANGED <<row, stage, left>>,
           \A q \in Requests : q # r => file'[q] = file[q] /\ Spares(q),
           pc[r] \in Working,
           stage[r] \in {"uploading", "scanning", "inspecting", "dispatching"} =>
              file'[r] + left[r] <= Total,
           stage[r] \in {"inspecting", "dispatching"} =>
              \E i \in Slots!Numbers : slots'[i].by = r /\ slots'[i].left >= left[r] /\ slots'[i].enabled,
           (\E i \in Slots!Numbers : slots'[i].by = r) => stage[r] \in {"inspecting", "dispatching"}
    PROVE  \A q \in Requests : Keeping(q)'
<1>1. TypeOK /\ pc \in [Requests -> Steps]
  BY DEF KInv, IInv, TypeOK
<1>2. CASE pc' = [pc EXCEPT ![r] = "cleanup"]
  <2>1. pc'[r] = "cleanup" /\ \A q \in Requests : q # r => pc'[q] = pc[q]
    BY <1>1, <1>2
  <2> QED BY <2>1, OneLeaves
<1>3. CASE pc' = [pc EXCEPT ![r] = "wait"]
  <2>1. pc'[r] = "wait" /\ \A q \in Requests : q # r => pc'[q] = pc[q]
    BY <1>1, <1>3
  <2>2. ASSUME NEW q \in Requests, q # r PROVE Keeping(q)'
    BY <1>1, <2>1, <2>2, Others DEF KInv
  <2>3. Keeping(r)
    BY DEF KInv
  <2>4. /\ left'[r] >= Reserve
        /\ row'[r].state \in Active => row'[r].lease >= left'[r]
    BY <2>3 DEF Keeping
  <2>5. HasAudio(r)' => file'[r] + left'[r] <= Total
    BY DEF HasAudio
  <2>6. HasSlot(r)' => \E i \in Slots!Numbers :
                        slots'[i].by = r /\ slots'[i].left >= left'[r] /\ slots'[i].enabled
    BY DEF HasSlot
  <2>7. (\E i \in Slots!Numbers : slots'[i].by = r) => Claimed(r)'
    BY <2>1 DEF Claimed
  <2>8. Keeping(r)'
    BY <2>1, <2>4, <2>5, <2>6, <2>7 DEF Keeping
  <2> QED BY <2>2, <2>8
<1> QED BY <1>2, <1>3 DEF Submit, Go

\* The phases of the work before a slot is needed; the upload writes the audio.
LEMMA UploadKept ==
    ASSUME KInv, NEW r \in Requests, Upload(r)
    PROVE  \A q \in Requests : Keeping(q)'
<1>1. TypeOK /\ file \in [Requests -> 0..NoFile] /\ Keeping(r)
  BY DEF KInv, IInv, TypeOK
<1>2. /\ pc[r] = "work" /\ stage[r] \in {"admitted", "uploading", "scanning"}
      /\ file' = IF stage[r] = "uploading" THEN [file EXCEPT ![r] = 0] ELSE file
      /\ Submit(r, NextState[stage[r]]) /\ UNCHANGED <<row, stage, left, slots>>
  BY DEF Upload
<1>3. \A q \in Requests : q # r => file'[q] = file[q] /\ Spares(q)
  BY <1>1, <1>2, Sparing
<1>4. left[r] \in Nat /\ left[r] <= Total
  BY <1>1, Values
<1>5. stage[r] = "uploading" => file'[r] + left[r] <= Total
  BY <1>1, <1>2, <1>4
<1>6. stage[r] = "scanning" => file'[r] + left[r] <= Total
  BY <1>1, <1>2 DEF Keeping, HasAudio, Working
<1>7. \A i \in Slots!Numbers : slots'[i].by # r
  BY <1>1, <1>2 DEF Keeping, Claimed
<1>8. pc[r] \in Working
  BY <1>2 DEF Working
<1> DEFINE to == NextState[stage[r]]
<1>9. Submit(r, to)
  BY <1>2
<1> HIDE DEF to
<1>10. stage[r] \in {"uploading", "scanning", "inspecting", "dispatching"} =>
          file'[r] + left[r] <= Total
  BY <1>2, <1>5, <1>6
<1>11. stage[r] \in {"inspecting", "dispatching"} =>
          \E i \in Slots!Numbers : slots'[i].by = r /\ slots'[i].left >= left[r] /\ slots'[i].enabled
  BY <1>2
<1>12. (\E i \in Slots!Numbers : slots'[i].by = r) => stage[r] \in {"inspecting", "dispatching"}
  BY <1>7
<1> QED BY <1>2, <1>3, <1>8, <1>9, <1>10, <1>11, <1>12, SubmitKept

\* A claim that finds a slot goes on, one that finds none tries again.
LEMMA ClaimKept ==
    ASSUME KInv, NEW r \in Requests, ClaimAsrSlot(r)
    PROVE  \A q \in Requests : Keeping(q)'
<1>1. TypeOK /\ Keeping(r) /\ left[r] \in Nat /\ left[r] > 0
  BY Values, Sizes DEF KInv, IInv, ClaimAsrSlot, InTime
<1>2. /\ pc[r] = "work" /\ stage[r] = "inspecting" /\ UNCHANGED <<row, stage, left, file>>
      /\ slots' = Slots!Claim(slots, r, left[r])
      /\ IF Slots!Holds(slots', r) THEN Submit(r, "dispatching") ELSE UNCHANGED <<pc, jobs>>
  BY DEF ClaimAsrSlot
<1>3. \A i \in Slots!Numbers : slots[i].by # r
  BY <1>1, <1>2 DEF Keeping, Claimed
<1>4. /\ \A q \in Requests : q # r => Spares(q)
      /\ \/ ~Slots!Holds(slots', r) /\ \A i \in Slots!Numbers : slots'[i].by # r
         \/ \E i \in Slots!Numbers :
               slots'[i].by = r /\ slots'[i].left = left[r] /\ slots'[i].enabled
  BY <1>1, <1>2, <1>3, Claiming
<1>5. file'[r] + left[r] <= Total
  BY <1>1, <1>2 DEF Keeping, HasAudio, Working
<1>6. CASE \E i \in Slots!Numbers :
              slots'[i].by = r /\ slots'[i].left = left[r] /\ slots'[i].enabled
  <2>1. Slots!Holds(slots', r)
    BY <1>1, <1>6 DEF Slots!Holds
  <2>2. Submit(r, "dispatching")
    BY <1>2, <2>1
  <2>3. \E i \in Slots!Numbers : slots'[i].by = r /\ slots'[i].left >= left[r] /\ slots'[i].enabled
    BY <1>1, <1>6
  <2>4. pc[r] \in Working /\ \A q \in Requests : q # r => file'[q] = file[q] /\ Spares(q)
    BY <1>2, <1>4 DEF Working
  <2> QED BY <1>2, <1>5, <2>2, <2>3, <2>4, SubmitKept
<1>7. CASE ~Slots!Holds(slots', r) /\ \A i \in Slots!Numbers : slots'[i].by # r
  <2>1. UNCHANGED pc
    BY <1>2, <1>7
  <2>2. ASSUME NEW q \in Requests, q # r PROVE Keeping(q)'
    BY <1>1, <1>2, <1>4, <2>1, <2>2, Others DEF KInv
  <2>3. Keeping(r)'
    BY <1>1, <1>2, <1>5, <1>7, <2>1 DEF Keeping, HasSlot
  <2> QED BY <2>2, <2>3
<1> QED BY <1>4, <1>6, <1>7

\* A call changes where a request is, and nothing of what it has.
LEMMA CallKept ==
    ASSUME KInv, NEW r \in Requests, CallProvider(r)
    PROVE  \A q \in Requests : Keeping(q)'
<1>1. TypeOK /\ pc \in [Requests -> Steps] /\ Keeping(r)
  BY DEF KInv, IInv, TypeOK
<1>2. pc[r] = "work" /\ stage[r] = "dispatching" /\ UNCHANGED <<row, slots, file, stage, left>>
  BY DEF CallProvider
<1>3. \A q \in Requests : Spares(q)
  BY <1>1, <1>2, Sparing
<1>4. \E p \in {"calling", "closing", "cleanup"} : pc' = [pc EXCEPT ![r] = p]
  BY DEF CallProvider, Finalize, Go
<1>5. pc'[r] \in {"calling", "closing", "cleanup"} /\ \A q \in Requests : q # r => pc'[q] = pc[q]
  BY <1>1, <1>4
<1>6. CASE pc'[r] = "calling"
  <2>1. ASSUME NEW q \in Requests, q # r PROVE Keeping(q)'
    BY <1>1, <1>2, <1>3, <1>5, <2>1, Others DEF KInv
  <2>2. Keeping(r)'
    BY <1>1, <1>2, <1>6 DEF Keeping, HasAudio, HasSlot, Claimed, Working
  <2> QED BY <2>1, <2>2
<1>7. CASE pc'[r] # "calling"
  BY <1>2, <1>3, <1>5, <1>7, OneLeaves
<1> QED BY <1>6, <1>7

\* An answer in time is recorded while the slot is still held.
LEMMA ReturnKept ==
    ASSUME KInv, NEW r \in Requests, ProviderReturns(r)
    PROVE  \A q \in Requests : Keeping(q)'
<1>1. TypeOK /\ pc \in [Requests -> Steps] /\ Keeping(r)
  BY DEF KInv, IInv, TypeOK
<1>2. pc[r] = "calling" /\ UNCHANGED <<row, slots, file, stage, left>>
  BY DEF ProviderReturns
<1>3. stage[r] = "dispatching"
  BY <1>2 DEF KInv, IInv, WaitInv
<1>4. \A q \in Requests : file'[q] = file[q] /\ Spares(q)
  BY <1>1, <1>2, Sparing
<1>5. CASE Submit(r, "succeeded")
  <2>1. file'[r] + left[r] <= Total
    BY <1>1, <1>2, <1>3 DEF Keeping, HasAudio, Working
  <2>2. \E i \in Slots!Numbers : slots'[i].by = r /\ slots'[i].left >= left[r] /\ slots'[i].enabled
    BY <1>1, <1>2, <1>3 DEF Keeping, HasSlot, Working
  <2>3. pc[r] \in Working
    BY <1>2 DEF Working
  <2> QED BY <1>2, <1>3, <1>4, <1>5, <2>1, <2>2, <2>3, SubmitKept
<1>6. CASE Finalize(r, "failed_terminal", jobs) \/ Finalize(r, "ambiguous", jobs)
  <2>1. \E p \in {"closing", "cleanup"} : pc' = [pc EXCEPT ![r] = p]
    BY <1>6 DEF Finalize, Go
  <2>2. pc'[r] \in {"closing", "cleanup", "done"} /\ \A q \in Requests : q # r => pc'[q] = pc[q]
    BY <1>1, <2>1
  <2> QED BY <1>2, <1>4, <2>2, OneLeaves
<1> QED BY <1>5, <1>6 DEF ProviderReturns

\* A transaction that is refused or raises, or takes its row.
LEMMA RunKept ==
    ASSUME KInv, NEW j \in jobs, RunJob(j) \/ JobFails(j)
    PROVE  \A q \in Requests : Keeping(q)'
<1>1. TypeOK /\ pc \in [Requests -> Steps] /\ j.of \in Requests
  BY DEF KInv, IInv, TypeOK, Job
<1> DEFINE r == j.of
<1>2. UNCHANGED <<row, slots, file, stage, left>>
  BY DEF RunJob, JobFails
<1>3. \A q \in Requests : Spares(q)
  BY <1>1, <1>2, Sparing
<1>4. pc' = pc \/ \E p \in {"closing", "cleanup"} : pc' = [pc EXCEPT ![r] = p]
  BY DEF RunJob, Refused, JobFails, Failed, Finalize, Go
<1> HIDE DEF r
<1>5. CASE pc' = pc
  BY <1>1, <1>2, <1>3, <1>5, Others DEF KInv
<1>6. CASE \E p \in {"closing", "cleanup"} : pc' = [pc EXCEPT ![r] = p]
  <2>1. r \in Requests
    BY <1>1 DEF r
  <2>2. pc'[r] \in {"closing", "cleanup", "done"} /\ \A q \in Requests : q # r => pc'[q] = pc[q]
    BY <1>1, <1>6, <2>1
  <2> QED BY <1>2, <1>3, <2>1, <2>2, OneLeaves
<1> QED BY <1>4, <1>5, <1>6

\* A commit renews the lease of the row, or ends its request.
LEMMA CommitKept ==
    ASSUME KInv, NEW j \in jobs, CommitJob(j)
    PROVE  \A q \in Requests : Keeping(q)'
<1> DEFINE r == j.of
           to == j.to
<1>1. TypeOK /\ r \in Requests /\ to \in Active \cup Terminal /\ row[r] # NoRow
  BY DEF KInv, IInv, TypeOK, WaitInv, Job
<1>2. /\ row' = Written(r, to) /\ UNCHANGED <<slots, file, left>>
      /\ IF ~j.awaited THEN UNCHANGED <<pc, stage>>
         ELSE /\ pc' = [pc EXCEPT ![r] = IF to \in Terminal THEN "cleanup" ELSE "work"]
              /\ stage' = IF to \in Active \cup {"succeeded"}
                            THEN [stage EXCEPT ![r] = to] ELSE stage
  BY DEF CommitJob, Go
<1>3. \/ j.awaited /\ pc[r] = "wait" /\ stage[r] # "succeeded" /\ to = NextState[stage[r]]
      \/ j.awaited /\ pc[r] = "closing" /\ to \in Terminal \ {"succeeded"}
      \/ ~j.awaited
  BY DEF KInv, IInv, WaitInv
<1> HIDE DEF r, to
<1>4. /\ row'[r].state = to /\ row'[r].lease = (IF to \in Active THEN Lease ELSE 0)
      /\ \A q \in Requests : q # r => row'[q] = row[q]
  BY <1>1, <1>2, WrittenRow
<1>5. pc \in [Requests -> Steps] /\ stage \in [Requests -> Active \cup {"succeeded"}]
  BY <1>1 DEF TypeOK
<1>6. \A q \in Requests : q # r => pc'[q] = pc[q] /\ stage'[q] = stage[q]
  <2>1. CASE ~j.awaited
    BY <1>2, <2>1
  <2>2. CASE j.awaited
    BY <1>1, <1>2, <1>5, <2>2
  <2> QED BY <2>1, <2>2
<1>7. \A q \in Requests : Spares(q)
  BY <1>1, <1>2, Sparing
<1>8. ASSUME NEW q \in Requests, q # r PROVE Keeping(q)'
  BY <1>1, <1>2, <1>4, <1>6, <1>7, <1>8, Others DEF KInv
<1>9. Keeping(r) /\ left[r] \in Nat /\ left[r] <= Lease
  BY <1>1, Values, Sizes DEF KInv
<1>10. row'[r].state \in Active => row'[r].lease >= left'[r]
  BY <1>2, <1>4, <1>9, Sizes
<1>11. CASE ~j.awaited
  <2>1. UNCHANGED <<pc, stage, slots, file, left>>
    BY <1>2, <1>11
  <2> QED BY <1>8, <1>9, <1>10, <2>1 DEF Keeping, HasAudio, HasSlot, Claimed
<1>12. CASE j.awaited /\ to \in Terminal
  <2>1. pc'[r] = "cleanup"
    BY <1>1, <1>2, <1>5, <1>12
  <2>2. ~HasAudio(r)' /\ ~HasSlot(r)' /\ Claimed(r)'
    BY <2>1 DEF HasAudio, HasSlot, Claimed, Working
  <2> QED BY <1>8, <1>10, <2>1, <2>2 DEF Keeping, Working
<1>13. CASE j.awaited /\ to \notin Terminal
  <2>1. pc[r] = "wait" /\ to = NextState[stage[r]] /\ to \in Active /\ stage[r] \in Active
    BY <1>1, <1>3, <1>5, <1>13
  <2>2. pc'[r] = "work" /\ stage'[r] = to
    BY <1>1, <1>2, <1>5, <1>13, <2>1
  <2>3. /\ stage[r] = "admitted" => to = "uploading"
        /\ stage[r] = "uploading" => to = "scanning"
        /\ stage[r] = "scanning" => to = "inspecting"
        /\ stage[r] = "inspecting" => to = "dispatching"
        /\ stage[r] \in {"admitted", "uploading", "scanning", "inspecting", "dispatching"}
        /\ stage[r] # "dispatching"
    BY <1>13, <2>1 DEF NextState, Active, Terminal
  <2>4. HasAudio(r)' => HasAudio(r)
    BY <2>1, <2>2, <2>3 DEF HasAudio, Working
  <2>5. HasSlot(r)' => HasSlot(r)
    BY <2>1, <2>2, <2>3 DEF HasSlot, Working
  <2>6. Claimed(r) => Claimed(r)'
    BY <2>1, <2>2, <2>3 DEF Claimed
  <2>7. left'[r] >= Reserve /\ UNCHANGED <<slots, file, left>>
    BY <1>2, <1>9, <2>1 DEF Keeping, Working
  <2>8. /\ HasAudio(r)' => file'[r] + left'[r] <= Total
        /\ HasSlot(r)' => \E i \in Slots!Numbers :
              slots'[i].by = r /\ slots'[i].left >= left'[r] /\ slots'[i].enabled
        /\ (\E i \in Slots!Numbers : slots'[i].by = r) => Claimed(r)'
    BY <1>9, <2>4, <2>5, <2>6, <2>7 DEF Keeping
  <2> QED BY <1>8, <1>10, <2>2, <2>7, <2>8 DEF Keeping
<1> QED BY <1>11, <1>12, <1>13

\* A request enters with all its time.
LEMMA EnterKept ==
    ASSUME KInv, NEW r \in Requests, Enter(r)
    PROVE  \A q \in Requests : Keeping(q)'
<1>1. TypeOK /\ pc \in [Requests -> Steps] /\ left \in [Requests -> 0..Total] /\ Keeping(r)
  BY DEF KInv, IInv, TypeOK
<1>2. /\ pc[r] = "idle" /\ UNCHANGED <<row, slots, file, stage>>
      /\ pc' = [pc EXCEPT ![r] = "identity"] /\ left' = [left EXCEPT ![r] = Total]
  BY DEF Enter, Go
<1>3. \A q \in Requests : q # r => pc'[q] = pc[q] /\ left'[q] = left[q]
  BY <1>1, <1>2
<1>4. \A q \in Requests : Spares(q)
  BY <1>1, <1>2, Sparing
<1>5. ASSUME NEW q \in Requests, q # r PROVE Keeping(q)'
  BY <1>1, <1>2, <1>3, <1>4, <1>5, Others DEF KInv
<1>6. row[r] = NoRow /\ NoRow.state \notin Active
  BY <1>2, States DEF KInv, IInv, RowsInv, NoRow
<1>7. stage[r] = "admitted" /\ \A i \in Slots!Numbers : slots[i].by # r
  BY <1>1, <1>2 DEF Keeping, Claimed
<1>8. pc'[r] = "identity" /\ left'[r] = Total /\ Total >= Reserve
  BY <1>1, <1>2, Sizes
<1>9. ~HasAudio(r)' /\ ~HasSlot(r)'
  BY <1>8 DEF HasAudio, HasSlot, Working
<1>10. Keeping(r)'
  BY <1>2, <1>6, <1>7, <1>8, <1>9 DEF Keeping
<1> QED BY <1>5, <1>10

\* An admission writes a row whose lease is as long as any request.
LEMMA AdmitKept ==
    ASSUME KInv, NEW r \in Requests, Admit(r)
    PROVE  \A q \in Requests : Keeping(q)'
<1>1. /\ TypeOK /\ pc \in [Requests -> Steps] /\ row \in [Requests -> Row \cup {NoRow}]
      /\ Keeping(r) /\ left[r] \in Nat /\ left[r] <= Lease
  BY Values, Sizes DEF KInv, IInv, TypeOK
<1>2. pc[r] = "identity" /\ UNCHANGED <<slots, file, stage, left>>
  BY DEF Admit
<1>3. \E p \in {"work", "done"} : pc' = [pc EXCEPT ![r] = p]
  BY DEF Admit, Go
<1>4. \/ row' = row
      \/ row' = [row EXCEPT ![r] = [state |-> "admitted", gen |-> 1, lease |-> Lease,
                     sent |-> FALSE, bound |-> FALSE, version |-> keyring.active]]
  BY DEF Admit
<1>5. pc'[r] \in {"work", "done"} /\ \A q \in Requests : q # r => pc'[q] = pc[q]
  BY <1>1, <1>3
<1>6. /\ \A q \in Requests : q # r => row'[q] = row[q]
      /\ row'[r] = row[r] \/ row'[r].lease = Lease
  BY <1>1, <1>4
<1>7. \A q \in Requests : Spares(q)
  BY <1>1, <1>2, Sparing
<1>8. ASSUME NEW q \in Requests, q # r PROVE Keeping(q)'
  BY <1>1, <1>2, <1>5, <1>6, <1>7, <1>8, Others DEF KInv
<1>9. row'[r].state \in Active => row'[r].lease >= left'[r]
  BY <1>1, <1>2, <1>6, Sizes DEF Keeping
<1>10. /\ stage'[r] = "admitted" /\ left'[r] >= Reserve
       /\ \A i \in Slots!Numbers : slots'[i].by # r
  BY <1>1, <1>2 DEF Keeping, Claimed
<1>11. ~HasAudio(r)' /\ ~HasSlot(r)'
  BY <1>5, <1>10 DEF HasAudio, HasSlot
<1>12. Keeping(r)'
  BY <1>5, <1>9, <1>10, <1>11 DEF Keeping
<1> QED BY <1>8, <1>12

\* Time passes for a request and for what it has at the same pace.
LEMMA TickKept ==
    ASSUME KInv, NEW r \in Requests, Tick
    PROVE  Keeping(r)'
<1>1. /\ TypeOK /\ Keeping(r) /\ left[r] \in Nat /\ row[r].lease \in Nat /\ file[r] \in Nat
      /\ \A i \in Slots!Numbers : slots[i] \in Slots!Slot /\ slots[i].left \in Nat
  BY Values DEF KInv, IInv
<1>2. /\ left'[r] = (IF left[r] = 0 THEN 0 ELSE left[r] - 1)
      /\ row'[r].state = row[r].state
      /\ row'[r].lease = (IF row[r].lease = 0 THEN 0 ELSE row[r].lease - 1)
      /\ file'[r] = (IF file[r] >= StaleAfter THEN file[r] ELSE file[r] + 1)
      /\ UNCHANGED <<pc, stage>>
  <2>1. row[r] \in Row \/ row[r] = NoRow
    BY <1>1 DEF TypeOK
  <2>2. row'[r] = [row[r] EXCEPT !.lease = Less(row[r].lease)]
    BY DEF Tick
  <2>3. row'[r].state = row[r].state /\ row'[r].lease = Less(row[r].lease)
    BY <2>1, <2>2 DEF Row, NoRow
  <2> QED BY <2>3 DEF Tick, Less
<1>3. ASSUME NEW i \in Slots!Numbers
      PROVE  /\ slots'[i].by = slots[i].by /\ slots'[i].enabled = slots[i].enabled
             /\ slots'[i].left = (IF slots[i].left = 0 THEN 0 ELSE slots[i].left - 1)
  BY <1>1 DEF Tick, Slots!Age, Slots!Slot
<1>4. pc[r] \in Working \cup {"identity"} => left[r] > Reserve
  BY DEF Tick, OnTime, InTime, Working
<1>5. pc'[r] \in Working \cup {"identity"} => left'[r] >= Reserve
  BY <1>1, <1>2, <1>4, Sizes
<1>6. row'[r].state \in Active => row'[r].lease >= left'[r]
  BY <1>1, <1>2 DEF Keeping
<1>7. HasAudio(r)' => file'[r] + left'[r] <= Total
  <2> SUFFICES ASSUME HasAudio(r)' PROVE file'[r] + left'[r] <= Total
    OBVIOUS
  <2>1. HasAudio(r) /\ left[r] > Reserve
    BY <1>2, <1>4 DEF HasAudio
  <2>2. file[r] + left[r] <= Total
    BY <1>1, <2>1 DEF Keeping
  <2> QED BY <1>1, <1>2, <2>1, <2>2, Sizes
<1>8. HasSlot(r)' => \E i \in Slots!Numbers :
                        slots'[i].by = r /\ slots'[i].left >= left'[r] /\ slots'[i].enabled
  <2> SUFFICES ASSUME HasSlot(r)
               PROVE  \E i \in Slots!Numbers :
                        slots'[i].by = r /\ slots'[i].left >= left'[r] /\ slots'[i].enabled
    BY <1>2 DEF HasSlot
  <2>1. PICK i \in Slots!Numbers : slots[i].by = r /\ slots[i].left >= left[r] /\ slots[i].enabled
    BY <1>1 DEF Keeping
  <2>2. slots'[i].left >= left'[r]
    BY <1>1, <1>2, <1>3, <2>1
  <2> QED BY <1>3, <2>1, <2>2
<1>9. (\E i \in Slots!Numbers : slots'[i].by = r) => Claimed(r)'
  BY <1>1, <1>2, <1>3 DEF Keeping, Claimed
<1> QED BY <1>1, <1>2, <1>5, <1>6, <1>7, <1>8, <1>9 DEF Keeping

\* What the sweeper writes ends a row, and what it removes is nobody's audio.
LEMMA SweptKept ==
    ASSUME KInv, NEW r \in Requests, SweepEffect
    PROVE  /\ row'[r] = row[r] \/ row'[r].state \notin Active
           /\ HasAudio(r) => file'[r] = file[r]
<1>1. ~Expired(r) => row'[r] = row[r]
  BY DEF SweepEffect
<1>2. HasAudio(r) => file'[r] = file[r]
  <2> SUFFICES ASSUME HasAudio(r) PROVE file'[r] = file[r]
    OBVIOUS
  <2>1. file[r] \in Nat /\ left[r] \in Nat /\ file[r] + left[r] <= Total
    BY Values DEF KInv, IInv, Keeping
  <2>2. file[r] # StaleAfter
    BY <2>1, Sizes
  <2> QED BY <2>2 DEF SweepEffect
<1>3. row'[r] = row[r] \/ row'[r].state \notin Active
  <2>1. CASE Expired(r)
    <3>1. TypeOK /\ row[r] # NoRow
      BY <2>1, RowShape, States DEF KInv, IInv, Expired
    <3>2. Recovered(r) \in Active \cup Terminal /\ Recovered(r) \notin Active
      BY DEF Recovered, Terminal, Active, NextState
    <3>3. row'[r] = Written(r, Recovered(r))[r]
      BY <2>1 DEF SweepEffect
    <3> QED BY <3>1, <3>2, <3>3, WrittenRow
  <2>2. CASE ~Expired(r)
    BY <1>1, <2>2
  <2> QED BY <2>1, <2>2
<1> QED BY <1>2, <1>3

\* The sweeper, the end of the process and its restart.
LEMMA LifeKept ==
    ASSUME KInv, NEW r \in Requests, Sweep \/ StartClosing \/ Exit \/ Restart
    PROVE  Keeping(r)'
<1>1. TypeOK /\ Keeping(r) /\ r # Slots!Nobody
  BY SpeechAssumption DEF KInv, IInv, Slots!Nobody
<1>2. CASE Sweep
  <2>1. slots' = Slots!Reclaim(slots) /\ SweepEffect /\ UNCHANGED <<pc, stage, left>>
    BY <1>2 DEF Sweep, process
  <2> QED BY <1>1, <2>1, Sparing, SweptKept, Others
<1>3. CASE StartClosing
  <2>1. UNCHANGED <<row, slots, file, pc, stage, left>>
    BY <1>3 DEF StartClosing, process
  <2> QED BY <1>1, <2>1, Sparing, Others
<1>4. CASE Exit
  <2>1. /\ UNCHANGED <<row, slots, file, stage, left>>
        /\ pc'[r] = IF pc[r] = "idle" THEN "idle" ELSE "done"
    BY <1>4 DEF Exit
  <2>2. CASE pc[r] = "idle"
    BY <1>1, <2>1, <2>2, Sparing, Others
  <2>3. CASE pc[r] # "idle"
    BY <1>1, <2>1, <2>3, Leaves
  <2> QED BY <2>2, <2>3
<1>5. CASE Restart
  <2>1. /\ pc[r] \in {"idle", "done"} /\ SweepEffect /\ UNCHANGED <<pc, stage, left>>
        /\ \E count \in 1..MaxSlots : slots' = Slots!Reclaim(Slots!Reconcile(slots, count))
    BY <1>5 DEF Restart, process, KInv, IInv, RowsInv
  <2>2. PICK count \in 1..MaxSlots : slots' = Slots!Reclaim(Slots!Reconcile(slots, count))
    BY <2>1
  <2>3. ASSUME NEW i \in Slots!Numbers, slots'[i].by = r
        PROVE  slots[i].by = r
    <3> DEFINE known == Slots!Reconcile(slots, count)
    <3>1. slots[i] \in Slots!Slot
      BY <1>1, Values
    <3>2. known[i].by = slots[i].by
      BY <3>1 DEF Slots!Reconcile, Slots!Slot
    <3> HIDE DEF known
    <3>3. slots'[i] = IF known[i].left = 0 THEN Slots!Free(known[i].enabled) ELSE known[i]
      BY <2>2 DEF Slots!Reclaim, known
    <3> QED BY <1>1, <2>3, <3>2, <3>3 DEF Slots!Free
  <2>4. row'[r] = row[r] \/ row'[r].state \notin Active
    BY <2>1, SweptKept
  <2>5. ~HasAudio(r)' /\ ~HasSlot(r)'
    BY <2>1 DEF HasAudio, HasSlot, Working
  <2>6. (\E i \in Slots!Numbers : slots'[i].by = r) => Claimed(r)'
    BY <1>1, <2>1, <2>3 DEF Keeping, Claimed
  <2> QED BY <1>1, <2>1, <2>4, <2>5, <2>6 DEF Keeping, Working
<1> QED BY <1>2, <1>3, <1>4, <1>5

\* A rival takes nobody's slot and gives back none but its own.
LEMMA RivalKept ==
    ASSUME KInv, NEW w \in Rivals, RivalClaims(w) \/ RivalReleases(w)
    PROVE  \A q \in Requests : Keeping(q)'
<1>1. TypeOK /\ UNCHANGED <<row, file, pc, stage, left>> /\ \A q \in Requests : q # w
  BY SpeechAssumption DEF KInv, IInv, RivalClaims, RivalReleases, process
<1>2. \A q \in Requests : Spares(q)
  <2>1. CASE RivalReleases(w)
    BY <1>1, <2>1, Sparing DEF RivalReleases
  <2>2. CASE RivalClaims(w)
    <3>1. PICK t \in (Reserve + 1)..Total : slots' = Slots!Claim(slots, w, t)
      BY <2>2 DEF RivalClaims
    <3>2. t \in Nat /\ t > 0 /\ \A i \in Slots!Numbers : slots[i].by # w
      BY <2>2, Sizes DEF RivalClaims
    <3> QED BY <1>1, <3>1, <3>2, Claiming
  <2> QED BY <2>1, <2>2
<1> QED BY <1>1, <1>2, Others DEF KInv

\* At the start no request has anything.
LEMMA KStarts == Init => KInv
<1> SUFFICES ASSUME Init PROVE KInv
  OBVIOUS
<1>1. ASSUME NEW r \in Requests PROVE Keeping(r)
  <2>1. pc[r] = "idle" /\ row[r].state \notin Active /\ stage[r] = "admitted"
    BY States DEF Init, NoRow
  <2>2. \A i \in Slots!Numbers : slots[i].by # r
    BY SpeechAssumption DEF Init, Slots!Free, Slots!Nobody
  <2> QED BY <2>1, <2>2 DEF Keeping, HasAudio, HasSlot, Working
<1> QED BY <1>1, Starts DEF KInv

\* Every step keeps what the requests in work have.
LEMMA KKeeps == KInv /\ [Next]_vars => KInv'
<1> SUFFICES ASSUME KInv, [Next]_vars
             PROVE  KInv'
  OBVIOUS
<1>1. IInv'
  BY Keeps DEF KInv
<1>2. ASSUME NEW r \in Requests, RequestStep(r)
      PROVE  \A q \in Requests : Keeping(q)'
  <2>1. CASE Enter(r) \/ Admit(r) \/ Upload(r) \/ ClaimAsrSlot(r)
    BY <2>1, EnterKept, AdmitKept, UploadKept, ClaimKept
  <2>2. CASE CallProvider(r) \/ ProviderReturns(r) \/ LateRelease(r)
    BY <2>2, CallKept, ReturnKept, ReleaseKept
  <2>3. CASE Reject(r) \/ WorkFails(r) \/ WaitTimesOut(r) \/ Cancel(r) \/ Cleanup(r)
    BY <2>3, LeavingKept
  <2> QED BY <1>2, <2>1, <2>2, <2>3 DEF RequestStep, Proceed
<1>3. ASSUME NEW j \in jobs, RunJob(j) \/ CommitJob(j) \/ JobFails(j)
      PROVE  \A q \in Requests : Keeping(q)'
  BY <1>3, RunKept, CommitKept
<1>4. ASSUME Tick \/ Sweep \/ StartClosing \/ Exit \/ Restart
      PROVE  \A q \in Requests : Keeping(q)'
  BY <1>4, TickKept, LifeKept
<1>5. ASSUME UNCHANGED vars
      PROVE  \A q \in Requests : Keeping(q)'
  <2>1. TypeOK /\ UNCHANGED <<row, slots, file, pc, stage, left>>
    BY <1>5 DEF vars, process, KInv, IInv
  <2> QED BY <2>1, Sparing, Others DEF KInv
<1>6. ASSUME NEW w \in Rivals, RivalClaims(w) \/ RivalReleases(w)
      PROVE  \A q \in Requests : Keeping(q)'
  BY <1>6, RivalKept
<1>7. \A q \in Requests : Keeping(q)'
  BY <1>2, <1>3, <1>4, <1>5, <1>6 DEF Next
<1> QED BY <1>1, <1>7 DEF KInv

\* Every call has an enabled slot of its own, which is no rival's.
LEMMA OneSlotEach ==
    ASSUME KInv
    PROVE  CallsHaveSlots
<1> DEFINE Open == {i \in Slots!Numbers : slots[i].enabled}
           Mine(w) == CHOOSE i \in Slots!Numbers :
                         slots[i].by = w /\ slots[i].left > 0 /\ slots[i].enabled
           f == [w \in AtWork |-> Mine(w)]
<1>1. ASSUME NEW r \in Requests, pc[r] = "calling"
      PROVE  \E i \in Slots!Numbers :
                slots[i].by = r /\ slots[i].left > 0 /\ slots[i].enabled
  <2>1. stage[r] = "dispatching" /\ Keeping(r)
    BY <1>1 DEF KInv, IInv, WaitInv
  <2>2. HasSlot(r) /\ left[r] >= Reserve
    BY <1>1, <2>1 DEF HasSlot, Working, Keeping
  <2>3. PICK i \in Slots!Numbers :
           slots[i].by = r /\ slots[i].left >= left[r] /\ slots[i].enabled
    BY <2>1, <2>2 DEF Keeping
  <2>4. left[r] \in Nat /\ slots[i].left \in Nat
    BY Values DEF KInv, IInv
  <2> QED BY <2>2, <2>3, <2>4, Sizes
<1>2. \A r \in Requests : pc[r] = "calling" => Slots!Holds(slots, r)
  BY <1>1 DEF Slots!Holds
<1>3. ASSUME NEW w \in AtWork
      PROVE  Mine(w) \in Slots!Numbers /\ slots[Mine(w)].by = w /\ slots[Mine(w)].enabled
  <2>1. \E i \in Slots!Numbers :
           slots[i].by = w /\ slots[i].left > 0 /\ slots[i].enabled
    BY <1>1 DEF AtWork
  <2> QED BY <2>1
<1> HIDE DEF Mine
<1>4. IsFiniteSet(AtWork) /\ IsFiniteSet(Open)
  <2>1. IsFiniteSet(Requests \cup Rivals) /\ AtWork \in SUBSET (Requests \cup Rivals)
    BY SpeechAssumption, FS_Union DEF AtWork
  <2>2. IsFiniteSet(Slots!Numbers) /\ Open \in SUBSET Slots!Numbers
    BY SpeechAssumption, FS_Interval DEF Slots!Numbers
  <2> HIDE DEF Open
  <2> QED BY <2>1, <2>2, FS_Subset
<1>5. f \in [AtWork -> Open]
  BY <1>3
<1>6. \A v, w \in AtWork : f[v] = f[w] => v = w
  BY <1>3
<1> HIDE DEF Open, f
<1>7. Cardinality(AtWork) \in Nat /\ Cardinality(Open) \in Nat
  BY <1>4, FS_CardinalityType
<1>8. ~(Cardinality(Open) < Cardinality(AtWork))
  BY <1>4, <1>5, <1>6, FS_PigeonHole
<1>9. Cardinality(AtWork) <= Cardinality(Open)
  BY <1>7, <1>8
<1> QED BY <1>2, <1>9 DEF CallsHaveSlots, Open

\* The row of a request in work has a lease, and its audio is too young to be removed.
LEMMA ServedKept ==
    ASSUME KInv
    PROVE  ServedIsKept
<1> SUFFICES ASSUME NEW r \in Requests
             PROVE  /\ pc[r] \in {"work", "wait", "calling"} => ~Expired(r)
                    /\ pc[r] \in {"wait", "calling"}
                         /\ stage[r] \in {"scanning", "inspecting", "dispatching"}
                         => file[r] # NoFile
  BY DEF ServedIsKept
<1>1. Keeping(r) /\ left[r] \in Nat /\ file[r] \in Nat /\ row[r].lease \in Nat
  BY Values DEF KInv, IInv
<1>2. pc[r] \in {"work", "wait", "calling"} => ~Expired(r)
  BY <1>1, Sizes DEF Expired, Keeping, Working
<1>3. ASSUME pc[r] \in {"wait", "calling"}, stage[r] \in {"scanning", "inspecting", "dispatching"}
      PROVE  file[r] # NoFile
  <2>1. file[r] + left[r] <= Total
    BY <1>1, <1>3 DEF Keeping, HasAudio, Working
  <2> QED BY <1>1, <2>1, Sizes
<1> QED BY <1>2, <1>3

\* What the requests in work have lasts, in every run.
THEOREM KInductive == Spec => []KInv
BY KStarts, KKeeps, PTL DEF Spec

\* WorkKeepsItsResources, for any number of requests and slots and any times the
\* assumption allows: a request that calls the provider holds an enabled slot of its own,
\* and the sweeper takes neither the row nor the audio of a request in work.
THEOREM WorkKept == Spec => []WorkKeepsItsResources
<1>1. KInv => WorkKeepsItsResources
  BY OneSlotEach, ServedKept DEF WorkKeepsItsResources
<1> QED BY KInductive, <1>1, PTL
-----------------------------------------------------------------------------
(* The composer *)

(*************************************************************************)
(* The safety of SpeechComposer, the page that makes these requests, for   *)
(* any sessions, any number of operations and any amount of editing: a    *)
(* current operation is the one the reducer speaks of, with the fence of   *)
(* what is on the page (CurrentInv); FenceInv and OrderInv say in which    *)
(* order the promises of the browser and of the server are made.           *)
(*************************************************************************)
\* The current operation is the one the user looks at.
CurrentInv ==
    activeFence # NoOp =>
        /\ mounted /\ status \in Busy /\ of = activeFence /\ recorderBusy
        /\ fence[activeFence] = [session |-> session, revision |-> revision]

\* A fence is of its session and of a revision that names one text.
FenceInv ==
    \A g \in Ops :
        /\ fence[g].revision <= revision
        /\ g <= generation /\ fence[g].revision = revision => asked[g].text = text
        /\ asked[g].session = fence[g].session

\* One thing after the other: the prompt, the recording, the request.
OrderInv ==
    \A g \in Ops :
        /\ g > generation => tracks[g] = "none" /\ record[g] = "none" /\ request[g] = "none"
        /\ tracks[g] = "asked" => record[g] = "none"
        /\ request[g] # "none" => /\ tracks[g] \notin {"asked", "live"}
                                  /\ record[g] \in {"none", "stopped"}

ComposerInv ==
        /\ ComposerTypeOK /\ CurrentInv /\ FenceInv /\ OrderInv
        /\ MicrophoneIsOwned /\ RequestIsWanted /\ ClipIsNeeded /\ SpokenOrSubmitted
-----------------------------------------------------------------------------
TracksStates == {"none", "asked", "live", "stopped"}
RecordStates == {"none", "recording", "inactive", "stopped"}
RequestStates == {"none", "pending", "aborted", "done"}

\* Nothing is left of an operation that is cancelled.
Quiet ==
    /\ activeFence' = NoOp /\ startPending' = FALSE /\ retainedFile' = NoOp
    /\ recorder' = NoOp /\ stream' = NoOp /\ aborter' = NoOp /\ generation' = generation
    /\ tracks' \in [Ops -> TracksStates] /\ record' \in [Ops -> RecordStates]
    /\ request' \in [Ops -> RequestStates]
    /\ \A g \in Ops :
          /\ tracks'[g] = IF tracks[g] = "live" THEN "stopped" ELSE tracks[g]
          /\ record'[g] # record[g] => record[g] = "recording" /\ record'[g] = "inactive"
          /\ request'[g] = IF request[g] = "pending" THEN "aborted" ELSE request[g]

\* A cancellation ends the operation and frees what it held.
LEMMA CancelIsQuiet ==
    ASSUME ComposerInv, CancelActive
    PROVE  Quiet
<1>0. \A g \in Ops : g # NoOp
  BY ComposerAssumption DEF ComposerInv, Ops, NoOp
<1>1. /\ tracks \in [Ops -> TracksStates] /\ "stopped" \in TracksStates
      /\ record \in [Ops -> RecordStates] /\ "inactive" \in RecordStates
      /\ request \in [Ops -> RequestStates] /\ "aborted" \in RequestStates
  BY DEF ComposerInv, ComposerTypeOK, TracksStates, RecordStates, RequestStates
<1>2. /\ tracks' = Without(stream, tracks, "live", "stopped")
      /\ record' = Without(recorder, record, "recording", "inactive")
      /\ request' = Without(aborter, request, "pending", "aborted")
  BY DEF CancelActive, StopTracks
<1>3. /\ Without(stream, tracks, "live", "stopped") \in [Ops -> TracksStates]
      /\ \A g \in Ops : Without(stream, tracks, "live", "stopped")[g] =
                          IF g = stream /\ tracks[g] = "live" THEN "stopped" ELSE tracks[g]
  BY <1>0, <1>1 DEF Without
<1>4. /\ Without(recorder, record, "recording", "inactive") \in [Ops -> RecordStates]
      /\ \A g \in Ops : Without(recorder, record, "recording", "inactive")[g] =
                          IF g = recorder /\ record[g] = "recording" THEN "inactive" ELSE record[g]
  BY <1>0, <1>1 DEF Without
<1>5. /\ Without(aborter, request, "pending", "aborted") \in [Ops -> RequestStates]
      /\ \A g \in Ops : Without(aborter, request, "pending", "aborted")[g] =
                          IF g = aborter /\ request[g] = "pending" THEN "aborted" ELSE request[g]
  BY <1>0, <1>1 DEF Without
<1> QED BY <1>2, <1>3, <1>4, <1>5 DEF Quiet, CancelActive, StopTracks, ComposerInv, MicrophoneIsOwned, RequestIsWanted

\* A report to the composer: busy is what the status says, once the status changes.
LEMMA Told ==
    ASSUME recorderBusy \in BOOLEAN, NEW told \in BOOLEAN, Report(told)
    PROVE  /\ recorderBusy' \in BOOLEAN
           /\ status' = status => recorderBusy' = told
           /\ status' # status => (recorderBusy' <=> status' \in Busy)
<1>1. CASE status' = status
  BY <1>1 DEF Report
<1>2. CASE status' # status
  <2>1. recorderBusy' = (status' \in Busy)
    BY <1>2 DEF Report
  <2>2. recorderBusy' \in BOOLEAN
    BY <2>1
  <2> QED BY <1>2, <2>1, <2>2
<1> QED BY <1>1, <1>2

\* A new revision ends whatever operation there is.
LEMMA RevisionEnds ==
    ASSUME ComposerInv, RevisionEffect, revision' = revision + 1
    PROVE  /\ activeFence = NoOp => UNCHANGED <<control, browser, recorderBusy>>
           /\ activeFence # NoOp => Quiet /\ DispatchCancelled /\ Report(recorderBusy)
BY CancelIsQuiet DEF ComposerInv, ComposerTypeOK, RevisionEffect, CurrentInv

\* A cancellation keeps the types.
LEMMA QuietTypes ==
    ASSUME ComposerInv, Quiet, of' \in {of, NoOp}, UNCHANGED history
    PROVE  /\ generation' \in 0..MaxOps /\ startPending' \in BOOLEAN
           /\ {of', activeFence', recorder', stream', aborter', retainedFile'} \subseteq 0..generation'
           /\ fence' \in [Ops -> Fences] /\ asked' \in [Ops -> Places]
           /\ tracks' \in [Ops -> {"none", "asked", "live", "stopped"}]
           /\ record' \in [Ops -> {"none", "recording", "inactive", "stopped"}]
           /\ request' \in [Ops -> {"none", "pending", "aborted", "done"}]
<1>1. 0 \in 0..generation
  BY DEF ComposerInv, ComposerTypeOK
<1>2. {of', activeFence', recorder', stream', aborter', retainedFile'} \subseteq 0..generation'
  BY <1>1 DEF ComposerInv, ComposerTypeOK, Quiet, NoOp
<1> QED BY <1>2 DEF ComposerInv, ComposerTypeOK, Quiet, history, TracksStates, RecordStates, RequestStates

\* What the cancelling of an operation leaves satisfies all that is said of one.
LEMMA QuietKeeps ==
    ASSUME ComposerInv, Quiet
    PROVE  /\ CurrentInv' /\ OrderInv' /\ MicrophoneIsOwned' /\ RequestIsWanted'
           /\ ClipIsNeeded' /\ SpokenOrSubmitted'
<1>1. CurrentInv' /\ ClipIsNeeded' /\ SpokenOrSubmitted'
  BY DEF Quiet, CurrentInv, ClipIsNeeded, SpokenOrSubmitted
<1>2. MicrophoneIsOwned' /\ RequestIsWanted'
  BY DEF Quiet, MicrophoneIsOwned, RequestIsWanted
<1>3. OrderInv'
  BY DEF ComposerInv, Quiet, OrderInv
<1> QED BY <1>1, <1>2, <1>3

\* The user edits the text.
LEMMA TextChanges ==
    ASSUME ComposerInv, text' = text + 1, revision' = revision + 1, RevisionEffect,
           UNCHANGED <<session, mounted, history>>, submitting' \in BOOLEAN,
           submitting' => submitting
    PROVE  ComposerInv'
<1>1. FenceInv'
  BY DEF ComposerInv, ComposerTypeOK, FenceInv, history, Fences, Places, RevisionEffect, CancelActive, control
<1>2. CASE activeFence = NoOp
  BY <1>1, <1>2, RevisionEnds DEF ComposerInv, ComposerTypeOK, CurrentInv, OrderInv, MicrophoneIsOwned, RequestIsWanted, ClipIsNeeded, SpokenOrSubmitted, control, browser, history
<1>3. CASE activeFence # NoOp
  <2>1. Quiet /\ DispatchCancelled /\ Report(recorderBusy)
    BY <1>3, RevisionEnds
  <2>2. recorderBusy' \in BOOLEAN
    BY <2>1, Told DEF ComposerInv, ComposerTypeOK
  <2>3. status' \in Statuses /\ of' \in {of, NoOp}
    BY <2>1 DEF ComposerInv, ComposerTypeOK, DispatchCancelled, Statuses
  <2>4. ComposerTypeOK'
    BY <2>1, <2>2, <2>3, QuietTypes DEF ComposerInv, ComposerTypeOK
  <2> QED BY <1>1, <2>1, <2>4, QuietKeeps DEF ComposerInv
<1> QED BY <1>2, <1>3

\* An operation is cancelled.
LEMMA Cancelling ==
    ASSUME ComposerInv, SessionChange \/ Unmount \/ CancelOperation
    PROVE  ComposerInv'
<1>1. Quiet
  BY CancelIsQuiet DEF SessionChange, Unmount, CancelOperation
<1>2. UNCHANGED <<text, revision, submitting, history>>
  BY DEF SessionChange, Unmount, CancelOperation
<1>3. ComposerTypeOK'
  <2>1. session' \in Sessions /\ mounted' \in {mounted, FALSE}
        /\ status' \in Statuses /\ of' \in {of, NoOp}
    BY DEF ComposerInv, ComposerTypeOK, SessionChange, Unmount, CancelOperation, DispatchCancelled, Statuses
  <2>2. recorderBusy' = FALSE \/ Report(recorderBusy)
    BY DEF SessionChange, Unmount, CancelOperation
  <2>3. recorderBusy' \in BOOLEAN
    BY <2>2, Told DEF ComposerInv, ComposerTypeOK
  <2> QED BY <1>1, <1>2, <2>1, <2>3, QuietTypes DEF ComposerInv, ComposerTypeOK
<1>4. FenceInv'
  BY <1>1, <1>2 DEF ComposerInv, FenceInv, Quiet, history
<1> QED BY <1>1, <1>3, <1>4, QuietKeeps DEF ComposerInv

\* With nothing current, nothing is on, on its way or kept by a busy control.
LEMMA Idle ==
    ASSUME ComposerInv, activeFence = NoOp
    PROVE  \A g \in Ops : tracks[g] # "live" /\ request[g] # "pending"
<1>1. \A g \in Ops : g # NoOp
  BY ComposerAssumption DEF ComposerInv, Ops, NoOp
<1> QED BY <1>1 DEF ComposerInv, MicrophoneIsOwned, RequestIsWanted

\* An operation starts.
LEMMA Starting ==
    ASSUME ComposerInv, NEW g \in Ops, Start(g) \/ StartUnsupported(g) \/ Retry(g)
    PROVE  ComposerInv'
<1>1. /\ mounted /\ ~submitting /\ status \notin Busy /\ activeFence = NoOp
      /\ g = generation + 1 /\ generation' = g
      /\ UNCHANGED <<session, text, revision, submitting, mounted, recorder, stream, record>>
  BY DEF ComposerInv, CurrentInv, Start, StartUnsupported, Retry, CanStart, Begin, browser
<1>2. /\ fence' = [fence EXCEPT ![g] = [session |-> session, revision |-> revision]]
      /\ asked' = [asked EXCEPT ![g] = Here]
  BY DEF Start, StartUnsupported, Retry, Begin
<1>3. g \in Nat /\ g # NoOp /\ tracks[g] = "none" /\ record[g] = "none" /\ request[g] = "none"
  BY <1>1, ComposerAssumption DEF ComposerInv, ComposerTypeOK, OrderInv, Ops, NoOp
<1>4. /\ activeFence' \in {g, NoOp} /\ of' = g /\ status' \in Statuses
      /\ status' \in Busy \/ activeFence' = NoOp
      /\ startPending' \in BOOLEAN
      /\ aborter' \in {aborter, g} /\ retainedFile' \in {retainedFile, NoOp}
  BY <1>1 DEF Start, StartUnsupported, Retry, Statuses, Busy
<1>11. /\ recorderBusy' \in BOOLEAN
       /\ status' \in Busy => recorderBusy'
  BY <1>1, Told DEF ComposerInv, ComposerTypeOK, Start, StartUnsupported, Retry
<1>5. /\ tracks' \in {tracks, [tracks EXCEPT ![g] = "asked"]}
      /\ request' \in {request, [request EXCEPT ![g] = "pending"]}
      /\ tracks'[g] = "none" \/ request'[g] = "none"
      /\ request'[g] = "pending" => activeFence' = g /\ aborter' = g
      /\ retainedFile' # NoOp => activeFence' = g
  BY <1>3 DEF ComposerInv, ComposerTypeOK, Start, StartUnsupported, Retry, browser
<1>6. ComposerTypeOK'
  <2>1. generation' \in 0..MaxOps /\ g \in 0..generation'
        /\ {of', activeFence', recorder', stream', aborter', retainedFile'} \subseteq 0..generation'
    BY <1>1, <1>3, <1>4, ComposerAssumption DEF ComposerInv, ComposerTypeOK, Ops, NoOp
  <2>2. fence' \in [Ops -> Fences] /\ asked' \in [Ops -> Places]
    BY <1>2 DEF ComposerInv, ComposerTypeOK, Fences, Places, Here
  <2>3. /\ tracks' \in [Ops -> {"none", "asked", "live", "stopped"}]
        /\ request' \in [Ops -> {"none", "pending", "aborted", "done"}]
    BY <1>5 DEF ComposerInv, ComposerTypeOK
  <2> QED BY <1>1, <1>4, <1>11, <2>1, <2>2, <2>3 DEF ComposerInv, ComposerTypeOK
<1>7. CurrentInv' /\ FenceInv'
  BY <1>1, <1>2, <1>3, <1>4, <1>11 DEF ComposerInv, ComposerTypeOK, CurrentInv, FenceInv, Fences, Places, Here, Ops
<1>8. OrderInv'
  <2>1. ASSUME NEW h \in Ops, h # g PROVE tracks'[h] = tracks[h] /\ request'[h] = request[h]
    BY <1>5, <2>1 DEF ComposerInv, ComposerTypeOK
  <2>2. /\ tracks'[g] \in {"none", "asked"} /\ request'[g] \in {"none", "pending"}
        /\ request'[g] # "none" => tracks'[g] = "none"
    BY <1>3, <1>5 DEF ComposerInv, ComposerTypeOK
  <2>3. ASSUME NEW h \in Ops, h > generation' PROVE h > generation /\ h # g
    BY <1>1, <1>3, <2>3 DEF ComposerInv, ComposerTypeOK, Ops
  <2> QED BY <1>1, <1>3, <2>1, <2>2, <2>3 DEF ComposerInv, OrderInv
<1>9. MicrophoneIsOwned' /\ RequestIsWanted' /\ SpokenOrSubmitted'
  BY <1>1, <1>3, <1>5, Idle DEF ComposerInv, ComposerTypeOK, MicrophoneIsOwned, RequestIsWanted, SpokenOrSubmitted
<1>10. ClipIsNeeded'
  <2>1. retainedFile' # NoOp => retainedFile' = retainedFile /\ retainedFile \in Ops /\ retainedFile # g
    BY <1>1, <1>4, ComposerAssumption DEF ComposerInv, ComposerTypeOK, Ops, NoOp
  <2> QED BY <1>1, <1>2, <1>5, <2>1 DEF ComposerInv, ComposerTypeOK, ClipIsNeeded
<1> QED BY <1>6, <1>7, <1>8, <1>9, <1>10 DEF ComposerInv

\* The text is submitted.
LEMMA Submitting ==
    ASSUME ComposerInv, SubmitForm \/ SubmitFails
    PROVE  ComposerInv'
<1>1. submitting' \in BOOLEAN /\ (submitting' => submitting \/ ~recorderBusy)
  BY DEF SubmitForm, SubmitFails
<1>2. UNCHANGED <<session, text, revision, recorderBusy, mounted, control, history, browser>>
  BY DEF SubmitForm, SubmitFails
<1> QED BY <1>1, <1>2 DEF ComposerInv, ComposerTypeOK, CurrentInv, FenceInv, OrderInv, MicrophoneIsOwned, RequestIsWanted, ClipIsNeeded, SpokenOrSubmitted, control, history, browser

\* What a device or a recorder does by itself, and a permission that comes too late.
LEMMA Devices ==
    ASSUME ComposerInv, NEW g \in Ops, MediaTooLate(g) \/ DeviceLost(g) \/ RecorderStarves(g)
    PROVE  ComposerInv'
<1>1. UNCHANGED <<form, mounted, control, history, request>>
  BY DEF MediaTooLate, DeviceLost, RecorderStarves
<1>2. /\ tracks' = tracks \/ (tracks[g] \in {"asked", "live"} /\ tracks' = [tracks EXCEPT ![g] = "stopped"])
      /\ record' = record \/ (record[g] = "recording" /\ record' = [record EXCEPT ![g] = "inactive"])
  BY DEF MediaTooLate, DeviceLost, RecorderStarves
<1>3. ComposerTypeOK' /\ CurrentInv' /\ FenceInv' /\ ClipIsNeeded' /\ SpokenOrSubmitted' /\ RequestIsWanted'
  BY <1>1, <1>2 DEF ComposerInv, ComposerTypeOK, CurrentInv, FenceInv, ClipIsNeeded, SpokenOrSubmitted, RequestIsWanted, form, control, history
<1>4. OrderInv' /\ MicrophoneIsOwned'
  BY <1>1, <1>2 DEF ComposerInv, ComposerTypeOK, OrderInv, MicrophoneIsOwned, form, control
<1> QED BY <1>3, <1>4 DEF ComposerInv

\* The microphone is granted.
LEMMA Granting ==
    ASSUME ComposerInv, NEW g \in Ops, MediaGranted(g)
    PROVE  ComposerInv'
<1>1. /\ tracks[g] = "asked" /\ mounted /\ activeFence = g /\ g # NoOp /\ g \in 0..generation
      /\ record[g] = "none" /\ request[g] = "none"
  BY ComposerAssumption DEF ComposerInv, ComposerTypeOK, CurrentInv, OrderInv, MediaGranted, IsCurrent, Ops, NoOp
<1>2. /\ UNCHANGED <<session, text, revision, submitting, mounted, generation, activeFence, aborter,
                     retainedFile, history, request, of>>
      /\ tracks' = [tracks EXCEPT ![g] = "live"] /\ record' = [record EXCEPT ![g] = "recording"]
      /\ stream' = g /\ recorder' = g /\ startPending' = FALSE
      /\ status' \in {status, "recording"} /\ Report(recorderBusy)
  BY DEF MediaGranted, Transition
<1>3. recorderBusy' \in BOOLEAN /\ recorderBusy' /\ status' \in Busy
  BY <1>1, <1>2, Told DEF ComposerInv, ComposerTypeOK, CurrentInv, Busy
<1>4. ComposerTypeOK'
  BY <1>1, <1>2, <1>3 DEF ComposerInv, ComposerTypeOK, history, Statuses
<1>5. CurrentInv' /\ FenceInv' /\ ClipIsNeeded' /\ SpokenOrSubmitted'
  BY <1>1, <1>2, <1>3 DEF ComposerInv, CurrentInv, FenceInv, ClipIsNeeded, SpokenOrSubmitted, history
<1>6. OrderInv' /\ MicrophoneIsOwned' /\ RequestIsWanted'
  BY <1>1, <1>2 DEF ComposerInv, ComposerTypeOK, OrderInv, MicrophoneIsOwned, RequestIsWanted
<1> QED BY <1>4, <1>5, <1>6 DEF ComposerInv

\* A failure of the current operation is shown as one.
LEMMA Failing ==
    ASSUME ComposerInv, NEW g \in Ops, activeFence = g, Fail(g)
    PROVE  status' = "failed" /\ of' = g
BY ComposerAssumption DEF ComposerInv, CurrentInv, Fail, Ops, NoOp

\* The microphone is denied.
LEMMA Denying ==
    ASSUME ComposerInv, NEW g \in Ops, MediaFails(g)
    PROVE  ComposerInv'
<1>1. /\ tracks[g] = "asked" /\ mounted /\ activeFence = g /\ g # NoOp /\ g \in 0..generation
      /\ request[g] = "none" /\ fence[g].session = session
  BY ComposerAssumption DEF ComposerInv, ComposerTypeOK, CurrentInv, OrderInv, MediaFails, IsCurrent, Ops, NoOp
<1>2. /\ UNCHANGED <<session, text, revision, submitting, mounted, generation, aborter, retainedFile,
                     history, record, request>>
      /\ recorder' = NoOp /\ stream' = NoOp /\ activeFence' = NoOp /\ startPending' = FALSE
      /\ tracks' = [Without(stream, tracks, "live", "stopped") EXCEPT ![g] = "stopped"]
      /\ status' = "failed" /\ of' = g /\ Report(recorderBusy)
  BY <1>1, Failing DEF MediaFails
<1>3. recorderBusy' \in BOOLEAN
  BY <1>2, Told DEF ComposerInv, ComposerTypeOK
<1>4. /\ tracks' \in [Ops -> TracksStates]
      /\ \A h \in Ops : tracks'[h] = tracks[h] \/ tracks'[h] = "stopped"
      /\ \A h \in Ops : tracks'[h] # "live"
  BY <1>1, <1>2 DEF ComposerInv, ComposerTypeOK, Without, TracksStates, MicrophoneIsOwned
<1>5. ComposerTypeOK'
  <2>1. {of', activeFence', recorder', stream', aborter', retainedFile'} \subseteq 0..generation'
    BY <1>1, <1>2 DEF ComposerInv, ComposerTypeOK, NoOp
  <2> QED BY <1>2, <1>3, <1>4, <2>1 DEF ComposerInv, ComposerTypeOK, history, Statuses, TracksStates
<1>6. CurrentInv' /\ FenceInv' /\ ClipIsNeeded' /\ SpokenOrSubmitted'
  BY <1>1, <1>2 DEF ComposerInv, CurrentInv, FenceInv, ClipIsNeeded, SpokenOrSubmitted, history
<1>7. \A h \in Ops : request[h] # "pending"
  BY <1>1 DEF ComposerInv, RequestIsWanted
<1>8. MicrophoneIsOwned' /\ RequestIsWanted'
  BY <1>2, <1>4, <1>7 DEF MicrophoneIsOwned, RequestIsWanted
<1>9. OrderInv'
  <2>1. \A h \in Ops : h > generation => h # g
    BY <1>1 DEF ComposerInv, ComposerTypeOK, Ops
  <2>2. \A h \in Ops : h # g /\ tracks[h] # "live" => tracks'[h] = tracks[h]
    BY <1>2 DEF ComposerInv, ComposerTypeOK, Without
  <2> QED BY <1>1, <1>2, <1>4, <2>1, <2>2 DEF ComposerInv, OrderInv
<1> QED BY <1>5, <1>6, <1>8, <1>9 DEF ComposerInv

\* The recording stops.
LEMMA Stopping ==
    ASSUME ComposerInv, Stop
    PROVE  ComposerInv'
<1>1. /\ UNCHANGED <<session, text, revision, submitting, mounted, generation, activeFence,
                     startPending, recorder, stream, aborter, retainedFile, history, tracks, request, of>>
      /\ activeFence # NoOp /\ record[recorder] = "recording"
      /\ record' = [record EXCEPT ![recorder] = "inactive"]
      /\ status' \in {status, "stopping"} /\ Report(recorderBusy)
  BY DEF Stop, Transition
<1>2. recorderBusy' \in BOOLEAN /\ recorderBusy' /\ status' \in Busy
  BY <1>1, Told DEF ComposerInv, ComposerTypeOK, CurrentInv, Busy
<1>3. /\ record' \in [Ops -> {"none", "recording", "inactive", "stopped"}]
      /\ \A h \in Ops : record'[h] # record[h] => record[h] = "recording"
  BY <1>1 DEF ComposerInv, ComposerTypeOK
<1>4. ComposerTypeOK' /\ CurrentInv' /\ FenceInv'
  BY <1>1, <1>2, <1>3 DEF ComposerInv, ComposerTypeOK, CurrentInv, FenceInv, history, Statuses
<1>5. OrderInv'
  BY <1>1, <1>3 DEF ComposerInv, OrderInv
<1>6. MicrophoneIsOwned' /\ RequestIsWanted' /\ ClipIsNeeded' /\ SpokenOrSubmitted'
  BY <1>1 DEF ComposerInv, MicrophoneIsOwned, RequestIsWanted, ClipIsNeeded, SpokenOrSubmitted, history
<1> QED BY <1>4, <1>5, <1>6 DEF ComposerInv

\* The recorder ends.
LEMMA Ending ==
    ASSUME ComposerInv, NEW g \in Ops, StopEvent(g)
    PROVE  ComposerInv'
<1>0. \A h \in Ops : h # NoOp
  BY ComposerAssumption DEF ComposerInv, Ops, NoOp
<1>1. /\ UNCHANGED <<session, text, revision, submitting, mounted, generation, startPending, history>>
      /\ record[g] = "inactive" /\ record' = [record EXCEPT ![g] = "stopped"]
      /\ recorder' = NoOp /\ stream' = NoOp
      /\ tracks' = Without(stream, tracks, "live", "stopped") /\ Report(recorderBusy)
  BY DEF StopEvent, StopTracks
<1>2. /\ tracks' \in [Ops -> TracksStates]
      /\ \A h \in Ops : tracks'[h] = IF tracks[h] = "live" THEN "stopped" ELSE tracks[h]
  BY <1>0, <1>1 DEF ComposerInv, ComposerTypeOK, Without, TracksStates, MicrophoneIsOwned
<1>3. /\ record' \in [Ops -> RecordStates] /\ record'[g] = "stopped"
      /\ \A h \in Ops : h # g => record'[h] = record[h]
  BY <1>1 DEF ComposerInv, ComposerTypeOK, RecordStates
<1>4. /\ g \in 0..generation /\ 0 \in 0..generation
      /\ request[g] = "none" /\ tracks[g] # "asked"
  BY <1>1 DEF ComposerInv, ComposerTypeOK, OrderInv, Ops
<1>5. recorderBusy' \in BOOLEAN
  BY <1>1, Told DEF ComposerInv, ComposerTypeOK
<1>6. MicrophoneIsOwned'
  BY <1>2 DEF MicrophoneIsOwned
<1>7. FenceInv'
  BY <1>1 DEF ComposerInv, FenceInv, history
<1>8. CASE IsCurrent(g) /\ Recorded(g)
  <2>1. /\ activeFence = g /\ activeFence' = g /\ retainedFile' = g /\ aborter' = g /\ of' = of
        /\ mounted /\ fence[g].session = session
        /\ status' \in {status, "transcribing"}
        /\ request' = [request EXCEPT ![g] = "pending"]
    BY <1>8 DEF IsCurrent, Recorded, Transition
  <2>2. recorderBusy' /\ status' \in Busy
    BY <1>0, <1>1, <2>1, Told DEF ComposerInv, ComposerTypeOK, CurrentInv, Busy
  <2>3. ComposerTypeOK'
    <3>1. {of', activeFence', recorder', stream', aborter', retainedFile'} \subseteq 0..generation'
      BY <1>1, <1>4, <2>1 DEF ComposerInv, ComposerTypeOK, NoOp
    <3> QED BY <1>1, <1>2, <1>3, <1>5, <2>1, <2>2, <3>1 DEF ComposerInv, ComposerTypeOK, history, Statuses, TracksStates, RecordStates
  <2>4. CurrentInv' /\ ClipIsNeeded' /\ SpokenOrSubmitted'
    BY <1>0, <1>1, <2>1, <2>2 DEF ComposerInv, CurrentInv, ClipIsNeeded, SpokenOrSubmitted, history
  <2>5. RequestIsWanted'
    BY <2>1 DEF ComposerInv, ComposerTypeOK, RequestIsWanted
  <2>6. OrderInv'
    BY <1>1, <1>2, <1>3, <1>4, <2>1 DEF ComposerInv, ComposerTypeOK, OrderInv, Ops
  <2> QED BY <1>6, <1>7, <2>3, <2>4, <2>5, <2>6 DEF ComposerInv
<1>9. CASE ~(IsCurrent(g) /\ Recorded(g))
  <2>1. /\ request' = request /\ aborter' = aborter /\ retainedFile' = retainedFile
        /\ \/ activeFence = g /\ activeFence' = NoOp /\ status' = "failed" /\ of' = g
           \/ UNCHANGED <<status, of, activeFence>>
    BY <1>9, Failing DEF StopEvent, NothingRecorded, IsCurrent
  <2>2. ComposerTypeOK'
    <3>1. {of', activeFence', recorder', stream', aborter', retainedFile'} \subseteq 0..generation'
      BY <1>1, <1>4, <2>1 DEF ComposerInv, ComposerTypeOK, NoOp
    <3> QED BY <1>1, <1>2, <1>3, <1>5, <2>1, <3>1 DEF ComposerInv, ComposerTypeOK, history, Statuses, TracksStates, RecordStates
  <2>3. CurrentInv' /\ ClipIsNeeded' /\ SpokenOrSubmitted'
    BY <1>0, <1>1, <2>1, Told DEF ComposerInv, ComposerTypeOK, CurrentInv, ClipIsNeeded, SpokenOrSubmitted, history
  <2>4. RequestIsWanted'
    BY <1>4, <2>1 DEF ComposerInv, RequestIsWanted
  <2>5. OrderInv'
    BY <1>1, <1>2, <1>3, <2>1 DEF ComposerInv, OrderInv
  <2> QED BY <1>6, <1>7, <2>2, <2>3, <2>4, <2>5 DEF ComposerInv
<1> QED BY <1>8, <1>9

\* The request for the transcript is answered.
LEMMA Answering ==
    ASSUME ComposerInv, NEW g \in Ops, Answer(g)
    PROVE  ComposerInv'
<1>0. \A h \in Ops : h # NoOp
  BY ComposerAssumption DEF ComposerInv, Ops, NoOp
<1>1. /\ UNCHANGED <<session, submitting, mounted, generation, recorder, stream, history, tracks, record>>
      /\ request[g] \in {"pending", "aborted"} /\ request' = [request EXCEPT ![g] = "done"]
      /\ aborter' = IF aborter = g THEN NoOp ELSE aborter
      /\ startPending' \in BOOLEAN
  BY DEF ComposerInv, ComposerTypeOK, Answer, TranscriptArrives, RequestFails, AnswerTooLate, Settle, form, control
<1>2. /\ g \in 0..generation /\ 0 \in 0..generation
      /\ tracks[g] \notin {"asked", "live"} /\ record[g] \in {"none", "stopped"}
  BY <1>1 DEF ComposerInv, ComposerTypeOK, OrderInv, Ops
<1>3. \/ /\ IsCurrent(g) /\ activeFence' = NoOp /\ retainedFile' = NoOp
         /\ text' = text + 1 /\ revision' = revision + 1
         /\ status' \in {status, "succeeded"} /\ of' = of /\ Report(recorderBusy)
      \/ /\ IsCurrent(g) /\ activeFence' = NoOp /\ retainedFile' \in {retainedFile, NoOp}
         /\ UNCHANGED <<text, revision>>
         /\ status' = "failed" /\ of' = g /\ Report(recorderBusy)
      \/ /\ ~IsCurrent(g)
         /\ UNCHANGED <<text, revision, recorderBusy, activeFence, status, of, retainedFile>>
  BY Failing DEF Answer, TranscriptArrives, RequestFails, AnswerTooLate, Transition, form, control, IsCurrent
<1>4. recorderBusy' \in BOOLEAN
  BY <1>3, Told DEF ComposerInv, ComposerTypeOK
<1>5. ComposerTypeOK'
  <2>1. {of', activeFence', recorder', stream', aborter', retainedFile'} \subseteq 0..generation'
    BY <1>1, <1>2, <1>3 DEF ComposerInv, ComposerTypeOK, NoOp
  <2>2. text' \in Nat /\ revision' \in Nat /\ status' \in Statuses
    BY <1>3 DEF ComposerInv, ComposerTypeOK, Statuses
  <2> QED BY <1>1, <1>4, <2>1, <2>2 DEF ComposerInv, ComposerTypeOK, history
<1>6. CurrentInv' /\ ClipIsNeeded' /\ SpokenOrSubmitted'
  BY <1>0, <1>1, <1>3 DEF ComposerInv, CurrentInv, ClipIsNeeded, SpokenOrSubmitted, history, IsCurrent
<1>7. FenceInv'
  <2>1. \A h \in Ops : fence[h].revision \in Nat
    BY DEF ComposerInv, ComposerTypeOK, Fences
  <2> QED BY <1>1, <1>3, <2>1 DEF ComposerInv, ComposerTypeOK, FenceInv, history
<1>8. MicrophoneIsOwned'
  BY <1>0, <1>1, <1>2, <1>3 DEF ComposerInv, MicrophoneIsOwned, IsCurrent
<1>9. RequestIsWanted'
  BY <1>0, <1>1, <1>3 DEF ComposerInv, ComposerTypeOK, RequestIsWanted, IsCurrent
<1>10. OrderInv'
  BY <1>1, <1>2 DEF ComposerInv, ComposerTypeOK, OrderInv, Ops
<1> QED BY <1>5, <1>6, <1>7, <1>8, <1>9, <1>10 DEF ComposerInv
-----------------------------------------------------------------------------
\* The invariant holds at the start.
LEMMA ComposerStarts ==
    ASSUME ComposerInit
    PROVE  ComposerInv
<1>1. /\ {of, activeFence, recorder, stream, aborter, retainedFile} \subseteq 0..generation
      /\ generation \in 0..MaxOps
  BY ComposerAssumption DEF ComposerInit, NoOp
<1>2. fence \in [Ops -> Fences] /\ asked \in [Ops -> Places]
  BY DEF ComposerInit, Fences, Places
<1>3. ComposerTypeOK
  BY <1>1, <1>2 DEF ComposerInit, ComposerTypeOK, Statuses
<1> QED BY <1>3 DEF ComposerInit, ComposerInv, CurrentInv, FenceInv, OrderInv, MicrophoneIsOwned, RequestIsWanted, ClipIsNeeded, SpokenOrSubmitted, Ops

\* Every step keeps the invariant.
LEMMA ComposerKeeps ==
    ASSUME ComposerInv, [ComposerNext]_composerVars
    PROVE  ComposerInv'
<1>1. CASE Edit \/ SubmitSucceeds
  <2>1. /\ text' = text + 1 /\ revision' = revision + 1 /\ RevisionEffect
        /\ UNCHANGED <<session, mounted, history>>
    BY <1>1 DEF Edit, SubmitSucceeds
  <2>2. submitting \in BOOLEAN
    BY DEF ComposerInv, ComposerTypeOK
  <2>3. CASE Edit
    <3>1. submitting' = submitting
      BY <2>3 DEF Edit
    <3> QED BY <2>1, <2>2, <3>1, TextChanges
  <2>4. CASE SubmitSucceeds
    <3>1. submitting' = FALSE
      BY <2>4 DEF SubmitSucceeds
    <3> QED BY <2>1, <3>1, TextChanges
  <2> QED BY <1>1, <2>3, <2>4
<1>2. CASE SubmitForm \/ SubmitFails
  BY <1>2, Submitting
<1>3. CASE SessionChange \/ Unmount \/ CancelOperation
  BY <1>3, Cancelling
<1>4. CASE Stop
  BY <1>4, Stopping
<1>5. ASSUME NEW g \in Ops, Start(g) \/ StartUnsupported(g) \/ Retry(g) PROVE ComposerInv'
  BY <1>5, Starting
<1>6. ASSUME NEW g \in Ops, MediaTooLate(g) \/ DeviceLost(g) \/ RecorderStarves(g) PROVE ComposerInv'
  BY <1>6, Devices
<1>7. ASSUME NEW g \in Ops, MediaGranted(g) PROVE ComposerInv'
  BY <1>7, Granting
<1>8. ASSUME NEW g \in Ops, MediaFails(g) PROVE ComposerInv'
  BY <1>8, Denying
<1>9. ASSUME NEW g \in Ops, StopEvent(g) PROVE ComposerInv'
  BY <1>9, Ending
<1>10. ASSUME NEW g \in Ops, Answer(g) PROVE ComposerInv'
  BY <1>10, Answering
<1>11. CASE UNCHANGED composerVars
  BY <1>11 DEF ComposerInv, ComposerTypeOK, CurrentInv, FenceInv, OrderInv, MicrophoneIsOwned, RequestIsWanted, ClipIsNeeded, SpokenOrSubmitted, composerVars, form, control, history, browser
<1> QED BY <1>1, <1>2, <1>3, <1>4, <1>5, <1>6, <1>7, <1>8, <1>9, <1>10, <1>11 DEF ComposerNext

\* What the reachable states satisfy, whatever is edited, pressed and answered.
THEOREM ComposerInductive == ComposerSpec => []ComposerInv
<1>1. ComposerInit => ComposerInv
  BY ComposerStarts
<1>2. ComposerInv /\ [ComposerNext]_composerVars => ComposerInv'
  BY ComposerKeeps
<1> QED BY <1>1, <1>2, PTL DEF ComposerSpec

\* The state of the form, of the control and of what the browser holds for it is well formed.
THEOREM ComposerTyped == ComposerSpec => []ComposerTypeOK
<1>1. ComposerInv => ComposerTypeOK
  BY DEF ComposerInv
<1> QED BY <1>1, ComposerInductive, PTL

\* A microphone that is on, audio on its way and a clip that is kept belong to the operation
\* that the user sees and can end, through every order of the late answers of the browser
\* and the server (SpeechRecorderControl.tsx).
THEOREM SoundOwned == ComposerSpec => []SoundIsOwned
<1>1. ComposerInv => SoundIsOwned
  BY DEF ComposerInv, SoundIsOwned
<1> QED BY <1>1, ComposerInductive, PTL

\* No submission of ImageEvidenceForm runs while an operation of the voice control is
\* current: one never clears the composer under the other.
THEOREM OneAtATime == ComposerSpec => []SpokenOrSubmitted
<1>1. ComposerInv => SpokenOrSubmitted
  BY DEF ComposerInv
<1> QED BY <1>1, ComposerInductive, PTL

\* The text only changes together with a request of a transcript where that request was
\* started: the answer lands in the text and session it was spoken for, or nowhere.
THEOREM TranscriptLandsAlways == ComposerSpec => TranscriptLands
<1> DEFINE Lands == \A g \in Ops : request[g] # request'[g] /\ text' # text => asked[g] = Here
<1>1. ASSUME ComposerInv, [ComposerNext]_composerVars, NEW g \in Ops, request[g] # request'[g], text' # text
      PROVE  asked[g] = Here
  <2>1. IsCurrent(g) => asked[g] = Here
    BY <1>1 DEF ComposerInv, ComposerTypeOK, CurrentInv, FenceInv, Fences, Places, IsCurrent, Here, Ops
  <2>2. request[g] = "pending" => IsCurrent(g)
    BY <1>1 DEF ComposerInv, CurrentInv, RequestIsWanted, IsCurrent, Ops, NoOp
  <2>3. CASE Edit \/ SubmitSucceeds
    BY <1>1, <2>1, <2>2, <2>3, RevisionEnds DEF Edit, SubmitSucceeds, Quiet, control, browser
  <2>4. CASE SubmitForm \/ SubmitFails \/ SessionChange \/ Unmount \/ CancelOperation \/ Stop
    BY <1>1, <2>4 DEF SubmitForm, SubmitFails, SessionChange, Unmount, CancelOperation, Stop
  <2>5. CASE \E h \in Ops : \/ Start(h) \/ StartUnsupported(h) \/ Retry(h)
                            \/ MediaTooLate(h) \/ MediaGranted(h) \/ MediaFails(h)
                            \/ DeviceLost(h) \/ RecorderStarves(h) \/ StopEvent(h)
    BY <1>1, <2>5 DEF Start, StartUnsupported, Retry, MediaTooLate, MediaGranted, MediaFails,
                      DeviceLost, RecorderStarves, StopEvent, form
  <2>6. ASSUME NEW h \in Ops, Answer(h) PROVE asked[g] = Here
    <3>1. IsCurrent(h) /\ request' = [request EXCEPT ![h] = "done"]
      BY <1>1, <2>6 DEF Answer, TranscriptArrives, RequestFails, AnswerTooLate, Settle, form
    <3>2. h = g
      BY <1>1, <3>1 DEF ComposerInv, ComposerTypeOK
    <3> QED BY <2>1, <3>1, <3>2
  <2>7. CASE UNCHANGED composerVars
    BY <1>1, <2>7 DEF composerVars, form
  <2> QED BY <1>1, <2>3, <2>4, <2>5, <2>6, <2>7 DEF ComposerNext
<1>2. ComposerInv /\ [ComposerNext]_composerVars => [Lands]_composerVars
  BY <1>1
<1>3. ComposerSpec => [][Lands]_composerVars
  BY <1>2, ComposerInductive, PTL DEF ComposerSpec
<1> QED BY <1>3 DEF TranscriptLands
=============================================================================
