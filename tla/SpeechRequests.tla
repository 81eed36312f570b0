--------------------------- MODULE SpeechRequests ---------------------------
(*************************************************************************)
(* Transcription requests: admission by the middleware, the row of each   *)
(* request under its lease and generation, the service that carries it    *)
(* through upload, scan and inspection to one call of the provider, the   *)
(* sweeper, and the shutdown and restart of the process.                 *)
(*                                                                       *)
(* Every change of a row is a transaction in a thread (a job here): the   *)
(* coroutine that waits for it may give up at any moment, and the thread  *)
(* looks once, before its commit, whether it was abandoned.               *)
(*                                                                       *)
(* Time is counted in ticks, down: a request has Total ticks, of which    *)
(* the last Reserve are for its cleanup; a lease lasts Lease ticks.       *)
(*************************************************************************)
EXTENDS Naturals, FiniteSets

CONSTANTS Requests,    \* HTTP requests of one owner and session
          Rivals,      \* requests of other sessions, which need a slot too
          Keys,        \* the idempotency keys its client chooses from
          Versions,    \* versions of the HMAC key
          Keyrings,    \* what the process may be configured with
          Quota,       \* the smaller of the session's and the owner's quota
          MaxSlots,    \* the largest configured number of concurrent calls
          Total, Reserve, Lease, StaleAfter,
          MaxRestarts  \* bound: times the process ends

None == "none"
ASSUME SpeechAssumption ==
    /\ IsFiniteSet(Requests) /\ None \notin Keys
    /\ None \notin Requests /\ "nobody" \notin Requests
    /\ IsFiniteSet(Rivals) /\ Rivals \cap Requests = {} /\ "nobody" \notin Rivals
    /\ Keyrings \subseteq [active : Versions, keys : SUBSET Versions] /\ Keyrings # {}
    /\ \A k \in Keyrings : k.active \in k.keys
    /\ Quota \in Nat /\ MaxSlots \in Nat \ {0} /\ MaxRestarts \in Nat
    /\ Total \in Nat /\ Reserve \in Nat /\ Lease \in Nat /\ StaleAfter \in Nat
    /\ 0 < Reserve /\ Reserve < Total /\ Total <= Lease /\ Total < StaleAfter

VARIABLES
    row,      \* row[r]: the row of speech_transcription_requests, or NoRow
    slots,    \* the rows of the asr slots
    key,      \* key[r]: the idempotency key of r
    file,     \* file[r]: ticks since the audio of r was written, or NoFile
    calls,    \* calls[k]: how often the provider was called for key k
    pc,       \* pc[r]: where the coroutine of r is
    stage,    \* stage[r]: the row's state as far as the service knows
    left,     \* left[r]: ticks to the deadline of r
    jobs,     \* transactions in their threads
    reply,    \* reply[r]: what the client was told
    phase,    \* of the process
    keyring,  \* its HMAC keys
    restarts  \* counter for the bound

client == <<key, reply, calls>>
process == <<pc, stage, left>>
server == <<phase, keyring, restarts>>
vars == <<row, slots, file, jobs, client, process, server>>

Slots == INSTANCE ResourceSlots WITH Work <- Requests \cup Rivals, LeaseTicks <- Total

NextState == [admitted |-> "uploading", uploading |-> "scanning", scanning |-> "inspecting",
              inspecting |-> "dispatching", dispatching |-> "succeeded"]
Active == DOMAIN NextState
Terminal == {"succeeded", "failed_terminal", "cancelled", "ambiguous"}
NoFile == StaleAfter + 1
NoRow == [state |-> None, gen |-> 0, lease |-> 0, sent |-> FALSE, bound |-> FALSE, version |-> None]
Row == [state : Active \cup Terminal, gen : Nat, lease : 0..Lease, sent : BOOLEAN,
        bound : BOOLEAN, version : Versions]
Job == [of : Requests, to : Active \cup Terminal, gen : Nat, held : BOOLEAN,
        awaited : BOOLEAN]
Steps == {"idle", "identity", "work", "wait", "calling", "closing", "cleanup", "done"}
Replies == {None, "error", "quota", "in_progress", "conflict", "unavailable", "transcript"}

Init ==
    /\ row = [r \in Requests |-> NoRow]
    /\ slots = [i \in Slots!Numbers |-> Slots!Free(TRUE)]
    /\ file = [r \in Requests |-> NoFile] /\ calls = [k \in Keys |-> 0]
    /\ pc = [r \in Requests |-> "idle"] /\ stage = [r \in Requests |-> "admitted"]
    /\ key = [r \in Requests |-> None] /\ left = [r \in Requests |-> 0]
    /\ jobs = {} /\ reply = [r \in Requests |-> None]
    /\ phase = "open" /\ keyring \in Keyrings /\ restarts = 0

Go(r, p) == pc' = [pc EXCEPT ![r] = p]
Tell(r, what) == reply' = [reply EXCEPT ![r] = what] /\ UNCHANGED <<key, calls>>
InTime(r) == left[r] > Reserve
New(r, to, gen, awaited) ==
    [of |-> r, to |-> to, gen |-> gen, held |-> FALSE, awaited |-> awaited]
-----------------------------------------------------------------------------
(* Admission, in SpeechAdmissionMiddleware *)

Enter(r) ==
    /\ pc[r] = "idle" /\ phase = "open"
    /\ \E k \in Keys : key' = [key EXCEPT ![r] = k]
    /\ Go(r, "identity") /\ left' = [left EXCEPT ![r] = Total]
    /\ UNCHANGED <<row, slots, file, jobs, reply, calls, stage, server>>

EnteredBefore(r) == {q \in Requests : row[q] # NoRow /\ key[q] = key[r]}
Duplicates(r) == {q \in EnteredBefore(r) : row[q].version \in keyring.keys}

\* The middleware does not know the fingerprint yet: a bound one never equals it.
DuplicateReply(q) ==
    IF row[q].state \in Active THEN "in_progress"
    ELSE IF row[q].bound THEN "conflict" ELSE "unavailable"

\* Between the admission and the registration of the task nothing is awaited; a
\* registry that was closed during the wait for the identity leaves the row behind.
Admit(r) ==
    /\ pc[r] = "identity"
    /\ \/ /\ Duplicates(r) # {}
          /\ \E q \in Duplicates(r) : Tell(r, DuplicateReply(q))
          /\ Go(r, "done") /\ UNCHANGED row
       \/ /\ Duplicates(r) = {} /\ Cardinality({q \in Requests : row[q] # NoRow}) >= Quota
          /\ Tell(r, "quota")
          /\ Go(r, "done") /\ UNCHANGED row
       \/ /\ Duplicates(r) = {} /\ Cardinality({q \in Requests : row[q] # NoRow}) < Quota
          /\ row' = [row EXCEPT ![r] = [state |-> "admitted", gen |-> 1, lease |-> Lease,
                         sent |-> FALSE, bound |-> FALSE, version |-> keyring.active]]
          /\ IF phase = "open" THEN Go(r, "work") /\ UNCHANGED client
                               ELSE Go(r, "done") /\ Tell(r, "error")
    /\ UNCHANGED <<slots, file, jobs, stage, left, server>>

\* What the middleware writes with the token of the admission: without effect once the
\* service has moved the row on.
FromMiddleware(r, to) ==
    IF row[r].gen = 1 /\ left[r] > 0 THEN {New(r, to, 1, FALSE)} ELSE {}

\* The body is not one audio file with a known language hint.
Reject(r) ==
    /\ pc[r] = "work" /\ stage[r] = "admitted"
    /\ Go(r, "done") /\ Tell(r, "error")
    /\ jobs' = jobs \cup FromMiddleware(r, "failed_terminal")
    /\ UNCHANGED <<row, slots, file, stage, left, server>>
-----------------------------------------------------------------------------
(* The service: work in time, then a transaction in a thread *)

\* The generation in the service's token: each of its writes makes one more.
Token(r) == CASE stage[r] = "admitted" -> 1 [] stage[r] = "uploading" -> 2
              [] stage[r] = "scanning" -> 3 [] stage[r] = "inspecting" -> 4
              [] OTHER -> 5

\* A transaction that would start too late is replaced by its fallback at once.
Fallback(to) == IF to = "succeeded" THEN "ambiguous" ELSE "failed_terminal"
Submit(r, to) ==
    IF InTime(r)
      THEN Go(r, "wait") /\ jobs' = jobs \cup {New(r, to, Token(r), TRUE)}
      ELSE Go(r, "cleanup") /\ jobs' = jobs \cup {New(r, Fallback(to), Token(r), FALSE)}

\* A finalize has until the deadline itself, the reserve included.
Finalize(r, to, leftover) ==
    IF left[r] > 0
      THEN Go(r, "closing") /\ jobs' = leftover \cup {New(r, to, Token(r), TRUE)}
      ELSE Go(r, "cleanup") /\ jobs' = leftover

Upload(r) ==
    /\ pc[r] = "work" /\ stage[r] \in {"admitted", "uploading", "scanning"}
    /\ file' = IF stage[r] = "uploading" THEN [file EXCEPT ![r] = 0] ELSE file
    /\ Submit(r, NextState[stage[r]])
    /\ UNCHANGED <<row, slots, client, stage, left, server>>

ClaimForReserve(r) ==                                                 \* mutant
    /\ pc[r] = "work" /\ stage[r] = "inspecting" /\ InTime(r)
    /\ slots' = Slots!Claim(slots, r, Reserve)
    /\ IF Slots!Holds(slots', r)
         THEN Submit(r, "dispatching")
         ELSE UNCHANGED <<pc, jobs>>
    /\ UNCHANGED <<row, file, client, stage, left, server>>

\* The work goes on though no slot was free.
ClaimUnheld(r) ==                                                     \* mutant
    /\ pc[r] = "work" /\ stage[r] = "inspecting" /\ InTime(r)
    /\ slots' = Slots!Claim(slots, r, left[r])
    /\ Submit(r, "dispatching")
    /\ UNCHANGED <<row, file, client, stage, left, server>>

ClaimAsrSlot(r) ==
    /\ pc[r] = "work" /\ stage[r] = "inspecting" /\ InTime(r)
    /\ slots' = Slots!Claim(slots, r, left[r])
    /\ IF Slots!Holds(slots', r)
         THEN Submit(r, "dispatching")
         ELSE UNCHANGED <<pc, jobs>>
    /\ UNCHANGED <<row, file, client, stage, left, server>>

\* The work fails, or its time is over; a partial upload leaves its file.
WorkFails(r) ==
    /\ pc[r] = "work" /\ stage[r] # "dispatching"
    /\ file' \in IF stage[r] = "uploading" THEN {file, [file EXCEPT ![r] = 0]} ELSE {file}
    /\ Finalize(r, "failed_terminal", jobs)
    /\ UNCHANGED <<row, slots, client, stage, left, server>>

CallBeforeCommit(r) ==                                                \* mutant
    /\ \/ pc[r] = "work" /\ stage[r] = "dispatching"
       \/ pc[r] = "wait" /\ stage[r] = "inspecting" /\ calls[key[r]] = 0
    /\ IF InTime(r)
         THEN /\ (IF pc[r] = "work" THEN Go(r, "calling") ELSE UNCHANGED pc) /\ UNCHANGED jobs
              /\ calls' = [calls EXCEPT ![key[r]] = @ + 1]
         ELSE Finalize(r, "ambiguous", jobs) /\ UNCHANGED calls
    /\ UNCHANGED <<row, slots, file, key, reply, stage, left, server>>

CallProvider(r) ==
    /\ pc[r] = "work" /\ stage[r] = "dispatching"
    /\ IF InTime(r)
         THEN /\ Go(r, "calling") /\ UNCHANGED jobs
              /\ calls' = [calls EXCEPT ![key[r]] = @ + 1]
         ELSE Finalize(r, "ambiguous", jobs) /\ UNCHANGED calls
    /\ UNCHANGED <<row, slots, file, key, reply, stage, left, server>>

\* An error the provider answered with is final; what the transport lost is ambiguous,
\* and so is an answer that does not come in time.
ProviderReturns(r) ==
    /\ pc[r] = "calling"
    /\ \/ InTime(r) /\ Submit(r, "succeeded")
       \/ InTime(r) /\ Finalize(r, "failed_terminal", jobs)
       \/ Finalize(r, "ambiguous", jobs)
    /\ UNCHANGED <<row, slots, file, client, stage, left, server>>
-----------------------------------------------------------------------------
(* A transaction in its thread, and the coroutine that waits for it *)

Legal(j) ==
    /\ row[j.of].gen = j.gen /\ row[j.of].state \in Active
    /\ j.to \in Active \cup {"succeeded"} => NextState[row[j.of].state] = j.to
    /\ j.to = "cancelled" => ~row[j.of].sent
    /\ j.to = "ambiguous" => row[j.of].sent

\* The coroutine learns that its transaction found another generation.
Refused(j) ==
    IF ~j.awaited THEN UNCHANGED pc /\ jobs' = jobs \ {j}
    ELSE IF pc[j.of] = "closing" \/ j.to = "succeeded"
      THEN Go(j.of, "cleanup") /\ jobs' = jobs \ {j}
      ELSE Finalize(j.of, "failed_terminal", jobs \ {j})

\* It reads the row for update, then looks whether it was abandoned: the row stays locked
\* from here to the commit.
RunJob(j) ==
    /\ j \in jobs /\ ~j.held /\ \A o \in jobs : o.held => o.of # j.of
    /\ \/ ~Legal(j) /\ Refused(j)
       \/ /\ Legal(j) /\ UNCHANGED pc
          /\ jobs' = (jobs \ {j}) \cup {[j EXCEPT !.held = TRUE]}
    /\ UNCHANGED <<row, slots, file, client, stage, left, server>>

Written(r, to) ==
    [row EXCEPT ![r].state = to, ![r].gen = @ + 1,
                ![r].lease = IF to \in Active THEN Lease ELSE 0,
                ![r].bound = @ \/ to = "scanning",
                ![r].sent = @ \/ to = "dispatching"]

CommitJob(j) ==
    /\ j \in jobs /\ j.held
    /\ row' = Written(j.of, j.to)
    /\ jobs' = jobs \ {j}
    /\ IF ~j.awaited THEN UNCHANGED <<pc, stage>>
       ELSE /\ Go(j.of, IF j.to \in Terminal THEN "cleanup" ELSE "work")
            /\ stage' = IF j.to \in Active \cup {"succeeded"}
                          THEN [stage EXCEPT ![j.of] = j.to] ELSE stage
    /\ UNCHANGED <<slots, file, client, left, server>>

\* What the coroutine does about an error of the database; nobody hears of the others.
Failed(j) ==
    IF ~j.awaited THEN UNCHANGED pc /\ jobs' = jobs \ {j}
    ELSE IF pc[j.of] = "closing" THEN Go(j.of, "cleanup") /\ jobs' = jobs \ {j}
      ELSE Finalize(j.of, Fallback(j.to), jobs \ {j})

\* The transaction raises before it has written anything, its commit included.
JobFails(j) ==
    /\ j \in jobs /\ Failed(j)
    /\ UNCHANGED <<row, slots, file, client, stage, left, server>>

\* The coroutine of r no longer waits: a thread that finds out rolls back, one that looked
\* already commits all the same.
Awaited(r) == {j \in jobs : j.of = r /\ j.awaited}
GivenUp(r) == (jobs \ Awaited(r)) \cup {[j EXCEPT !.awaited = FALSE] : j \in {a \in Awaited(r) : a.held}}

\* After a timeout the thread that rolls back writes the fallback, while there is time.
Fallbacks(r) == IF left[r] = 0 THEN {}
                ELSE {New(r, Fallback(j.to), j.gen, FALSE) : j \in {a \in Awaited(r) : ~a.held}}

WaitTimesOut(r) ==
    /\ \/ pc[r] = "wait" /\ ~InTime(r)
       \/ pc[r] = "closing" /\ left[r] = 0
    /\ Go(r, "cleanup") /\ jobs' = GivenUp(r) \cup Fallbacks(r)
    /\ UNCHANGED <<row, slots, file, client, stage, left, server>>

\* The client disconnects, the middleware's time is over, or the process shuts down.
Cancel(r) ==
    /\ pc[r] \in {"work", "wait", "calling", "closing"}
    /\ LET abandoned == GivenUp(r)
               \cup FromMiddleware(r, IF InTime(r) THEN "cancelled" ELSE "failed_terminal")
       IN IF pc[r] = "closing"
            THEN Go(r, "cleanup") /\ jobs' = abandoned
            ELSE Finalize(r, IF stage[r] = "dispatching" THEN "ambiguous" ELSE "cancelled", abandoned)
    /\ UNCHANGED <<row, slots, file, client, stage, left, server>>

CleanupUnrecorded(r) ==                                               \* mutant
    /\ pc[r] = "cleanup"
    /\ \E released, removed \in BOOLEAN :
          /\ slots' = IF released THEN Slots!Release(slots, r) ELSE slots
          /\ file' = IF removed THEN [file EXCEPT ![r] = NoFile] ELSE file
          /\ Tell(r, IF calls[key[r]] = 0 THEN "error"
                     ELSE IF removed /\ left[r] > 0 THEN "transcript" ELSE "unavailable")
    /\ Go(r, "done")
    /\ UNCHANGED <<row, jobs, stage, left, server>>

\* The slot is given back and the file removed; either may fail, and a release that takes
\* too long goes on in its thread. Only then is the client told.
Cleanup(r) ==
    /\ pc[r] = "cleanup"
    /\ \E released, removed \in BOOLEAN :
          /\ slots' = IF released THEN Slots!Release(slots, r) ELSE slots
          /\ file' = IF removed THEN [file EXCEPT ![r] = NoFile] ELSE file
          /\ Tell(r, IF stage[r] # "succeeded" THEN "error"
                     ELSE IF removed /\ (released \/ ~Slots!Holds(slots, r)) /\ left[r] > 0
                       THEN "transcript" ELSE "unavailable")
    /\ Go(r, "done")
    /\ UNCHANGED <<row, jobs, stage, left, server>>

LateRelease(r) ==
    /\ pc[r] = "done" /\ phase # "down" /\ Slots!Holds(slots, r)
    /\ slots' = Slots!Release(slots, r)
    /\ UNCHANGED <<row, file, jobs, client, process, server>>
-----------------------------------------------------------------------------
(* Time, the sweeper, and the life of the process *)

\* Timeouts of the event loop fire: no coroutine is past the time it has.
OnTime ==
    \A r \in Requests : /\ ~InTime(r) => pc[r] \notin {"identity", "work", "wait", "calling"}
                        /\ left[r] = 0 => pc[r] \notin {"closing", "cleanup"}
Less(n) == IF n = 0 THEN 0 ELSE n - 1

Tick ==
    /\ OnTime
    /\ left' = [r \in Requests |-> Less(left[r])]
    /\ row' = [r \in Requests |-> [row[r] EXCEPT !.lease = Less(@)]]
    /\ slots' = Slots!Age(slots)
    /\ file' = [r \in Requests |-> IF file[r] >= StaleAfter THEN file[r] ELSE file[r] + 1]
    /\ UNCHANGED <<jobs, client, pc, stage, server>>

ExpiredUnsent(r) == row[r].state \in Active \ {"dispatching"} /\ row[r].lease = 0  \* mutant
Expired(r) == row[r].state \in Active /\ row[r].lease = 0
Recovered(r) == IF row[r].sent THEN "ambiguous" ELSE "failed_terminal"

SweepYoung ==                                                         \* mutant
    /\ row' = [r \in Requests |-> IF Expired(r) THEN Written(r, Recovered(r))[r] ELSE row[r]]
    /\ file' = [r \in Requests |-> NoFile]

SweepRowsOnly ==                                                      \* mutant
    /\ row' = [r \in Requests |-> IF Expired(r) THEN Written(r, Recovered(r))[r] ELSE row[r]]
    /\ UNCHANGED file

\* One transaction over every expired row, which waits for the rows that are locked; then
\* the files that no request can still be using.
SweepEffect ==
    /\ row' = [r \in Requests |-> IF Expired(r) THEN Written(r, Recovered(r))[r] ELSE row[r]]
    /\ file' = [r \in Requests |-> IF file[r] = StaleAfter THEN NoFile ELSE file[r]]

Sweep ==
    /\ phase # "down" /\ \A j \in jobs : j.held => ~Expired(j.of)
    /\ SweepEffect
    /\ slots' = Slots!Reclaim(slots)
    /\ UNCHANGED <<jobs, client, process, server>>

StartClosing ==
    /\ phase = "open" /\ restarts < MaxRestarts
    /\ phase' = "closing"
    /\ UNCHANGED <<row, slots, file, jobs, client, process, keyring, restarts>>

\* The process ends: killed, or at the end of its shutdown.
Exit ==
    /\ phase # "down" /\ restarts < MaxRestarts
    /\ phase' = "down" /\ restarts' = restarts + 1
    /\ jobs' = {}
    /\ pc' = [r \in Requests |-> IF pc[r] = "idle" THEN "idle" ELSE "done"]
    /\ UNCHANGED <<row, slots, file, client, stage, left, keyring>>

\* The application does not start without the key of every version the rows refer to.
Ready(k) == \A r \in Requests : row[r] # NoRow => row[r].version \in k.keys

Restart ==
    /\ phase = "down" /\ phase' = "open"
    /\ keyring' \in {k \in Keyrings : Ready(k)}
    /\ \E count \in 1..MaxSlots : slots' = Slots!Reclaim(Slots!Reconcile(slots, count))
    /\ SweepEffect
    /\ UNCHANGED <<jobs, client, process, restarts>>

\* Requests of other sessions run the same code; here they take a slot and give it back, or
\* leave it to its lease.
RivalClaims(w) ==
    /\ phase # "down" /\ \A i \in Slots!Numbers : slots[i].by # w
    /\ \E ticks \in (Reserve + 1)..Total : slots' = Slots!Claim(slots, w, ticks)
    /\ UNCHANGED <<row, file, jobs, client, process, server>>

RivalReleases(w) ==
    /\ phase # "down" /\ \E i \in Slots!Numbers : slots[i].by = w
    /\ slots' = Slots!Release(slots, w)
    /\ UNCHANGED <<row, file, jobs, client, process, server>>

\* What a coroutine does next, whatever it is.
Proceed(r) ==
    \/ Admit(r) \/ Upload(r) \/ ClaimAsrSlot(r) \/ WorkFails(r) \/ CallProvider(r)
    \/ ProviderReturns(r) \/ WaitTimesOut(r) \/ Cleanup(r)
RequestStep(r) == Enter(r) \/ Proceed(r) \/ Reject(r) \/ Cancel(r) \/ LateRelease(r)

Next ==
    \/ \E r \in Requests : RequestStep(r)
    \/ \E j \in jobs : RunJob(j) \/ CommitJob(j) \/ JobFails(j)
    \/ \E w \in Rivals : RivalClaims(w) \/ RivalReleases(w)
    \/ Tick \/ Sweep \/ StartClosing \/ Exit \/ Restart

Spec == Init /\ [][Next]_vars

\* The event loop runs what is ready, threads run (some fail), the clock goes on, the
\* sweeper comes back, and a process that ended is started again.
Threads == \E j \in jobs : RunJob(j) \/ CommitJob(j)
Fairness ==
    /\ \A r \in Requests : WF_vars(Proceed(r))
    /\ WF_vars(Threads) /\ WF_vars(Tick) /\ WF_vars(Sweep) /\ WF_vars(Restart)
LiveSpec == Spec /\ Fairness
-----------------------------------------------------------------------------
TypeOK ==
    /\ row \in [Requests -> Row \cup {NoRow}]
    /\ slots \in [Slots!Numbers -> Slots!Slot]
    /\ file \in [Requests -> 0..NoFile]
    /\ calls \in [Keys -> Nat]
    /\ pc \in [Requests -> Steps] /\ stage \in [Requests -> Active \cup {"succeeded"}]
    /\ key \in [Requests -> Keys \cup {None}] /\ left \in [Requests -> 0..Total]
    /\ jobs \subseteq Job /\ reply \in [Requests -> Replies]
    /\ phase \in {"open", "closing", "down"} /\ keyring \in Keyrings
    /\ restarts \in 0..MaxRestarts

\* The provider is called at most once for a key, whatever the client repeats, the
\* process loses or the keyring turns to; and only where the row already says so, so
\* that no row that may have been transcribed ever reads as if it had not been.
CalledAtMostOnce ==
    \A k \in Keys :
        /\ calls[k] <= 1
        /\ calls[k] = 1 => \E r \in Requests : key[r] = k /\ row[r].sent

\* The provider never sees more calls at once than this process is configured for, whatever
\* leases ran out, were given back late or belong to a process that is gone.
AtWork ==
    {r \in Requests : pc[r] = "calling"} \cup
    {w \in Rivals : \E i \in Slots!Numbers :
                       slots[i].by = w /\ slots[i].left > 0 /\ slots[i].enabled}
CallsHaveSlots ==
    /\ \A r \in Requests : pc[r] = "calling" => Slots!Holds(slots, r)
    /\ Cardinality(AtWork) <= Cardinality({i \in Slots!Numbers : slots[i].enabled})

\* A client has a transcript only of a request that the row says succeeded, and a
\* succeeded one was sent.
TranscriptIsRecorded ==
    \A r \in Requests : /\ reply[r] = "transcript" => row[r].state = "succeeded"
                        /\ row[r].state \in {"succeeded", "ambiguous"} => row[r].sent
                        /\ row[r].state = "cancelled" => ~row[r].sent

\* The sweeper takes neither the row nor the file of a request that is still served.
ServedIsKept ==
    \A r \in Requests :
        /\ pc[r] \in {"work", "wait", "calling"} => ~Expired(r)
        /\ pc[r] \in {"wait", "calling"} /\ stage[r] \in {"scanning", "inspecting", "dispatching"}
             => file[r] # NoFile

\* A request in work keeps what it works with: its slot while it calls, its lease and its
\* audio, whatever the sweeper and other requests do meanwhile.
WorkKeepsItsResources == CallsHaveSlots /\ ServedIsKept

\* Every admitted request ends, its audio goes and its slot comes back, whoever competes for it.
Lingers(r) == row[r].state \in Active \/ file[r] # NoFile \/ Slots!Holds(slots, r)
NothingLingers == \A r \in Requests : Lingers(r) ~> ~Lingers(r)
=============================================================================
