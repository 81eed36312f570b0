-------------------------- MODULE RequestIdentity --------------------------
(*************************************************************************)
(* What every protected request goes through before and after its route:  *)
(* the limit on its body, the verification of its token with a cache of   *)
(* signing keys, the row of its principal, and one row of the security    *)
(* audit - on server processes that share the database, beside an issuer  *)
(* that withdraws keys and an operator who disables principals.           *)
(*                                                                        *)
(* What a token claims, what a body holds and whom a session belongs to   *)
(* are open: each is decided where the code looks at it; how far the      *)
(* start of a process that is not ready came is open too. The routes of   *)
(* images and of speech, which write no success row, are left out.        *)
(*************************************************************************)
EXTENDS Naturals, Sequences, FiniteSets

CONSTANTS
    Requests, Subjects, Processes,
    Kinds,      \* kinds of route that are called
    Keys,       \* signing keys of the issuer, each with a kid of its own
    MaxEntries, \* entries of a process's key cache
    Ttl,        \* ticks a cached key is trusted
    FetchTicks, \* ticks a fetch of the issuer's keys takes at most
    MaxFaults   \* bound: database errors

ASSUME IdentityAssumption ==
    /\ MaxEntries \in Nat \ {0} /\ Ttl \in Nat \ {0}
    /\ FetchTicks \in Nat /\ MaxFaults \in Nat
    /\ Kinds \subseteq {"read", "submit", "review"}

None == "none"
ASSUME NoneAssumption == None \notin Requests

VARIABLES
    withdrawn, \* keys the issuer no longer publishes, with the ticks since (capped)
    cache,     \* per process: cached keys, least recently used first, with ticks left
    principal, \* verified_principals, per subject: its id, None without a row
    active,    \* the subjects whose row is active
    written,   \* per request: outcomes of its rows in security_audit_events
    ask,       \* per request: kind of route, process, key and subject of its token
    pc,        \* per request: where it is
    age,       \* per request: ticks its fetch of the keys has taken, while it goes on
    who,       \* per request: the principal id of its verified identity, or None
    answer,    \* per request: what the application answered, None before
    told,      \* per request: what the client was told, None before
    ready,     \* the processes whose start succeeded
    effect,    \* requests whose route committed what it does
    faults

vars == <<withdrawn, cache, principal, active, written, ask, pc, age, who, answer, told, ready, effect, faults>>
asked == <<ask, ready>>
keysKnown == <<withdrawn, cache, age>>
people == <<principal, active, who>>

Codes == {"ok", "invalid_token", "forbidden", "not_found", "too_large", "invalid_request",
          "session_busy", "session_finalized", "unavailable"}

Cap == Ttl + FetchTicks + 1
Published == {k \in Keys : k \notin DOMAIN withdrawn}

Init ==
    /\ withdrawn = << >> /\ cache = [p \in Processes |-> << >>]
    /\ principal = [s \in Subjects |-> None] /\ active = {}
    /\ written = [r \in Requests |-> << >>]
    /\ ask \in [Requests -> [kind : Kinds, at : Processes, key : Keys, of : Subjects]]
    /\ ready \in SUBSET Processes
    /\ pc = [r \in Requests |-> "verify"] /\ age = [r \in Requests |-> 0]
    /\ who = [r \in Requests |-> None] /\ answer = [r \in Requests |-> None]
    /\ told = [r \in Requests |-> None]
    /\ effect = {} /\ faults = 0

At(r, step) == pc[r] = step
Go(r, step) == pc' = [pc EXCEPT ![r] = step] /\ UNCHANGED <<answer, told>>
Send(r, code, sent) ==
    /\ pc' = [pc EXCEPT ![r] = "told"]
    /\ answer' = [answer EXCEPT ![r] = code] /\ told' = [told EXCEPT ![r] = sent]
Tell(r, code) == Send(r, code, code)
\* The application's answer to a write is held back until the body has ended: one that turns
\* out too large replaces it, whatever it was.
Answer(r, code) ==
    \/ Tell(r, code)
    \/ ask[r].kind # "read" /\ Send(r, code, "too_large")
Fault == faults < MaxFaults /\ faults' = faults + 1
-----------------------------------------------------------------------------
(* The signing keys of a process *)

Entries(r) == cache[ask[r].at]
Cached(r) == {i \in DOMAIN Entries(r) : Entries(r)[i].key = ask[r].key}
Fresh(r) == {i \in Cached(r) : Entries(r)[i].left > 0}
\* A key has one entry at most; the others keep their order.
Without(r) ==
    IF Cached(r) = {} THEN Entries(r)
    ELSE LET cut == CHOOSE i \in Cached(r) : TRUE
         IN  SubSeq(Entries(r), 1, cut - 1) \o SubSeq(Entries(r), cut + 1, Len(Entries(r)))
Decoded(r) == Go(r, "principal") \/ Go(r, "invalid")

\* An entry past its time is dropped, one that is used becomes the last to go.
Lookup(r) ==
    /\ At(r, "verify")
    /\ IF Fresh(r) # {}
       THEN /\ \E i \in Fresh(r) :
                  cache' = [cache EXCEPT ![ask[r].at] = Append(Without(r), Entries(r)[i])]
            /\ Decoded(r)
       ELSE cache' = [cache EXCEPT ![ask[r].at] = Without(r)] /\ Go(r, "fetch")
    /\ UNCHANGED <<withdrawn, age, people, written, asked, effect, faults>>

\* A thread reads what the issuer publishes; any error of it is an invalid token.
Fetch(r) ==
    /\ At(r, "fetch")
    /\ \/ ask[r].key \in Published /\ Go(r, "fetched") /\ UNCHANGED age
       \/ Go(r, "invalid") /\ age' = [age EXCEPT ![r] = 0]
    /\ UNCHANGED <<withdrawn, cache, people, written, asked, effect, faults>>

Keep(r, ticks) ==
    LET entries == Append(Without(r), [key |-> ask[r].key, left |-> ticks])
    IN  cache' = [cache EXCEPT ![ask[r].at] =
                     IF Len(entries) > MaxEntries THEN Tail(entries) ELSE entries]

\* What the thread read is cached when the event loop gets to it, for the whole time.
Put(r) ==
    /\ At(r, "fetched") /\ Decoded(r) /\ Keep(r, Ttl) /\ age' = [age EXCEPT ![r] = 0]
    /\ UNCHANGED <<withdrawn, people, written, asked, effect, faults>>

Fetching == {r \in Requests : pc[r] \in {"fetch", "fetched"}}
Less(n) == IF n = 0 THEN 0 ELSE n - 1
Tick ==
    /\ \A r \in Fetching : age[r] < FetchTicks
    /\ age' = [r \in Requests |-> IF r \in Fetching THEN age[r] + 1 ELSE age[r]]
    /\ withdrawn' = [k \in DOMAIN withdrawn |->
                        IF withdrawn[k] = Cap THEN Cap ELSE withdrawn[k] + 1]
    /\ cache' = [p \in Processes |-> [i \in DOMAIN cache[p] |->
                    [cache[p][i] EXCEPT !.left = Less(@)]]]
    /\ UNCHANGED <<people, written, asked, pc, answer, told, effect, faults>>

Withdraw(k) ==
    /\ k \in Published
    /\ withdrawn' = [o \in DOMAIN withdrawn \cup {k} |-> IF o = k THEN 0 ELSE withdrawn[o]]
    /\ UNCHANGED <<cache, age, people, written, asked, pc, answer, told, effect, faults>>
-----------------------------------------------------------------------------
(* The principal of a token *)

Row(r) == principal[ask[r].of]
\* The middleware checks the identity of a write before its body; a read has no middleware.
Identified(r, id) ==
    /\ who' = [who EXCEPT ![r] = id]
    /\ Go(r, IF ask[r].kind = "read" THEN "route" ELSE "limits")
Resolved(r) ==
    IF ask[r].of \in active THEN Identified(r, Row(r))
    ELSE Go(r, "disabled") /\ UNCHANGED who

\* Resolving runs on the event loop: one at a time in a process.
Find(r) ==
    /\ At(r, "principal")
    /\ \A o \in Requests : ask[o].at = ask[r].at => pc[o] \notin {"insert", "winner"}
    /\ IF Row(r) = None THEN Go(r, "insert") /\ UNCHANGED who ELSE Resolved(r)
    /\ UNCHANGED <<keysKnown, principal, active, written, asked, effect, faults>>

InsertReturnsCandidate(r) ==                                          \* mutant
    /\ At(r, "insert") /\ Identified(r, r)
    /\ IF Row(r) = None
       THEN /\ principal' = [principal EXCEPT ![ask[r].of] = r]
            /\ active' = active \cup {ask[r].of}
       ELSE UNCHANGED <<principal, active>>
    /\ UNCHANGED <<keysKnown, written, asked, effect, faults>>
\* The unique constraint decides between two processes that both saw no row.
Insert(r) ==
    /\ At(r, "insert")
    /\ IF Row(r) = None
       THEN /\ principal' = [principal EXCEPT ![ask[r].of] = r]
            /\ active' = active \cup {ask[r].of} /\ Identified(r, r)
       ELSE Go(r, "winner") /\ UNCHANGED people
    /\ UNCHANGED <<keysKnown, written, asked, effect, faults>>

FindWinner(r) ==
    /\ At(r, "winner") /\ Resolved(r)
    /\ UNCHANGED <<keysKnown, principal, active, written, asked, effect, faults>>

SetActive(s) ==
    /\ principal[s] # None
    /\ active' \in {active \cup {s}, active \ {s}} \ {active}
    /\ UNCHANGED <<keysKnown, principal, who, written, asked, pc, answer, told, effect, faults>>
-----------------------------------------------------------------------------
(* The audit row, the body and the route *)

\* A row is written once per request; retention is longer than anything here lasts, so the
\* expired rows that are deleted with it are none of these.
Record(r, outcome) ==
    written' = IF written[r] # << >> THEN written
               ELSE [written EXCEPT ![r] = Append(@, outcome)]

Refuse(r) ==
    /\ Record(r, "failure")
    /\ \/ At(r, "invalid") /\ Tell(r, "invalid_token")
       \/ At(r, "disabled") /\ Tell(r, "forbidden")
    /\ UNCHANGED <<keysKnown, people, asked, effect, faults>>

TooLarge(r) ==
    /\ At(r, "limits") /\ Record(r, "success") /\ Tell(r, "too_large")
    /\ UNCHANGED <<keysKnown, people, asked, effect, faults>>
ReadBody(r) ==
    /\ At(r, "limits")
    /\ Go(r, "malformed") \/ Go(r, "route")
    /\ UNCHANGED <<keysKnown, people, written, asked, effect, faults>>

InvalidBodyUnrecorded(r) ==                                           \* mutant
    /\ At(r, "malformed") /\ Answer(r, "invalid_request")
    /\ UNCHANGED <<keysKnown, people, written, asked, effect, faults>>
\* The handler of validation errors records the request it refuses.
InvalidBody(r) ==
    /\ At(r, "malformed") /\ Record(r, "success") /\ Answer(r, "invalid_request")
    /\ UNCHANGED <<keysKnown, people, asked, effect, faults>>

Routed(r) == At(r, "route") /\ ask[r].at \in ready

\* A submission takes the lock of its session before it asks whose the session is, and before
\* anything is recorded of it.
Busy(r) ==
    /\ Routed(r) /\ ask[r].kind = "submit" /\ Answer(r, "session_busy")
    /\ UNCHANGED <<keysKnown, people, written, asked, effect, faults>>

NotOwned(r) ==
    /\ Routed(r) /\ Record(r, "failure") /\ Answer(r, "not_found")
    /\ UNCHANGED <<keysKnown, people, asked, effect, faults>>

RouteUnrecorded(r) ==                                                 \* mutant
    /\ Routed(r) /\ Go(r, "commit")
    /\ UNCHANGED <<keysKnown, people, written, asked, effect, faults>>
Route(r) ==
    /\ Routed(r) /\ Record(r, "success") /\ Go(r, "commit")
    /\ UNCHANGED <<keysKnown, people, asked, effect, faults>>

\* What comes after the route's transaction may still meet a database error.
Commit(r) ==
    /\ At(r, "commit") /\ effect' = effect \cup {r}
    /\ \/ Answer(r, "ok") /\ UNCHANGED faults
       \/ Fault /\ Answer(r, "unavailable")
    /\ UNCHANGED <<keysKnown, people, written, asked>>

\* A submission to a reviewed session, a review that finds the lock taken or no runtime.
Refusals(r) ==
    CASE ask[r].kind = "submit" -> {"session_finalized"}
      [] ask[r].kind = "review" -> {"session_busy", "unavailable"}
      [] OTHER -> {}
Uncommitted(r) ==
    /\ At(r, "commit") /\ \E code \in Refusals(r) : Answer(r, code)
    /\ UNCHANGED <<keysKnown, people, written, asked, effect, faults>>

\* Before the application an answer is sent as it is, in it it is held back.
Outside == {"principal", "insert", "winner", "invalid", "disabled", "limits"}
Inside == {"malformed", "route", "commit"}
Unavailable(r) ==
    \/ pc[r] \in Outside /\ Tell(r, "unavailable")
    \/ pc[r] \in Inside /\ Answer(r, "unavailable")

\* Every step that reads or writes the database may fail, and then did nothing.
Fails(r) ==
    /\ Fault /\ Unavailable(r)
    /\ UNCHANGED <<keysKnown, people, written, asked, effect>>

\* A process that is not ready has no verifier, no audit, or refuses at its routes.
NotReady(r) ==
    /\ ask[r].at \notin ready
    /\ \/ At(r, "verify") /\ Tell(r, "unavailable")
       \/ pc[r] \notin {"principal", "insert", "winner"} /\ Unavailable(r)
    /\ UNCHANGED <<keysKnown, people, written, asked, effect, faults>>

RequestStep(r) ==
    \/ Lookup(r) \/ Fetch(r) \/ Put(r) \/ Find(r) \/ Insert(r) \/ FindWinner(r)
    \/ Refuse(r) \/ TooLarge(r) \/ ReadBody(r) \/ InvalidBody(r) \/ Busy(r)
    \/ NotOwned(r) \/ Route(r) \/ Commit(r) \/ Uncommitted(r) \/ Fails(r) \/ NotReady(r)

Next ==
    \/ \E r \in Requests : RequestStep(r)
    \/ Tick
    \/ \E k \in Keys : Withdraw(k)
    \/ \E s \in Subjects : SetActive(s)
Spec == Init /\ [][Next]_vars
-----------------------------------------------------------------------------
(* Properties *)

TypeOK ==
    /\ DOMAIN withdrawn \subseteq Keys /\ \A k \in DOMAIN withdrawn : withdrawn[k] \in 0..Cap
    /\ \A p \in Processes : Len(cache[p]) <= MaxEntries
    /\ principal \in [Subjects -> Requests \cup {None}] /\ active \subseteq Subjects
    /\ written \in [Requests -> Seq({"success", "failure"})]
    /\ age \in [Requests -> 0..FetchTicks] /\ who \in [Requests -> Requests \cup {None}]
    /\ answer \in [Requests -> Codes \cup {None}] /\ told \in [Requests -> Codes \cup {None}]
    /\ effect \subseteq Requests /\ ready \subseteq Processes /\ faults \in 0..MaxFaults

\* What the audit has of a request by the answer it came to.
AuditsOf(r, code) ==
    CASE code \in {"invalid_token", "forbidden", "not_found"} -> {<<"failure">>}
      [] code \in {"ok", "too_large", "invalid_request", "session_finalized"} -> {<<"success">>}
      [] code = "session_busy" -> IF ask[r].kind = "review" THEN {<<"success">>} ELSE {<< >>}
      [] code = "unavailable" -> {<< >>, <<"success">>}

\* The audit says of every answered request what it was told (record_security_audit): one
\* failure row behind each 401, 403 and 404, one success row behind each 200 and 422 and each
\* body declared too large, none behind a submission that found its session busy, and never a
\* failure behind a 503. A body that turned out too large leaves the audit as it was.
AnswersAreAudited ==
    \A r \in Requests : told[r] # None =>
        written[r] \in AuditsOf(r, IF told[r] = "too_large" THEN answer[r] ELSE told[r])

\* Nothing is done for a request, whatever it is told in the end, that was not recorded
\* before under an identity (_record_authorized_request before every route's transaction).
EffectsAreAudited ==
    \A r \in effect : who[r] # None /\ written[r] = <<"success">>

\* The security audit says neither more nor less than what happened.
AuditIsExact == AnswersAreAudited /\ EffectsAreAudited

\* Two requests of one subject act as one principal, also when both were the first and ran
\* in two processes (UowPrincipalResolver.resolve).
OneIdentity ==
    \A r, o \in Requests :
        who[r] # None /\ who[o] # None /\ ask[r].of = ask[o].of => who[r] = who[o]

\* A key the issuer withdrew is trusted no longer than the time of a cache entry and of the
\* fetch that filled it, whatever other requests looked up, fetched or evicted meanwhile.
KeyTrustEnds ==
    [][\A r \in Requests :
          pc[r] \in {"verify", "fetched"} /\ pc'[r] = "principal"
            => ask[r].key \in Published \/ withdrawn[ask[r].key] <= Ttl + FetchTicks]_vars
=============================================================================
