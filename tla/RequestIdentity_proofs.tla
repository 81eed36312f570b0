----------------------- MODULE RequestIdentity_proofs -----------------------
(****************************************************************************)
(* RequestIdentity for any requests, subjects, processes and keys: two      *)
(* requests of one subject act as one principal, the security audit has of  *)
(* each request what belongs to its answer and no more, and a withdrawn key *)
(* is trusted no longer than its time.                                      *)
(*                                                                          *)
(* The argument: an identity is the row of its subject, which is written    *)
(* once (PeopleInv); and at every step of a request its audit is the one    *)
(* the steps behind it wrote (Fits). What a cache holds is trusted no       *)
(* longer than the time of an entry and of a fetch, also once the key is    *)
(* withdrawn (KeyInv): the two times run together.                          *)
(****************************************************************************)
EXTENDS RequestIdentity, SequenceTheorems, TLAPS

Early == {"verify", "fetch", "fetched", "principal", "insert", "winner", "invalid", "disabled"}
Known == {"limits", "malformed", "route"}

\* What the audit may say of one request.
Silence == << >>
Success == <<"success">>
Failure == <<"failure">>
Audits == {Silence, Success, Failure}

\* The three are different.
LEMMA AuditsDiffer == Silence # Success /\ Silence # Failure /\ Success # Failure
<1>1. Len(<< >>) = 0 /\ Len(<<"success">>) = 1 /\ Len(<<"failure">>) = 1
  OBVIOUS
<1>2. <<"success">>[1] = "success" /\ <<"failure">>[1] = "failure"
  OBVIOUS
<1> QED BY <1>1, <1>2 DEF Silence, Success, Failure

Typed ==
    /\ principal \in [Subjects -> Requests \cup {None}]
    /\ ask \in [Requests -> [kind : Kinds, at : Processes, key : Keys, of : Subjects]]
    /\ pc \in [Requests -> Early \cup Known \cup {"commit", "told"}]
    /\ who \in [Requests -> Requests \cup {None}]
    /\ answer \in [Requests -> Codes \cup {None}] /\ told \in [Requests -> Codes \cup {None}]
    /\ written \in [Requests -> Audits]
    /\ effect \subseteq Requests

\* A verified identity is the row of its subject, and only subjects with a row are active.
PeopleInv ==
    /\ \A r \in Requests : who[r] # None => who[r] = principal[ask[r].of]
    /\ \A s \in active : s \in Subjects /\ principal[s] # None

\* What the audit and the effects say of r, where r is: nothing before its answer but the row
\* of its route, and then what belongs to the answer of the application, whatever was sent.
Fits(r) ==
    /\ pc[r] \in Early \cup Known => written[r] = Silence
    /\ pc[r] # "told" => r \notin effect /\ answer[r] = None /\ told[r] = None
    /\ pc[r] \in Known \cup {"commit"} => who[r] # None
    /\ pc[r] = "commit" => written[r] = Success
    /\ r \in effect => who[r] # None /\ written[r] = Success
    /\ pc[r] = "told" => /\ answer[r] \in Codes /\ told[r] \in {answer[r], "too_large"}
                         /\ written[r] \in AuditsOf(r, answer[r])

IInv == Typed /\ PeopleInv /\ \A r \in Requests : Fits(r)
-----------------------------------------------------------------------------
(* One request at a time *)

\* The step is one of r.
OnlyOf(r) ==
    \A q \in Requests \ {r} : /\ pc'[q] = pc[q] /\ who'[q] = who[q]
                              /\ answer'[q] = answer[q] /\ told'[q] = told[q]
                              /\ written'[q] = written[q]
                              /\ q \in effect' <=> q \in effect

\* It leaves the other requests as they are.
LEMMA Alone ==
    ASSUME IInv, NEW r \in Requests, OnlyOf(r), UNCHANGED asked, Typed', PeopleInv', Fits(r)'
    PROVE  IInv'
<1>1. ASSUME NEW q \in Requests
      PROVE  Fits(q)'
  <2>1. CASE q = r
    BY <2>1
  <2>2. CASE q # r
    <3>1. AuditsOf(q, answer[q])' = AuditsOf(q, answer[q])
      BY <2>2 DEF AuditsOf, OnlyOf, asked
    <3> QED BY <2>2, <3>1 DEF IInv, Fits, OnlyOf
  <2> QED BY <2>1, <2>2
<1> QED BY <1>1 DEF IInv

\* Where a request goes without an answer, an identity or a record.
LEMMA Moves ==
    ASSUME IInv, NEW r \in Requests, NEW p \in Early \cup Known,
           pc' = [pc EXCEPT ![r] = p], pc[r] \in Early \cup Known,
           p \in Known => who[r] # None,
           UNCHANGED <<people, written, asked, answer, told, effect>>
    PROVE  IInv'
<1>1. Typed' /\ PeopleInv'
  BY DEF IInv, Typed, PeopleInv, people, asked
<1>2. pc'[r] = p /\ \A q \in Requests \ {r} : pc'[q] = pc[q]
  BY DEF IInv, Typed
<1>3. p \notin {"commit", "told"} /\ pc[r] # "told"
  BY DEF Early, Known
<1>4. Fits(r)'
  BY <1>2, <1>3 DEF IInv, Fits, people
<1>5. OnlyOf(r)
  BY <1>2 DEF OnlyOf, people
<1> QED BY <1>1, <1>4, <1>5, Alone

\* An answer of the middleware, or one of the application that the body's end may replace.
Answered(r, code) == (Tell(r, code) \/ Answer(r, code)) /\ UNCHANGED <<people, asked>>

\* Whichever the client gets, the invariant is kept when the audit is that of the answer.
LEMMA Ends ==
    ASSUME IInv, NEW r \in Requests, NEW code \in Codes, Answered(r, code),
           NEW rows \in AuditsOf(r, code), written' = [written EXCEPT ![r] = rows],
           effect \subseteq effect', effect' \subseteq effect \cup {r},
           r \in effect' => who[r] # None /\ rows = Success
    PROVE  IInv'
<1>1. PICK sent \in {code, "too_large"} : Send(r, code, sent)
  BY DEF Answered, Answer, Tell
<1>2. sent \in Codes
  BY DEF Codes
<1>3. /\ pc'[r] = "told" /\ answer'[r] = code /\ told'[r] = sent /\ written'[r] = rows
      /\ \A q \in Requests \ {r} : /\ pc'[q] = pc[q] /\ answer'[q] = answer[q]
                                   /\ told'[q] = told[q] /\ written'[q] = written[q]
  BY <1>1 DEF Send, IInv, Typed
<1>4. rows \in Audits
  BY DEF AuditsOf, Codes, Audits, Silence, Success, Failure
<1>5. Typed'
  BY <1>1, <1>2, <1>4 DEF Send, Answered, IInv, Typed, people, asked
<1>6. PeopleInv'
  BY DEF Answered, IInv, PeopleInv, people, asked
<1>7. AuditsOf(r, code)' = AuditsOf(r, code)
  BY DEF Answered, asked, AuditsOf
<1>8. Fits(r)'
  <2>1. "told" \notin Early \cup Known \cup {"commit"}
    BY DEF Early, Known
  <2>2. who'[r] = who[r]
    BY DEF Answered, people
  <2> QED BY <1>3, <1>7, <2>1, <2>2 DEF Fits
<1>9. OnlyOf(r)
  BY <1>3 DEF OnlyOf, Answered, people
<1> QED BY <1>5, <1>6, <1>8, <1>9, Alone DEF Answered
-----------------------------------------------------------------------------
(* The keys *)

\* Looking a key up, fetching and caching it decide where the request goes and no more.
LEMMA KeysKeep ==
    ASSUME IInv, NEW r \in Requests, Lookup(r) \/ Fetch(r) \/ Put(r)
    PROVE  IInv'
<1>1. /\ pc[r] \in Early /\ UNCHANGED <<people, written, asked, answer, told, effect>>
      /\ \E p \in Early : pc' = [pc EXCEPT ![r] = p]
  BY DEF Lookup, Fetch, Put, At, Go, Decoded, Early
<1>2. Early \cap Known = {}
  BY DEF Early, Known
<1> QED BY <1>1, <1>2, Moves
-----------------------------------------------------------------------------
(* The principal *)

\* A request that has its identity, the row of its subject.
LEMMA Identifies ==
    ASSUME IInv, NEW r \in Requests, Identified(r, principal'[ask[r].of]),
           principal'[ask[r].of] # None, pc[r] \in Early,
           UNCHANGED <<written, asked, effect>>,
           principal' \in [Subjects -> Requests \cup {None}],
           \A s \in Subjects : principal[s] # None => principal'[s] = principal[s],
           \A s \in active' : s \in Subjects /\ principal'[s] # None
    PROVE  IInv'
<1> DEFINE id == principal'[ask[r].of]
           p == IF ask[r].kind = "read" THEN "route" ELSE "limits"
<1>1. ask[r].of \in Subjects /\ id \in Requests
  BY DEF IInv, Typed
<1>2. p \in Known /\ UNCHANGED <<answer, told>> /\ pc' = [pc EXCEPT ![r] = p] /\ who' = [who EXCEPT ![r] = id]
  BY DEF Identified, Go, Known
<1>3. /\ pc'[r] \in Known /\ who'[r] = id
      /\ \A q \in Requests \ {r} : pc'[q] = pc[q] /\ who'[q] = who[q]
  BY <1>2 DEF IInv, Typed
<1>4. Typed'
  BY <1>1, <1>2 DEF IInv, Typed, asked
<1>5. PeopleInv'
  <2>1. ASSUME NEW q \in Requests, who'[q] # None
        PROVE  who'[q] = principal'[ask[q].of]
    <3>1. CASE q = r
      BY <1>3, <3>1
    <3>2. CASE q # r
      <4>1. who[q] # None /\ who[q] = principal[ask[q].of] /\ ask[q].of \in Subjects
        BY <1>3, <2>1, <3>2 DEF IInv, Typed, PeopleInv
      <4> QED BY <1>3, <3>2, <4>1
    <3> QED BY <3>1, <3>2
  <2> QED BY <2>1 DEF PeopleInv, asked
<1>6. Fits(r)'
  <2>1. pc'[r] \notin {"commit", "told"} /\ who'[r] # None
    BY <1>3 DEF Known
  <2>2. pc[r] # "told"
    BY DEF Early
  <2> QED BY <1>2, <1>3, <2>1, <2>2 DEF IInv, Fits
<1>7. UNCHANGED <<answer, told, written, effect>>
  BY <1>2
<1>8. \A q \in Requests \ {r} : pc'[q] = pc[q] /\ who'[q] = who[q]
  BY <1>3
<1>9. OnlyOf(r)
  BY ONLY <1>7, <1>8 DEF OnlyOf
<1> QED BY <1>4, <1>5, <1>6, <1>9, Alone

\* The row of the subject is looked for.
LEMMA FindKeeps ==
    ASSUME IInv, NEW r \in Requests, Find(r) \/ FindWinner(r)
    PROVE  IInv'
<1>1. /\ pc[r] \in Early /\ UNCHANGED <<principal, active, written, asked, effect>>
      /\ (Go(r, "insert") /\ UNCHANGED who) \/ Resolved(r)
  BY DEF Find, FindWinner, At, Early
<1>2. CASE UNCHANGED <<who, answer, told>> /\ \E p \in {"insert", "disabled"} : pc' = [pc EXCEPT ![r] = p]
  <2>1. {"insert", "disabled"} \subseteq Early \ Known
    BY DEF Early, Known
  <2> QED BY <1>1, <1>2, <2>1, Moves DEF people
<1>3. CASE ask[r].of \in active /\ Identified(r, Row(r))
  BY <1>1, <1>3, Identifies DEF IInv, Typed, PeopleInv, Row
<1> QED BY <1>1, <1>2, <1>3 DEF Resolved, Go

\* It is inserted, once.
LEMMA InsertKeeps ==
    ASSUME IInv, NEW r \in Requests, Insert(r)
    PROVE  IInv'
<1>1. pc[r] \in Early /\ UNCHANGED <<written, asked, effect>> /\ ask[r].of \in Subjects
  BY DEF Insert, At, Early, IInv, Typed
<1>2. CASE Row(r) # None
  <2>1. "winner" \in Early \ Known
    BY DEF Early, Known
  <2> QED BY <1>1, <1>2, <2>1, Moves DEF Insert, Go
<1>3. CASE Row(r) = None
  <2>1. /\ principal' = [principal EXCEPT ![ask[r].of] = r]
        /\ active' = active \cup {ask[r].of} /\ Identified(r, r)
    BY <1>3 DEF Insert
  <2>2. /\ principal'[ask[r].of] = r /\ r # None
        /\ principal' \in [Subjects -> Requests \cup {None}]
        /\ \A s \in Subjects : principal[s] # None => principal'[s] = principal[s]
    BY <1>1, <1>3, <2>1, NoneAssumption DEF Row, IInv, Typed
  <2>3. \A s \in active' : s \in Subjects /\ principal'[s] # None
    BY <1>1, <2>1, <2>2 DEF IInv, PeopleInv
  <2> QED BY <1>1, <2>1, <2>2, <2>3, Identifies
<1> QED BY <1>2, <1>3
-----------------------------------------------------------------------------
(* The audit, the body and the route *)

\* A request that has not been recorded gets the one row that is written for it.
LEMMA Recorded ==
    ASSUME IInv, NEW r \in Requests, pc[r] \in Early \cup Known
    PROVE  /\ r \notin effect
           /\ Record(r, "success") => written' = [written EXCEPT ![r] = Success]
           /\ Record(r, "failure") => written' = [written EXCEPT ![r] = Failure]
<1>1. written[r] = << >> /\ r \notin effect
  BY DEF IInv, Fits, Silence, Early, Known
<1>2. Append(<< >>, "success") = <<"success">> /\ Append(<< >>, "failure") = <<"failure">>
  OBVIOUS
<1> QED BY <1>1, <1>2 DEF Record, Success, Failure

\* A refusal that is told once its row is written.
LEMMA RefuseKeeps ==
    ASSUME IInv, NEW r \in Requests,
           Refuse(r) \/ TooLarge(r) \/ InvalidBody(r) \/ NotOwned(r)
    PROVE  IInv'
<1>1. pc[r] \in Early \cup Known /\ effect' = effect
  BY DEF Refuse, TooLarge, InvalidBody, NotOwned, Routed, At, Early, Known
<1>2. CASE Refuse(r) \/ NotOwned(r)
  <2>1. PICK code \in {"invalid_token", "forbidden", "not_found"} :
          Record(r, "failure") /\ Answered(r, code)
    BY <1>2 DEF Refuse, NotOwned, Answered
  <2>2. code \in Codes /\ Failure \in AuditsOf(r, code)
    BY DEF Codes, AuditsOf, Failure
  <2>3. written' = [written EXCEPT ![r] = Failure] /\ r \notin effect'
    BY <1>1, <2>1, Recorded
  <2> QED BY <1>1, <2>1, <2>2, <2>3, Ends
<1>3. CASE TooLarge(r) \/ InvalidBody(r)
  <2>1. PICK code \in {"too_large", "invalid_request"} :
          Record(r, "success") /\ Answered(r, code)
    BY <1>3 DEF TooLarge, InvalidBody, Answered
  <2>2. code \in Codes /\ Success \in AuditsOf(r, code)
    BY DEF Codes, AuditsOf, Success
  <2>3. written' = [written EXCEPT ![r] = Success] /\ r \notin effect'
    BY <1>1, <2>1, Recorded
  <2> QED BY <1>1, <2>1, <2>2, <2>3, Ends
<1> QED BY <1>2, <1>3

\* An answer that writes nothing, to a request without an effect, goes with the rows there are.
LEMMA Unwritten ==
    ASSUME IInv, NEW r \in Requests, NEW code \in Codes, Answered(r, code),
           pc[r] # "told", written[r] \in AuditsOf(r, code), UNCHANGED <<written, effect>>
    PROVE  IInv'
<1>1. written' = [written EXCEPT ![r] = written[r]] /\ r \notin effect'
  BY DEF IInv, Typed, Fits
<1> QED BY <1>1, Ends

\* A submission whose session is busy has no row.
LEMMA BusyKeeps ==
    ASSUME IInv, NEW r \in Requests, Busy(r)
    PROVE  IInv'
<1>1. /\ Answered(r, "session_busy") /\ pc[r] = "route" /\ ask[r].kind = "submit"
      /\ UNCHANGED <<written, effect>>
  BY DEF Busy, Routed, At, Answered
<1>2. written[r] = Silence
  BY <1>1 DEF IInv, Fits, Known
<1>3. "session_busy" \in Codes /\ written[r] \in AuditsOf(r, "session_busy")
  BY <1>1, <1>2 DEF Codes, AuditsOf, Silence
<1> QED BY <1>1, <1>3, Unwritten

\* A database error writes nothing, nor does a process that is not ready.
LEMMA FailKeeps ==
    ASSUME IInv, NEW r \in Requests, Fails(r) \/ NotReady(r)
    PROVE  IInv'
<1>1. /\ Answered(r, "unavailable") /\ UNCHANGED <<written, effect>>
      /\ pc[r] \in Early \cup Known \cup {"commit"}
  <2>1. /\ UNCHANGED <<people, written, asked, effect>>
        /\ (At(r, "verify") /\ Tell(r, "unavailable")) \/ Unavailable(r)
    BY DEF Fails, NotReady
  <2> QED BY <2>1 DEF Unavailable, Outside, Inside, Answered, At, Early, Known
<1>2. pc[r] # "told" /\ written[r] \in {Silence, Success}
  BY <1>1 DEF IInv, Fits, Early, Known
<1>3. "unavailable" \in Codes /\ written[r] \in AuditsOf(r, "unavailable")
  BY <1>2 DEF Codes, AuditsOf, Silence, Success
<1> QED BY <1>1, <1>2, <1>3, Unwritten

\* The body is read.
LEMMA BodyKeeps ==
    ASSUME IInv, NEW r \in Requests, ReadBody(r)
    PROVE  IInv'
<1>1. /\ pc[r] \in Known /\ UNCHANGED <<people, written, asked, answer, told, effect>>
      /\ \E p \in Known : pc' = [pc EXCEPT ![r] = p]
  BY DEF ReadBody, At, Go, Known
<1>2. who[r] # None
  BY <1>1 DEF IInv, Fits
<1> QED BY <1>1, <1>2, Moves

\* The route records the request before its transaction.
LEMMA RouteKeeps ==
    ASSUME IInv, NEW r \in Requests, Route(r)
    PROVE  IInv'
<1>1. /\ pc[r] \in Known /\ UNCHANGED <<people, asked, answer, told, effect>>
      /\ pc' = [pc EXCEPT ![r] = "commit"]
  BY DEF Route, Routed, At, Go, Known
<1>2. written' = [written EXCEPT ![r] = Success] /\ r \notin effect
  BY <1>1, Recorded DEF Route
<1>3. /\ pc'[r] = "commit" /\ written'[r] = Success
      /\ \A q \in Requests \ {r} : pc'[q] = pc[q] /\ written'[q] = written[q]
  BY <1>1, <1>2 DEF IInv, Typed
<1>4. Typed' /\ PeopleInv'
  BY <1>1, <1>2 DEF IInv, Typed, PeopleInv, people, asked, Audits
<1>5. Fits(r)'
  <2>1. answer[r] = None /\ told[r] = None /\ who[r] # None
    BY <1>1 DEF IInv, Fits, Known
  <2>2. "commit" \notin Early \cup Known
    BY DEF Early, Known
  <2> QED BY <1>1, <1>2, <1>3, <2>1, <2>2 DEF Fits, people
<1>6. OnlyOf(r)
  BY <1>1, <1>3 DEF OnlyOf, people
<1> QED BY <1>1, <1>4, <1>5, <1>6, Alone

\* Behind its row a route commits, fails behind its commit, or refuses.
LEMMA CommitKeeps ==
    ASSUME IInv, NEW r \in Requests, Commit(r) \/ Uncommitted(r)
    PROVE  IInv'
<1>1. pc[r] = "commit" /\ UNCHANGED written
  BY DEF Commit, Uncommitted, At
<1>2. /\ written[r] = Success /\ who[r] # None
      /\ written' = [written EXCEPT ![r] = Success]
  BY <1>1 DEF IInv, Typed, Fits
<1>3. CASE Commit(r)
  <2>1. PICK code \in {"ok", "unavailable"} : Answered(r, code)
    BY <1>3 DEF Commit, Answered
  <2>2. code \in Codes /\ Success \in AuditsOf(r, code)
    BY DEF Codes, AuditsOf, Success
  <2>3. effect' = effect \cup {r}
    BY <1>3 DEF Commit
  <2> QED BY <1>2, <2>1, <2>2, <2>3, Ends
<1>4. CASE Uncommitted(r)
  <2>1. PICK code \in Refusals(r) : Answered(r, code)
    BY <1>4 DEF Uncommitted, Answered
  <2>2. /\ code \in {"session_finalized", "session_busy", "unavailable"}
        /\ code = "session_busy" => ask[r].kind = "review"
    BY <2>1 DEF Refusals
  <2>3. code \in Codes /\ Success \in AuditsOf(r, code)
    BY <2>2 DEF Codes, AuditsOf, Success
  <2>4. effect' = effect
    BY <1>4 DEF Uncommitted
  <2> QED BY <1>1, <1>2, <2>1, <2>3, <2>4, Unwritten
<1> QED BY <1>3, <1>4
-----------------------------------------------------------------------------
(* The theorems *)

\* The invariant holds at the start.
LEMMA Starts == Init => IInv
<1> SUFFICES ASSUME Init
             PROVE  IInv
  OBVIOUS
<1>1. Typed
  BY DEF Init, Typed, Early, Audits, Silence
<1>2. PeopleInv
  BY DEF Init, PeopleInv
<1>3. \A r \in Requests : Fits(r)
  <2>1. "verify" \notin Known \cup {"commit"}
    BY DEF Known
  <2>2. \A r \in Requests : /\ written[r] = Silence /\ pc[r] = "verify"
                            /\ answer[r] = None /\ told[r] = None
    BY DEF Init, Silence
  <2> QED BY <2>1, <2>2 DEF Init, Fits
<1> QED BY <1>1, <1>2, <1>3 DEF IInv

\* Every step keeps the invariant.
LEMMA Keeps == IInv /\ [Next]_vars => IInv'
<1> SUFFICES ASSUME IInv, [Next]_vars
             PROVE  IInv'
  OBVIOUS
<1>1. ASSUME NEW r \in Requests, RequestStep(r)
      PROVE  IInv'
  <2>1. CASE Lookup(r) \/ Fetch(r) \/ Put(r)
    BY <2>1, KeysKeep
  <2>2. CASE Find(r) \/ FindWinner(r) \/ Insert(r)
    BY <2>2, FindKeeps, InsertKeeps
  <2>3. CASE Refuse(r) \/ TooLarge(r) \/ InvalidBody(r) \/ NotOwned(r)
    BY <2>3, RefuseKeeps
  <2>4. CASE ReadBody(r) \/ Busy(r) \/ Route(r) \/ Commit(r) \/ Uncommitted(r)
    BY <2>4, BodyKeeps, BusyKeeps, RouteKeeps, CommitKeeps
  <2>5. CASE Fails(r) \/ NotReady(r)
    BY <2>5, FailKeeps
  <2> QED BY <1>1, <2>1, <2>2, <2>3, <2>4, <2>5 DEF RequestStep
<1>2. CASE Tick \/ (\E k \in Keys : Withdraw(k)) \/ UNCHANGED vars
  <2>1. UNCHANGED <<people, written, ask, pc, answer, told, effect>>
    BY <1>2 DEF Tick, Withdraw, vars, people, asked
  <2>2. \A r \in Requests : AuditsOf(r, answer[r])' = AuditsOf(r, answer[r])
    BY <2>1 DEF AuditsOf
  <2> QED BY <2>1, <2>2 DEF IInv, Typed, PeopleInv, Fits, people
<1>3. ASSUME NEW s \in Subjects, SetActive(s)
      PROVE  IInv'
  <2>1. /\ UNCHANGED <<principal, who, written, ask, pc, answer, told, effect>>
        /\ principal[s] # None /\ active' \subseteq active \cup {s}
    BY <1>3 DEF SetActive, asked
  <2>2. \A r \in Requests : AuditsOf(r, answer[r])' = AuditsOf(r, answer[r])
    BY <2>1 DEF AuditsOf
  <2> QED BY <2>1, <2>2 DEF IInv, Typed, PeopleInv, Fits
<1> QED BY <1>1, <1>2, <1>3 DEF Next

\* The inductive invariant holds of every run, for any constants the assumptions allow.
THEOREM Inductive == Spec => []IInv
BY Starts, Keeps, PTL DEF Spec

\* OneIdentity, for any number of subjects, requests and processes: two requests of one
\* subject never act as two principals (UowPrincipalResolver.resolve).
THEOREM IdentityIsOne == Spec => []OneIdentity
<1>1. IInv => OneIdentity
  BY DEF IInv, PeopleInv, OneIdentity
<1> QED BY Inductive, <1>1, PTL

\* AuditIsExact, for any constants: the audit has of each request what belongs to the answer
\* the application gave, also when the client was told that its body was too large instead,
\* and nothing was done that it does not have (record_security_audit,
\* _record_authorized_request, RequestBodyLimitMiddleware).
THEOREM AuditExact == Spec => []AuditIsExact
<1>1. ASSUME IInv
      PROVE  AnswersAreAudited
  <2>1. ASSUME NEW r \in Requests, told[r] # None
        PROVE  written[r] \in AuditsOf(r, IF told[r] = "too_large" THEN answer[r] ELSE told[r])
    <3>1. pc[r] = "told"
      BY <1>1, <2>1 DEF IInv, Fits
    <3> QED BY <1>1, <3>1 DEF IInv, Fits
  <2> QED BY <2>1 DEF AnswersAreAudited
<1>2. ASSUME IInv
      PROVE  EffectsAreAudited
  <2>1. \A r \in effect : who[r] # None /\ written[r] = Success
    BY <1>2 DEF IInv, Typed, Fits
  <2> QED BY <2>1 DEF EffectsAreAudited, Success
<1>3. IInv => AuditIsExact
  BY <1>1, <1>2 DEF AuditIsExact
<1> QED BY Inductive, <1>3, PTL
-----------------------------------------------------------------------------
(* The trust in a key *)

\* Entries that are trusted no longer than the time of a withdrawn key allows.
Trusted == {e \in [key : Keys, left : 0..Ttl] :
              e.key \in DOMAIN withdrawn /\ e.left > 0
                => withdrawn[e.key] + e.left <= Ttl + FetchTicks}

\* A cache holds such entries, and a key that was withdrawn under its fetch no longer ago.
KeyInv ==
    /\ DOMAIN withdrawn \subseteq Keys /\ \A k \in DOMAIN withdrawn : withdrawn[k] \in 0..Cap
    /\ cache \in [Processes -> Seq(Trusted)]
    /\ age \in [Requests -> 0..FetchTicks]
    /\ \A r \in Requests : pc[r] = "fetched" /\ ask[r].key \in DOMAIN withdrawn
                             => withdrawn[ask[r].key] <= age[r]

\* What stays of a cache without one key.
LEMMA WithoutIsTrusted ==
    ASSUME IInv, KeyInv, NEW r \in Requests
    PROVE  Entries(r) \in Seq(Trusted) /\ Without(r) \in Seq(Trusted)
<1>1. Entries(r) \in Seq(Trusted)
  BY DEF IInv, Typed, KeyInv, Entries
<1>2. CASE Cached(r) = {}
  BY <1>1, <1>2 DEF Without
<1>3. CASE Cached(r) # {}
  <2> DEFINE cut == CHOOSE i \in Cached(r) : TRUE
             front == SubSeq(Entries(r), 1, cut - 1)
             back == SubSeq(Entries(r), cut + 1, Len(Entries(r)))
  <2>1. cut \in 1..Len(Entries(r))
    BY <1>1, <1>3 DEF Cached
  <2>2. \A i \in 1..Len(Entries(r)) : Entries(r)[i] \in Trusted
    BY <1>1
  <2>3. /\ 1 \in Int /\ cut - 1 \in Int /\ cut + 1 \in Int /\ Len(Entries(r)) \in Int
        /\ \A i \in 1..(cut - 1) : Entries(r)[i] \in Trusted
        /\ \A i \in (cut + 1)..Len(Entries(r)) : Entries(r)[i] \in Trusted
    <3> HIDE DEF cut
    <3> QED BY <1>1, <2>1, <2>2
  <2>4. front \in Seq(Trusted) /\ back \in Seq(Trusted)
    <3> HIDE DEF cut
    <3>1. front \in Seq(Trusted)
      BY <2>3, SubSeqProperties, Zenon
    <3>2. back \in Seq(Trusted)
      BY <2>3, SubSeqProperties, Zenon
    <3> QED BY <3>1, <3>2
  <2>5. front \o back \in Seq(Trusted)
    BY <2>4
  <2> QED BY <1>1, <1>3, <2>5 DEF Without
<1> QED BY <1>1, <1>2, <1>3

\* A fetch that is over has no time any more.
AgeKept(r) == age' = age \/ age' = [age EXCEPT ![r] = 0]

\* The times stay times, and those of the others are what they were.
LEMMA AgesKept ==
    ASSUME KeyInv, NEW r \in Requests, AgeKept(r)
    PROVE  /\ age' \in [Requests -> 0..FetchTicks]
           /\ \A q \in Requests : q # r => age'[q] = age[q]
<1>1. age \in [Requests -> 0..FetchTicks] /\ 0 \in 0..FetchTicks
  BY IdentityAssumption DEF KeyInv
<1> QED BY <1>1 DEF AgeKept

\* A step of a request that may change the cache of its process, and no key's time.
LEMMA CacheKeeps ==
    ASSUME IInv, KeyInv, NEW r \in Requests, NEW entries \in Seq(Trusted),
           cache' = [cache EXCEPT ![ask[r].at] = entries], Decoded(r) \/ Go(r, "fetch"),
           UNCHANGED <<withdrawn, asked>>, AgeKept(r)
    PROVE  KeyInv'
<1>1. /\ cache' \in [Processes -> Seq(Trusted)] /\ Trusted' = Trusted
      /\ UNCHANGED <<withdrawn, ask>>
  BY DEF KeyInv, Trusted, IInv, Typed, asked
<1>2. \A q \in Requests : pc'[q] = "fetched" => q # r /\ pc[q] = "fetched"
  BY DEF Decoded, Go, IInv, Typed
<1> QED BY <1>1, <1>2, AgesKept DEF KeyInv, Cap

\* A used entry keeps the time it has left.
LEMMA LookupTrusts == ASSUME IInv, KeyInv, NEW r \in Requests, Lookup(r) PROVE KeyInv'
<1>1. Entries(r) \in Seq(Trusted) /\ Without(r) \in Seq(Trusted)
  BY WithoutIsTrusted
<1>2. UNCHANGED <<withdrawn, asked>> /\ AgeKept(r)
  BY DEF Lookup, AgeKept
<1>3. CASE Fresh(r) # {}
  <2>1. PICK i \in Fresh(r) :
          cache' = [cache EXCEPT ![ask[r].at] = Append(Without(r), Entries(r)[i])]
    BY <1>3 DEF Lookup
  <2>2. Entries(r)[i] \in Trusted
    BY <1>1 DEF Fresh, Cached
  <2>3. Append(Without(r), Entries(r)[i]) \in Seq(Trusted)
    BY <1>1, <2>2
  <2> QED BY <1>2, <1>3, <2>1, <2>3, CacheKeeps DEF Lookup
<1>4. CASE Fresh(r) = {}
  BY <1>1, <1>2, <1>4, CacheKeeps DEF Lookup
<1> QED BY <1>3, <1>4

\* A fetched key was withdrawn under its fetch at most, so that the whole time is not too long.
LEMMA PutTrusts == ASSUME IInv, KeyInv, NEW r \in Requests, Put(r) PROVE KeyInv'
<1> DEFINE entry == [key |-> ask[r].key, left |-> Ttl]
           entries == Append(Without(r), entry)
<1>1. /\ pc[r] = "fetched" /\ Decoded(r) /\ UNCHANGED <<withdrawn, asked>> /\ AgeKept(r)
      /\ cache' = [cache EXCEPT ![ask[r].at] =
                      IF Len(entries) > MaxEntries THEN Tail(entries) ELSE entries]
  BY DEF Put, At, Keep, AgeKept
<1>2. ask[r].key \in Keys /\ age[r] <= FetchTicks /\ age[r] \in Nat
  BY IdentityAssumption DEF IInv, Typed, KeyInv
<1>3. ask[r].key \in DOMAIN withdrawn =>
        withdrawn[ask[r].key] \in Nat /\ withdrawn[ask[r].key] + Ttl <= Ttl + FetchTicks
  BY <1>1, <1>2, IdentityAssumption DEF KeyInv, Cap
<1>4. entry \in Trusted
  BY <1>2, <1>3, IdentityAssumption DEF Trusted
<1>5. entries \in Seq(Trusted) /\ entries # << >>
  BY <1>4, WithoutIsTrusted, AppendProperties
<1>6. Tail(entries) \in Seq(Trusted)
  BY <1>5, HeadTailProperties
<1> HIDE DEF entries
<1> QED BY <1>1, <1>5, <1>6, CacheKeeps

\* A fetch finds only what is published; then nothing is said of the key.
LEMMA FetchTrusts == ASSUME IInv, KeyInv, NEW r \in Requests, Fetch(r) PROVE KeyInv'
<1>1. UNCHANGED <<withdrawn, cache, ask>> /\ AgeKept(r)
  BY DEF Fetch, asked, AgeKept
<1>2. \A q \in Requests : /\ q # r => pc'[q] = pc[q]
                          /\ pc'[r] = "fetched" => ask[r].key \in Published
  BY DEF Fetch, Go, IInv, Typed
<1>3. \A q \in Requests : pc'[q] = "fetched" /\ ask[q].key \in DOMAIN withdrawn
                            => q # r /\ pc[q] = "fetched"
  BY <1>2 DEF Published
<1> QED BY <1>1, <1>3, AgesKept DEF KeyInv, Trusted, Cap

\* What passes takes from an entry what it adds to the time since the withdrawal.
LEMMA TickTrusts == ASSUME IInv, KeyInv, Tick PROVE KeyInv'
<1>1. /\ UNCHANGED <<ask, pc>> /\ DOMAIN withdrawn' = DOMAIN withdrawn
      /\ \A k \in DOMAIN withdrawn :
            withdrawn'[k] = IF withdrawn[k] = Cap THEN Cap ELSE withdrawn[k] + 1
  BY DEF Tick, asked
<1>2. Cap \in Nat /\ Cap = Ttl + FetchTicks + 1 /\ Ttl \in Nat /\ FetchTicks \in Nat
  BY IdentityAssumption DEF Cap
<1>3. \A k \in DOMAIN withdrawn : /\ withdrawn[k] \in 0..Cap /\ withdrawn'[k] \in 0..Cap
                                  /\ withdrawn'[k] <= withdrawn[k] + 1
  BY <1>1, <1>2 DEF KeyInv
<1>4. ASSUME NEW e \in Trusted
      PROVE  [e EXCEPT !.left = Less(@)] \in Trusted'
  <2> DEFINE older == [e EXCEPT !.left = Less(@)]
  <2>1. e \in [key : Keys, left : 0..Ttl]
    BY DEF Trusted
  <2>2. /\ older \in [key : Keys, left : 0..Ttl] /\ older.key = e.key
        /\ older.left = IF e.left = 0 THEN 0 ELSE e.left - 1
    BY <1>2, <2>1 DEF Less
  <2>3. ASSUME older.key \in DOMAIN withdrawn', older.left > 0
        PROVE  withdrawn'[older.key] + older.left <= Ttl + FetchTicks
    <3>1. e.key \in DOMAIN withdrawn /\ e.left > 0 /\ older.left = e.left - 1
      BY <1>1, <2>1, <2>2, <2>3
    <3>2. withdrawn[e.key] + e.left <= Ttl + FetchTicks
      BY <3>1 DEF Trusted
    <3> QED BY <1>2, <1>3, <2>1, <2>2, <3>1, <3>2
  <2> HIDE DEF older
  <2> QED BY <2>2, <2>3 DEF Trusted, older
<1>5. cache' \in [Processes -> Seq(Trusted')]
  <2>1. ASSUME NEW p \in Processes
        PROVE  cache'[p] \in Seq(Trusted')
    <3>1. cache[p] \in Seq(Trusted)
      BY DEF KeyInv
    <3>2. cache'[p] = [i \in 1..Len(cache[p]) |-> [cache[p][i] EXCEPT !.left = Less(@)]]
      BY <3>1 DEF Tick
    <3>3. \A i \in 1..Len(cache[p]) : cache[p][i] \in Trusted
      BY <3>1
    <3>4. cache'[p] \in [1..Len(cache[p]) -> Trusted']
      BY <1>4, <3>2, <3>3
    <3>5. Len(cache[p]) \in Nat
      BY <3>1
    <3> QED BY <3>4, <3>5, SeqDef
  <2>2. cache' = [p \in Processes |-> cache'[p]]
    BY DEF Tick
  <2> QED BY <2>1, <2>2
<1>6. \A r \in Requests : /\ r \in Fetching => age'[r] = age[r] + 1
                          /\ age[r] \in 0..FetchTicks /\ age'[r] \in 0..FetchTicks
  BY <1>2 DEF Tick, KeyInv, Fetching
<1>7. age' \in [Requests -> 0..FetchTicks]
  BY <1>6 DEF Tick
<1>8. ASSUME NEW r \in Requests, pc'[r] = "fetched", ask'[r].key \in DOMAIN withdrawn'
      PROVE  withdrawn'[ask'[r].key] <= age'[r]
  <2>1. pc[r] = "fetched" /\ ask[r].key \in DOMAIN withdrawn /\ ask'[r] = ask[r]
    BY <1>1, <1>8
  <2>2. withdrawn[ask[r].key] <= age[r] /\ age'[r] = age[r] + 1
    BY <1>6, <2>1 DEF KeyInv, Fetching
  <2> QED BY <1>2, <1>3, <1>6, <2>1, <2>2
<1> QED BY <1>1, <1>3, <1>5, <1>7, <1>8 DEF KeyInv, Cap

\* A key that is withdrawn now has the whole of its time.
LEMMA WithdrawTrusts == ASSUME IInv, KeyInv, NEW k \in Keys, Withdraw(k) PROVE KeyInv'
<1>1. /\ UNCHANGED <<cache, age, ask, pc>> /\ DOMAIN withdrawn' = DOMAIN withdrawn \cup {k}
      /\ withdrawn'[k] = 0 /\ \A o \in DOMAIN withdrawn : o # k => withdrawn'[o] = withdrawn[o]
  BY DEF Withdraw, asked
<1>2. Cap \in Nat /\ Ttl \in Nat /\ FetchTicks \in Nat
  BY IdentityAssumption DEF Cap
<1>3. ASSUME NEW e \in Trusted
      PROVE  e \in Trusted'
  <2>1. e \in [key : Keys, left : 0..Ttl]
    BY DEF Trusted
  <2>2. CASE e.key = k
    BY <1>1, <1>2, <2>1, <2>2 DEF Trusted
  <2>3. CASE e.key # k
    BY <1>1, <2>1, <2>3 DEF Trusted
  <2> QED BY <2>2, <2>3
<1>4. cache' \in [Processes -> Seq(Trusted')]
  <2>1. \A s \in Seq(Trusted) : s \in Seq(Trusted')
    BY <1>3
  <2> QED BY <1>1, <2>1 DEF KeyInv
<1>5. ASSUME NEW r \in Requests, pc[r] = "fetched", ask[r].key \in DOMAIN withdrawn'
      PROVE  withdrawn'[ask[r].key] <= age[r]
  BY <1>1, <1>2, <1>5 DEF KeyInv
<1>6. \A o \in DOMAIN withdrawn' : o \in Keys /\ withdrawn'[o] \in 0..Cap
  BY <1>1, <1>2 DEF KeyInv
<1> QED BY <1>1, <1>4, <1>5, <1>6 DEF KeyInv, Cap

\* The other steps leave the keys alone, and no request behind its fetch.
LEMMA OthersTrust ==
    ASSUME IInv, KeyInv, UNCHANGED <<keysKnown, ask>>,
           \A q \in Requests : pc'[q] = "fetched" => pc[q] = "fetched"
    PROVE  KeyInv'
BY DEF KeyInv, Trusted, Cap, keysKnown

\* Such are those of a request once its token is verified, and its last.
LEMMA VerifiedTrusts ==
    ASSUME IInv, KeyInv, NEW r \in Requests, RequestStep(r), ~Lookup(r), ~Fetch(r), ~Put(r)
    PROVE  /\ KeyInv'
           /\ pc[r] \notin {"verify", "fetched"} \/ pc'[r] = "told"
           /\ \A q \in Requests \ {r} : pc'[q] = pc[q]
<1>1. UNCHANGED <<keysKnown, ask>>
  BY DEF RequestStep, Find, Insert, FindWinner, Refuse, TooLarge, ReadBody, InvalidBody, Busy,
         NotOwned, Route, Commit, Uncommitted, Fails, NotReady, asked
<1>2. \/ /\ pc[r] \notin {"verify", "fetched"}
         /\ \E p \in Known \cup {"insert", "winner", "disabled", "commit"} :
                pc' = [pc EXCEPT ![r] = p]
      \/ pc' = [pc EXCEPT ![r] = "told"]
  <2>1. CASE Find(r) \/ Insert(r) \/ FindWinner(r)
    BY <2>1 DEF Find, Insert, FindWinner, Resolved, Identified, Go, At, Known
  <2>2. CASE Refuse(r) \/ TooLarge(r) \/ InvalidBody(r) \/ NotOwned(r)
    BY <2>2 DEF Refuse, TooLarge, InvalidBody, NotOwned, Answer, Tell, Send
  <2>3. CASE Busy(r) \/ Commit(r) \/ Uncommitted(r)
    BY <2>3 DEF Busy, Commit, Uncommitted, Answer, Tell, Send
  <2>4. CASE Fails(r) \/ NotReady(r)
    BY <2>4 DEF Fails, NotReady, Unavailable, Answer, Tell, Send
  <2>5. CASE ReadBody(r) \/ Route(r)
    BY <2>5 DEF ReadBody, Route, Routed, Go, At, Known
  <2> QED BY <2>1, <2>2, <2>3, <2>4, <2>5 DEF RequestStep
<1>3. \A q \in Requests : /\ pc'[q] = "fetched" => pc[q] = "fetched"
                          /\ q # r => pc'[q] = pc[q]
  BY <1>2 DEF Known, IInv, Typed
<1>4. pc[r] \notin {"verify", "fetched"} \/ pc'[r] = "told"
  BY <1>2 DEF IInv, Typed
<1> QED BY <1>1, <1>3, <1>4, OthersTrust

LEMMA TrustKeeps == IInv /\ KeyInv /\ [Next]_vars => KeyInv'
<1> SUFFICES ASSUME IInv, KeyInv, [Next]_vars
             PROVE  KeyInv'
  OBVIOUS
<1>1. ASSUME NEW r \in Requests, RequestStep(r)
      PROVE  KeyInv'
  BY <1>1, LookupTrusts, FetchTrusts, PutTrusts, VerifiedTrusts
<1>2. CASE Tick \/ \E k \in Keys : Withdraw(k)
  BY <1>2, TickTrusts, WithdrawTrusts
<1>3. CASE (\E s \in Subjects : SetActive(s)) \/ UNCHANGED vars
  <2>1. UNCHANGED <<keysKnown, ask, pc>>
    BY <1>3 DEF SetActive, vars, keysKnown, asked
  <2> QED BY <2>1, OthersTrust
<1> QED BY <1>1, <1>2, <1>3 DEF Next

\* At the start no key is withdrawn and no cache holds one.
LEMMA TrustStarts == Init => KeyInv
<1> SUFFICES ASSUME Init
             PROVE  KeyInv
  OBVIOUS
<1>1. DOMAIN withdrawn = {}
  BY DEF Init
<1>2. << >> \in Seq(Trusted)
  OBVIOUS
<1>3. \A r \in Requests : pc[r] # "fetched"
  BY DEF Init
<1> QED BY <1>1, <1>2, <1>3, IdentityAssumption DEF Init, KeyInv

\* A request that goes on with a key has it from an entry with time left, or from a fetch.
LEMMA TrustInTime ==
    ASSUME IInv, KeyInv, NEW r \in Requests, Lookup(r) \/ Put(r), pc'[r] = "principal",
           ask[r].key \notin Published
    PROVE  withdrawn[ask[r].key] <= Ttl + FetchTicks
<1>1. /\ ask[r].key \in DOMAIN withdrawn /\ withdrawn[ask[r].key] \in Nat
      /\ Ttl \in Nat /\ FetchTicks \in Nat
  BY IdentityAssumption DEF Published, IInv, Typed, KeyInv, Cap
<1>2. CASE Lookup(r)
  <2>1. Fresh(r) # {}
    BY <1>2 DEF Lookup, Go, IInv, Typed
  <2>2. PICK i \in Fresh(r) : TRUE
    BY <2>1
  <2>3. Entries(r)[i] \in Trusted /\ Entries(r)[i].key = ask[r].key /\ Entries(r)[i].left > 0
    BY WithoutIsTrusted DEF Fresh, Cached
  <2>4. Entries(r)[i].left \in Nat /\ withdrawn[ask[r].key] + Entries(r)[i].left <= Ttl + FetchTicks
    BY <1>1, <2>3 DEF Trusted
  <2> QED BY <1>1, <2>4
<1>3. CASE Put(r)
  <2>1. withdrawn[ask[r].key] <= age[r] /\ age[r] \in 0..FetchTicks
    BY <1>1, <1>3 DEF Put, At, KeyInv
  <2> QED BY <1>1, <2>1
<1> QED BY <1>2, <1>3

\* A step of a request moves no other.
LEMMA OnlyOneMoves ==
    ASSUME IInv, KeyInv, NEW q \in Requests, RequestStep(q), NEW r \in Requests \ {q}
    PROVE  pc'[r] = pc[r]
<1>1. CASE Lookup(q) \/ Fetch(q) \/ Put(q)
  BY <1>1 DEF Lookup, Fetch, Put, Decoded, Go, IInv, Typed
<1> QED BY <1>1, VerifiedTrusts

\* KeyTrustEnds, for any caches, keys, processes and times: a withdrawn key is trusted no
\* longer than a cache entry and the fetch that filled it take (_SigningKeyCache).
THEOREM TrustEnds == Spec => KeyTrustEnds
<1>1. ASSUME IInv, KeyInv, [Next]_vars, NEW r \in Requests, pc[r] \in {"verify", "fetched"},
             pc'[r] = "principal"
      PROVE  ask[r].key \in Published \/ withdrawn[ask[r].key] <= Ttl + FetchTicks
  <2>1. CASE \E q \in Requests : RequestStep(q)
    <3>1. PICK q \in Requests : RequestStep(q)
      BY <2>1
    <3>2. CASE q # r
      BY <1>1, <3>1, <3>2, OnlyOneMoves
    <3>3. CASE q = r
      <4>1. ~Fetch(r)
        BY <1>1 DEF Fetch, Go, At, IInv, Typed
      <4> QED BY <1>1, <3>1, <3>3, <4>1, VerifiedTrusts, TrustInTime
    <3> QED BY <3>2, <3>3
  <2>2. CASE ~\E q \in Requests : RequestStep(q)
    <3>1. UNCHANGED pc
      BY <1>1, <2>2 DEF Next, Tick, Withdraw, SetActive, vars
    <3> QED BY <1>1, <3>1
  <2> QED BY <2>1, <2>2
<1>2. IInv /\ KeyInv /\ [Next]_vars =>
        [\A r \in Requests : pc[r] \in {"verify", "fetched"} /\ pc'[r] = "principal"
            => ask[r].key \in Published \/ withdrawn[ask[r].key] <= Ttl + FetchTicks]_vars
  BY <1>1
<1>3. Spec => []KeyInv
  BY Inductive, TrustStarts, TrustKeeps, PTL DEF Spec
<1> QED BY Inductive, <1>2, <1>3, PTL DEF Spec, KeyTrustEnds
=============================================================================
