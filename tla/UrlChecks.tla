----------------------------- MODULE UrlChecks -----------------------------
(*************************************************************************)
(* Checks of URL evidence: the calls of the tool, one executor per open   *)
(* conversation, the fetches they hand to a bounded pool of threads, and  *)
(* the fetcher and the pool that the whole process shares through the     *)
(* registry of providers. A caller polls its fetch until an answer, an    *)
(* interrupt, the close of its executor or its deadline; the fetch stops  *)
(* by itself, at its next look at the interrupt event.                    *)
(*                                                                        *)
(* What a site answers, and how long anything takes, is open; an answer   *)
(* of the tool is one way of ending, whatever its error code.             *)
(*************************************************************************)
EXTENDS Naturals, Sequences, FiniteSets

CONSTANTS
    Executors,    \* open conversations: each has an executor of its own
    Calls,        \* calls of the tool
    Owner,        \* the executor each call belongs to
    MaxInFlight,  \* fetches a pool admits: running and pending
    MaxWorkers,   \* threads of a pool
    MaxRedirects, \* redirects a fetch follows
    MaxPools      \* bound: pools the process creates

ASSUME UrlAssumption ==
    /\ Owner \in [Calls -> Executors] /\ IsFiniteSet(Calls)
    /\ MaxInFlight \in Nat \ {0} /\ MaxWorkers \in Nat \ {0}
    /\ MaxRedirects \in Nat /\ MaxPools \in Nat \ {0}

NoPool == 0
Nothing == "nothing"

VARIABLES
    client,   \* the HTTP client of the fetcher: none, open, closed
    fetcher,  \* whether the registry names a fetcher
    provided, \* the pool the registry names, or NoPool
    closing,  \* the pool a release of the providers still has to close, or NoPool
    pools,    \* the pools created: closed, capacity left
    shut,     \* executors whose close() has set _closed
    signals,  \* per executor: calls that close() or interrupt() has yet to signal
    event,    \* calls whose interrupt event is set
    pc,       \* per call: where its caller is
    mine,     \* per call: the pool it looked up, or NoPool
    holding,  \* calls whose fetch holds capacity of that pool
    future,   \* per call: none, queued, running, finished, failed, cancelled
    work,     \* per call: the operation its fetch is at, or nothing
    begun,    \* calls whose fetch looked at its event and began that operation
    hops      \* per call: redirects followed

named == <<client, fetcher, provided, closing>>
providers == <<named, pools>>
stopping == <<shut, signals>>
fetches == <<future, work, begun, hops>>
urlVars == <<providers, stopping, event, pc, mine, holding, fetches>>

Steps == {"idle", "evidence", "fetcher", "pool", "recheck", "submit", "waiting", "done"}
Operations == {"resolve", "send", "read"}
Own(x) == {c \in Calls : Owner[c] = x}
\* _active_calls of an executor: submitted, and not yet collected.
Active(x) == {c \in Own(x) : pc[c] = "waiting"}
Ended(c) == future[c] \in {"finished", "failed", "cancelled"}

UrlInit ==
    /\ client = "none" /\ fetcher = FALSE /\ provided = NoPool
    /\ closing = NoPool /\ pools = << >>
    /\ shut = {} /\ signals = [x \in Executors |-> {}]
    /\ event = {} /\ holding = {} /\ begun = {}
    /\ pc = [c \in Calls |-> "idle"] /\ mine = [c \in Calls |-> NoPool]
    /\ future = [c \in Calls |-> "none"]
    /\ work = [c \in Calls |-> Nothing] /\ hops = [c \in Calls |-> 0]
-----------------------------------------------------------------------------
(* The caller: one call of the tool *)

Go(c, step) == pc' = [pc EXCEPT ![c] = step]
Answer(c) == Go(c, "done")
GoUnlessShut(c, step) ==
    IF Owner[c] \in shut THEN Answer(c) ELSE Go(c, step)

Call(c) ==
    /\ pc[c] = "idle" /\ GoUnlessShut(c, "evidence")
    /\ UNCHANGED <<providers, stopping, event, mine, holding, fetches>>

ReadEvidence(c) ==
    /\ pc[c] = "evidence"
    /\ Go(c, "fetcher") \/ Answer(c)    \* it may be missing, no URL evidence, or hold none
    /\ UNCHANGED <<providers, stopping, event, mine, holding, fetches>>

\* With no fetcher configured the registry raises, and nothing here catches it.
GetFetcher(c) ==
    /\ pc[c] = "fetcher"
    /\ IF fetcher THEN Go(c, "pool") ELSE Answer(c)
    /\ UNCHANGED <<providers, stopping, event, mine, holding, fetches>>

NewPool == [closed |-> FALSE, free |-> MaxInFlight]
\* A pool that is not there is created and registered.
GetPool(c) ==
    /\ pc[c] = "pool" /\ Go(c, "recheck")
    /\ IF provided # NoPool
       THEN UNCHANGED <<provided, pools>>
       ELSE /\ Len(pools) < MaxPools
            /\ pools' = Append(pools, NewPool) /\ provided' = Len(pools')
    /\ mine' = [mine EXCEPT ![c] = provided']
    /\ UNCHANGED <<client, fetcher, closing, stopping, event, holding, fetches>>

Recheck(c) ==
    /\ pc[c] = "recheck" /\ GoUnlessShut(c, "submit")
    /\ UNCHANGED <<providers, stopping, event, mine, holding, fetches>>

Queue(c) ==
    /\ Go(c, "waiting")
    /\ future' = [future EXCEPT ![c] = "queued"]
    /\ holding' = holding \cup {c}
    /\ pools' = [pools EXCEPT ![mine[c]].free = @ - 1]
    /\ UNCHANGED event
Refuse(c) == Answer(c) /\ UNCHANGED <<pools, event, holding, future>>

SubmitUnchecked(c) ==                                                 \* mutant
    /\ pc[c] = "submit"
    /\ IF pools[mine[c]].free = 0 THEN Refuse(c)
       ELSE IF pools[mine[c]].closed THEN Refuse(c)
       ELSE Queue(c)
    /\ UNCHANGED <<named, stopping, mine, work, begun, hops>>
SubmitKeepsCapacity(c) ==                                             \* mutant
    /\ pc[c] = "submit"
    /\ IF Owner[c] \in shut THEN Refuse(c)
       ELSE IF pools[mine[c]].free = 0 THEN Refuse(c)
       ELSE IF pools[mine[c]].closed
            THEN /\ Answer(c)
                 /\ pools' = [pools EXCEPT ![mine[c]].free = @ - 1]
                 /\ UNCHANGED <<event, holding, future>>
       ELSE Queue(c)
    /\ UNCHANGED <<named, stopping, mine, work, begun, hops>>
\* Under the executor's lock: capacity is taken first, and given back to a closed pool.
Submit(c) ==
    /\ pc[c] = "submit"
    /\ IF Owner[c] \in shut
       THEN /\ Answer(c) /\ event' = event \cup {c}
            /\ UNCHANGED <<pools, holding, future>>
       ELSE IF pools[mine[c]].free = 0 THEN Refuse(c)
       ELSE IF pools[mine[c]].closed THEN Refuse(c)
       ELSE Queue(c)
    /\ UNCHANGED <<named, stopping, mine, work, begun, hops>>

\* Future.cancel(): only a fetch that no thread has taken.
Cancelled(cs) == [c \in Calls |-> IF c \in cs /\ future[c] = "queued"
                                  THEN "cancelled" ELSE future[c]]

GiveUpInterrupted(c) ==                                               \* mutant
    /\ pc[c] = "waiting" /\ c \in event /\ Answer(c)
    /\ future' = Cancelled({c})
    /\ UNCHANGED <<providers, stopping, event, mine, holding, work, begun, hops>>
\* One turn of the poll: the event, the conversation's token or the deadline ends the
\* call, whatever the fetch has come to.
GiveUp(c) ==
    /\ pc[c] = "waiting" /\ Answer(c)
    /\ event' = event \cup {c} /\ future' = Cancelled({c})
    /\ UNCHANGED <<providers, stopping, mine, holding, work, begun, hops>>

Collect(c) ==
    /\ pc[c] = "waiting" /\ Ended(c) /\ Answer(c)
    /\ UNCHANGED <<providers, stopping, event, mine, holding, fetches>>

CallGoesOn(c) ==
    \/ ReadEvidence(c) \/ GetFetcher(c) \/ GetPool(c) \/ Recheck(c)
    \/ Submit(c) \/ GiveUp(c) \/ Collect(c)
-----------------------------------------------------------------------------
(* The pool: threads that run fetches, and the capacity they give back *)

Running(p) == {c \in Calls : mine[c] = p /\ future[c] = "running"}

Start(c) ==
    /\ future[c] = "queued" /\ Cardinality(Running(mine[c])) < MaxWorkers
    /\ future' = [future EXCEPT ![c] = "running"]
    /\ work' = [work EXCEPT ![c] = "resolve"]
    /\ UNCHANGED <<providers, stopping, event, pc, mine, holding, begun, hops>>

\* The callback of a future that is done, which runs after its waiters are woken.
Release(c) ==
    /\ c \in holding /\ Ended(c)
    /\ holding' = holding \ {c}
    /\ pools' = [pools EXCEPT ![mine[c]].free = @ + 1]
    /\ UNCHANGED <<named, stopping, event, pc, mine, fetches>>

FetchEnds(c, state) ==
    /\ future' = [future EXCEPT ![c] = state]
    /\ work' = [work EXCEPT ![c] = Nothing] /\ begun' = begun \ {c}
    /\ hops' = [hops EXCEPT ![c] = 0]
FetchFails(c) == FetchEnds(c, "failed")
FetchGoesOn(c, operation) ==
    /\ work' = [work EXCEPT ![c] = operation] /\ begun' = begun \ {c}
    /\ UNCHANGED future

\* The look before each operation: the event is set, or the deadline has passed.
Look(c) ==
    /\ future[c] = "running" /\ c \notin begun
    /\ \/ /\ c \notin event
          /\ begun' = begun \cup {c} /\ UNCHANGED <<future, work, hops>>
       \/ FetchFails(c)
    /\ UNCHANGED <<providers, stopping, event, pc, mine, holding>>

\* Resolving the host has no timeout of its own: it may never end.
Resolve(c) ==
    /\ work[c] = "resolve" /\ c \in begun
    /\ \/ FetchFails(c)
       \/ FetchGoesOn(c, "send") /\ UNCHANGED hops
    /\ UNCHANGED <<providers, stopping, event, pc, mine, holding>>

\* A client that was closed raises; a redirect without a target, or one too many, fails.
Send(c) ==
    /\ work[c] = "send" /\ c \in begun
    /\ \/ FetchFails(c)
       \/ client = "open" /\ FetchGoesOn(c, "read") /\ UNCHANGED hops
       \/ /\ client = "open" /\ hops[c] < MaxRedirects
          /\ FetchGoesOn(c, "resolve") /\ hops' = [hops EXCEPT ![c] = @ + 1]
    /\ UNCHANGED <<providers, stopping, event, pc, mine, holding>>

Read(c) ==
    /\ work[c] = "read" /\ c \in begun
    /\ FetchEnds(c, "finished") \/ FetchFails(c)
    /\ UNCHANGED <<providers, stopping, event, pc, mine, holding>>

Fetch(c) == Start(c) \/ Look(c) \/ Resolve(c) \/ Send(c) \/ Read(c) \/ Release(c)
-----------------------------------------------------------------------------
(* Interrupts, closes and the providers of the process *)

\* interrupt() reads the calls under the lock. The token its conversation cancels too is
\* one more reason to give up, which a caller may do at any turn here.
InterruptExecutor(x) ==
    /\ signals' = [signals EXCEPT ![x] = @ \cup Active(x)]
    /\ UNCHANGED <<providers, shut, event, pc, mine, holding, fetches>>

CloseSharedPool(x) ==                                                 \* mutant
    /\ x \notin shut /\ shut' = shut \cup {x}
    /\ signals' = [signals EXCEPT ![x] = @ \cup Active(x)]
    /\ pools' = [p \in DOMAIN pools |-> [pools[p] EXCEPT !.closed = TRUE]]
    /\ UNCHANGED <<named, event, pc, mine, holding, fetches>>
CloseExecutor(x) ==
    /\ x \notin shut /\ shut' = shut \cup {x}
    /\ signals' = [signals EXCEPT ![x] = @ \cup Active(x)]
    /\ UNCHANGED <<providers, event, pc, mine, holding, fetches>>

\* The calls read under the lock are signalled after it, one at a time.
Signal(x) ==
    \E c \in signals[x] :
        /\ signals' = [signals EXCEPT ![x] = @ \ {c}]
        /\ event' = event \cup {c} /\ future' = Cancelled({c})
        /\ UNCHANGED <<providers, shut, pc, mine, holding, work, begun, hops>>

\* The factory of conversations: a client, a fetcher that uses it, a pool.
Provide ==
    /\ client' = "open" /\ fetcher' = TRUE
    /\ pools' = Append(pools, NewPool) /\ provided' = Len(pools')
    /\ UNCHANGED <<closing, stopping, event, pc, mine, holding, fetches>>

\* release_repository_provider: from here no provider is named; what was is closed after.
Withdraw ==
    /\ fetcher' = FALSE /\ provided' = NoPool /\ closing' = provided
    /\ UNCHANGED <<client, pools, stopping, event, pc, mine, holding, fetches>>
CloseClient ==
    /\ client' = IF client = "open" THEN "closed" ELSE client
    /\ UNCHANGED <<fetcher, provided, closing, pools, stopping, event, pc, mine, holding, fetches>>
\* shutdown(wait=False, cancel_futures=True): what runs goes on, what waits is cancelled.
ClosePool ==
    /\ pools' = IF closing = NoPool THEN pools ELSE [pools EXCEPT ![closing].closed = TRUE]
    /\ future' = Cancelled({c \in Calls : closing # NoPool /\ mine[c] = closing})
    /\ UNCHANGED <<named, stopping, event, pc, mine, holding, work, begun, hops>>
-----------------------------------------------------------------------------
(* Properties *)

UrlTypeOK ==
    /\ client \in {"none", "open", "closed"} /\ fetcher \in BOOLEAN
    /\ pools \in Seq([closed : BOOLEAN, free : 0..MaxInFlight])
    /\ {provided, closing} \subseteq {NoPool} \cup DOMAIN pools
    /\ shut \subseteq Executors /\ signals \in [Executors -> SUBSET Calls]
    /\ event \subseteq Calls
    /\ holding \subseteq Calls /\ begun \subseteq Calls
    /\ pc \in [Calls -> Steps] /\ mine \in [Calls -> {NoPool} \cup DOMAIN pools]
    /\ future \in [Calls -> {"none", "queued", "running", "finished", "failed", "cancelled"}]
    /\ work \in [Calls -> Operations \cup {Nothing}] /\ hops \in [Calls -> 0..MaxRedirects]

\* The capacity a pool has left and the fetches that hold some of it make up its limit,
\* through refusals, cancellations, interrupts and closes: nothing is lost and nothing
\* is given back twice (BoundedUrlExecutionPool.submit, _release_capacity).
CapacityAddsUp ==
    \A p \in DOMAIN pools :
        pools[p].free + Cardinality({c \in holding : mine[c] = p}) = MaxInFlight

\* Once close() of an executor has returned, none of its fetches begins another network
\* operation, also one that was being submitted at that moment.
ClosedFetchesStop ==
    [][\A c \in Calls : c \in begun' \ begun
          => ~(Owner[c] \in shut /\ signals[Owner[c]] = {})]_urlVars
=============================================================================
