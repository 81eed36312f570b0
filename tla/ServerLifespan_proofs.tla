------------------------ MODULE ServerLifespan_proofs ------------------------
(*************************************************************************)
(* The server keeps its types, offers only what it can back, leaves       *)
(* nothing open behind its shutdown, and its checks of URLs neither lose  *)
(* capacity nor fetch for a closed conversation, for any conversations,   *)
(* calls, limits and environments.                                        *)
(*                                                                        *)
(* The argument about the checks: a call has its pool before it submits,  *)
(* and holds capacity of that pool only from then on, so every change of  *)
(* what is free goes with a change of who holds it; and a fetch that is   *)
(* still alive under a closed executor is signalled or about to be.       *)
(* About the server: what each step of the start set up is there once the *)
(* step is behind it, and what each step of the shutdown closed stays     *)
(* closed, because no check opens or closes anything that is shared.      *)
(*************************************************************************)
EXTENDS ServerLifespan, FiniteSetTheorems, SequenceTheorems, TLAPS

Live(c) == future[c] \in {"queued", "running"}

\* A call holds capacity from its submission on, of the pool it looked up before; a
\* fetch that is alive has a caller that waits or has told it to stop.
CallOK(c) ==
    /\ c \in holding => pc[c] \in {"waiting", "done"} /\ mine[c] # NoPool
    /\ pc[c] \in {"recheck", "submit"} => mine[c] # NoPool
    /\ Live(c) => pc[c] \in {"waiting", "done"}
    /\ Live(c) /\ pc[c] = "done" => c \in event
    /\ Live(c) /\ Owner[c] \in shut => c \in event \cup signals[Owner[c]]
UrlInv == UrlTypeOK /\ CapacityAddsUp /\ \A c \in Calls : CallOK(c)

\* The steps of the start that are behind the server.
Behind(step) == (phase = "serving" /\ readiness = "none") \/ (phase = "starting" /\ at > step)
Backed == client = "open" /\ fetcher /\ provided # NoPool /\ ~pools[provided].closed

\* What a step set up is there.
EngineIsOn == Behind(2) => engine = "open"
VerifierIsOn == Behind(5) => verifier = (config.identity = "oidc")
ManagerIsOn == Behind(7) => manager = "open" /\ Backed
SlotsAreOn ==
    Behind(8) /\ config.speech => slots /\ tasks = "open" /\ sweeper \in {"made", "running"}
SweeperIsOn == Behind(9) /\ config.speech => sweeper = "running"
GateIsOn == Behind(10) => gate = config.speech

\* And it was not there before.
NotBefore == phase = "starting" => /\ at <= 5 => ~verifier
                                   /\ at <= 7 => manager = "none"
                                   /\ at <= 10 => ~gate
GateStands ==
    gate /\ phase \in {"starting", "serving"} => slots /\ sweeper = "running" /\ tasks = "open"

StartInv == /\ EngineIsOn /\ VerifierIsOn /\ ManagerIsOn /\ SlotsAreOn
            /\ SweeperIsOn /\ GateIsOn /\ NotBefore /\ GateStands

\* The steps of the cleaning part of the shutdown that are behind it.
Cleaned(step) == phase = "stopped" \/ (phase = "cleaning" /\ at > step)

StopInv ==
    /\ phase \in {"stopping", "cleaning"} => at \in 1..5
    /\ phase = "stopping" /\ at > 1 => ~gate
    /\ phase \in {"cleaning", "stopped"} => ~gate
    /\ Cleaned(1) => ~verifier
    /\ Cleaned(2) => ~fetcher
    /\ Cleaned(3) => client # "open"
    /\ Cleaned(4) /\ closing # NoPool => pools[closing].closed
    /\ phase = "stopped" => engine # "open"

IInv == TypeOK /\ UrlInv /\ StartInv /\ StopInv
-----------------------------------------------------------------------------
(* Pools, and who holds their capacity *)

Pool == [closed : BOOLEAN, free : 0..MaxInFlight]

LEMMA Owners == \A c \in Calls : Owner[c] \in Executors
BY UrlAssumption

LEMMA NewPoolTyped == NewPool \in Pool /\ NewPool.free = MaxInFlight /\ NewPool.closed = FALSE
BY UrlAssumption DEF NewPool, Pool

\* A pool that is appended leaves the others as they are.
LEMMA PoolAppended ==
    ASSUME pools \in Seq(Pool), pools' = Append(pools, NewPool)
    PROVE  /\ pools' \in Seq(Pool) /\ Len(pools') = Len(pools) + 1
           /\ DOMAIN pools' = DOMAIN pools \cup {Len(pools')}
           /\ Len(pools') \notin DOMAIN pools /\ Len(pools') # NoPool
           /\ pools'[Len(pools')] = NewPool
           /\ \A p \in DOMAIN pools : pools'[p] = pools[p]
<1>1. NewPool \in Pool
  BY NewPoolTyped
<1>2. /\ pools' \in Seq(Pool) /\ Len(pools') = Len(pools) + 1
      /\ \A p \in 1..Len(pools) : pools'[p] = pools[p]
      /\ pools'[Len(pools) + 1] = NewPool
  BY <1>1, AppendProperties
<1>3. /\ Len(pools) \in Nat /\ DOMAIN pools = 1..Len(pools)
      /\ DOMAIN pools' = 1..(Len(pools) + 1)
  BY <1>2
<1> QED BY <1>2, <1>3 DEF NoPool

\* A change of one field of one pool leaves the rest.
LEMMA PoolChanged ==
    ASSUME pools \in Seq(Pool), NEW p \in DOMAIN pools, NEW n \in 0..MaxInFlight,
           pools' = [pools EXCEPT ![p].free = n]
    PROVE  /\ pools' \in Seq(Pool) /\ DOMAIN pools' = DOMAIN pools
           /\ pools'[p].free = n /\ pools'[p].closed = pools[p].closed
           /\ \A q \in DOMAIN pools \ {p} : pools'[q] = pools[q]
<1>1. pools[p] \in Pool /\ Len(pools) \in Nat /\ DOMAIN pools = 1..Len(pools)
  BY ElementOfSeq
<1>2. [pools[p] EXCEPT !.free = n] \in Pool
  BY <1>1 DEF Pool
<1>3. pools' = [pools EXCEPT ![p] = [pools[p] EXCEPT !.free = n]]
  OBVIOUS
<1>4. pools' \in Seq(Pool)
  BY <1>2, <1>3, ExceptSeq
<1>5. /\ DOMAIN pools' = DOMAIN pools /\ pools'[p] = [pools[p] EXCEPT !.free = n]
      /\ \A q \in DOMAIN pools \ {p} : pools'[q] = pools[q]
  BY <1>3
<1> QED BY <1>1, <1>4, <1>5 DEF Pool

Holders(p) == {c \in holding : mine[c] = p}

LEMMA HoldersFinite ==
    ASSUME UrlTypeOK, NEW p
    PROVE  IsFiniteSet(Holders(p)) /\ Cardinality(Holders(p)) \in Nat
<1>1. Holders(p) \subseteq Calls
  BY DEF Holders, UrlTypeOK
<1>2. IsFiniteSet(Holders(p))
  BY <1>1, UrlAssumption, FS_Subset
<1> QED BY <1>2, FS_CardinalityType

\* Who takes one takes it from what is free.
LEMMA Takes ==
    ASSUME UrlTypeOK, CapacityAddsUp, NEW c \in Calls \ holding, mine[c] # NoPool,
           pools[mine[c]].free # 0,
           holding' = holding \cup {c}, mine' = mine,
           pools' = [pools EXCEPT ![mine[c]].free = @ - 1]
    PROVE  /\ pools' \in Seq(Pool) /\ DOMAIN pools' = DOMAIN pools
           /\ \A p \in DOMAIN pools : pools'[p].closed = pools[p].closed
           /\ CapacityAddsUp'
<1> DEFINE p == mine[c]
           n == pools[p].free - 1
<1>1. pools \in Seq(Pool) /\ p \in DOMAIN pools
  BY DEF UrlTypeOK, Pool
<1>2. pools[p].free \in 0..MaxInFlight /\ n \in 0..MaxInFlight
  <2>1. pools[p] \in Pool
    BY <1>1, ElementOfSeq
  <2> QED BY <2>1, UrlAssumption DEF Pool
<1>3. pools' = [pools EXCEPT ![p].free = n]
  OBVIOUS
<1> HIDE DEF n
<1>4. /\ pools' \in Seq(Pool) /\ DOMAIN pools' = DOMAIN pools
      /\ pools'[p].free = n /\ pools'[p].closed = pools[p].closed
      /\ \A q \in DOMAIN pools \ {p} : pools'[q] = pools[q]
  BY <1>1, <1>2, <1>3, PoolChanged
<1>5. ASSUME NEW q \in DOMAIN pools
      PROVE  pools'[q].free + Cardinality(Holders(q)') = MaxInFlight
  <2>1. /\ IsFiniteSet(Holders(q)) /\ Cardinality(Holders(q)) \in Nat
        /\ pools[q].free + Cardinality(Holders(q)) = MaxInFlight
    BY HoldersFinite DEF CapacityAddsUp, Holders
  <2>2. CASE q # p
    <3>1. Holders(q)' = Holders(q)
      BY <2>2 DEF Holders
    <3> QED BY <1>4, <2>1, <2>2, <3>1
  <2>3. CASE q = p
    <3>1. Holders(q)' = Holders(q) \cup {c} /\ c \notin Holders(q)
      BY <2>3 DEF Holders
    <3>2. Cardinality(Holders(q)') = Cardinality(Holders(q)) + 1
      BY <2>1, <3>1, FS_AddElement
    <3>3. pools'[q].free = pools[q].free - 1 /\ pools[q].free \in Int
      BY <1>2, <1>4, <2>3 DEF n
    <3> QED BY ONLY <2>1, <3>2, <3>3
  <2> QED BY <2>2, <2>3
<1>6. CapacityAddsUp'
  BY <1>4, <1>5 DEF CapacityAddsUp, Holders
<1>7. \A q \in DOMAIN pools : pools'[q].closed = pools[q].closed
  BY <1>4
<1> QED BY <1>4, <1>6, <1>7

\* Who gives it back gives it to the same pool.
LEMMA GivesBack ==
    ASSUME UrlTypeOK, CapacityAddsUp, NEW c \in holding, mine[c] # NoPool,
           holding' = holding \ {c}, mine' = mine,
           pools' = [pools EXCEPT ![mine[c]].free = @ + 1]
    PROVE  /\ pools' \in Seq(Pool) /\ DOMAIN pools' = DOMAIN pools
           /\ \A p \in DOMAIN pools : pools'[p].closed = pools[p].closed
           /\ CapacityAddsUp'
<1> DEFINE p == mine[c]
           n == pools[p].free + 1
<1>1. pools \in Seq(Pool) /\ p \in DOMAIN pools
  BY DEF UrlTypeOK, Pool
<1>2. pools[p].free \in 0..MaxInFlight
  <2>1. pools[p] \in Pool
    BY <1>1, ElementOfSeq
  <2> QED BY <2>1 DEF Pool
<1>3. c \in Holders(p) /\ IsFiniteSet(Holders(p)) /\ Cardinality(Holders(p)) \in Nat
  BY HoldersFinite DEF Holders
<1>4. Cardinality(Holders(p) \ {c}) = Cardinality(Holders(p)) - 1
  BY <1>3, FS_RemoveElement
<1>5. IsFiniteSet(Holders(p) \ {c}) /\ Cardinality(Holders(p) \ {c}) \in Nat
  BY <1>3, FS_RemoveElement, FS_CardinalityType
<1>6. pools[p].free + Cardinality(Holders(p)) = MaxInFlight
  BY <1>1 DEF CapacityAddsUp, Holders
<1>7. n \in 0..MaxInFlight
  BY <1>2, <1>3, <1>4, <1>5, <1>6, UrlAssumption
<1>8. pools' = [pools EXCEPT ![p].free = n]
  OBVIOUS
<1> HIDE DEF n
<1>9. /\ pools' \in Seq(Pool) /\ DOMAIN pools' = DOMAIN pools
      /\ pools'[p].free = n /\ pools'[p].closed = pools[p].closed
      /\ \A q \in DOMAIN pools \ {p} : pools'[q] = pools[q]
  BY <1>1, <1>7, <1>8, PoolChanged
<1>10. ASSUME NEW q \in DOMAIN pools
       PROVE  pools'[q].free + Cardinality(Holders(q)') = MaxInFlight
  <2>1. pools[q].free + Cardinality(Holders(q)) = MaxInFlight
    BY DEF CapacityAddsUp, Holders
  <2>2. CASE q # p
    <3>1. Holders(q)' = Holders(q)
      BY <2>2 DEF Holders
    <3> QED BY <1>9, <2>1, <2>2, <3>1
  <2>3. CASE q = p
    <3>1. Holders(q)' = Holders(q) \ {c}
      BY <2>3 DEF Holders
    <3>2. Cardinality(Holders(q)') = Cardinality(Holders(q)) - 1
      BY <1>4, <2>3, <3>1
    <3>3. pools'[q].free = pools[q].free + 1 /\ pools[q].free \in Int
      BY <1>2, <1>9, <2>3 DEF n
    <3>4. Cardinality(Holders(q)) \in Int
      BY <1>3, <2>3
    <3> QED BY ONLY <2>1, <3>2, <3>3, <3>4
  <2> QED BY <2>2, <2>3
<1>11. CapacityAddsUp'
  BY <1>9, <1>10 DEF CapacityAddsUp, Holders
<1>12. \A q \in DOMAIN pools : pools'[q].closed = pools[q].closed
  BY <1>9
<1> QED BY <1>9, <1>11, <1>12

\* Nothing else touches it: pools may be added, with nobody in them, or closed.
LEMMA CapacityKept ==
    ASSUME UrlTypeOK, CapacityAddsUp, holding' = holding,
           \A c \in holding : mine'[c] = mine[c] /\ mine[c] # NoPool,
           DOMAIN pools \subseteq DOMAIN pools',
           \A p \in DOMAIN pools : pools'[p].free = pools[p].free,
           \A p \in DOMAIN pools' \ DOMAIN pools : pools'[p].free = MaxInFlight
    PROVE  CapacityAddsUp'
<1>1. ASSUME NEW p \in DOMAIN pools'
      PROVE  pools'[p].free + Cardinality(Holders(p)') = MaxInFlight
  <2>1. Holders(p)' = Holders(p)
    BY DEF Holders
  <2>2. CASE p \in DOMAIN pools
    BY <2>1, <2>2 DEF CapacityAddsUp, Holders
  <2>3. CASE p \notin DOMAIN pools
    <3>1. Holders(p) = {}
      BY <2>3 DEF Holders, UrlTypeOK
    <3>2. pools'[p].free = MaxInFlight /\ Cardinality({}) = 0
      BY <2>3, FS_EmptySet
    <3> QED BY <2>1, <3>1, <3>2, UrlAssumption
  <2> QED BY <2>2, <2>3
<1> QED BY <1>1 DEF CapacityAddsUp, Holders
-----------------------------------------------------------------------------
(* The calls *)

\* A step that moves no caller keeps what holds of the calls.
LEMMA CallsKept ==
    ASSUME \A c \in Calls : CallOK(c), UNCHANGED <<pc, mine, holding>>, event \subseteq event',
           \A c \in Calls : Live(c)' => Live(c),
           \A c \in Calls : Live(c) /\ Owner[c] \in shut' => c \in event' \cup signals'[Owner[c]]
    PROVE  \A c \in Calls : CallOK(c)'
<1> SUFFICES ASSUME NEW c \in Calls
             PROVE  CallOK(c)'
  OBVIOUS
<1>1. CallOK(c) /\ (Live(c)' => Live(c))
  OBVIOUS
<1>2. /\ c \in holding' => pc'[c] \in {"waiting", "done"} /\ mine'[c] # NoPool
      /\ pc'[c] \in {"recheck", "submit"} => mine'[c] # NoPool
  BY <1>1 DEF CallOK
<1>3. /\ Live(c)' => pc'[c] \in {"waiting", "done"}
      /\ Live(c)' /\ pc'[c] = "done" => c \in event'
  BY <1>1 DEF CallOK
<1>4. Live(c)' /\ Owner[c] \in shut' => c \in event' \cup signals'[Owner[c]]
  BY <1>1
<1> QED BY <1>2, <1>3, <1>4 DEF CallOK

\* A caller goes on whose fetch does not: it has none, or is done with it.
LEMMA CallerMoves ==
    ASSUME \A q \in Calls : CallOK(q), pc \in [Calls -> Steps], NEW c \in Calls, NEW p \in Steps,
           pc' = [pc EXCEPT ![c] = p], UNCHANGED <<shut, signals, event, holding, future>>,
           \A q \in Calls \ {c} : mine'[q] = mine[q],
           ~Live(c), c \in holding => p = "done" /\ mine'[c] = mine[c],
           p \in {"recheck", "submit"} => mine'[c] # NoPool
    PROVE  \A q \in Calls : CallOK(q)'
<1>1. pc'[c] = p /\ \A q \in Calls \ {c} : pc'[q] = pc[q]
  OBVIOUS
<1>2. \A q \in Calls : Live(q)' <=> Live(q)
  BY DEF Live
<1>3. CallOK(c)'
  <2>1. CallOK(c) /\ ~Live(c)'
    BY <1>2
  <2> QED BY <1>1, <2>1 DEF CallOK
<1>4. ASSUME NEW q \in Calls \ {c}
      PROVE  CallOK(q)'
  <2>1. CallOK(q) /\ (Live(q)' <=> Live(q)) /\ pc'[q] = pc[q] /\ mine'[q] = mine[q]
    BY <1>1, <1>2
  <2> QED BY <2>1 DEF CallOK
<1> QED BY <1>3, <1>4

LEMMA CallerKeeps ==
    ASSUME UrlInv, NEW c \in Calls, NEW p \in Steps, pc' = [pc EXCEPT ![c] = p],
           UNCHANGED <<providers, stopping, event, mine, holding, fetches>>,
           ~Live(c), c \in holding => p = "done",
           p \in {"recheck", "submit"} => mine[c] # NoPool
    PROVE  UrlInv'
<1>1. UrlTypeOK /\ CapacityAddsUp /\ (\A q \in Calls : CallOK(q)) /\ pc \in [Calls -> Steps]
  BY DEF UrlInv, UrlTypeOK
<1>2. /\ UNCHANGED <<client, fetcher, provided, closing, pools, shut, signals, event, mine, holding>>
      /\ UNCHANGED <<future, work, begun, hops>>
  BY DEF providers, named, stopping, fetches
<1>3. UrlTypeOK'
  BY <1>1, <1>2 DEF UrlTypeOK
<1>4. CapacityAddsUp'
  BY <1>1, <1>2 DEF CapacityAddsUp
<1>5. \A q \in Calls : CallOK(q)'
  BY <1>1, <1>2, CallerMoves
<1> QED BY <1>3, <1>4, <1>5 DEF UrlInv

\* A call reads its evidence, asks for the fetcher, looks whether it is closed, collects.
LEMMA CallerSteps ==
    ASSUME UrlInv, NEW c \in Calls,
           Call(c) \/ ReadEvidence(c) \/ GetFetcher(c) \/ Recheck(c) \/ Collect(c)
    PROVE  UrlInv'
<1>1. CallOK(c) /\ {"evidence", "fetcher", "pool", "submit", "done"} \subseteq Steps
  BY DEF UrlInv, Steps
<1>2. CASE Call(c) \/ ReadEvidence(c) \/ GetFetcher(c) \/ Recheck(c)
  <2>1. PICK p \in {"evidence", "fetcher", "pool", "submit", "done"} : pc' = [pc EXCEPT ![c] = p]
    BY <1>2 DEF Call, ReadEvidence, GetFetcher, Recheck, GoUnlessShut, Go, Answer
  <2>2. /\ UNCHANGED <<providers, stopping, event, mine, holding, fetches>>
        /\ pc[c] \in {"idle", "evidence", "fetcher", "recheck"}
        /\ p = "submit" => pc[c] = "recheck"
    <3>1. CASE Recheck(c)
      BY <3>1 DEF Recheck
    <3>2. CASE Call(c) \/ ReadEvidence(c) \/ GetFetcher(c)
      <4>1. /\ UNCHANGED <<providers, stopping, event, mine, holding, fetches>>
            /\ pc[c] \in {"idle", "evidence", "fetcher"}
        BY <3>2 DEF Call, ReadEvidence, GetFetcher
      <4>2. \E r \in {"evidence", "fetcher", "pool", "done"} : pc' = [pc EXCEPT ![c] = r]
        BY <3>2 DEF Call, ReadEvidence, GetFetcher, GoUnlessShut, Go, Answer
      <4>3. p # "submit"
        <5>1. pc'[c] = p /\ pc'[c] \in {"evidence", "fetcher", "pool", "done"}
          BY <2>1, <4>2 DEF UrlInv, UrlTypeOK
        <5> QED BY <5>1
      <4> QED BY <4>1, <4>3
    <3> QED BY <1>2, <3>1, <3>2
  <2>3. ~Live(c) /\ c \notin holding /\ (p = "submit" => mine[c] # NoPool)
    BY <1>1, <2>2 DEF CallOK
  <2>4. p \in Steps /\ p # "recheck"
    BY <1>1
  <2> QED BY <2>1, <2>2, <2>3, <2>4, CallerKeeps
<1>3. CASE Collect(c)
  <2>1. /\ pc' = [pc EXCEPT ![c] = "done"]
        /\ UNCHANGED <<providers, stopping, event, mine, holding, fetches>>
    BY <1>3 DEF Collect, Answer, Go
  <2>2. ~Live(c)
    BY <1>3 DEF Collect, Ended, Live
  <2> QED BY <1>1, <2>1, <2>2, CallerKeeps
<1> QED BY <1>2, <1>3

\* The pool that is looked up is there, or made.
LEMMA GetPoolKeeps ==
    ASSUME UrlInv, NEW c \in Calls, GetPool(c)
    PROVE  UrlInv'
<1>1. /\ UrlTypeOK /\ CapacityAddsUp /\ (\A q \in Calls : CallOK(q))
      /\ pc \in [Calls -> Steps] /\ "recheck" \in Steps
      /\ pools \in Seq(Pool) /\ mine \in [Calls -> {NoPool} \cup DOMAIN pools]
  BY DEF UrlInv, UrlTypeOK, Pool, Steps
<1>2. /\ pc[c] = "pool" /\ pc' = [pc EXCEPT ![c] = "recheck"]
      /\ mine' = [mine EXCEPT ![c] = provided']
      /\ UNCHANGED <<client, fetcher, closing, shut, signals, event, holding>>
      /\ UNCHANGED <<future, work, begun, hops>>
  BY DEF GetPool, Go, stopping, fetches
<1>3. ~Live(c) /\ c \notin holding
  BY <1>1, <1>2 DEF CallOK
<1>4. /\ pools' \in Seq(Pool) /\ provided' \in DOMAIN pools' /\ provided' # NoPool
      /\ DOMAIN pools \subseteq DOMAIN pools'
      /\ \A p \in DOMAIN pools : pools'[p] = pools[p]
      /\ \A p \in DOMAIN pools' \ DOMAIN pools : pools'[p].free = MaxInFlight
  <2>1. CASE provided # NoPool
    <3>1. pools' = pools /\ provided' = provided /\ provided \in DOMAIN pools
      BY <1>1, <2>1 DEF GetPool, UrlTypeOK
    <3> QED BY <1>1, <2>1, <3>1
  <2>2. CASE provided = NoPool
    <3>1. pools' = Append(pools, NewPool) /\ provided' = Len(pools')
      BY <2>2 DEF GetPool
    <3> QED BY <1>1, <3>1, PoolAppended, NewPoolTyped
  <2> QED BY <2>1, <2>2
<1>5. mine'[c] = provided' /\ \A q \in Calls \ {c} : mine'[q] = mine[q]
  BY <1>1, <1>2
<1>6. mine' \in [Calls -> {NoPool} \cup DOMAIN pools']
  BY <1>1, <1>2, <1>4
<1>7. UrlTypeOK'
  <2>1. {provided', closing'} \subseteq {NoPool} \cup DOMAIN pools'
    BY <1>1, <1>2, <1>4 DEF UrlTypeOK
  <2>2. pc' \in [Calls -> Steps]
    BY <1>1, <1>2
  <2> QED BY <1>1, <1>2, <1>4, <1>6, <2>1, <2>2 DEF UrlTypeOK, Pool
<1>8. CapacityAddsUp'
  <2>1. \A q \in holding : mine'[q] = mine[q] /\ mine[q] # NoPool
    BY <1>1, <1>3, <1>5 DEF CallOK, UrlTypeOK
  <2> QED BY <1>1, <1>2, <1>4, <2>1, CapacityKept
<1>9. \A q \in Calls : CallOK(q)'
  BY <1>1, <1>2, <1>3, <1>4, <1>5, CallerMoves
<1> QED BY <1>7, <1>8, <1>9 DEF UrlInv

\* A fetch is handed to the pool, or refused; a closed executor's is stopped at once.
LEMMA SubmitKeeps ==
    ASSUME UrlInv, NEW c \in Calls, Submit(c)
    PROVE  UrlInv'
<1>1. /\ UrlTypeOK /\ CapacityAddsUp /\ (\A q \in Calls : CallOK(q))
      /\ pc \in [Calls -> Steps] /\ {"waiting", "done"} \subseteq Steps
      /\ pools \in Seq(Pool) /\ mine \in [Calls -> {NoPool} \cup DOMAIN pools]
      /\ Owner[c] \in Executors
  BY Owners DEF UrlInv, UrlTypeOK, Pool, Steps
<1>2. /\ pc[c] = "submit"
      /\ UNCHANGED <<client, fetcher, provided, closing, shut, signals, mine, work, begun, hops>>
  BY DEF Submit, named, stopping
<1>3. ~Live(c) /\ c \notin holding /\ mine[c] # NoPool /\ mine[c] \in DOMAIN pools
  BY <1>1, <1>2 DEF CallOK
<1>4. CASE pc' = [pc EXCEPT ![c] = "done"] /\ UNCHANGED <<pools, holding, future>> /\ event \subseteq event'
           /\ event' \subseteq event \cup {c}
  <2>1. UrlTypeOK'
    <3>1. event' \subseteq Calls /\ pc' \in [Calls -> Steps]
      BY <1>1, <1>4 DEF UrlTypeOK
    <3> QED BY <1>1, <1>2, <1>4, <3>1 DEF UrlTypeOK
  <2>2. CapacityAddsUp'
    BY <1>1, <1>2, <1>4 DEF CapacityAddsUp
  <2>3. \A q \in Calls : CallOK(q)'
    <3>1. pc'[c] = "done" /\ \A q \in Calls \ {c} : pc'[q] = pc[q]
      BY <1>1, <1>4
    <3>2. \A q \in Calls : Live(q)' <=> Live(q)
      BY <1>4 DEF Live
    <3>3. ASSUME NEW q \in Calls \ {c} PROVE CallOK(q)'
      <4>1. CallOK(q) /\ (Live(q)' <=> Live(q)) /\ pc'[q] = pc[q]
        BY <1>1, <3>1, <3>2
      <4> QED BY <1>2, <1>4, <4>1 DEF CallOK
    <3>4. CallOK(c)'
      BY <1>2, <1>3, <1>4, <3>1, <3>2 DEF CallOK
    <3> QED BY <3>3, <3>4
  <2> QED BY <2>1, <2>2, <2>3 DEF UrlInv
<1>5. CASE Owner[c] \notin shut /\ pools[mine[c]].free # 0 /\ Queue(c)
  <2>1. /\ pc' = [pc EXCEPT ![c] = "waiting"] /\ future' = [future EXCEPT ![c] = "queued"]
        /\ holding' = holding \cup {c} /\ event' = event
        /\ pools' = [pools EXCEPT ![mine[c]].free = @ - 1]
    BY <1>5 DEF Queue, Go
  <2>2. pools' \in Seq(Pool) /\ DOMAIN pools' = DOMAIN pools /\ CapacityAddsUp'
    BY <1>1, <1>2, <1>3, <1>5, <2>1, Takes
  <2>3. UrlTypeOK'
    <3>1. /\ future' \in [Calls -> {"none", "queued", "running", "finished", "failed", "cancelled"}]
          /\ pc' \in [Calls -> Steps] /\ holding' \subseteq Calls
      BY <1>1, <2>1 DEF UrlTypeOK
    <3> QED BY <1>1, <1>2, <2>1, <2>2, <3>1 DEF UrlTypeOK, Pool
  <2>4. \A q \in Calls : CallOK(q)'
    <3>1. /\ pc'[c] = "waiting"
          /\ \A q \in Calls \ {c} : pc'[q] = pc[q] /\ future'[q] = future[q]
      BY <1>1, <2>1 DEF UrlTypeOK
    <3>2. CallOK(c)'
      BY <1>2, <1>3, <1>5, <3>1 DEF CallOK
    <3>3. ASSUME NEW q \in Calls \ {c} PROVE CallOK(q)'
      <4>1. CallOK(q) /\ (Live(q)' <=> Live(q)) /\ pc'[q] = pc[q] /\ (q \in holding' <=> q \in holding)
        BY <1>1, <2>1, <3>1 DEF Live
      <4> QED BY <1>2, <2>1, <4>1 DEF CallOK
    <3> QED BY <3>2, <3>3
  <2> QED BY <2>2, <2>3, <2>4 DEF UrlInv
<1>6. (Owner[c] \notin shut /\ pools[mine[c]].free # 0 /\ Queue(c))
      \/ (pc' = [pc EXCEPT ![c] = "done"] /\ UNCHANGED <<pools, holding, future>> /\ event \subseteq event'
           /\ event' \subseteq event \cup {c})
  BY DEF Submit, Refuse, Answer, Go
<1> QED BY <1>4, <1>5, <1>6

\* A fetch that goes on, ends or is cancelled leaves callers and capacity alone.
LEMMA FetchKeeps ==
    ASSUME UrlInv, UNCHANGED <<client, fetcher, provided, closing, pools, shut, signals, pc, mine, holding>>,
           event \subseteq event', event' \subseteq Calls, begun' \subseteq Calls,
           future' \in [Calls -> {"none", "queued", "running", "finished", "failed", "cancelled"}],
           work' \in [Calls -> Operations \cup {Nothing}], hops' \in [Calls -> 0..MaxRedirects],
           \A c \in Calls : Live(c)' => Live(c)
    PROVE  UrlInv'
<1>1. UrlTypeOK /\ CapacityAddsUp /\ (\A q \in Calls : CallOK(q))
  BY DEF UrlInv
<1>2. UrlTypeOK'
  BY <1>1 DEF UrlTypeOK
<1>3. CapacityAddsUp'
  BY <1>1 DEF CapacityAddsUp
<1>4. \A c \in Calls : Live(c) /\ Owner[c] \in shut' => c \in event' \cup signals'[Owner[c]]
  BY <1>1 DEF CallOK
<1>5. \A q \in Calls : CallOK(q)'
  BY <1>1, <1>4, CallsKept
<1> QED BY <1>2, <1>3, <1>5 DEF UrlInv

LEMMA CancelTypes ==
    ASSUME UrlTypeOK, NEW cs
    PROVE  /\ Cancelled(cs) \in [Calls -> {"none", "queued", "running", "finished", "failed", "cancelled"}]
           /\ \A c \in Calls : Cancelled(cs)[c] \in {"queued", "running"} => Live(c)
           /\ \A c \in Calls : c \in cs => Cancelled(cs)[c] # "queued"
BY DEF UrlTypeOK, Cancelled, Live

\* A caller that gives up tells its fetch to stop.
LEMMA GiveUpKeeps ==
    ASSUME UrlInv, NEW c \in Calls, GiveUp(c)
    PROVE  UrlInv'
<1>1. /\ UrlTypeOK /\ CapacityAddsUp /\ (\A q \in Calls : CallOK(q))
      /\ pc \in [Calls -> Steps] /\ "done" \in Steps
  BY DEF UrlInv, UrlTypeOK, Steps
<1>2. /\ pc[c] = "waiting" /\ pc' = [pc EXCEPT ![c] = "done"]
      /\ event' = event \cup {c} /\ future' = Cancelled({c})
      /\ UNCHANGED <<client, fetcher, provided, closing, pools, shut, signals, mine, holding>>
      /\ UNCHANGED <<work, begun, hops>>
  BY DEF GiveUp, Answer, Go, providers, named, stopping
<1>3. /\ future' \in [Calls -> {"none", "queued", "running", "finished", "failed", "cancelled"}]
      /\ \A q \in Calls : Live(q)' => Live(q)
  BY <1>1, <1>2, CancelTypes DEF Live
<1>4. UrlTypeOK'
  <2>1. pc' \in [Calls -> Steps] /\ event' \subseteq Calls
    BY <1>1, <1>2 DEF UrlTypeOK
  <2> QED BY <1>1, <1>2, <1>3, <2>1 DEF UrlTypeOK
<1>5. CapacityAddsUp'
  BY <1>1, <1>2 DEF CapacityAddsUp
<1>6. pc'[c] = "done" /\ \A q \in Calls \ {c} : pc'[q] = pc[q]
  BY <1>1, <1>2
<1>7. CallOK(c)'
  <2>1. c \in event' /\ (c \in holding => mine[c] # NoPool)
    BY <1>1, <1>2 DEF CallOK
  <2> QED BY <1>2, <1>6, <2>1 DEF CallOK
<1>8. ASSUME NEW q \in Calls \ {c}
      PROVE  CallOK(q)'
  <2>1. CallOK(q) /\ (Live(q)' => Live(q)) /\ pc'[q] = pc[q]
    BY <1>1, <1>3, <1>6
  <2> QED BY <1>2, <2>1 DEF CallOK
<1> QED BY <1>4, <1>5, <1>7, <1>8 DEF UrlInv

\* A thread takes a fetch, and the fetch looks, resolves, sends and reads.
LEMMA FetchSteps ==
    ASSUME UrlInv, NEW c \in Calls, Start(c) \/ Look(c) \/ Resolve(c) \/ Send(c) \/ Read(c)
    PROVE  UrlInv'
<1> DEFINE states == {"none", "queued", "running", "finished", "failed", "cancelled"}
<1>1. /\ event \subseteq Calls /\ begun \subseteq Calls /\ future \in [Calls -> states]
      /\ work \in [Calls -> Operations \cup {Nothing}] /\ hops \in [Calls -> 0..MaxRedirects]
      /\ {"resolve", "send", "read"} \subseteq Operations
      /\ MaxRedirects \in Nat
  BY UrlAssumption DEF UrlInv, UrlTypeOK, Operations
<1>2. UNCHANGED <<client, fetcher, provided, closing, pools, shut, signals, event, pc, mine, holding>>
  BY DEF Start, Look, Resolve, Send, Read, providers, named, stopping
<1>3. ASSUME NEW state \in {"finished", "failed"}, FetchEnds(c, state)
      PROVE  /\ begun' \subseteq Calls /\ future' \in [Calls -> states]
             /\ work' \in [Calls -> Operations \cup {Nothing}] /\ hops' \in [Calls -> 0..MaxRedirects]
             /\ \A q \in Calls : Live(q)' => Live(q)
  <2>1. /\ future' = [future EXCEPT ![c] = state] /\ begun' = begun \ {c}
        /\ work' = [work EXCEPT ![c] = Nothing] /\ hops' = [hops EXCEPT ![c] = 0]
    BY <1>3 DEF FetchEnds
  <2>2. \A q \in Calls : future'[q] = future[q] \/ future'[q] = state
    BY <1>1, <2>1
  <2>3. \A q \in Calls : Live(q)' => Live(q)
    BY <2>2 DEF Live
  <2> QED BY <1>1, <2>1, <2>3
<1>4. ASSUME NEW op \in Operations, FetchGoesOn(c, op),
             hops' = hops \/ (hops[c] < MaxRedirects /\ hops' = [hops EXCEPT ![c] = @ + 1])
      PROVE  /\ begun' \subseteq Calls /\ future' \in [Calls -> states]
             /\ work' \in [Calls -> Operations \cup {Nothing}] /\ hops' \in [Calls -> 0..MaxRedirects]
             /\ \A q \in Calls : Live(q)' => Live(q)
  <2>1. work' = [work EXCEPT ![c] = op] /\ begun' = begun \ {c} /\ future' = future
    BY <1>4 DEF FetchGoesOn
  <2>2. hops' \in [Calls -> 0..MaxRedirects]
    BY <1>1, <1>4
  <2> QED BY <1>1, <2>1, <2>2 DEF Live
<1>5. CASE Start(c)
  <2>1. /\ future[c] = "queued" /\ future' = [future EXCEPT ![c] = "running"]
        /\ work' = [work EXCEPT ![c] = "resolve"] /\ UNCHANGED <<begun, hops>>
    BY <1>5 DEF Start
  <2>2. \A q \in Calls : future'[q] = future[q] \/ q = c
    BY <1>1, <2>1
  <2>3. \A q \in Calls : Live(q)' => Live(q)
    BY <2>1, <2>2 DEF Live
  <2>4. future' \in [Calls -> states] /\ work' \in [Calls -> Operations \cup {Nothing}]
    BY <1>1, <2>1
  <2> QED BY <1>1, <1>2, <2>1, <2>3, <2>4, FetchKeeps
<1>6. CASE Look(c)
  <2>1. \/ begun' = begun \cup {c} /\ UNCHANGED <<future, work, hops>>
        \/ FetchEnds(c, "failed")
    BY <1>6 DEF Look, FetchFails
  <2>2. CASE begun' = begun \cup {c} /\ UNCHANGED <<future, work, hops>>
    BY <1>1, <1>2, <2>2, FetchKeeps DEF Live
  <2>3. CASE FetchEnds(c, "failed")
    BY <1>1, <1>2, <1>3, <2>3, FetchKeeps
  <2> QED BY <2>1, <2>2, <2>3
<1>7. CASE Resolve(c) \/ Send(c) \/ Read(c)
  <2>1. CASE \E state \in {"finished", "failed"} : FetchEnds(c, state)
    BY <1>1, <1>2, <1>3, <2>1, FetchKeeps
  <2>2. CASE \E op \in Operations : FetchGoesOn(c, op) /\
               (hops' = hops \/ (hops[c] < MaxRedirects /\ hops' = [hops EXCEPT ![c] = @ + 1]))
    BY <1>1, <1>2, <1>4, <2>2, FetchKeeps
  <2>3. CASE Resolve(c)
    BY <1>1, <2>1, <2>2, <2>3 DEF Resolve, FetchFails
  <2>4. CASE Send(c)
    BY <1>1, <2>1, <2>2, <2>4 DEF Send, FetchFails
  <2>5. CASE Read(c)
    BY <2>1, <2>5 DEF Read, FetchFails
  <2> QED BY <1>7, <2>3, <2>4, <2>5
<1> QED BY <1>5, <1>6, <1>7

\* The callback of a fetch that is done gives its capacity back.
LEMMA ReleaseKeeps ==
    ASSUME UrlInv, NEW c \in Calls, Release(c)
    PROVE  UrlInv'
<1>1. /\ UrlTypeOK /\ CapacityAddsUp /\ (\A q \in Calls : CallOK(q))
      /\ mine \in [Calls -> {NoPool} \cup DOMAIN pools]
  BY DEF UrlInv, UrlTypeOK
<1>2. /\ c \in holding /\ holding' = holding \ {c}
      /\ pools' = [pools EXCEPT ![mine[c]].free = @ + 1]
      /\ UNCHANGED <<client, fetcher, provided, closing, shut, signals, event, pc, mine>>
      /\ UNCHANGED <<future, work, begun, hops>>
  BY DEF Release, named, stopping, fetches
<1>3. pools' \in Seq(Pool) /\ DOMAIN pools' = DOMAIN pools /\ CapacityAddsUp'
  <2>1. mine[c] # NoPool
    BY <1>1, <1>2 DEF CallOK
  <2> QED BY <1>1, <1>2, <2>1, GivesBack
<1>4. UrlTypeOK'
  BY <1>1, <1>2, <1>3 DEF UrlTypeOK, Pool
<1>5. \A q \in Calls : CallOK(q)'
  BY <1>1, <1>2 DEF CallOK, Live
<1> QED BY <1>3, <1>4, <1>5 DEF UrlInv

\* An interrupt or a close of an executor is to signal every call of it that waits.
LEMMA ExecutorSteps ==
    ASSUME UrlInv, NEW x \in Executors, InterruptExecutor(x) \/ CloseExecutor(x) \/ Signal(x)
    PROVE  UrlInv'
<1>1. /\ UrlTypeOK /\ CapacityAddsUp /\ (\A q \in Calls : CallOK(q))
      /\ signals \in [Executors -> SUBSET Calls] /\ Active(x) \subseteq Calls
  BY DEF UrlInv, UrlTypeOK, Active, Own
<1>2. UNCHANGED <<client, fetcher, provided, closing, pools, pc, mine, holding, work, begun, hops>>
  BY DEF InterruptExecutor, CloseExecutor, Signal, providers, named, fetches
<1>3. CASE InterruptExecutor(x) \/ CloseExecutor(x)
  <2>1. /\ signals' = [signals EXCEPT ![x] = @ \cup Active(x)] /\ UNCHANGED <<event, future>>
        /\ shut' \in {shut, shut \cup {x}}
        /\ shut' # shut => x \notin shut /\ shut' = shut \cup {x}
    BY <1>3 DEF InterruptExecutor, CloseExecutor, fetches
  <2>2. /\ signals' \in [Executors -> SUBSET Calls] /\ shut' \subseteq Executors
        /\ signals'[x] = signals[x] \cup Active(x)
        /\ \A y \in Executors : signals[y] \subseteq signals'[y]
    BY <1>1, <2>1 DEF UrlTypeOK
  <2>3. ASSUME NEW c \in Calls, Live(c), Owner[c] \in shut'
        PROVE  c \in event' \cup signals'[Owner[c]]
    <3>1. CallOK(c) /\ Owner[c] \in Executors
      BY <1>1, Owners
    <3>2. CASE Owner[c] \in shut
      BY <2>1, <2>2, <2>3, <3>1, <3>2 DEF CallOK
    <3>3. CASE Owner[c] \notin shut
      <4>1. Owner[c] = x /\ pc[c] \in {"waiting", "done"} /\ (pc[c] = "done" => c \in event)
        BY <2>1, <2>3, <3>1, <3>3 DEF CallOK
      <4>2. pc[c] = "waiting" => c \in Active(x)
        BY <4>1 DEF Active, Own
      <4> QED BY <2>1, <2>2, <4>1, <4>2
    <3> QED BY <3>2, <3>3
  <2>4. UrlTypeOK'
    BY <1>1, <1>2, <2>1, <2>2 DEF UrlTypeOK
  <2>5. CapacityAddsUp'
    BY <1>1, <1>2 DEF CapacityAddsUp
  <2>6. \A c \in Calls : CallOK(c)'
    BY <1>1, <1>2, <2>1, <2>3, CallsKept DEF Live
  <2> QED BY <2>4, <2>5, <2>6 DEF UrlInv
<1>4. CASE Signal(x)
  <2>1. PICK c \in signals[x] :
          /\ signals' = [signals EXCEPT ![x] = @ \ {c}] /\ shut' = shut
          /\ event' = event \cup {c} /\ future' = Cancelled({c})
    BY <1>4 DEF Signal
  <2>2. c \in Calls
    BY <1>1
  <2>3. /\ signals' \in [Executors -> SUBSET Calls] /\ event' \subseteq Calls
        /\ \A y \in Executors : signals[y] \subseteq signals'[y] \cup {c}
    BY <1>1, <2>1, <2>2 DEF UrlTypeOK
  <2>4. /\ future' \in [Calls -> {"none", "queued", "running", "finished", "failed", "cancelled"}]
        /\ \A q \in Calls : Live(q)' => Live(q)
    BY <1>1, <2>1, CancelTypes DEF Live
  <2>5. ASSUME NEW q \in Calls, Live(q), Owner[q] \in shut'
        PROVE  q \in event' \cup signals'[Owner[q]]
    <3>1. q \in event \cup signals[Owner[q]] /\ Owner[q] \in Executors
      BY <1>1, <2>1, <2>5, Owners DEF CallOK
    <3> QED BY <2>1, <2>3, <3>1
  <2>6. UrlTypeOK'
    BY <1>1, <1>2, <2>1, <2>3, <2>4 DEF UrlTypeOK
  <2>7. CapacityAddsUp'
    BY <1>1, <1>2 DEF CapacityAddsUp
  <2>8. \A q \in Calls : CallOK(q)'
    BY <1>1, <1>2, <2>1, <2>4, <2>5, CallsKept
  <2> QED BY <2>6, <2>7, <2>8 DEF UrlInv
<1> QED BY <1>3, <1>4

\* What is shared is made and closed; a pool that closes cancels what waits in it.
LEMMA ProviderSteps ==
    ASSUME UrlInv, Provide \/ Withdraw \/ CloseClient \/ ClosePool
    PROVE  UrlInv'
<1>1. /\ UrlTypeOK /\ CapacityAddsUp /\ (\A q \in Calls : CallOK(q)) /\ pools \in Seq(Pool)
      /\ {provided, closing} \subseteq {NoPool} \cup DOMAIN pools
  BY DEF UrlInv, UrlTypeOK, Pool
<1>2. UNCHANGED <<shut, signals, event, pc, mine, holding, work, begun, hops>>
  BY DEF Provide, Withdraw, CloseClient, ClosePool, stopping, fetches
<1>3. /\ client' \in {"none", "open", "closed"} /\ fetcher' \in BOOLEAN
      /\ pools' \in Seq(Pool) /\ DOMAIN pools \subseteq DOMAIN pools'
      /\ {provided', closing'} \subseteq {NoPool} \cup DOMAIN pools'
      /\ \A p \in DOMAIN pools : pools'[p].free = pools[p].free
      /\ \A p \in DOMAIN pools' \ DOMAIN pools : pools'[p].free = MaxInFlight
  <2>1. CASE Provide
    <3>1. /\ client' = "open" /\ fetcher' = TRUE /\ closing' = closing
          /\ pools' = Append(pools, NewPool) /\ provided' = Len(pools')
      BY <2>1 DEF Provide
    <3> QED BY <1>1, <3>1, PoolAppended, NewPoolTyped
  <2>2. CASE Withdraw
    BY <1>1, <2>2 DEF Withdraw, UrlTypeOK
  <2>3. CASE CloseClient
    BY <1>1, <2>3 DEF CloseClient, UrlTypeOK
  <2>4. CASE ClosePool
    <3>1. /\ pools' = IF closing = NoPool THEN pools ELSE [pools EXCEPT ![closing].closed = TRUE]
          /\ UNCHANGED <<client, fetcher, provided, closing>>
      BY <2>4 DEF ClosePool, named
    <3>2. CASE closing = NoPool
      BY <1>1, <3>1, <3>2 DEF UrlTypeOK
    <3>3. CASE closing # NoPool
      <4>1. pools[closing] \in Pool /\ closing \in DOMAIN pools
        BY <1>1, <3>3, ElementOfSeq
      <4>2. /\ [pools[closing] EXCEPT !.closed = TRUE] \in Pool
            /\ [pools[closing] EXCEPT !.closed = TRUE].free = pools[closing].free
        BY <4>1 DEF Pool
      <4>3. pools' = [pools EXCEPT ![closing] = [pools[closing] EXCEPT !.closed = TRUE]]
        BY <3>1, <3>3
      <4>4. pools' \in Seq(Pool)
        BY <1>1, <4>1, <4>2, <4>3, ExceptSeq
      <4>5. DOMAIN pools' = DOMAIN pools /\ \A p \in DOMAIN pools : pools'[p].free = pools[p].free
        BY <4>1, <4>2, <4>3
      <4> QED BY <1>1, <3>1, <4>4, <4>5 DEF UrlTypeOK
    <3> QED BY <3>2, <3>3
  <2> QED BY <2>1, <2>2, <2>3, <2>4
<1>4. /\ future' \in [Calls -> {"none", "queued", "running", "finished", "failed", "cancelled"}]
      /\ \A q \in Calls : Live(q)' => Live(q)
  <2>1. CASE ClosePool
    BY <1>1, <2>1, CancelTypes DEF ClosePool, Live
  <2>2. CASE Provide \/ Withdraw \/ CloseClient
    BY <1>1, <2>2 DEF Provide, Withdraw, CloseClient, fetches, Live, UrlTypeOK
  <2> QED BY <2>1, <2>2
<1>5. UrlTypeOK'
  BY <1>1, <1>2, <1>3, <1>4 DEF UrlTypeOK, Pool
<1>6. CapacityAddsUp'
  <2>1. \A q \in holding : mine[q] # NoPool
    BY <1>1 DEF CallOK, UrlTypeOK
  <2> QED BY <1>1, <1>2, <1>3, <2>1, CapacityKept
<1>7. \A q \in Calls : CallOK(q)'
  <2>1. \A c \in Calls : Live(c) /\ Owner[c] \in shut' => c \in event' \cup signals'[Owner[c]]
    BY <1>1, <1>2 DEF CallOK
  <2> QED BY <1>1, <1>2, <1>4, <2>1, CallsKept
<1> QED BY <1>5, <1>6, <1>7 DEF UrlInv

\* All of it together.
CheckStep == \/ \E c \in Calls : Call(c) \/ CallGoesOn(c) \/ Fetch(c)
             \/ \E x \in Executors : InterruptExecutor(x) \/ CloseExecutor(x) \/ Signal(x)

LEMMA UrlSteps ==
    ASSUME UrlInv, CheckStep \/ Provide \/ Withdraw \/ CloseClient \/ ClosePool \/ UNCHANGED urlVars
    PROVE  UrlInv'
<1>1. CASE \E c \in Calls : Call(c) \/ CallGoesOn(c) \/ Fetch(c)
  BY <1>1, CallerSteps, GetPoolKeeps, SubmitKeeps, GiveUpKeeps, FetchSteps, ReleaseKeeps
     DEF CallGoesOn, Fetch
<1>2. CASE \E x \in Executors : InterruptExecutor(x) \/ CloseExecutor(x) \/ Signal(x)
  BY <1>2, ExecutorSteps
<1>3. CASE UNCHANGED urlVars
  BY <1>3 DEF UrlInv, UrlTypeOK, CapacityAddsUp, CallOK, Live, urlVars, providers, named, stopping, fetches
<1> QED BY <1>1, <1>2, <1>3, ProviderSteps DEF CheckStep

\* A fetch only begins an operation after it looked at its event, which is set, or about to
\* be, from the moment its executor is closed.
LEMMA Stops ==
    ASSUME UrlInv, CheckStep \/ Provide \/ Withdraw \/ CloseClient \/ ClosePool \/ UNCHANGED urlVars,
           NEW c \in Calls, c \in begun' \ begun
    PROVE  ~(Owner[c] \in shut /\ signals[Owner[c]] = {})
<1>1. CASE \E q \in Calls : Look(q)
  <2>1. PICK q \in Calls : Look(q)
    BY <1>1
  <2>2. future[q] = "running" /\ (begun' = begun \/ (q \notin event /\ begun' = begun \cup {q})
                                  \/ begun' = begun \ {q})
    BY <2>1 DEF Look, FetchFails, FetchEnds
  <2>3. q = c /\ c \notin event /\ Live(c)
    BY <2>2 DEF Live
  <2> QED BY <2>3 DEF UrlInv, CallOK
<1>2. CASE ~\E q \in Calls : Look(q)
  <2>1. begun' \subseteq begun
    <3>1. CASE \E q \in Calls : Call(q) \/ ReadEvidence(q) \/ GetFetcher(q) \/ GetPool(q) \/ Recheck(q)
      BY <3>1 DEF Call, ReadEvidence, GetFetcher, GetPool, Recheck, fetches
    <3>2. CASE \E q \in Calls : Submit(q) \/ GiveUp(q) \/ Collect(q)
      BY <3>2 DEF Submit, GiveUp, Collect, fetches
    <3>3. CASE \E q \in Calls : Start(q) \/ Resolve(q) \/ Send(q) \/ Read(q) \/ Release(q)
      BY <3>3 DEF Start, Resolve, Send, Read, Release, FetchFails, FetchEnds, FetchGoesOn, fetches
    <3>4. CASE \E x \in Executors : InterruptExecutor(x) \/ CloseExecutor(x) \/ Signal(x)
      BY <3>4 DEF InterruptExecutor, CloseExecutor, Signal, fetches
    <3>5. CASE Provide \/ Withdraw \/ CloseClient \/ ClosePool \/ UNCHANGED urlVars
      BY <3>5 DEF Provide, Withdraw, CloseClient, ClosePool, urlVars, fetches
    <3> QED BY <1>2, <3>1, <3>2, <3>3, <3>4, <3>5 DEF CheckStep, CallGoesOn, Fetch
  <2> QED BY <2>1
<1> QED BY <1>1, <1>2

\* A check of a URL leaves what is shared as it is: it may make the pool that is missing.
LEMMA ChecksShare ==
    ASSUME UrlInv, CheckStep
    PROVE  /\ UNCHANGED <<client, fetcher, closing>>
           /\ provided # NoPool => provided' = provided
           /\ \A p \in DOMAIN pools : pools'[p].closed = pools[p].closed
<1>1. UrlTypeOK /\ CapacityAddsUp /\ (\A q \in Calls : CallOK(q)) /\ pools \in Seq(Pool)
  BY DEF UrlInv, UrlTypeOK, Pool
<1>2. ASSUME NEW c \in Calls, Call(c) \/ ReadEvidence(c) \/ GetFetcher(c) \/ Recheck(c) \/ GiveUp(c) \/ Collect(c)
      PROVE  UNCHANGED <<client, fetcher, closing, provided, pools>>
  BY <1>2 DEF Call, ReadEvidence, GetFetcher, Recheck, GiveUp, Collect, providers, named
<1>3. ASSUME NEW c \in Calls, Start(c) \/ Look(c) \/ Resolve(c) \/ Send(c) \/ Read(c)
      PROVE  UNCHANGED <<client, fetcher, closing, provided, pools>>
  BY <1>3 DEF Start, Look, Resolve, Send, Read, providers, named
<1>4. ASSUME NEW x \in Executors, InterruptExecutor(x) \/ CloseExecutor(x) \/ Signal(x)
      PROVE  UNCHANGED <<client, fetcher, closing, provided, pools>>
  BY <1>4 DEF InterruptExecutor, CloseExecutor, Signal, providers, named
<1>5. ASSUME NEW c \in Calls, GetPool(c)
      PROVE  /\ UNCHANGED <<client, fetcher, closing>>
             /\ provided # NoPool => provided' = provided
             /\ \A p \in DOMAIN pools : pools'[p].closed = pools[p].closed
  <2>1. CASE provided # NoPool
    BY <1>5, <2>1 DEF GetPool
  <2>2. CASE provided = NoPool
    <3>1. UNCHANGED <<client, fetcher, closing>> /\ pools' = Append(pools, NewPool)
      BY <1>5, <2>2 DEF GetPool
    <3> QED BY <1>1, <2>2, <3>1, PoolAppended
  <2> QED BY <2>1, <2>2
<1>6. ASSUME NEW c \in Calls, Submit(c)
      PROVE  /\ UNCHANGED <<client, fetcher, closing, provided>>
             /\ \A p \in DOMAIN pools : pools'[p].closed = pools[p].closed
  <2>1. UNCHANGED <<client, fetcher, closing, provided>>
    BY <1>6 DEF Submit, named
  <2>2. CASE pools' = pools
    BY <2>1, <2>2
  <2>3. CASE pools' # pools
    <3>1. pc[c] = "submit" /\ pools[mine[c]].free # 0 /\ Queue(c) /\ mine' = mine
      BY <1>6, <2>3 DEF Submit, Refuse
    <3>2. c \in Calls \ holding /\ mine[c] # NoPool
      BY <1>1, <3>1 DEF CallOK
    <3>3. holding' = holding \cup {c} /\ pools' = [pools EXCEPT ![mine[c]].free = @ - 1]
      BY <3>1 DEF Queue
    <3> QED BY <1>1, <2>1, <3>1, <3>2, <3>3, Takes
  <2> QED BY <2>2, <2>3
<1>7. ASSUME NEW c \in Calls, Release(c)
      PROVE  /\ UNCHANGED <<client, fetcher, closing, provided>>
             /\ \A p \in DOMAIN pools : pools'[p].closed = pools[p].closed
  <2>1. /\ c \in holding /\ mine' = mine /\ holding' = holding \ {c}
        /\ pools' = [pools EXCEPT ![mine[c]].free = @ + 1]
        /\ UNCHANGED <<client, fetcher, closing, provided>>
    BY <1>7 DEF Release, named
  <2>2. mine[c] # NoPool
    BY <1>1, <2>1 DEF CallOK
  <2> QED BY <1>1, <2>1, <2>2, GivesBack
<1>8. CASE \E c \in Calls : Call(c) \/ CallGoesOn(c) \/ Fetch(c)
  BY <1>2, <1>3, <1>5, <1>6, <1>7, <1>8 DEF CallGoesOn, Fetch
<1>9. CASE \E x \in Executors : InterruptExecutor(x) \/ CloseExecutor(x) \/ Signal(x)
  BY <1>4, <1>9
<1> QED BY <1>8, <1>9 DEF CheckStep
-----------------------------------------------------------------------------
(* The server *)

\* The steps by their numbers.
LEMMA StartNumbers ==
    ASSUME at \in 1..11
    PROVE  /\ Len(StartSteps) = 11
           /\ StartSteps[at] = "identity" => at = 1
           /\ StartSteps[at] = "engine" => at = 2
           /\ StartSteps[at] = "schema" => at = 3
           /\ StartSteps[at] = "media" => at = 4
           /\ StartSteps[at] = "verifier" => at = 5
           /\ StartSteps[at] = "settings" => at = 6
           /\ StartSteps[at] = "manager" => at = 7
           /\ StartSteps[at] = "slots" => at = 8
           /\ StartSteps[at] = "sweeper" => at = 9
           /\ StartSteps[at] = "gate" => at = 10
           /\ StartSteps[at] = "preflight" => at = 11
BY DEF StartSteps

LEMMA StopNumbers ==
    ASSUME at \in 1..5
    PROVE  /\ Len(StopSteps) = 5 /\ Len(CleanSteps) = 5
           /\ StopSteps[at] = "gate" => at = 1
           /\ StopSteps[at] = "tasks" => at = 2
           /\ StopSteps[at] = "sweeper" => at = 3
           /\ StopSteps[at] = "provider" => at = 4
           /\ StopSteps[at] = "manager" => at = 5
           /\ CleanSteps[at] = "verifier" => at = 1
           /\ CleanSteps[at] = "release" => at = 2
           /\ CleanSteps[at] = "client" => at = 3
           /\ CleanSteps[at] = "pool" => at = 4
           /\ CleanSteps[at] = "engine" => at = 5
BY DEF StopSteps, CleanSteps

ServerTypeOK ==
    /\ config \in [identity : {"oidc", "anonymous", "missing"}, speech : BOOLEAN]
    /\ phase \in {"starting", "serving", "stopping", "cleaning", "stopped", "crashed"}
    /\ at \in 1..11
    /\ engine \in {"none", "open", "disposed"} /\ manager \in {"none", "open", "closed"}
    /\ tasks \in {"none", "open", "closed"} /\ sweeper \in {"none", "made", "running", "closed"}
    /\ verifier \in BOOLEAN /\ slots \in BOOLEAN /\ gate \in BOOLEAN

LEMMA TypeParts == TypeOK <=> UrlTypeOK /\ ServerTypeOK
<1>1. Len(StartSteps) = 11
  BY DEF StartSteps
<1> QED BY <1>1 DEF TypeOK, ServerTypeOK

ServerInv == ServerTypeOK /\ StartInv /\ StopInv

LEMMA InvParts == IInv <=> UrlInv /\ ServerInv
BY TypeParts DEF IInv, UrlInv, ServerInv

\* A step of the start that succeeds is the next one behind the server.
LEMMA StepsOn ==
    ASSUME ServerTypeOK, phase = "starting", NextStep
    PROVE  /\ at' \in 1..11 /\ phase' \in {"starting", "serving"}
           /\ \A k \in 1..10 : Behind(k)' => at >= k
           /\ \A k \in 1..10 : Behind(k) <=> at > k
           /\ phase' = "starting" => at' = at + 1
<1>1. /\ at \in 1..11
      /\ at' = IF at = 11 THEN 1 ELSE at + 1
      /\ phase' = IF at = 11 THEN "serving" ELSE "starting"
  BY StartNumbers DEF ServerTypeOK, NextStep
<1>2. at' \in 1..11 /\ phase' \in {"starting", "serving"} /\ (phase' = "starting" => at' = at + 1)
  BY <1>1
<1>3. \A k \in 1..10 : Behind(k)' => at >= k
  BY <1>1 DEF Behind
<1>4. \A k \in 1..10 : Behind(k) <=> at > k
  BY DEF Behind
<1> QED BY <1>2, <1>3, <1>4

\* The steps of the start before the manager.
LEMMA EarlySteps ==
    ASSUME IInv, LoadIdentity \/ CreateEngine \/ CheckOnly \/ ComposeMedia \/ ConfigureVerifier
    PROVE  ServerInv'
<1>1. ServerTypeOK /\ StartInv /\ at \in 1..11
  BY InvParts DEF ServerInv, ServerTypeOK
<1>2. /\ phase = "starting" /\ NextStep
      /\ UNCHANGED <<client, fetcher, provided, closing, pools>>
      /\ UNCHANGED <<manager, tasks, sweeper, slots, gate>>
  BY DEF LoadIdentity, CreateEngine, CheckOnly, ComposeMedia, ConfigureVerifier, Starting,
         urlVars, providers, named, speech
<1>3. /\ at' \in 1..11 /\ phase' \in {"starting", "serving"}
      /\ \A k \in 1..10 : Behind(k)' => at >= k
      /\ \A k \in 1..10 : Behind(k) <=> at > k
      /\ phase' = "starting" => at' = at + 1
  BY <1>1, <1>2, StepsOn
<1>4. at \in {1, 2, 3, 4, 5, 6, 11}
  BY <1>1, StartNumbers DEF LoadIdentity, CreateEngine, CheckOnly, ComposeMedia, ConfigureVerifier, Starting
<1>5. /\ engine' \in {engine, "open"} /\ config'.identity = config.identity
      /\ config' \in [identity : {"oidc", "anonymous", "missing"}, speech : BOOLEAN]
      /\ at >= 5 => config' = config
      /\ verifier' \in BOOLEAN
  <2>1. CASE LoadIdentity \/ CreateEngine \/ CheckOnly
    BY <1>1, <2>1 DEF LoadIdentity, CreateEngine, CheckOnly, ServerTypeOK
  <2>2. CASE ComposeMedia
    <3>1. at = 4 /\ UNCHANGED <<engine, verifier>>
          /\ config' \in {config, [config EXCEPT !.speech = FALSE]}
      BY <1>1, <2>2, StartNumbers DEF ComposeMedia, Starting
    <3>2. config \in [identity : {"oidc", "anonymous", "missing"}, speech : BOOLEAN]
      BY <1>1 DEF ServerTypeOK
    <3>3. /\ [config EXCEPT !.speech = FALSE]
                \in [identity : {"oidc", "anonymous", "missing"}, speech : BOOLEAN]
          /\ [config EXCEPT !.speech = FALSE].identity = config.identity
      BY <3>2
    <3>4. verifier \in BOOLEAN
      BY <1>1 DEF ServerTypeOK
    <3>5. verifier' \in BOOLEAN
      BY <3>1, <3>4
    <3>6. /\ config'.identity = config.identity
          /\ config' \in [identity : {"oidc", "anonymous", "missing"}, speech : BOOLEAN]
      BY <3>1, <3>2, <3>3
    <3>7. engine' \in {engine, "open"} /\ ~(at >= 5)
      BY <3>1
    <3> QED BY <3>5, <3>6, <3>7
  <2>3. CASE ConfigureVerifier
    <3>1. UNCHANGED <<engine, config>> /\ verifier' \in BOOLEAN
      BY <2>3 DEF ConfigureVerifier
    <3> QED BY <1>1, <3>1 DEF ServerTypeOK
  <2> QED BY <2>1, <2>2, <2>3
<1>6. \A k \in {7, 8, 9, 10} : Behind(k)' => Behind(k) /\ config' = config
  BY <1>1, <1>3, <1>4, <1>5
<1>7. ServerTypeOK'
  BY <1>1, <1>2, <1>3, <1>5 DEF ServerTypeOK
<1>8. EngineIsOn'
  <2>1. at = 2 => engine' = "open"
    BY <1>1, StartNumbers DEF LoadIdentity, CreateEngine, CheckOnly, ComposeMedia, ConfigureVerifier, Starting
  <2>2. at > 2 => engine = "open"
    BY <1>1, <1>3 DEF StartInv, EngineIsOn
  <2>3. Behind(2)' => at >= 2
    BY <1>3
  <2> QED BY <1>1, <1>5, <2>1, <2>2, <2>3 DEF EngineIsOn
<1>9. VerifierIsOn'
  <2>1. at = 5 => verifier' = (config'.identity = "oidc")
    BY <1>1, <1>5, StartNumbers DEF LoadIdentity, CreateEngine, CheckOnly, ComposeMedia, ConfigureVerifier, Starting
  <2>2. at # 5 => verifier' = verifier
    BY <1>1, StartNumbers DEF LoadIdentity, CreateEngine, CheckOnly, ComposeMedia, ConfigureVerifier, Starting
  <2>3. at > 5 => verifier = (config'.identity = "oidc")
    BY <1>1, <1>3, <1>5 DEF StartInv, VerifierIsOn
  <2>4. Behind(5)' => at = 5 \/ at > 5
    BY <1>1, <1>3
  <2> QED BY <2>1, <2>2, <2>3, <2>4 DEF VerifierIsOn
<1>10. ManagerIsOn'
  BY <1>1, <1>2, <1>6 DEF StartInv, ManagerIsOn, Backed
<1>11. SlotsAreOn'
  BY <1>1, <1>2, <1>6 DEF StartInv, SlotsAreOn
<1>12. SweeperIsOn'
  BY <1>1, <1>2, <1>6 DEF StartInv, SweeperIsOn
<1>13. GateIsOn'
  BY <1>1, <1>2, <1>6 DEF StartInv, GateIsOn
<1>14. NotBefore'
  <2> SUFFICES ASSUME phase' = "starting"
               PROVE  NotBefore'
    BY DEF NotBefore
  <2>1. at' = at + 1 /\ NotBefore
    BY <1>1, <1>3 DEF StartInv
  <2>2. at' <= 5 => ~verifier'
    <3>1. at # 5 => verifier' = verifier
      BY <1>1, StartNumbers DEF LoadIdentity, CreateEngine, CheckOnly, ComposeMedia, ConfigureVerifier, Starting
    <3> QED BY <1>1, <1>2, <2>1, <3>1 DEF NotBefore
  <2>3. (at' <= 7 => manager' = "none") /\ (at' <= 10 => ~gate')
    BY <1>1, <1>2, <2>1 DEF NotBefore
  <2> QED BY <2>2, <2>3 DEF NotBefore
<1>15. GateStands'
  BY <1>1, <1>2, <1>3 DEF StartInv, GateStands
<1>16. StartInv'
  BY <1>8, <1>9, <1>10, <1>11, <1>12, <1>13, <1>14, <1>15 DEF StartInv
<1>17. StopInv'
  BY <1>3 DEF StopInv, Cleaned
<1> QED BY <1>7, <1>16, <1>17 DEF ServerInv

\* The manager, and with it what the checks of URLs share.
LEMMA ManagerStep ==
    ASSUME IInv, BuildManager
    PROVE  ServerInv'
<1>1. ServerTypeOK /\ StartInv /\ at \in 1..11 /\ pools \in Seq(Pool)
  BY InvParts DEF ServerInv, ServerTypeOK, UrlInv, UrlTypeOK, Pool
<1>2. /\ phase = "starting" /\ NextStep /\ at = 7 /\ manager' = "open"
      /\ UNCHANGED <<config, readiness, verifier, engine, tasks, sweeper, slots, gate>>
  BY <1>1, StartNumbers DEF BuildManager, Starting, speech
<1>3. /\ at' \in 1..11 /\ phase' \in {"starting", "serving"}
      /\ \A k \in 1..10 : Behind(k)' => at >= k
      /\ \A k \in 1..10 : Behind(k) <=> at > k
      /\ phase' = "starting" => at' = at + 1
  BY <1>1, <1>2, StepsOn
<1>4. Backed'
  <2>1. /\ client' = "open" /\ fetcher' = TRUE
        /\ pools' = Append(pools, NewPool) /\ provided' = Len(pools')
    BY DEF BuildManager, Provide
  <2>2. provided' # NoPool /\ pools'[provided'] = NewPool
    BY <1>1, <2>1, PoolAppended
  <2>3. ~pools'[provided'].closed
    BY <2>2, NewPoolTyped
  <2> QED BY <2>1, <2>2, <2>3 DEF Backed
<1>5. ServerTypeOK'
  BY <1>1, <1>2, <1>3 DEF ServerTypeOK
<1>6. EngineIsOn' /\ VerifierIsOn' /\ ManagerIsOn' /\ GateStands'
  BY <1>1, <1>2, <1>3, <1>4 DEF StartInv, EngineIsOn, VerifierIsOn, ManagerIsOn, GateStands
<1>7. ~Behind(8)' /\ ~Behind(9)' /\ ~Behind(10)'
  BY <1>2, <1>3
<1>8. SlotsAreOn' /\ SweeperIsOn' /\ GateIsOn'
  BY <1>7 DEF SlotsAreOn, SweeperIsOn, GateIsOn
<1>9. NotBefore'
  BY <1>1, <1>2, <1>3 DEF StartInv, NotBefore
<1>10. StartInv'
  BY <1>6, <1>8, <1>9 DEF StartInv
<1>11. StopInv'
  BY <1>3 DEF StopInv, Cleaned
<1> QED BY <1>5, <1>10, <1>11 DEF ServerInv

\* The steps of speech, each over the one before it.
LEMMA SpeechSteps ==
    ASSUME IInv, ReconcileSlots \/ StartSweeper \/ OpenGate \/ SkipSpeech
    PROVE  ServerInv'
<1>1. ServerTypeOK /\ StartInv /\ at \in 1..11 /\ gate \in BOOLEAN /\ config.speech \in BOOLEAN
  BY InvParts DEF ServerInv, ServerTypeOK
<1>2. /\ phase = "starting" /\ NextStep /\ at \in {8, 9, 10}
      /\ UNCHANGED <<client, fetcher, provided, closing, pools>>
      /\ UNCHANGED <<config, readiness, verifier, engine, manager>>
  BY <1>1, StartNumbers DEF ReconcileSlots, StartSweeper, OpenGate, SkipSpeech, Starting,
         urlVars, providers, named
<1>3. /\ at' \in 1..11 /\ phase' \in {"starting", "serving"}
      /\ \A k \in 1..10 : Behind(k)' => at >= k
      /\ \A k \in 1..10 : Behind(k) <=> at > k
      /\ phase' = "starting" => at' = at + 1
  BY <1>1, <1>2, StepsOn
<1>4. /\ at = 8 /\ config.speech => slots' = TRUE /\ tasks' = "open" /\ sweeper' = "made" /\ gate' = gate
      /\ at = 9 /\ config.speech => UNCHANGED <<slots, tasks, gate>> /\ sweeper' = "running"
      /\ at = 10 /\ config.speech => UNCHANGED <<slots, tasks, sweeper>> /\ gate' = TRUE
      /\ ~config.speech => UNCHANGED <<slots, tasks, sweeper, gate>>
  BY <1>1, StartNumbers DEF ReconcileSlots, StartSweeper, OpenGate, SkipSpeech, Starting, speech
<1>5. ServerTypeOK'
  <2>1. /\ tasks' \in {tasks, "open"} /\ sweeper' \in {sweeper, "made", "running"}
        /\ slots' \in {slots, TRUE} /\ gate' \in {gate, TRUE}
    BY <1>1, <1>2, <1>4
  <2>2. slots' \in BOOLEAN /\ gate' \in BOOLEAN
    BY <1>1, <2>1 DEF ServerTypeOK
  <2> QED BY <1>1, <1>2, <1>3, <2>1, <2>2 DEF ServerTypeOK
<1>6. EngineIsOn' /\ VerifierIsOn' /\ ManagerIsOn'
  <2>1. \A k \in 1..7 : Behind(k)
    BY <1>1, <1>2, <1>3
  <2>2. engine = "open" /\ verifier = (config.identity = "oidc") /\ manager = "open" /\ Backed
    BY <1>1, <2>1 DEF StartInv, EngineIsOn, VerifierIsOn, ManagerIsOn
  <2>3. Backed'
    BY <1>2, <2>2 DEF Backed
  <2> QED BY <1>2, <2>2, <2>3 DEF EngineIsOn, VerifierIsOn, ManagerIsOn
<1>7. SlotsAreOn' /\ SweeperIsOn'
  <2>1. CASE ~config.speech
    BY <1>2, <2>1 DEF SlotsAreOn, SweeperIsOn
  <2>2. CASE config.speech /\ at = 8
    BY <1>2, <1>3, <1>4, <2>2 DEF SlotsAreOn, SweeperIsOn
  <2>3. CASE config.speech /\ at \in {9, 10}
    <3>1. slots /\ tasks = "open" /\ (at = 10 => sweeper = "running")
      BY <1>1, <1>3, <2>3 DEF StartInv, SlotsAreOn, SweeperIsOn
    <3>2. slots' /\ tasks' = "open" /\ sweeper' = "running"
      BY <1>4, <2>3, <3>1
    <3> QED BY <3>2 DEF SlotsAreOn, SweeperIsOn
  <2> QED BY <1>2, <2>1, <2>2, <2>3
<1>8. ~gate
  BY <1>1, <1>2 DEF StartInv, NotBefore
<1>9. GateIsOn'
  <2>1. Behind(10)' => at = 10
    BY <1>1, <1>2, <1>3
  <2>2. at = 10 => gate' = config'.speech
    BY <1>1, <1>2, <1>4, <1>8
  <2> QED BY <2>1, <2>2 DEF GateIsOn
<1>10. NotBefore'
  <2>1. at < 10 => ~gate'
    BY <1>2, <1>4, <1>8
  <2>2. phase' = "starting" => ~(at' <= 5) /\ ~(at' <= 7) /\ (at' <= 10 => at < 10)
    BY <1>1, <1>2, <1>3
  <2> QED BY <2>1, <2>2 DEF NotBefore
<1>11. GateStands'
  <2>1. gate' => at = 10 /\ config.speech
    BY <1>2, <1>4, <1>8
  <2>2. at = 10 /\ config.speech => slots /\ sweeper = "running" /\ tasks = "open"
    BY <1>1, <1>3 DEF StartInv, SlotsAreOn, SweeperIsOn
  <2> QED BY <1>4, <2>1, <2>2 DEF GateStands
<1>12. StartInv'
  BY <1>6, <1>7, <1>9, <1>10, <1>11 DEF StartInv
<1>13. StopInv'
  BY <1>3 DEF StopInv, Cleaned
<1> QED BY <1>5, <1>12, <1>13 DEF ServerInv

\* An error of the start leaves it, not ready: what was set up is not taken for more.
LEMMA FailStep ==
    ASSUME IInv, StartFails
    PROVE  ServerInv'
<1>1. ServerTypeOK /\ StartInv /\ at \in 1..11
  BY InvParts DEF ServerInv, ServerTypeOK
<1>2. /\ phase = "starting" /\ engine' \in {engine, "open"}
      /\ UNCHANGED <<config, manager, tasks, sweeper, slots, gate>>
  BY DEF StartFails, speech
<1>4. "none" \notin Raises[StartSteps[at]]
  BY <1>1 DEF StartSteps, Raises
<1>5. \/ phase' = "crashed" /\ at' = at /\ verifier' = verifier
      \/ phase' = "serving" /\ at' = 1 /\ readiness' # "none" /\ verifier' \in BOOLEAN
  BY <1>4 DEF StartFails, StartDegraded
<1>6. ServerTypeOK'
  <2>1. verifier' \in BOOLEAN
    BY <1>1, <1>5 DEF ServerTypeOK
  <2> QED BY <1>1, <1>2, <1>5, <2>1 DEF ServerTypeOK
<1>7. \A k \in 1..10 : ~Behind(k)'
  BY <1>5 DEF Behind
<1>8. /\ EngineIsOn' /\ VerifierIsOn' /\ ManagerIsOn' /\ SlotsAreOn' /\ SweeperIsOn' /\ GateIsOn'
      /\ NotBefore'
  BY <1>5, <1>7 DEF EngineIsOn, VerifierIsOn, ManagerIsOn, SlotsAreOn, SweeperIsOn, GateIsOn, NotBefore
<1>9. GateStands'
  BY <1>1, <1>2 DEF StartInv, GateStands
<1>10. StopInv'
  BY <1>5 DEF StopInv, Cleaned
<1> QED BY <1>6, <1>8, <1>9, <1>10 DEF ServerInv, StartInv

\* Checks of URLs leave the server as it is.
LEMMA ChecksKeep ==
    ASSUME IInv, CheckStep, UNCHANGED serverVars
    PROVE  ServerInv'
<1>1. UrlInv /\ ServerTypeOK /\ StartInv /\ StopInv /\ closing \in {NoPool} \cup DOMAIN pools
      /\ provided \in {NoPool} \cup DOMAIN pools
  BY InvParts DEF ServerInv, UrlInv, UrlTypeOK
<1>2. UNCHANGED <<config, phase, at, readiness, verifier, engine, manager, tasks, sweeper, slots, gate>>
  BY DEF serverVars, speech
<1>3. /\ UNCHANGED <<client, fetcher, closing>>
      /\ provided # NoPool => provided' = provided
      /\ \A p \in DOMAIN pools : pools'[p].closed = pools[p].closed
  BY <1>1, ChecksShare
<1>4. ServerTypeOK'
  BY <1>1, <1>2 DEF ServerTypeOK
<1>5. Backed => Backed'
  BY <1>1, <1>3 DEF Backed
<1>6. \A k \in 1..10 : Behind(k)' <=> Behind(k)
  BY <1>2 DEF Behind
<1>7. ManagerIsOn'
  BY <1>1, <1>2, <1>5, <1>6 DEF StartInv, ManagerIsOn
<1>8. EngineIsOn' /\ VerifierIsOn' /\ SlotsAreOn' /\ SweeperIsOn' /\ GateIsOn' /\ NotBefore' /\ GateStands'
  BY <1>1, <1>2 DEF StartInv, Behind, EngineIsOn, VerifierIsOn, SlotsAreOn, SweeperIsOn, GateIsOn,
     NotBefore, GateStands
<1>9. closing' # NoPool => pools'[closing'].closed = pools[closing].closed
  BY <1>1, <1>3
<1>10. StopInv'
  BY <1>1, <1>2, <1>3, <1>9 DEF StopInv, Cleaned
<1> QED BY <1>4, <1>7, <1>8, <1>10 DEF ServerInv, StartInv

\* The shutdown begins, and closes one thing after the other, or is cut short.
LEMMA StoppingKeeps ==
    ASSUME IInv, BeginStop \/ CloseGate \/ CloseTasks \/ CloseSweeper \/ CloseProvider
                 \/ CloseManager \/ StopRaises
    PROVE  ServerInv'
<1>1. ServerTypeOK /\ StopInv
  BY InvParts DEF ServerInv
<1>2. CASE BeginStop
  <2>1. /\ phase' = "stopping" /\ at' = 1
        /\ UNCHANGED <<config, verifier, engine, manager, tasks, sweeper, slots, gate>>
    BY <1>2 DEF BeginStop, speech
  <2>2. ServerTypeOK'
    BY <1>1, <2>1 DEF ServerTypeOK
  <2>3. StopInv'
    BY <2>1 DEF StopInv, Cleaned
  <2> QED BY <2>1, <2>2, <2>3 DEF ServerInv, StartInv, Behind, EngineIsOn, VerifierIsOn,
             ManagerIsOn, SlotsAreOn, SweeperIsOn, GateIsOn, NotBefore, GateStands
<1>3. CASE CloseGate \/ CloseTasks \/ CloseSweeper \/ CloseProvider \/ CloseManager \/ StopRaises
  <2>1. phase = "stopping" /\ at \in 1..5
    BY <1>1, <1>3 DEF CloseGate, CloseTasks, CloseSweeper, CloseProvider, CloseManager, StopRaises,
       Stopping, StopInv
  <2>2. /\ UNCHANGED <<config, verifier, engine, slots>>
        /\ tasks' \in {tasks, "closed"} /\ sweeper' \in {"none", sweeper, "closed"}
        /\ manager' \in {manager, "closed"} /\ gate' \in {gate, FALSE}
        /\ at = 1 => gate' = FALSE \/ phase' = "cleaning"
    <3>1. CASE CloseGate \/ CloseTasks
      BY <3>1 DEF CloseGate, CloseTasks, speech
    <3>2. CASE CloseSweeper \/ CloseProvider \/ CloseManager \/ StopRaises
      <4>1. at # 1
        BY <2>1, <3>2, StopNumbers DEF CloseSweeper, CloseProvider, CloseManager, StopRaises, Stopping
      <4> QED BY <3>2, <4>1 DEF CloseSweeper, CloseProvider, CloseManager, StopRaises, speech
    <3> QED BY <1>3, <3>1, <3>2
  <2>3. /\ phase' \in {"stopping", "cleaning"} /\ at' \in 1..5
        /\ phase' = "cleaning" => at' = 1 /\ at # 1
        /\ phase' = "stopping" => at' = at + 1
    <3>1. CASE StopRaises
      BY <2>1, <3>1, StopNumbers DEF StopRaises, Stopping
    <3>2. CASE NextStop
      <4>1. IF at = 5 THEN phase' = "cleaning" /\ at' = 1 ELSE phase' = phase /\ at' = at + 1
        BY <2>1, <3>2, StopNumbers DEF NextStop
      <4> QED BY <2>1, <4>1
    <3> QED BY <1>3, <3>1, <3>2 DEF CloseGate, CloseTasks, CloseSweeper, CloseProvider, CloseManager
  <2>4. ServerTypeOK'
    <3>1. gate' \in BOOLEAN
      BY <1>1, <2>2 DEF ServerTypeOK
    <3> QED BY <1>1, <2>2, <2>3, <3>1 DEF ServerTypeOK
  <2>5. ~gate'
    <3>1. at # 1 => ~gate
      BY <1>1, <2>1 DEF StopInv
    <3> QED BY <2>2, <2>3, <3>1
  <2>6. StopInv'
    BY <2>3, <2>5 DEF StopInv, Cleaned
  <2>7. StartInv'
    BY <2>3 DEF StartInv, Behind, EngineIsOn, VerifierIsOn,
       ManagerIsOn, SlotsAreOn, SweeperIsOn, GateIsOn, NotBefore, GateStands
  <2> QED BY <2>4, <2>6, <2>7 DEF ServerInv
<1> QED BY <1>2, <1>3

\* The second part of the shutdown.
LEMMA CleaningKeeps ==
    ASSUME IInv, ResetVerifier \/ ReleaseProviders \/ ReleaseClient \/ ReleasePool \/ DisposeEngine
    PROVE  ServerInv'
<1>1. /\ ServerTypeOK /\ StopInv /\ closing \in {NoPool} \cup DOMAIN pools
      /\ client \in {"none", "open", "closed"}
  BY InvParts DEF ServerInv, UrlInv, UrlTypeOK
<1>2. /\ phase = "cleaning" /\ at \in 1..5 /\ NextClean
      /\ UNCHANGED <<config, manager, tasks, sweeper, slots, gate>>
  BY <1>1 DEF ResetVerifier, ReleaseProviders, ReleaseClient, ReleasePool, DisposeEngine, Cleaning,
     StopInv, speech
<1>3. /\ at' = IF at = 5 THEN 1 ELSE at + 1
      /\ phase' = IF at = 5 THEN "stopped" ELSE "cleaning"
  BY <1>2, StopNumbers DEF NextClean
<1>4. \A k \in 1..4 : Cleaned(k)' => at >= k
  BY <1>2, <1>3 DEF Cleaned
<1>5. ~gate'
  BY <1>1, <1>2 DEF StopInv
<1>6. (at = 1 /\ verifier' = FALSE) \/ (at > 1 /\ verifier' = verifier)
  BY <1>2, StopNumbers DEF ResetVerifier, ReleaseProviders, ReleaseClient, ReleasePool, DisposeEngine, Cleaning
<1>7. (at = 2 /\ fetcher' = FALSE) \/ (at # 2 /\ fetcher' = fetcher)
  BY <1>2, StopNumbers DEF ResetVerifier, ReleaseProviders, ReleaseClient, ReleasePool, DisposeEngine, Cleaning,
     Withdraw, CloseClient, ClosePool, urlVars, providers, named
<1>8. (at = 3 /\ client' # "open") \/ (at # 3 /\ client' = client)
  BY <1>2, StopNumbers DEF ResetVerifier, ReleaseProviders, ReleaseClient, ReleasePool, DisposeEngine, Cleaning,
     Withdraw, CloseClient, ClosePool, urlVars, providers, named
<1>9. at >= 4 => closing' = closing /\ (closing # NoPool => pools'[closing].closed)
  <2>1. CASE at = 4
    <3>1. /\ closing' = closing
          /\ pools' = IF closing = NoPool THEN pools ELSE [pools EXCEPT ![closing].closed = TRUE]
      BY <1>2, <2>1, StopNumbers DEF ResetVerifier, ReleaseProviders, ReleaseClient, ReleasePool,
         DisposeEngine, Cleaning, ClosePool, named
    <3> QED BY <1>1, <3>1
  <2>2. CASE at = 5
    <3>1. closing' = closing /\ pools' = pools
      BY <1>2, <2>2, StopNumbers DEF ResetVerifier, ReleaseProviders, ReleaseClient, ReleasePool,
         DisposeEngine, Cleaning, urlVars, providers, named
    <3>2. Cleaned(4)
      BY <1>2, <2>2 DEF Cleaned
    <3> QED BY <1>1, <3>1, <3>2 DEF StopInv
  <2> QED BY <1>2, <2>1, <2>2
<1>10. (at = 5 /\ engine' # "open") \/ (at < 5 /\ engine' = engine)
  BY <1>2, StopNumbers DEF ResetVerifier, ReleaseProviders, ReleaseClient, ReleasePool, DisposeEngine, Cleaning
<1>11. ServerTypeOK'
  <2>1. verifier' \in BOOLEAN /\ engine' \in {engine, "disposed"}
    BY <1>1 DEF ResetVerifier, ReleaseProviders, ReleaseClient, ReleasePool, DisposeEngine, ServerTypeOK
  <2> QED BY <1>1, <1>2, <1>3, <2>1 DEF ServerTypeOK
<1>12. StopInv'
  <2>1. \A k \in 1..4 : at > k => Cleaned(k)
    BY <1>2 DEF Cleaned
  <2>2. Cleaned(1)' => ~verifier'
    BY <1>1, <1>2, <1>6, <2>1 DEF StopInv
  <2>3. Cleaned(2)' => ~fetcher'
    BY <1>1, <1>2, <1>4, <1>7, <2>1 DEF StopInv
  <2>4. Cleaned(3)' => client' # "open"
    BY <1>1, <1>2, <1>4, <1>8, <2>1 DEF StopInv
  <2>5. Cleaned(4)' /\ closing' # NoPool => pools'[closing'].closed
    BY <1>2, <1>4, <1>9
  <2>6. phase' = "stopped" => engine' # "open"
    BY <1>2, <1>3, <1>10
  <2>7. phase' \in {"cleaning", "stopped"} /\ (phase' = "cleaning" => at' \in 1..5)
    BY <1>2, <1>3
  <2> QED BY <1>5, <2>2, <2>3, <2>4, <2>5, <2>6, <2>7 DEF StopInv
<1>13. StartInv'
  BY <1>3 DEF StartInv, Behind, EngineIsOn, VerifierIsOn,
     ManagerIsOn, SlotsAreOn, SweeperIsOn, GateIsOn, NotBefore, GateStands
<1> QED BY <1>11, <1>12, <1>13 DEF ServerInv

-----------------------------------------------------------------------------
(* The theorems *)

LEMMA Starts == Init => IInv
<1> SUFFICES ASSUME Init
             PROVE  IInv
  OBVIOUS
<1>1. UrlTypeOK
  <2>1. "idle" \in Steps /\ 0 \in 0..MaxRedirects
    BY UrlAssumption DEF Steps
  <2>2. << >> \in Seq([closed : BOOLEAN, free : 0..MaxInFlight]) /\ DOMAIN << >> = {}
    OBVIOUS
  <2> QED BY <2>1, <2>2 DEF Init, UrlInit, UrlTypeOK
<1>2. CapacityAddsUp
  BY DEF Init, UrlInit, CapacityAddsUp
<1>3. \A c \in Calls : CallOK(c)
  BY DEF Init, UrlInit, CallOK, Live
<1>4. ServerTypeOK
  <2>1. config \in [identity : {"oidc", "anonymous", "missing"}, speech : BOOLEAN]
    BY ConfigAssumption DEF Init
  <2>2. {verifier, slots, gate} \subseteq BOOLEAN
    BY DEF Init
  <2>3. verifier \in BOOLEAN /\ slots \in BOOLEAN /\ gate \in BOOLEAN
    BY <2>2
  <2>4. phase = "starting" /\ at = 1 /\ engine = "none" /\ manager = "none" /\ tasks = "none" /\ sweeper = "none"
    BY DEF Init
  <2> QED BY <2>1, <2>3, <2>4 DEF ServerTypeOK
<1>5. StopInv
  BY DEF Init, StopInv, Cleaned
<1>6. phase = "starting" /\ at = 1 /\ gate = FALSE /\ verifier = FALSE /\ manager = "none"
  BY DEF Init
<1>7. \A k \in 1..10 : ~Behind(k)
  BY <1>6 DEF Behind
<1>8. StartInv
  BY <1>6, <1>7 DEF StartInv, EngineIsOn, VerifierIsOn, ManagerIsOn, SlotsAreOn, SweeperIsOn, GateIsOn,
     NotBefore, GateStands
<1> QED BY <1>1, <1>2, <1>3, <1>4, <1>5, <1>8, InvParts DEF UrlInv, ServerInv

\* What a step of the server does to the checks of URLs.
LEMMA StepsOfChecks ==
    ASSUME [Next]_vars
    PROVE  CheckStep \/ Provide \/ Withdraw \/ CloseClient \/ ClosePool \/ UNCHANGED urlVars
<1>1. CASE Startup
  BY <1>1 DEF Startup, LoadIdentity, CreateEngine, CheckOnly, ComposeMedia, ConfigureVerifier, BuildManager,
     SkipSpeech, ReconcileSlots, StartSweeper, OpenGate, StartFails
<1>2. CASE Converse \/ Work
  BY <1>2 DEF Converse, Work, CheckStep
<1>3. CASE Shutdown
  BY <1>3 DEF Shutdown, BeginStop, CloseGate, CloseTasks, CloseSweeper, CloseProvider, InterruptAll,
     CloseConversation, CloseManager, StopRaises, ResetVerifier, ReleaseProviders, ReleaseClient,
     ReleasePool, DisposeEngine, CheckStep
<1>4. CASE UNCHANGED vars
  BY <1>4 DEF vars
<1> QED BY <1>1, <1>2, <1>3, <1>4 DEF Next

LEMMA Keeps == IInv /\ [Next]_vars => IInv'
<1> SUFFICES ASSUME IInv, [Next]_vars
             PROVE  IInv'
  OBVIOUS
<1>1. UrlInv'
  BY StepsOfChecks, UrlSteps, InvParts
<1>2. ServerInv'
  <2>1. CASE Startup
    BY <2>1, EarlySteps, ManagerStep, SpeechSteps, FailStep DEF Startup
  <2>2. CASE Converse \/ Work
    <3>1. CheckStep /\ UNCHANGED serverVars
      BY <2>2 DEF Converse, Work, CheckStep
    <3> QED BY <3>1, ChecksKeep
  <2>3. CASE InterruptAll \/ CloseConversation
    <3>1. CheckStep /\ UNCHANGED serverVars
      BY <2>3 DEF InterruptAll, CloseConversation, CheckStep
    <3> QED BY <3>1, ChecksKeep
  <2>4. CASE Shutdown /\ ~(InterruptAll \/ CloseConversation)
    BY <2>4, StoppingKeeps, CleaningKeeps DEF Shutdown
  <2>5. CASE UNCHANGED vars
    BY <2>5, InvParts DEF vars, urlVars, providers, named, serverVars, speech, ServerInv, ServerTypeOK, StopInv,
       Cleaned, StartInv, Behind, EngineIsOn, VerifierIsOn, ManagerIsOn, Backed, SlotsAreOn, SweeperIsOn,
       GateIsOn, NotBefore, GateStands
  <2> QED BY <2>1, <2>2, <2>3, <2>4, <2>5 DEF Next
<1>3. IInv' <=> UrlInv' /\ ServerInv'
  BY InvParts, PTL
<1> QED BY <1>1, <1>2, <1>3

THEOREM Inductive == Spec => []IInv
BY Starts, Keeps, PTL DEF Spec

\* Every reachable state of the server and of its checks of URLs is well typed, for any
\* conversations, calls, limits and environments.
THEOREM TypesHold == Spec => []TypeOK
<1>1. IInv => TypeOK
  BY DEF IInv
<1> QED BY <1>1, Inductive, PTL

\* CapacityAddsUp, for any number of pools and calls and any limit: what a pool has left
\* and the fetches that hold some of it make up its limit (BoundedUrlExecutionPool).
THEOREM CapacityConserved == Spec => []CapacityAddsUp
<1>1. IInv => CapacityAddsUp
  BY DEF IInv, UrlInv
<1> QED BY <1>1, Inductive, PTL

\* OffersAreBacked: a server that is ready has what its routes use, and an open gate of
\* speech has the slots, the sweeper and the tasks behind it (lifespan).
THEOREM OffersBacked == Spec => []OffersAreBacked
<1>1. ASSUME IInv, phase = "serving", readiness = "none"
      PROVE  /\ engine = "open" /\ manager = "open"
             /\ client = "open" /\ fetcher /\ provided # NoPool /\ ~pools[provided].closed
             /\ verifier = (config.identity = "oidc")
             /\ gate = config.speech
  <2>1. Behind(2) /\ Behind(5) /\ Behind(7) /\ Behind(10)
    BY <1>1 DEF Behind
  <2> QED BY <1>1, <2>1 DEF IInv, StartInv, EngineIsOn, VerifierIsOn, ManagerIsOn, Backed, GateIsOn
<1>2. IInv => ReadyMeansWhole
  BY <1>1 DEF ReadyMeansWhole
<1>3. IInv => GateIsBacked
  BY DEF IInv, StartInv, GateStands, GateIsBacked
<1>4. IInv => OffersAreBacked
  BY <1>2, <1>3 DEF OffersAreBacked
<1> QED BY <1>4, Inductive, PTL

\* StoppedIsClean: whatever the shutdown raised, the identity, the database and the shared
\* I/O of URL checks are closed behind it (lifespan, release_repository_provider).
THEOREM StopsClean == Spec => []StoppedIsClean
<1>1. ASSUME IInv, phase = "stopped"
      PROVE  /\ ~gate /\ ~verifier /\ engine # "open" /\ client # "open" /\ ~fetcher
             /\ closing # NoPool => pools[closing].closed
  <2>1. \A k \in 1..4 : Cleaned(k)
    BY <1>1 DEF Cleaned
  <2> QED BY <1>1, <2>1 DEF IInv, StopInv
<1>2. IInv => StoppedIsClean
  BY <1>1 DEF StoppedIsClean
<1> QED BY <1>2, Inductive, PTL

\* ClosedFetchesStop, for any number of conversations and calls: once close() of an executor
\* has returned, none of its fetches begins another network operation
\* (UrlEvidenceVerificationExecutor.close, SafeHttpFetcher).
THEOREM ClosedFetchesEnd == Spec => ClosedFetchesStop
<1>1. IInv /\ [Next]_vars =>
        [\A c \in Calls : c \in begun' \ begun
            => ~(Owner[c] \in shut /\ signals[Owner[c]] = {})]_urlVars
  BY StepsOfChecks, Stops, InvParts
<1> QED BY <1>1, Inductive, PTL DEF Spec, ClosedFetchesStop
=============================================================================
