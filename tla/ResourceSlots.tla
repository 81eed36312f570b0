--------------------------- MODULE ResourceSlots ---------------------------
(*************************************************************************)
(* The rows of speech_resource_slots of one resource kind: numbered slots *)
(* that one piece of work holds at a time, under a lease that runs out.   *)
(* Each operator is one transaction of SqlResourceSlotRepository; a lease *)
(* token is known by the work it was given to.                            *)
(*************************************************************************)
EXTENDS Naturals, FiniteSets

CONSTANTS Work,      \* work ids: every claim is made for a work of its own
          MaxSlots,  \* the largest configured count
          LeaseTicks \* the longest lease of a claim

Nobody == "nobody"  \* the null columns of a free row; no work has this id

Numbers == 1..MaxSlots
Slot == [by : Work \cup {Nobody}, left : 0..LeaseTicks, enabled : BOOLEAN]
Free(enabled) == [by |-> Nobody, left |-> 0, enabled |-> enabled]

\* Rows of slots beyond the configured count are kept, disabled, whoever holds them.
Reconcile(slots, count) ==
    [i \in Numbers |-> [slots[i] EXCEPT !.enabled = i <= count]]

ReclaimEarly(slots) ==                                                \* mutant
    [i \in Numbers |-> IF slots[i].left <= 1 THEN Free(slots[i].enabled) ELSE slots[i]]
\* The first statement of every claim: leases that ran out are nobody's.
Reclaim(slots) ==
    [i \in Numbers |-> IF slots[i].left = 0 THEN Free(slots[i].enabled) ELSE slots[i]]

Claimable(slots) == {i \in Numbers : slots[i].enabled /\ slots[i].by = Nobody}

\* The lowest enabled free slot, for the ticks the caller asks; None of them: no lease.
Claim(slots, w, ticks) ==
    LET known == Reclaim(slots)
        free == Claimable(known)
    IN  IF free = {} THEN known
        ELSE LET i == CHOOSE n \in free : \A o \in free : n <= o
             IN  [known EXCEPT ![i].by = w, ![i].left = ticks]

\* Only the lease named by slot, token and generation is given back.
Release(slots, w) ==
    [i \in Numbers |-> IF slots[i].by = w THEN Free(slots[i].enabled) ELSE slots[i]]

Age(slots) == [i \in Numbers |-> [slots[i] EXCEPT !.left = IF @ = 0 THEN 0 ELSE @ - 1]]

Holds(slots, w) == \E i \in Numbers : slots[i].by = w /\ slots[i].left > 0
=============================================================================
