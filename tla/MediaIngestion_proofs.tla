------------------------ MODULE MediaIngestion_proofs ------------------------
(*************************************************************************)
(* Image ingestion keeps its quotas, takes no object away from an         *)
(* artifact, shows nothing that was not scanned, and keeps its abstract   *)
(* promise, for any uploads, keys, sessions, quotas and faults.           *)
(*                                                                        *)
(* The argument: an object is taken back only by the upload that staged   *)
(* it and has not finalized yet (it is early), or by a replay whose       *)
(* outcome was read as one that references nothing; an artifact and an    *)
(* intent name only uploads that are past their finalize (they are late), *)
(* which none ever leaves. What one upload relies on in the rows, scans   *)
(* and objects only goes onward: the lemmas on what is kept say so once,  *)
(* and each action is then shown to go onward.                            *)
(*************************************************************************)
EXTENDS MediaIngestion, FiniteSetTheorems, TLAPS

Reservation == [status : {None, "ACTIVE", "PENDING_REFERENCE", "COMPLETED", "EXPIRED", "REJECTED"},
                body : Bodies \cup {None}, old : BOOLEAN, intent : {None, "MARK", "ABORT"},
                mode : {None, "FOLLOWER", "ADOPTED", "DIRECT_REUSE"}, staged : Uploads \cup {None}]
Artifact == [state : {None, "PENDING_REFERENCE", "REFERENCED"}, by : Uploads \cup {None}]
CleanReceipt == [status : {None, "pending", "publishing", "failed", "published"},
                 owner : Uploads \cup {None}, lapsed : BOOLEAN, spool : Uploads \cup {None}]
Answers == {None, "result", "pending", "error", "conflict", "quota", "impossible"}

RowTypes == /\ res \in [Keys -> Reservation] /\ art \in [Images -> Artifact] /\ evidence \subseteq Keys
ScanTypes == /\ attempt \in [Keys -> {None, "clean", "bad"}] /\ receipt \in [Keys -> CleanReceipt]
             /\ clean \subseteq Keys
FileTypes == /\ spool \in [Uploads -> {None, "file", "stale"}]
             /\ formal \in [Keys -> SUBSET {"part", "payload", "record", "commit"}]
             /\ object \in [Uploads -> {None, "staged", "referenced"}]
UploadTypes ==
    /\ pc \in [Uploads -> Steps] /\ key \in [Uploads -> Keys \cup {None}]
    /\ body \in [Uploads -> Bodies \cup {None}] /\ resumed \subseteq Uploads
    /\ seen \in [Uploads -> {None, "nothing", "mark", "wait"}]
    /\ gate \in [Uploads -> {"open", "held", "cancelled"}]
    /\ on \in [Uploads -> Uploads \cup {None}] /\ reply \in [Uploads -> Answers]
    /\ lock \in [Sessions -> Uploads \cup {None}] /\ faults \in Nat
TypeOK == UploadTypes /\ RowTypes /\ ScanTypes /\ FileTypes

\* Steps from which an upload can no longer take back what it staged.
Late == {"follow", "refer", "confirm", "done"}
Early == Steps \ (Late \cup {"lock", "finalize"})

Scanned(k) == attempt[k] = "clean" /\ receipt[k].status = "published" /\ k \in clean
ReceiptOK(k) ==
    /\ receipt[k].status # None => attempt[k] = "clean"
    /\ receipt[k].owner # None => receipt[k].status = "publishing"

\* Taking v's object back would take it from no artifact.
Idle(v) == \A i \in Images : art[i].by = v => object[v] = "referenced"

\* u is to reference the object of the artifact its key's image has.
Refers(u) == Replayable(res[key[u]]) /\ on[u] \in Uploads /\ art[Image(key[u])].by = on[u]

UploadOK(u) ==
    /\ pc[u] # "idle" => key[u] \in Keys /\ body[u] \in Bodies
    /\ pc[u] \in Early => object[u] = None
    /\ pc[u] \in {"lock", "finalize"} => object[u] = "staged" /\ gate[u] = "held"
    /\ pc[u] = "activate" => receipt[key[u]].status = "published"
    /\ pc[u] \in {"validate", "stage", "lock", "finalize"} => Scanned(key[u])
    /\ pc[u] = "publish" /\ seen[u] # "mark" =>
          on[u] \in Uploads /\ pc[on[u]] \in Late /\ Idle(on[u])
    /\ pc[u] = "publish" /\ seen[u] = "nothing" => key[u] \in evidence
    /\ pc[u] = "publish" /\ seen[u] = "mark" => Refers(u)
    /\ pc[u] \in {"refer", "confirm"} => Refers(u)
    /\ pc[u] = "confirm" => object[on[u]] = "referenced"
    /\ reply[u] = "result" => pc[u] = "done" /\ key[u] \in evidence

RowOK(k) ==
    /\ res[k].status # None => res[k].body \in Bodies
    /\ k \in evidence <=> res[k].status = "COMPLETED"
    /\ ~Replayable(res[k]) => res[k].staged = None
    /\ Replayable(res[k]) =>
          /\ res[k].staged \in Uploads /\ res[k].intent \in {"MARK", "ABORT"}
          /\ pc[res[k].staged] \in Late /\ gate[res[k].staged] = "held"
          /\ art[Image(k)] # NoArt /\ Scanned(k)
          /\ res[k].intent = "MARK" => art[Image(k)].by = res[k].staged
          /\ res[k].intent = "ABORT" => \A i \in Images : art[i].by # res[k].staged
    /\ res[k].status = "COMPLETED" => art[Image(k)].state = "REFERENCED"

ArtOK(i) == art[i] # NoArt =>
    /\ art[i].state \in {"PENDING_REFERENCE", "REFERENCED"} /\ art[i].by \in Uploads
    /\ pc[art[i].by] \in Late
    /\ object[art[i].by] \in {"staged", "referenced"}
    /\ art[i].state = "REFERENCED" => object[art[i].by] = "referenced"

IInv == /\ TypeOK /\ QuotaHolds
        /\ \A u \in Uploads : UploadOK(u)
        /\ \A k \in Keys : RowOK(k) /\ ReceiptOK(k)
        /\ \A i \in Images : ArtOK(i)

-----------------------------------------------------------------------------
(* What every step does to the others *)

Same(v) == /\ pc'[v] = pc[v] /\ key'[v] = key[v] /\ body'[v] = body[v] /\ seen'[v] = seen[v]
           /\ gate'[v] = gate[v] /\ on'[v] = on[v] /\ reply'[v] = reply[v]
OthersStand(u) == \A v \in Uploads \ {u} : Same(v)

PeopleOnward == \A v \in Uploads : /\ pc[v] \in Late => pc'[v] \in Late
                                   /\ gate[v] = "held" => gate'[v] = "held"
ScansOnward == \A k \in Keys : /\ receipt[k].status = "published" => receipt'[k].status = "published"
                               /\ Scanned(k) => Scanned(k)'
ObjectStands(v) ==
    /\ object[v] = "referenced" => object'[v] = "referenced"
    /\ object[v] = "staged" /\ (\E i \in Images : art[i].by = v)
          => object'[v] \in {"staged", "referenced"}
ObjectsOnward == \A v \in Uploads : ObjectStands(v)
OthersKeep(u) == \A v \in Uploads \ {u} : pc[v] \notin Late => object'[v] = object[v]
RowStands(k) ==
    /\ Replayable(res[k]) => /\ Replayable(res'[k]) /\ res'[k].body = res[k].body
                             /\ res'[k].staged = res[k].staged /\ res'[k].intent = res[k].intent
    /\ k \in Dead => k \in Dead'
RowsOnward == /\ \A k \in Keys : RowStands(k)
              /\ evidence \subseteq evidence'
              /\ Dead' = Dead \/ evidence' = evidence
ArtStands(i) ==
    /\ art[i] # NoArt => art'[i].by = art[i].by /\ art'[i] # NoArt
    /\ art[i].state = "REFERENCED" => art'[i].state = "REFERENCED"
    /\ \/ art'[i].by = art[i].by
       \/ art'[i].by \in Uploads /\ pc[art'[i].by] \notin Late
ArtOnward == \A i \in Images : ArtStands(i)

LEMMA ImageIsImage ==
    ASSUME TypeOK, NEW k \in Keys, res[k].body \in Bodies PROVE Image(k) \in Images
BY MediaAssumption DEF Image, Images

\* The artifact that names an object, a step on, was there before.
LEMMA NoNewOwner ==
    ASSUME ArtOnward, NEW v \in Uploads, pc[v] \in Late, NEW i \in Images, art'[i].by = v
    PROVE  art[i].by = v
BY DEF ArtOnward, ArtStands

LEMMA IdleKept ==
    ASSUME ArtOnward, ObjectsOnward, NEW v \in Uploads, pc[v] \in Late, Idle(v) PROVE Idle(v)'
BY NoNewOwner DEF Idle, ObjectsOnward, ObjectStands

LEMMA RefersKept ==
    ASSUME IInv, RowsOnward, ArtOnward, NEW v \in Uploads, Refers(v), key[v] \in Keys,
           key'[v] = key[v], on'[v] = on[v]
    PROVE  Refers(v)'
<1> DEFINE k == key[v]
<1>1. /\ Replayable(res'[k]) /\ res'[k].body = res[k].body
  BY DEF Refers, RowsOnward, RowStands
<1>2. res[k].body \in Bodies
  BY DEF IInv, RowOK, Refers, Replayable, None
<1>3. Image(k) \in Images /\ Image(k)' = Image(k)
  BY <1>1, <1>2, ImageIsImage DEF Image, IInv
<1>4. art[Image(k)] # NoArt /\ art[Image(k)].by = on[v]
  BY DEF IInv, RowOK, Refers
<1>5. art'[Image(k)].by = on[v]
  BY <1>3, <1>4 DEF ArtOnward, ArtStands
<1> QED BY <1>1, <1>3, <1>5 DEF Refers

\* An upload that does not act, and relies on what only goes onward.
LEMMA UploadKept ==
    ASSUME IInv, NEW v \in Uploads, Same(v), object'[v] = object[v] \/ pc[v] \in Late,
           PeopleOnward, ScansOnward, ObjectsOnward, RowsOnward, ArtOnward
    PROVE  UploadOK(v)'
<1>0. UploadOK(v) /\ pc[v] \in Steps
  BY DEF IInv, TypeOK, UploadTypes
<1>1. pc'[v] # "idle" => key'[v] \in Keys /\ body'[v] \in Bodies
  BY <1>0 DEF UploadOK, Same
<1>2. pc'[v] \in Early => object'[v] = None
  BY <1>0 DEF UploadOK, Same, Early
<1>3. pc'[v] \in {"lock", "finalize"} => object'[v] = "staged" /\ gate'[v] = "held"
  BY <1>0 DEF UploadOK, Same, Late
<1>4. pc'[v] = "activate" => receipt'[key'[v]].status = "published"
  BY <1>0 DEF UploadOK, Same, ScansOnward
<1>5. pc'[v] \in {"validate", "stage", "lock", "finalize"} =>
          /\ attempt'[key'[v]] = "clean" /\ receipt'[key'[v]].status = "published"
          /\ key'[v] \in clean'
  <2>1. pc[v] \in {"validate", "stage", "lock", "finalize"} => key[v] \in Keys /\ Scanned(key[v])
    BY <1>0 DEF UploadOK
  <2>2. pc'[v] = pc[v] /\ key'[v] = key[v]
    BY DEF Same
  <2> QED BY <2>1, <2>2 DEF ScansOnward, Scanned
<1>6. pc'[v] = "publish" /\ seen'[v] # "mark" =>
          /\ on'[v] \in Uploads /\ pc'[on'[v]] \in Late
          /\ \A i \in Images : art'[i].by = on'[v] => object'[on'[v]] = "referenced"
  <2>1. SUFFICES ASSUME pc[v] = "publish", seen[v] # "mark", NEW w, w = on[v]
                 PROVE  w \in Uploads /\ pc'[w] \in Late /\ Idle(w)'
    BY DEF Same, Idle
  <2>2. w \in Uploads /\ pc[w] \in Late /\ Idle(w)
    BY <1>0, <2>1 DEF UploadOK
  <2>3. Idle(w)'
    BY <2>2, IdleKept
  <2> QED BY <2>2, <2>3 DEF PeopleOnward
<1>7. pc'[v] = "publish" /\ seen'[v] = "nothing" => key'[v] \in evidence'
  BY <1>0 DEF UploadOK, Same, RowsOnward
<1>8. pc'[v] = "publish" /\ seen'[v] = "mark" => Refers(v)'
  BY <1>0, RefersKept DEF UploadOK, Same
<1>9. pc'[v] \in {"refer", "confirm"} => Refers(v)'
  BY <1>0, RefersKept DEF UploadOK, Same
<1>10. pc'[v] = "confirm" => object'[on'[v]] = "referenced"
  BY <1>0 DEF UploadOK, Same, Refers, ObjectsOnward, ObjectStands
<1>11. reply'[v] = "result" => pc'[v] = "done" /\ key'[v] \in evidence'
  BY <1>0 DEF UploadOK, Same, RowsOnward
<1> QED BY <1>1, <1>2, <1>3, <1>4, <1>5, <1>6, <1>7, <1>8, <1>9, <1>10, <1>11
        DEF UploadOK, Scanned, Idle

LEMMA RowKept ==
    ASSUME IInv, NEW k \in Keys, res'[k] = res[k], k \in evidence' <=> k \in evidence,
           PeopleOnward, ScansOnward, ArtOnward
    PROVE  RowOK(k)'
<1>0. RowOK(k) /\ Image(k)' = Image(k)
  BY DEF IInv, Image
<1>1. Replayable(res[k]) =>
          /\ pc'[res[k].staged] \in Late /\ gate'[res[k].staged] = "held"
          /\ Scanned(k)'
  BY <1>0 DEF RowOK, PeopleOnward, ScansOnward
<1>2. Replayable(res[k]) => Image(k) \in Images
  BY <1>0, ImageIsImage DEF RowOK, Replayable, IInv, None
<1>3. Replayable(res[k]) =>
          /\ art'[Image(k)] # NoArt
          /\ res[k].intent = "MARK" => art'[Image(k)].by = res[k].staged
  BY <1>0, <1>2 DEF RowOK, ArtOnward, ArtStands
<1>4. Replayable(res[k]) /\ res[k].intent = "ABORT" =>
          \A i \in Images : art'[i].by # res[k].staged
  BY <1>0, NoNewOwner DEF RowOK
<1>5. res[k].status = "COMPLETED" => art'[Image(k)].state = "REFERENCED"
  BY <1>0, <1>2 DEF RowOK, ArtOnward, ArtStands, Replayable
<1> QED BY <1>0, <1>1, <1>3, <1>4, <1>5 DEF RowOK

LEMMA ArtKept ==
    ASSUME IInv, NEW i \in Images, art'[i] = art[i], PeopleOnward, ObjectsOnward
    PROVE  ArtOK(i)'
<1>1. ArtOK(i)
  BY DEF IInv
<1> QED BY <1>1 DEF ArtOK, PeopleOnward, ObjectsOnward, ObjectStands
-----------------------------------------------------------------------------
(* What a step may do to the rows *)

RowsGood == /\ RowTypes' /\ RowsOnward /\ ArtOnward /\ QuotaHolds'
            /\ \A k \in Keys : RowOK(k)'

LEMMA Combine ==
    ASSUME IInv, TypeOK', NEW u \in Uploads, OthersStand(u), OthersKeep(u), UploadOK(u)',
           PeopleOnward, ScansOnward, ObjectsOnward, RowsGood,
           \A k \in Keys : ReceiptOK(k)', \A i \in Images : ArtOK(i)'
    PROVE  IInv'
<1>1. \A v \in Uploads \ {u} : UploadOK(v)'
  BY UploadKept DEF OthersStand, OthersKeep, RowsGood
<1>2. QuotaHolds' /\ \A k \in Keys : RowOK(k)'
  BY DEF RowsGood
<1>3. \A v \in Uploads : UploadOK(v)'
  BY <1>1
<1> QED BY <1>2, <1>3 DEF IInv

LEMMA ShownAreImages ==
    ASSUME TypeOK, \A k \in Keys : RowOK(k), NEW s PROVE Shown(s) \subseteq Images
<1>1. ASSUME NEW k \in Keys, k \in evidence \/ res[k].status = "PENDING_REFERENCE"
      PROVE  Image(k) \in Images
  <2>1. RowOK(k)
    OBVIOUS
  <2>2. res[k].status # None
    BY <1>1, <2>1 DEF RowOK, None
  <2> QED BY <2>1, <2>2, ImageIsImage DEF RowOK
<1> QED BY <1>1 DEF Shown

\* A session that occupies, or shows, no more than before keeps within that quota.
LEMMA ItemsKept ==
    ASSUME IInv, NEW s \in Sessions,
           Occupied(res', evidence', s) \subseteq Occupied(res, evidence, s)
    PROVE  Cardinality(Occupied(res', evidence', s)) <= MaxItems
<1>1. Occupied(res, evidence, s) \subseteq Keys
  BY DEF Occupied
<1>2. IsFiniteSet(Occupied(res, evidence, s)) /\ IsFiniteSet(Occupied(res', evidence', s))
  BY <1>1, MediaAssumption, FS_Subset
<1>3. Cardinality(Occupied(res', evidence', s)) <= Cardinality(Occupied(res, evidence, s))
  BY <1>2, FS_Subset
<1>4. /\ Cardinality(Occupied(res, evidence, s)) \in Nat
      /\ Cardinality(Occupied(res', evidence', s)) \in Nat
  BY <1>2, FS_CardinalityType
<1>5. Cardinality(Occupied(res, evidence, s)) <= MaxItems
  BY DEF IInv, QuotaHolds
<1>6. MaxItems \in Nat
  BY MediaAssumption
<1> QED BY ONLY <1>3, <1>4, <1>5, <1>6

LEMMA ImagesKept ==
    ASSUME IInv, NEW s \in Sessions, Shown(s)' \subseteq Shown(s)
    PROVE  Cardinality(Shown(s)') <= MaxImages
<1>1. Shown(s) \subseteq Images
  BY ShownAreImages DEF IInv
<1>2. IsFiniteSet(Shown(s)) /\ IsFiniteSet(Shown(s)')
  BY <1>1, MediaAssumption, FS_Subset
<1>3. Cardinality(Shown(s)') <= Cardinality(Shown(s))
  BY <1>2, FS_Subset
<1>4. Cardinality(Shown(s)) \in Nat /\ Cardinality(Shown(s)') \in Nat
  BY <1>2, FS_CardinalityType
<1>5. Cardinality(Shown(s)) <= MaxImages
  BY DEF IInv, QuotaHolds
<1>6. MaxImages \in Nat
  BY MediaAssumption
<1> QED BY ONLY <1>3, <1>4, <1>5, <1>6

Occupies(k) == res[k].status \in Held \/ k \in evidence
Shows(k) == res[k].status = "PENDING_REFERENCE" \/ k \in evidence

LEMMA QuotaKept ==
    ASSUME IInv, \A k \in Keys : Occupies(k)' => Occupies(k),
           \A k \in Keys : Shows(k)' => Shows(k) /\ res'[k].body = res[k].body
    PROVE  QuotaHolds'
<1>1. ASSUME NEW s \in Sessions
      PROVE  /\ Occupied(res', evidence', s) \subseteq Occupied(res, evidence, s)
             /\ Shown(s)' \subseteq Shown(s)
  <2>1. Occupied(res', evidence', s) \subseteq Occupied(res, evidence, s)
    BY DEF Occupied, Occupies
  <2>2. Shown(s)' \subseteq Shown(s)
    BY DEF Shown, Image, Shows
  <2> QED BY <2>1, <2>2
<1> QED BY <1>1, ItemsKept, ImagesKept DEF QuotaHolds

LEMMA RowsStay ==
    ASSUME IInv, UNCHANGED rows, PeopleOnward, ScansOnward PROVE RowsGood
<1>1. RowTypes' /\ RowsOnward /\ ArtOnward
  BY DEF IInv, TypeOK, rows, RowTypes, RowsOnward, RowStands, ArtOnward, ArtStands, Dead
<1>2. QuotaHolds'
  BY QuotaKept DEF rows, Occupies, Shows
<1>3. \A k \in Keys : RowOK(k)'
  BY <1>1, RowKept DEF rows
<1> QED BY <1>1, <1>2, <1>3 DEF RowsGood

\* A key that nothing was staged for is reserved, grows old, lapses or is given up.
Open(k) == /\ res[k].status \in {None, "ACTIVE"}
           /\ res'[k].status \in {"ACTIVE", "REJECTED", "EXPIRED"}
           /\ res'[k].body \in Bodies /\ res'[k].staged = None

LEMMA RowsOpen ==
    ASSUME IInv, res' \in [Keys -> Reservation], UNCHANGED <<art, evidence>>,
           \A k \in Keys : res'[k] = res[k] \/ Open(k), QuotaHolds',
           PeopleOnward, ScansOnward
    PROVE  RowsGood
<1>1. RowTypes' /\ ArtOnward
  BY DEF IInv, TypeOK, RowTypes, ArtOnward, ArtStands
<1>2. \A k \in Keys : RowStands(k)
  BY DEF RowStands, Open, Replayable, Dead, None
<1>3. RowsOnward
  BY <1>2 DEF RowsOnward
<1>4. ASSUME NEW k \in Keys, Open(k) PROVE RowOK(k)'
  <2>1. k \notin evidence
    BY <1>4 DEF IInv, RowOK, Open, None
  <2> QED BY <1>4, <2>1 DEF RowOK, Open, Replayable
<1>5. \A k \in Keys : RowOK(k)'
  BY <1>1, <1>4, RowKept
<1> QED BY <1>1, <1>3, <1>5 DEF RowsGood

\* A key only loses what it was reserved for.
Drops(k) == /\ res[k].status = "ACTIVE" /\ res'[k].status \in {"ACTIVE", "REJECTED", "EXPIRED"}
            /\ res'[k].body = res[k].body /\ res'[k].staged = res[k].staged

LEMMA DropsOpen ==
    ASSUME IInv, NEW k \in Keys, Drops(k), UNCHANGED evidence
    PROVE  Open(k) /\ Occupies(k) /\ ~Shows(k)'
<1>1. RowOK(k)
  BY DEF IInv
<1>2. k \notin evidence /\ res[k].staged = None /\ res[k].body \in Bodies
  BY <1>1 DEF RowOK, Drops, Replayable, None
<1> QED BY <1>2 DEF Drops, Open, Occupies, Shows, Held, None

LEMMA RowsDropped ==
    ASSUME IInv, res' \in [Keys -> Reservation], UNCHANGED <<art, evidence>>,
           \A k \in Keys : res'[k] = res[k] \/ Drops(k),
           PeopleOnward, ScansOnward
    PROVE  RowsGood
<1>1. \A k \in Keys : res'[k] = res[k] \/ Open(k)
  BY DropsOpen
<1>2. QuotaHolds'
  <2>1. \A k \in Keys : Occupies(k)' => Occupies(k)
    BY DropsOpen DEF Occupies
  <2>2. \A k \in Keys : Shows(k)' => Shows(k) /\ res'[k].body = res[k].body
    BY DropsOpen DEF Shows
  <2> QED BY <2>1, <2>2, QuotaKept
<1> QED BY <1>1, <1>2, RowsOpen

LEMMA RowsGivenUp ==
    ASSUME IInv, NEW k \in Keys, res' = GivenUp(k), UNCHANGED <<art, evidence>>,
           PeopleOnward, ScansOnward
    PROVE  RowsGood
<1>1. CASE res[k].status # "ACTIVE"
  BY <1>1, RowsStay DEF GivenUp, rows
<1>2. CASE res[k].status = "ACTIVE"
  <2>1. res \in [Keys -> Reservation]
    BY DEF IInv, TypeOK, RowTypes
  <2>2. PICK w \in {"REJECTED", "EXPIRED"} : res' = [res EXCEPT ![k].status = w]
    BY <1>2 DEF GivenUp
  <2>3. /\ res' \in [Keys -> Reservation]
        /\ \A q \in Keys \ {k} : res'[q] = res[q]
    BY <2>1, <2>2 DEF Reservation
  <2>4. /\ res'[k].status = w /\ res'[k].body = res[k].body /\ res'[k].staged = res[k].staged
    BY <2>1, <2>2 DEF Reservation
  <2>5. Drops(k)
    BY <1>2, <2>4 DEF Drops
  <2> QED BY <2>3, <2>5, RowsDropped
<1> QED BY <1>1, <1>2

\* A row is completed when its artifact is referenced.
LEMMA RowsCompleted ==
    ASSUME IInv, NEW k \in Keys, NEW how \in {"FOLLOWER", "ADOPTED"}, Replayable(res[k]),
           res' = Completed(k, how), evidence' = evidence \cup {k},
           art' \in [Images -> Artifact], ArtOnward, art'[Image(k)].state = "REFERENCED",
           PeopleOnward, ScansOnward
    PROVE  RowsGood
<1>0. RowOK(k) /\ res \in [Keys -> Reservation] /\ evidence \subseteq Keys
  BY DEF IInv, TypeOK, RowTypes
<1> DEFINE r == [res[k] EXCEPT !.status = "COMPLETED", !.mode = how]
<1>1. /\ r \in Reservation /\ r.status = "COMPLETED" /\ r.body = res[k].body
      /\ r.staged = res[k].staged /\ r.intent = res[k].intent
  BY <1>0 DEF Reservation
<1>2. res' = [res EXCEPT ![k] = r]
  BY <1>0 DEF Completed
<1> HIDE DEF r
<1>3. res' \in [Keys -> Reservation] /\ (\A q \in Keys \ {k} : res'[q] = res[q]) /\ res'[k] = r
  BY <1>0, <1>1, <1>2
<1>4. /\ res'[k].status = "COMPLETED" /\ res'[k].body = res[k].body
      /\ res'[k].staged = res[k].staged /\ res'[k].intent = res[k].intent
  BY <1>1, <1>3
<1>5. k \in evidence \/ res[k].status = "PENDING_REFERENCE"
  BY <1>0 DEF RowOK, Replayable
<1>6. RowTypes'
  BY <1>0, <1>3 DEF RowTypes
<1>7. RowsOnward
  BY <1>3, <1>4 DEF RowsOnward, RowStands, Replayable, Dead
<1>8. QuotaHolds'
  BY <1>3, <1>4, <1>5, QuotaKept DEF Held, Occupies, Shows
<1>9. RowOK(k)'
  <2>1. /\ pc'[res[k].staged] \in Late /\ gate'[res[k].staged] = "held" /\ Scanned(k)'
    BY <1>0 DEF RowOK, PeopleOnward, ScansOnward
  <2>2. Image(k) \in Images /\ Image(k)' = Image(k)
    BY <1>0, <1>4, ImageIsImage DEF RowOK, Replayable, None, IInv, Image
  <2>3. /\ art'[Image(k)] # NoArt
        /\ res[k].intent = "MARK" => art'[Image(k)].by = res[k].staged
    BY <1>0, <2>2 DEF RowOK, ArtOnward, ArtStands
  <2>4. res[k].intent = "ABORT" => \A i \in Images : art'[i].by # res[k].staged
    BY <1>0, NoNewOwner DEF RowOK
  <2>5. res[k].staged \in Uploads /\ res[k].intent \in {"MARK", "ABORT"} /\ res[k].body \in Bodies
    BY <1>0 DEF RowOK, Replayable, None
  <2> QED BY <1>4, <2>1, <2>2, <2>3, <2>4, <2>5 DEF RowOK, Replayable
<1>10. \A q \in Keys : RowOK(q)'
  BY <1>3, <1>9, RowKept
<1> QED BY <1>6, <1>7, <1>8, <1>10 DEF RowsGood

LEMMA RowsLookedUp ==
    ASSUME IInv, NEW k \in Keys, LookUp(k), UNCHANGED art, PeopleOnward, ScansOnward
    PROVE  RowsGood
<1>1. CASE Follows(k)
  <2>1. art' \in [Images -> Artifact] /\ ArtOnward
    BY DEF IInv, TypeOK, RowTypes, ArtOnward, ArtStands
  <2> QED BY <1>1, <2>1, RowsCompleted DEF LookUp, Follows, Replayable
<1>2. CASE ~Follows(k)
  BY <1>2, RowsStay DEF LookUp, rows
<1> QED BY <1>1, <1>2

\* What is past its lease lapses, and nothing else changes.
LEMMA LapsedRows ==
    ASSUME IInv, NEW s
    PROVE  /\ Lapsed(s) \in [Keys -> Reservation]
           /\ \A k \in Keys : \/ Lapsed(s)[k] = res[k]
                              \/ /\ res[k].status = "ACTIVE" /\ Lapsed(s)[k].status = "EXPIRED"
                                 /\ Lapsed(s)[k].body = res[k].body
                                 /\ Lapsed(s)[k].staged = res[k].staged
<1>1. res \in [Keys -> Reservation]
  BY DEF IInv, TypeOK, RowTypes
<1>2. ASSUME NEW k \in Keys
      PROVE  LET r == [res[k] EXCEPT !.status = "EXPIRED"] IN
             /\ r \in Reservation /\ r.status = "EXPIRED" /\ r.body = res[k].body
             /\ r.staged = res[k].staged
  BY <1>1 DEF Reservation
<1>3. \A k \in Keys : res[k] \in Reservation
  BY <1>1
<1>4. ASSUME NEW k \in Keys PROVE Lapsed(s)[k] \in Reservation
  BY <1>2, <1>3 DEF Lapsed
<1> QED BY <1>2, <1>4 DEF Lapsed

LEMMA RowsLapsed ==
    ASSUME IInv, NEW s, res' = Lapsed(s), UNCHANGED <<art, evidence>>,
           PeopleOnward, ScansOnward
    PROVE  RowsGood
<1>1. \A k \in Keys : res'[k] = res[k] \/ Drops(k)
  BY LapsedRows DEF Drops
<1> QED BY <1>1, LapsedRows, RowsDropped

\* A new reservation is made only where one more item is left.
LEMMA RowsReserved ==
    ASSUME IInv, NEW u \in Uploads, NEW k \in Keys, body[u] \in Bodies,
           Lapsed(SessionOf[k])[k].status = None,
           ~(Cardinality(Occupied(Lapsed(SessionOf[k]), evidence, SessionOf[k])) >= MaxItems),
           res' = [Lapsed(SessionOf[k]) EXCEPT ![k] = Fresh(u)],
           UNCHANGED <<art, evidence>>, PeopleOnward, ScansOnward
    PROVE  RowsGood
<1> DEFINE now == Lapsed(SessionOf[k])
           mine == SessionOf[k]
<1>1. /\ Fresh(u) \in Reservation /\ Fresh(u).status = "ACTIVE" /\ Fresh(u).body = body[u]
      /\ Fresh(u).staged = None
  BY DEF Fresh, NoRes, Reservation
<1>2. res[k].status = None /\ k \notin evidence
  <2>1. RowOK(k)
    BY DEF IInv
  <2> QED BY <2>1, LapsedRows DEF RowOK, None
<1>3. /\ res' \in [Keys -> Reservation] /\ res'[k] = Fresh(u)
      /\ \A q \in Keys \ {k} : res'[q] = now[q]
  BY <1>1, LapsedRows
<1>4. Open(k)
  BY <1>1, <1>2, <1>3 DEF Open
<1>5. ASSUME NEW q \in Keys \ {k} PROVE res'[q] = res[q] \/ Drops(q)
  BY <1>3, LapsedRows DEF Drops
<1>6. \A q \in Keys \ {k} : Occupies(q)' => Occupies(q)
  BY <1>5, DropsOpen DEF Occupies
<1>7. \A q \in Keys : Shows(q)' => Shows(q) /\ res'[q].body = res[q].body
  <2>1. ~Shows(k)'
    BY <1>1, <1>2, <1>3 DEF Shows
  <2> QED BY <1>5, <2>1, DropsOpen DEF Shows
<1>8. ASSUME NEW s \in Sessions
      PROVE  Cardinality(Occupied(res', evidence', s)) <= MaxItems
  <2>1. CASE s # mine
    <3>1. Occupied(res', evidence', s) \subseteq Occupied(res, evidence, s)
      BY <1>6, <2>1 DEF Occupied, Occupies
    <3> QED BY <3>1, ItemsKept
  <2>2. CASE s = mine
    <3> DEFINE before == Occupied(now, evidence, s)
               after == Occupied(res', evidence', s)
    <3>1. after \subseteq before \cup {k} /\ before \subseteq Keys
      BY <1>3 DEF Occupied
    <3>2. IsFiniteSet(before)
      BY <3>1, MediaAssumption, FS_Subset
    <3>3. Cardinality(before) \in Nat
      BY <3>2, FS_CardinalityType
    <3>4. /\ IsFiniteSet(before \cup {k})
          /\ Cardinality(before \cup {k}) \in {Cardinality(before), Cardinality(before) + 1}
      BY <3>2, FS_AddElement
    <3>5. Cardinality(after) \in Nat /\ Cardinality(after) <= Cardinality(before \cup {k})
      BY <3>1, <3>4, FS_Subset, FS_CardinalityType
    <3>6. MaxItems \in Nat /\ ~(Cardinality(before) >= MaxItems)
      BY <2>2, MediaAssumption
    <3> HIDE DEF before, after
    <3>7. Cardinality(after) <= MaxItems
      BY ONLY <3>3, <3>4, <3>5, <3>6
    <3> QED BY <3>7 DEF after
  <2> QED BY <2>1, <2>2
<1>9. ASSUME NEW s \in Sessions PROVE Cardinality(Shown(s)') <= MaxImages
  <2>1. Shown(s)' \subseteq Shown(s)
    BY <1>7 DEF Shown, Image, Shows
  <2> QED BY <2>1, ImagesKept
<1>10. QuotaHolds'
  BY <1>8, <1>9 DEF QuotaHolds
<1>11. \A q \in Keys : res'[q] = res[q] \/ Open(q)
  BY <1>4, <1>5, DropsOpen
<1> QED BY <1>3, <1>10, <1>11, RowsOpen

\* No artifact and no intent names an upload that has not finalized.
LEMMA EarlyIsUnnamed ==
    ASSUME IInv, NEW u \in Uploads, pc[u] \notin Late
    PROVE  /\ \A i \in Images : art[i].by # u
           /\ \A k \in Keys : res[k].staged # u
<1>1. ASSUME NEW i \in Images PROVE art[i].by # u
  <2>1. ArtOK(i) /\ (art[i] = NoArt => art[i].by = None)
    BY DEF IInv, NoArt
  <2> QED BY <2>1, MediaAssumption DEF ArtOK
<1>2. ASSUME NEW k \in Keys PROVE res[k].staged # u
  <2>1. RowOK(k)
    BY DEF IInv
  <2> QED BY <2>1, MediaAssumption DEF RowOK
<1> QED BY <1>1, <1>2

\* The finalize shows one more image only where one more is left.
LEMMA RowsSettled ==
    ASSUME IInv, NEW u \in Uploads, NEW k \in Keys, NEW i, i = Image(k),
           pc[u] = "finalize", key[u] = k, pc'[u] \in Late, gate' = gate,
           res[k].status = "ACTIVE", ~TooMany(k), res' = Settled(k, u),
           art' = IF art[i] = NoArt
                    THEN [art EXCEPT ![i] = [state |-> "PENDING_REFERENCE", by |-> u]] ELSE art,
           evidence' = IF art[i].state = "REFERENCED" THEN evidence \cup {k} ELSE evidence,
           PeopleOnward, ScansOnward
    PROVE  RowsGood
<1> DEFINE intent == IF art[i] = NoArt THEN "MARK" ELSE "ABORT"
           status == IF art[i].state = "REFERENCED" THEN "COMPLETED" ELSE "PENDING_REFERENCE"
           mode == IF art[i].state = "REFERENCED" THEN "DIRECT_REUSE" ELSE None
           r1 == [res[k] EXCEPT !.staged = u]
           r2 == [r1 EXCEPT !.intent = intent]
           r3 == [r2 EXCEPT !.status = status]
           r == [r3 EXCEPT !.mode = mode]
<1>1. /\ res \in [Keys -> Reservation] /\ art \in [Images -> Artifact] /\ evidence \subseteq Keys
      /\ RowOK(k) /\ UploadOK(u)
  BY DEF IInv, TypeOK, RowTypes
<1>2. k \notin evidence /\ res[k].body \in Bodies
  BY <1>1 DEF RowOK, None
<1>3. i \in Images
  BY <1>2, ImageIsImage DEF IInv
<1>4. /\ r \in Reservation /\ r.body = res[k].body /\ r.staged = u
      /\ r.intent = intent /\ r.status = status
  <2>1. /\ res[k] \in Reservation /\ intent \in {"MARK", "ABORT"}
        /\ status \in {"COMPLETED", "PENDING_REFERENCE"} /\ mode \in {None, "DIRECT_REUSE"}
    BY <1>1
  <2> HIDE DEF intent, status, mode
  <2>2. r1 \in Reservation /\ r1.body = res[k].body /\ r1.staged = u
    BY <2>1 DEF Reservation
  <2> HIDE DEF r1
  <2>3. r2 \in Reservation /\ r2.body = res[k].body /\ r2.staged = u /\ r2.intent = intent
    BY <2>1, <2>2 DEF Reservation
  <2> HIDE DEF r2
  <2>4. /\ r3 \in Reservation /\ r3.body = res[k].body /\ r3.staged = u /\ r3.intent = intent
        /\ r3.status = status
    BY <2>1, <2>3 DEF Reservation
  <2> HIDE DEF r3
  <2> QED BY <2>1, <2>4 DEF Reservation
<1>5. res' = [res EXCEPT ![k] = r]
  BY <1>1 DEF Settled
<1> HIDE DEF r, r1, r2, r3
<1>6. res' \in [Keys -> Reservation] /\ res'[k] = r /\ \A q \in Keys \ {k} : res'[q] = res[q]
  BY <1>1, <1>4, <1>5
<1>7. art' \in [Images -> Artifact]
  BY <1>1 DEF Artifact
<1>8. ArtOnward
  <2>1. ASSUME NEW j \in Images, j # i \/ art[i] # NoArt PROVE art'[j] = art[j]
    BY <1>1, <1>3, <2>1
  <2>2. CASE art[i] = NoArt
    <3>1. art'[i] = [state |-> "PENDING_REFERENCE", by |-> u] /\ NoArt.state = None
      BY <1>1, <1>3, <2>2 DEF NoArt
    <3>2. art'[i].by = u /\ u \in Uploads /\ pc[u] \notin Late
      BY <3>1 DEF Late
    <3>3. ArtStands(i)
      BY <2>2, <3>1, <3>2 DEF ArtStands, None
    <3> QED BY <2>1, <3>3 DEF ArtOnward, ArtStands
  <2>3. CASE art[i] # NoArt
    BY <2>1, <2>3 DEF ArtOnward, ArtStands
  <2> QED BY <2>2, <2>3
<1>9. RowsOnward
  BY <1>1, <1>4, <1>6 DEF RowsOnward, RowStands, Replayable, Dead
<1>10. RowOK(k)'
  <2>1. Image(k)' = i
    BY <1>4, <1>6 DEF Image
  <2>2. pc'[u] \in Late /\ gate'[u] = "held" /\ Scanned(k)'
    BY <1>1 DEF UploadOK, ScansOnward
  <2>3. art'[i] # NoArt /\ (art[i] = NoArt => art'[i].by = u)
    BY <1>1, <1>3, MediaAssumption DEF NoArt
  <2>4. art[i] # NoArt => \A j \in Images : art'[j].by # u
    BY EarlyIsUnnamed DEF Late
  <2>5. k \in evidence' <=> art[i].state = "REFERENCED"
    BY <1>2
  <2>6. art[i].state = "REFERENCED" => art'[i].state = "REFERENCED"
    BY <1>3, <1>8 DEF ArtOnward, ArtStands
  <2>7. res'[k].body \in Bodies /\ res'[k].staged = u
    BY <1>2, <1>4, <1>6
  <2>8. /\ res'[k].intent = "MARK" => art[i] = NoArt
        /\ res'[k].intent = "ABORT" => art[i] # NoArt
        /\ res'[k].intent \in {"MARK", "ABORT"}
    BY <1>4, <1>6
  <2>9. res'[k].status = IF art[i].state = "REFERENCED" THEN "COMPLETED" ELSE "PENDING_REFERENCE"
    BY <1>4, <1>6
  <2> QED BY <2>1, <2>2, <2>3, <2>4, <2>5, <2>6, <2>7, <2>8, <2>9 DEF RowOK, Replayable
<1>11. \A q \in Keys : RowOK(q)'
  BY <1>6, <1>8, <1>10, RowKept
<1>12. ASSUME NEW s \in Sessions PROVE Cardinality(Occupied(res', evidence', s)) <= MaxItems
  <2>1. Occupied(res', evidence', s) \subseteq Occupied(res, evidence, s)
    BY <1>6 DEF Occupied, Held
  <2> QED BY <2>1, ItemsKept
<1>13. ASSUME NEW s \in Sessions PROVE Cardinality(Shown(s)') <= MaxImages
  <2>1. Image(k)' = i /\ \A q \in Keys \ {k} : Image(q)' = Image(q)
    BY <1>4, <1>6 DEF Image
  <2>2. CASE s # SessionOf[k]
    <3>1. Shown(s)' \subseteq Shown(s)
      BY <1>6, <2>1, <2>2 DEF Shown
    <3> QED BY <3>1, ImagesKept
  <2>3. CASE s = SessionOf[k]
    <3> DEFINE after == Shown(s)'
               most == Shown(s) \cup {i}
    <3>1. after \subseteq most
      BY <1>6, <2>1 DEF Shown
    <3>2. most \subseteq Images
      BY <1>3, ShownAreImages DEF IInv
    <3>3. IsFiniteSet(most) /\ IsFiniteSet(after)
      BY <3>1, <3>2, MediaAssumption, FS_Subset
    <3>4. /\ Cardinality(most) \in Nat /\ Cardinality(after) \in Nat
          /\ Cardinality(after) <= Cardinality(most)
      BY <3>1, <3>3, FS_Subset, FS_CardinalityType
    <3>5. ~(Cardinality(most) > MaxImages) /\ MaxImages \in Nat
      BY <2>3, MediaAssumption DEF TooMany
    <3> HIDE DEF after, most
    <3>6. Cardinality(after) <= MaxImages
      BY ONLY <3>4, <3>5
    <3> QED BY <3>6 DEF after
  <2> QED BY <2>2, <2>3
<1>14. QuotaHolds'
  BY <1>12, <1>13 DEF QuotaHolds
<1>15. RowTypes'
  BY <1>1, <1>6, <1>7 DEF RowTypes
<1> QED BY <1>8, <1>9, <1>11, <1>14, <1>15 DEF RowsGood

-----------------------------------------------------------------------------
(* What a step may do to its upload, to the scans and to the objects *)

Walked(u, p) == /\ UploadTypes' /\ OthersStand(u) /\ PeopleOnward
                /\ pc'[u] = p /\ key'[u] = key[u] /\ body'[u] = body[u]
                /\ key[u] \in Keys /\ body[u] \in Bodies
ScansGood == ScanTypes' /\ ScansOnward /\ \A k \in Keys : ReceiptOK(k)'
ObjectsGood(u) == /\ object' \in [Uploads -> {None, "staged", "referenced"}]
                  /\ OthersKeep(u) /\ ObjectsOnward
Onward(u) == IInv' /\ RowsOnward /\ OthersStand(u)

\* Of the other uploads nothing changes.
Alone(u) == \A v \in Uploads \ {u} : /\ seen'[v] = seen[v] /\ gate'[v] = gate[v]
                                     /\ on'[v] = on[v] /\ reply'[v] = reply[v]

LEMMA Walks ==
    ASSUME IInv, NEW u \in Uploads, NEW p \in Steps, Go(u, p), pc[u] # "idle",
           pc[u] \in Late => p \in Late, UNCHANGED <<key, body>>, Alone(u),
           gate[u] = "held" => gate'[u] = "held",
           resumed' \subseteq Uploads, seen' \in [Uploads -> {None, "nothing", "mark", "wait"}],
           gate' \in [Uploads -> {"open", "held", "cancelled"}],
           on' \in [Uploads -> Uploads \cup {None}], reply' \in [Uploads -> Answers],
           lock' \in [Sessions -> Uploads \cup {None}], faults' \in Nat
    PROVE  Walked(u, p)
<1>1. pc \in [Uploads -> Steps] /\ UploadOK(u)
  BY DEF IInv, TypeOK, UploadTypes
<1>2. pc' \in [Uploads -> Steps] /\ pc'[u] = p /\ \A v \in Uploads \ {u} : pc'[v] = pc[v]
  BY <1>1 DEF Go
<1>3. UploadTypes'
  BY <1>2 DEF IInv, TypeOK, UploadTypes
<1>4. OthersStand(u)
  BY <1>2 DEF OthersStand, Same, Alone
<1>5. PeopleOnward
  BY <1>2 DEF PeopleOnward, Alone
<1>6. key[u] \in Keys /\ body[u] \in Bodies
  BY <1>1 DEF UploadOK
<1> QED BY <1>2, <1>3, <1>4, <1>5, <1>6 DEF Walked

LEMMA WalksOn ==
    ASSUME IInv, NEW u \in Uploads, NEW p \in Steps, Go(u, p), pc[u] # "idle",
           pc[u] \in Late => p \in Late, UNCHANGED <<upload, gate, reply, lock, faults>>
    PROVE  Walked(u, p)
<1>1. Alone(u)
  BY DEF Alone, upload
<1> QED BY <1>1, Walks DEF upload, IInv, TypeOK, UploadTypes

LEMMA Ends ==
    ASSUME IInv, NEW u \in Uploads, NEW what \in Answers, Answer(u, what), pc[u] # "idle",
           \A v \in Uploads \ {u} : seen'[v] = seen[v] /\ on'[v] = on[v],
           UNCHANGED <<key, body, resumed, gate>>,
           seen' \in [Uploads -> {None, "nothing", "mark", "wait"}],
           on' \in [Uploads -> Uploads \cup {None}], faults' \in Nat
    PROVE  Walked(u, "done") /\ reply'[u] = what
<1>1. /\ reply \in [Uploads -> Answers] /\ lock \in [Sessions -> Uploads \cup {None}]
      /\ resumed \subseteq Uploads /\ gate \in [Uploads -> {"open", "held", "cancelled"}]
  BY DEF IInv, TypeOK, UploadTypes
<1>2. /\ reply' \in [Uploads -> Answers] /\ reply'[u] = what
      /\ \A v \in Uploads \ {u} : reply'[v] = reply[v]
  BY <1>1 DEF Answer
<1>3. lock' \in [Sessions -> Uploads \cup {None}]
  BY <1>1 DEF Answer, Freed
<1>4. Alone(u)
  BY <1>2 DEF Alone
<1>5. "done" \in Steps /\ "done" \in Late /\ Go(u, "done")
  BY DEF Steps, Late, Answer
<1> QED BY <1>1, <1>2, <1>3, <1>4, <1>5, Walks

LEMMA EndIsOK ==
    ASSUME NEW u \in Uploads, Walked(u, "done"), reply'[u] # "result" \/ key[u] \in evidence'
    PROVE  UploadOK(u)'
BY DEF Walked, UploadOK, Early, Late

LEMMA ScansStay == ASSUME IInv, UNCHANGED scans PROVE ScansGood
BY DEF IInv, TypeOK, scans, ScansGood, ScanTypes, ScansOnward, Scanned, ReceiptOK

LEMMA ObjectsStay == ASSUME IInv, NEW u, UNCHANGED object PROVE ObjectsGood(u)
BY DEF IInv, TypeOK, FileTypes, ObjectsGood, OthersKeep, ObjectsOnward, ObjectStands

\* What u takes back before its finalize is its own, and nobody's yet.
LEMMA ObjectsAborted ==
    ASSUME IInv, NEW u \in Uploads, pc[u] \notin Late, object' = Aborted(u)
    PROVE  ObjectsGood(u)
<1>1. object \in [Uploads -> {None, "staged", "referenced"}]
  BY DEF IInv, TypeOK, FileTypes
<1>2. /\ object' \in [Uploads -> {None, "staged", "referenced"}]
      /\ \A v \in Uploads \ {u} : object'[v] = object[v]
      /\ object[u] = "referenced" => object'[u] = "referenced"
  BY <1>1 DEF Aborted
<1>3. \A v \in Uploads : ObjectStands(v)
  BY <1>1, <1>2, EarlyIsUnnamed DEF ObjectStands
<1> QED BY <1>2, <1>3 DEF ObjectsGood, OthersKeep, ObjectsOnward

LEMMA Goes ==
    ASSUME IInv, NEW u \in Uploads, NEW p, Walked(u, p), ObjectsGood(u), ScansGood, RowsGood,
           FileTypes', UNCHANGED art, UploadOK(u)'
    PROVE  Onward(u)
<1>1. TypeOK'
  BY DEF TypeOK, Walked, ScansGood, RowsGood
<1>2. \A i \in Images : ArtOK(i)'
  BY ArtKept DEF Walked, ObjectsGood
<1>3. IInv'
  BY <1>1, <1>2, Combine DEF Walked, ObjectsGood, ScansGood
<1> QED BY <1>3 DEF Onward, Walked, RowsGood
-----------------------------------------------------------------------------
(* The ways an upload ends without a result *)

Ending(u) == /\ pc[u] # "idle" /\ ScansGood
             /\ UNCHANGED <<upload, gate, art, evidence>> /\ faults' \in Nat
             /\ formal' \in [Keys -> SUBSET {"part", "payload", "record", "commit"}]

LEMMA EndingWalks ==
    ASSUME IInv, NEW u \in Uploads, Ending(u), NEW what \in Answers \ {"result"}, Answer(u, what)
    PROVE  Walked(u, "done") /\ UploadOK(u)'
<1>1. Walked(u, "done") /\ reply'[u] = what
  BY Ends DEF Ending, upload, IInv, TypeOK, UploadTypes
<1> QED BY <1>1, EndIsOK

LEMMA Fails ==
    ASSUME IInv, NEW u \in Uploads, Ending(u), pc[u] \notin Late, Fail(u) PROVE Onward(u)
<1>1. Walked(u, "done") /\ UploadOK(u)'
  BY EndingWalks DEF Fail, Answers
<1>2. key[u] \in Keys /\ RowsGood
  BY <1>1, RowsGivenUp DEF Walked, Ending, ScansGood, Fail
<1>3. ObjectsGood(u)
  BY ObjectsAborted DEF Fail
<1>4. FileTypes'
  BY <1>3 DEF Fail, Ending, ObjectsGood, FileTypes, IInv, TypeOK, Dropped
<1> QED BY <1>1, <1>2, <1>3, <1>4, Goes DEF Ending

LEMMA Pends ==
    ASSUME IInv, NEW u \in Uploads, Ending(u), pc[u] \notin Late, Pend(u) PROVE Onward(u)
<1>1. Walked(u, "done") /\ UploadOK(u)'
  BY EndingWalks DEF Pend, Answers
<1>2. RowsGood
  BY <1>1, RowsStay DEF Walked, Ending, ScansGood, Pend, rows
<1>3. ObjectsGood(u)
  BY ObjectsAborted DEF Pend
<1>4. FileTypes'
  BY <1>3 DEF Pend, Ending, ObjectsGood, FileTypes, IInv, TypeOK
<1> QED BY <1>1, <1>2, <1>3, <1>4, Goes DEF Ending

LEMMA Unrejects ==
    ASSUME IInv, NEW u \in Uploads, Ending(u), Unrejected(u) PROVE Onward(u)
<1>1. Walked(u, "done") /\ UploadOK(u)'
  BY EndingWalks DEF Unrejected, Answers
<1>2. RowsGood
  BY <1>1, RowsStay DEF Walked, Ending, ScansGood, Unrejected, rows
<1>3. ObjectsGood(u)
  BY ObjectsStay DEF Unrejected
<1>4. FileTypes'
  BY <1>3 DEF Unrejected, Ending, ObjectsGood, FileTypes, IInv, TypeOK, Dropped
<1> QED BY <1>1, <1>2, <1>3, <1>4, Goes DEF Ending

\* An upload that ends and changes nothing else.
LEMMA Leaves ==
    ASSUME IInv, NEW u \in Uploads, Ending(u), NEW what \in Answers \ {"result"}, Answer(u, what),
           UNCHANGED <<res, spool, object>>
    PROVE  Onward(u)
<1>1. Walked(u, "done") /\ UploadOK(u)'
  BY EndingWalks
<1>2. RowsGood
  BY <1>1, RowsStay DEF Walked, Ending, ScansGood, rows
<1>3. ObjectsGood(u)
  BY ObjectsStay
<1>4. FileTypes'
  BY <1>3 DEF Ending, ObjectsGood, FileTypes, IInv, TypeOK
<1> QED BY <1>1, <1>2, <1>3, <1>4, Goes DEF Ending

-----------------------------------------------------------------------------
(* Reservation and replay *)

\* Before the commit there is nothing to say of an upload but that it staged nothing.
LEMMA EarlyIsOK ==
    ASSUME NEW u \in Uploads, NEW p \in Early \ {"publish", "activate", "validate", "stage"},
           Walked(u, p), object'[u] = None, reply'[u] # "result"
    PROVE  UploadOK(u)'
BY DEF Walked, UploadOK, Early, Late, Steps

LEMMA NoResultYet ==
    ASSUME IInv, NEW u \in Uploads, pc[u] # "done"
    PROVE  reply[u] # "result" /\ (pc[u] \in Early => object[u] = None)
<1>1. UploadOK(u)
  BY DEF IInv
<1> QED BY <1>1 DEF UploadOK

LEMMA KeyIsKey ==
    ASSUME IInv, NEW u \in Uploads, pc[u] # "idle"
    PROVE  key[u] \in Keys /\ body[u] \in Bodies
<1>1. UploadOK(u)
  BY DEF IInv
<1> QED BY <1>1 DEF UploadOK

\* An upload that goes on within the early steps and leaves rows and objects alone.
LEMMA GoesEarly ==
    ASSUME IInv, NEW u \in Uploads, NEW p \in Early \ {"publish", "activate", "validate", "stage"},
           Walked(u, p), pc[u] \in Early, ScansGood, RowsGood, FileTypes',
           UNCHANGED <<object, art, reply>>
    PROVE  Onward(u)
<1>1. UploadOK(u)'
  BY NoResultYet, EarlyIsOK DEF Early, Late
<1>2. ObjectsGood(u)
  BY ObjectsStay
<1> QED BY <1>1, <1>2, Goes

LEMMA StartGoesOn == ASSUME IInv, NEW u \in Uploads, Start(u) PROVE Onward(u)
<1>1. /\ pc \in [Uploads -> Steps] /\ key \in [Uploads -> Keys \cup {None}]
      /\ body \in [Uploads -> Bodies \cup {None}] /\ pc[u] = "idle"
  BY DEF IInv, TypeOK, UploadTypes, Start
<1>2. PICK k \in Keys, b \in Bodies :
          key' = [key EXCEPT ![u] = k] /\ body' = [body EXCEPT ![u] = b]
  BY DEF Start
<1>3. pc' = [pc EXCEPT ![u] = "replay"] /\ "replay" \in Steps
  BY DEF Start, Go, Steps
<1>4. /\ pc' \in [Uploads -> Steps] /\ pc'[u] = "replay"
      /\ key' \in [Uploads -> Keys \cup {None}] /\ key'[u] = k
      /\ body' \in [Uploads -> Bodies \cup {None}] /\ body'[u] = b
      /\ \A v \in Uploads \ {u} : pc'[v] = pc[v] /\ key'[v] = key[v] /\ body'[v] = body[v]
  BY <1>1, <1>2, <1>3
<1>5. OthersStand(u) /\ PeopleOnward
  BY <1>1, <1>4 DEF OthersStand, Same, PeopleOnward, Start, Late
<1>6. ScansGood /\ ObjectsGood(u)
  BY ScansStay, ObjectsStay DEF Start, files
<1>7. RowsGood
  BY <1>5, <1>6, RowsStay DEF ScansGood, Start
<1>8. TypeOK'
  <2>1. UploadTypes'
    BY <1>4 DEF Start, IInv, TypeOK, UploadTypes
  <2>2. FileTypes'
    BY DEF Start, files, IInv, TypeOK, FileTypes
  <2> QED BY <1>6, <1>7, <2>1, <2>2 DEF TypeOK, ScansGood, RowsGood
<1>9. UploadOK(u)'
  <2>1. reply'[u] # "result" /\ object'[u] = None
    BY <1>1, NoResultYet DEF Start, files, Early, Late, Steps
  <2> QED BY <1>4, <2>1 DEF UploadOK
<1>10. \A i \in Images : ArtOK(i)'
  BY <1>5, <1>6, ArtKept DEF ObjectsGood, Start, rows
<1>11. IInv'
  BY <1>5, <1>6, <1>7, <1>8, <1>9, <1>10, Combine DEF ScansGood, ObjectsGood
<1> QED BY <1>5, <1>7, <1>11 DEF Onward, RowsGood

LEMMA FindReplayGoesOn == ASSUME IInv, NEW u \in Uploads, FindReplay(u) PROVE Onward(u)
<1> DEFINE k == key[u]
<1>1. /\ pc[u] \in {"replay", "again"} /\ k \in Keys /\ ScansGood /\ ObjectsGood(u) /\ FileTypes'
      /\ UNCHANGED <<key, body, resumed, gate, art, scans, spool, formal, object, faults>>
      /\ pc[u] \in Early \ {"idle"}
  BY KeyIsKey, ScansStay, ObjectsStay
  DEF FindReplay, files, IInv, TypeOK, FileTypes, Early, Late, Steps
<1>2. CASE Conflicts(u) /\ Answer(u, "conflict") /\ UNCHANGED <<res, evidence, seen, on>>
  <2>1. Ending(u)
    BY <1>1, <1>2 DEF Ending, upload, IInv, TypeOK, FileTypes, UploadTypes
  <2> QED BY <1>1, <1>2, <2>1, Leaves DEF Answers
<1>3. ASSUME LookUp(k), Replayable(res'[k]), Go(u, "publish"),
             on' = [on EXCEPT ![u] = res'[k].staged], seen' = [seen EXCEPT ![u] = Asks(res'[k])],
             UNCHANGED <<reply, lock>>
      PROVE  Onward(u)
  <2>1. /\ on \in [Uploads -> Uploads \cup {None}]
        /\ seen \in [Uploads -> {None, "nothing", "mark", "wait"}]
    BY DEF IInv, TypeOK, UploadTypes
  <2>2. PeopleOnward /\ RowsGood
    <3>1. pc \in [Uploads -> Steps]
      BY DEF IInv, TypeOK, UploadTypes
    <3>2. PeopleOnward
      BY <1>1, <1>3, <3>1 DEF PeopleOnward, Go, Late
    <3> QED BY <1>1, <1>3, <3>2, RowsLookedUp DEF ScansGood
  <2>3. RowOK(k)' /\ k' = k
    BY <1>1, <2>2 DEF RowsGood
  <2>4. /\ res'[k].staged \in Uploads /\ res'[k].intent \in {"MARK", "ABORT"}
        /\ pc'[res'[k].staged] \in Late
    BY <1>1, <1>3, <2>2 DEF RowsGood, RowOK
  <2>5. /\ on' \in [Uploads -> Uploads \cup {None}] /\ on'[u] = res'[k].staged
        /\ \A v \in Uploads \ {u} : on'[v] = on[v]
    BY <1>3, <2>1, <2>4
  <2>6. /\ seen' \in [Uploads -> {None, "nothing", "mark", "wait"}] /\ seen'[u] = Asks(res'[k])
        /\ \A v \in Uploads \ {u} : seen'[v] = seen[v]
    BY <1>3, <2>1 DEF Asks
  <2>7. Walked(u, "publish")
    <3>1. Alone(u)
      BY <1>1, <1>3, <2>5, <2>6 DEF Alone
    <3>2. "publish" \in Steps
      BY DEF Steps
    <3> QED BY <1>1, <1>3, <2>5, <2>6, <3>1, <3>2, Walks
            DEF IInv, TypeOK, UploadTypes, Late
  <2>8. ASSUME Asks(res'[k]) # "mark", NEW w, w = res'[k].staged
        PROVE  \A i \in Images : art'[i].by = w => object'[w] = "referenced"
    <3>1. CASE res'[k].intent = "ABORT"
      BY <1>3, <2>3, <2>8, <3>1 DEF RowOK
    <3>2. CASE res'[k].intent = "MARK"
      <4>1. res'[k].status = "COMPLETED"
        BY <2>8, <3>2 DEF Asks
      <4>2. PICK i : i = Image(k)'
        OBVIOUS
      <4>3. /\ i \in Images /\ art'[i].by = w /\ art'[i].state = "REFERENCED"
        <5>1. res'[k].body \in Bodies
          BY <2>3, <4>1 DEF RowOK, None
        <5> QED BY <1>1, <1>3, <2>3, <2>8, <3>2, <4>1, <4>2, <5>1, MediaAssumption
                DEF RowOK, Image
      <4>4. ArtOK(i) /\ art[i] # NoArt
        BY <1>1, <4>3 DEF IInv, NoArt, None
      <4> QED BY <1>1, <4>3, <4>4 DEF ArtOK
    <3> QED BY <2>4, <3>1, <3>2
  <2>9. UploadOK(u)'
    <3>1. object'[u] = None /\ reply'[u] # "result"
      BY <1>1, <1>3, NoResultYet DEF Early, Late
    <3>2. Asks(res'[k]) # "mark" =>
            /\ on'[u] \in Uploads /\ pc'[on'[u]] \in Late
            /\ \A i \in Images : art'[i].by = on'[u] => object'[on'[u]] = "referenced"
      BY <2>4, <2>5, <2>8
    <3>3. Asks(res'[k]) = "nothing" => k \in evidence'
      BY <2>3 DEF RowOK, Asks
    <3>4. Asks(res'[k]) = "mark" => Refers(u)'
      <4>1. ASSUME Asks(res'[k]) = "mark" PROVE res'[k].intent = "MARK"
        BY <4>1 DEF Asks
      <4> QED BY <1>1, <1>3, <2>3, <2>4, <2>5, <4>1 DEF RowOK, Refers
    <3> QED BY <1>1, <2>6, <2>7, <3>1, <3>2, <3>3, <3>4 DEF UploadOK, Walked, Idle
  <2> QED BY <1>1, <2>2, <2>7, <2>9, Goes
<1>4. ASSUME LookUp(k), ~Replayable(res'[k]), UNCHANGED <<seen, on>>
      PROVE  UNCHANGED <<res, evidence>> /\ UNCHANGED <<seen, on>>
  <2>1. ~Follows(k)
    <3>1. res \in [Keys -> Reservation]
      BY DEF IInv, TypeOK, RowTypes
    <3>2. Completed(k, "FOLLOWER")[k].status = "COMPLETED"
      BY <1>1, <3>1 DEF Completed, Reservation
    <3> QED BY <1>4, <3>2 DEF LookUp, Replayable
  <2> QED BY <1>4, <2>1 DEF LookUp
<1>5. ASSUME LookUp(k), ~Replayable(res'[k]), UNCHANGED <<seen, on>>, Answer(u, "pending")
      PROVE  Onward(u)
  <2>1. Ending(u) /\ UNCHANGED res
    BY <1>1, <1>4, <1>5 DEF Ending, upload, IInv, TypeOK, FileTypes, UploadTypes
  <2> QED BY <1>1, <1>5, <2>1, Leaves DEF Answers
<1>6. ASSUME LookUp(k), ~Replayable(res'[k]), UNCHANGED <<seen, on>>, Go(u, "read"),
             UNCHANGED <<reply, lock>>
      PROVE  Onward(u)
  <2>1. Walked(u, "read")
    BY <1>1, <1>6, WalksOn DEF upload, Steps, Late
  <2>2. RowsGood
    BY <1>1, <1>4, <1>6, <2>1, RowsStay DEF rows, Walked, ScansGood
  <2> QED BY <1>1, <1>6, <2>1, <2>2, GoesEarly DEF Early, Steps, Late
<1> QED BY <1>1, <1>2, <1>3, <1>5, <1>6 DEF FindReplay

LEMMA FindPendingReceiptGoesOn ==
    ASSUME IInv, NEW u \in Uploads, FindPendingReceipt(u) PROVE Onward(u)
<1>1. /\ pc[u] = "read" /\ Go(u, "reserve") /\ ScansGood /\ FileTypes'
      /\ UNCHANGED <<key, body, seen, on, gate, reply, rows, object, lock, faults>>
  BY ScansStay DEF FindPendingReceipt, files, IInv, TypeOK, FileTypes
<1>2. Walked(u, "reserve")
  <2>1. Alone(u) /\ resumed' \subseteq Uploads
    BY <1>1 DEF Alone, FindPendingReceipt, IInv, TypeOK, UploadTypes
  <2> QED BY <1>1, <2>1, Walks DEF IInv, TypeOK, UploadTypes, Steps, Late
<1>3. RowsGood
  BY <1>1, <1>2, RowsStay DEF Walked, ScansGood
<1> QED BY <1>1, <1>2, <1>3, GoesEarly DEF Early, Steps, Late, rows

LEMMA ReserveGoesOn == ASSUME IInv, NEW u \in Uploads, Reserve(u) PROVE Onward(u)
<1> DEFINE k == key[u]
           now == Lapsed(SessionOf[k])
<1>1. /\ pc[u] = "reserve" /\ k \in Keys /\ body[u] \in Bodies /\ ScansGood /\ FileTypes'
      /\ UNCHANGED <<upload, gate, art, evidence, scans, spool, formal, object, faults>>
  BY KeyIsKey, ScansStay DEF Reserve, files, IInv, TypeOK, FileTypes
<1>2. ASSUME NEW what \in {"conflict", "quota"}, Answer(u, what), UNCHANGED res
      PROVE  Onward(u)
  <2>1. Ending(u)
    BY <1>1 DEF Ending, IInv, TypeOK, FileTypes, UploadTypes
  <2> QED BY <1>1, <1>2, <2>1, Leaves DEF Answers
<1>3. ASSUME NEW p \in {"claim", "spool", "again"}, Go(u, p), UNCHANGED <<reply, lock>>,
             \/ res' = now
             \/ UNCHANGED res
             \/ /\ now[k].status = None /\ res' = [now EXCEPT ![k] = Fresh(u)]
                /\ ~(Cardinality(Occupied(now, evidence, SessionOf[k])) >= MaxItems)
      PROVE  Onward(u)
  <2>1. Walked(u, p)
    BY <1>1, <1>3, WalksOn DEF Steps, Late
  <2>2. PeopleOnward /\ ScansOnward
    BY <1>1, <2>1 DEF Walked, ScansGood
  <2>3. RowsGood
    <3>1. CASE res' = now
      BY <1>1, <2>2, <3>1, RowsLapsed
    <3>2. CASE UNCHANGED res
      BY <1>1, <2>2, <3>2, RowsStay DEF rows
    <3>3. CASE /\ now[k].status = None /\ res' = [now EXCEPT ![k] = Fresh(u)]
               /\ ~(Cardinality(Occupied(now, evidence, SessionOf[k])) >= MaxItems)
      BY <1>1, <2>2, <3>3, RowsReserved
    <3> QED BY <1>3, <3>1, <3>2, <3>3
  <2> QED BY <1>1, <1>3, <2>1, <2>3, GoesEarly DEF Early, Steps, Late
<1>4. CASE Conflicts(u) /\ Answer(u, "conflict") /\ UNCHANGED res
  BY <1>2, <1>4
<1>5. CASE /\ res' = now /\ Go(u, IF u \in resumed THEN "claim" ELSE "spool")
           /\ UNCHANGED <<reply, lock>>
  BY <1>3, <1>5
<1>6. CASE Go(u, "again") /\ UNCHANGED <<res, reply, lock>>
  BY <1>3, <1>6
<1>7. CASE /\ now[k].status = None
           /\ IF Cardinality(Occupied(now, evidence, SessionOf[k])) >= MaxItems
                THEN Answer(u, "quota") /\ UNCHANGED res
                ELSE /\ res' = [now EXCEPT ![k] = Fresh(u)]
                     /\ Go(u, "spool") /\ UNCHANGED <<reply, lock>>
  BY <1>2, <1>3, <1>7
<1> HIDE DEF now
<1> QED BY <1>4, <1>5, <1>6, <1>7 DEF Reserve, now
-----------------------------------------------------------------------------
(* Spool and scan *)

LEMMA WriteSpoolGoesOn == ASSUME IInv, NEW u \in Uploads, WriteSpool(u) PROVE Onward(u)
<1>1. /\ pc[u] = "spool" /\ ScansGood
      /\ UNCHANGED <<upload, gate, art, evidence, scans, formal, faults>>
  BY ScansStay DEF WriteSpool
<1>2. CASE Fail(u)
  <2>1. Ending(u)
    BY <1>1 DEF Ending, IInv, TypeOK, FileTypes, UploadTypes
  <2> QED BY <1>1, <1>2, <2>1, Fails DEF Late
<1>3. CASE /\ spool' = [spool EXCEPT ![u] = "file"] /\ Go(u, "scan")
           /\ UNCHANGED <<reply, lock, res, object>>
  <2>1. Walked(u, "scan")
    BY <1>1, <1>3, WalksOn DEF Steps, Late
  <2>2. RowsGood
    BY <1>1, <1>3, <2>1, RowsStay DEF rows, Walked, ScansGood
  <2>3. FileTypes'
    BY <1>1, <1>3 DEF IInv, TypeOK, FileTypes
  <2> QED BY <1>1, <1>3, <2>1, <2>2, <2>3, GoesEarly DEF Early, Steps, Late
<1> QED BY <1>2, <1>3 DEF WriteSpool

\* A scan is recorded under a key whose receipt, if it has one, is of a clean scan.
LEMMA ScansRecorded ==
    ASSUME IInv, NEW u \in Uploads, NEW k \in Keys, NEW verdict \in {"clean", "bad"},
           Recordable(k, verdict), attempt' = [attempt EXCEPT ![k] = verdict],
           receipt' = IF verdict = "clean" THEN Receipted(k, u) ELSE receipt, UNCHANGED clean
    PROVE  ScansGood
<1>1. /\ attempt \in [Keys -> {None, "clean", "bad"}] /\ receipt \in [Keys -> CleanReceipt]
      /\ clean \subseteq Keys /\ \A q \in Keys : ReceiptOK(q)
  BY DEF IInv, TypeOK, ScanTypes
<1>2. /\ attempt' \in [Keys -> {None, "clean", "bad"}] /\ attempt'[k] = verdict
      /\ \A q \in Keys \ {k} : attempt'[q] = attempt[q]
  BY <1>1
<1>3. /\ receipt' \in [Keys -> CleanReceipt]
      /\ \A q \in Keys \ {k} : receipt'[q] = receipt[q]
      /\ \/ receipt'[k] = receipt[k] /\ (verdict = "clean" \/ attempt[k] # "clean")
         \/ /\ verdict = "clean" /\ receipt[k] = NoReceipt
            /\ receipt'[k].status = "pending" /\ receipt'[k].owner = None
  <2>1. CASE verdict = "bad"
    BY <1>1, <2>1 DEF Recordable, None
  <2>2. CASE verdict = "clean" /\ receipt[k] # NoReceipt
    BY <1>1, <2>2 DEF Receipted
  <2>3. CASE verdict = "clean" /\ receipt[k] = NoReceipt
    <3> DEFINE r == [NoReceipt EXCEPT !.status = "pending", !.spool = u]
    <3>1. r \in CleanReceipt /\ r.status = "pending" /\ r.owner = None
      BY DEF NoReceipt, CleanReceipt
    <3>2. receipt' = [receipt EXCEPT ![k] = r]
      BY <1>1, <2>3 DEF Receipted
    <3> HIDE DEF r
    <3> QED BY <1>1, <2>3, <3>1, <3>2
  <2> QED BY <2>1, <2>2, <2>3
<1>4. ASSUME NEW q \in Keys PROVE ReceiptOK(q)' /\ (Scanned(q) => Scanned(q)')
                                  /\ (receipt[q].status = "published" => receipt'[q].status = "published")
  <2>1. CASE q # k
    BY <1>1, <1>2, <1>3, <2>1 DEF ReceiptOK, Scanned
  <2>2. CASE q = k
    <3>1. ReceiptOK(k)
      BY <1>1
    <3>2. receipt[k] = NoReceipt => receipt[k].status = None
      BY DEF NoReceipt
    <3> QED BY <1>2, <1>3, <2>2, <3>1, <3>2 DEF ReceiptOK, Scanned, None
  <2> QED BY <2>1, <2>2
<1> QED BY <1>1, <1>2, <1>3, <1>4 DEF ScansGood, ScanTypes, ScansOnward

LEMMA RecordScanGoesOn == ASSUME IInv, NEW u \in Uploads, RecordScan(u) PROVE Onward(u)
<1> DEFINE k == key[u]
<1>1. /\ pc[u] = "scan" /\ k \in Keys
      /\ UNCHANGED <<upload, gate, art, evidence, clean, formal, faults>>
  BY KeyIsKey DEF RecordScan
<1>2. ASSUME ScansGood PROVE Ending(u)
  BY <1>1, <1>2 DEF Ending, IInv, TypeOK, FileTypes, UploadTypes
<1>3. ASSUME Recordable(k, "clean"), attempt' = [attempt EXCEPT ![k] = "clean"],
             receipt' = Receipted(k, u), Go(u, "claim"), UNCHANGED <<res, object, reply, lock>>,
             spool' = IF receipt'[k].spool = u THEN spool ELSE Dropped(u)
      PROVE  Onward(u)
  <2>1. ScansGood
    BY <1>1, <1>3, ScansRecorded
  <2>2. Walked(u, "claim")
    BY <1>1, <1>3, WalksOn DEF Steps, Late
  <2>3. RowsGood
    BY <1>1, <1>3, <2>1, <2>2, RowsStay DEF rows, Walked, ScansGood
  <2>4. FileTypes'
    BY <1>1, <1>3 DEF IInv, TypeOK, FileTypes, Dropped
  <2> QED BY <1>1, <1>3, <2>1, <2>2, <2>3, <2>4, GoesEarly DEF Early, Steps, Late
<1>4. ASSUME Recordable(k, "clean"), attempt' = [attempt EXCEPT ![k] = "clean"],
             receipt' = Receipted(k, u), Fail(u)
      PROVE  Onward(u)
  BY <1>1, <1>2, <1>4, ScansRecorded, Fails DEF Late
<1>5. ASSUME Recordable(k, "bad"), attempt' = [attempt EXCEPT ![k] = "bad"], Fail(u),
             UNCHANGED receipt
      PROVE  Onward(u)
  BY <1>1, <1>2, <1>5, ScansRecorded, Fails DEF Late
<1>6. ASSUME Pend(u), UNCHANGED <<attempt, receipt>> PROVE Onward(u)
  BY <1>1, <1>2, <1>6, ScansStay, Pends DEF Late, scans
<1>7. ASSUME Unrejected(u), UNCHANGED <<attempt, receipt>> PROVE Onward(u)
  BY <1>1, <1>2, <1>7, ScansStay, Unrejects DEF scans
<1> QED BY <1>3, <1>4, <1>5, <1>6, <1>7 DEF RecordScan

-----------------------------------------------------------------------------
(* Promotion under the publication lease *)

\* A receipt changes hands, or fails, or is published, within its clean scan.
LEMMA ScansMoved ==
    ASSUME IInv, NEW k \in Keys, receipt' \in [Keys -> CleanReceipt],
           \A q \in Keys \ {k} : receipt'[q] = receipt[q], UNCHANGED <<attempt, clean>>,
           receipt[k].status # None, receipt'[k].owner # None => receipt'[k].status = "publishing",
           receipt[k].status = "published" => receipt'[k].status = "published"
    PROVE  ScansGood
<1>1. ScanTypes /\ \A q \in Keys : ReceiptOK(q)
  BY DEF IInv, TypeOK
<1>2. ASSUME NEW q \in Keys
      PROVE  /\ ReceiptOK(q)' /\ (Scanned(q) => Scanned(q)')
             /\ receipt[q].status = "published" => receipt'[q].status = "published"
  BY <1>1 DEF ReceiptOK, Scanned
<1> QED BY <1>1, <1>2 DEF ScansGood, ScanTypes, ScansOnward

LEMMA ScansMarkFailed ==
    ASSUME IInv, NEW u \in Uploads, key[u] \in Keys, MarkFailed(u), UNCHANGED <<attempt, clean>>
    PROVE  ScansGood
<1>1. CASE receipt[key[u]].owner # u
  BY <1>1, ScansStay DEF MarkFailed, scans
<1>2. CASE receipt[key[u]].owner = u
  <2> DEFINE k == key[u]
             r == [receipt[k] EXCEPT !.status = "failed", !.owner = None, !.lapsed = FALSE]
  <2>1. receipt \in [Keys -> CleanReceipt] /\ ReceiptOK(k) /\ u # None
    BY MediaAssumption DEF IInv, TypeOK, ScanTypes
  <2>2. r \in CleanReceipt /\ r.status = "failed" /\ r.owner = None
    BY <2>1 DEF CleanReceipt
  <2>3. receipt' = [receipt EXCEPT ![k] = r]
    BY <1>2, <2>1 DEF MarkFailed
  <2> HIDE DEF r
  <2>4. /\ receipt' \in [Keys -> CleanReceipt] /\ receipt'[k] = r
        /\ \A q \in Keys \ {k} : receipt'[q] = receipt[q]
    BY <2>1, <2>2, <2>3
  <2>5. receipt[k].status = "publishing"
    BY <1>2, <2>1 DEF ReceiptOK
  <2> QED BY <2>2, <2>4, <2>5, ScansMoved DEF None
<1> QED BY <1>1, <1>2

LEMMA ScansOwned ==
    ASSUME IInv, NEW u \in Uploads, NEW k \in Keys, receipt' = Owned(k, u),
           receipt[k].status \in {"pending", "failed", "publishing"}, UNCHANGED <<attempt, clean>>
    PROVE  ScansGood
<1> DEFINE r == [receipt[k] EXCEPT !.status = "publishing", !.owner = u, !.lapsed = FALSE]
<1>1. receipt \in [Keys -> CleanReceipt]
  BY DEF IInv, TypeOK, ScanTypes
<1>2. r \in CleanReceipt /\ r.status = "publishing"
  BY <1>1 DEF CleanReceipt
<1>3. receipt' = [receipt EXCEPT ![k] = r]
  BY <1>1 DEF Owned
<1> HIDE DEF r
<1>4. /\ receipt' \in [Keys -> CleanReceipt] /\ receipt'[k] = r
      /\ \A q \in Keys \ {k} : receipt'[q] = receipt[q]
  BY <1>1, <1>2, <1>3
<1> QED BY <1>2, <1>4, ScansMoved DEF None

\* An ending in the middle of a promotion.
LEMMA PromotionEnds ==
    ASSUME IInv, NEW u \in Uploads, pc[u] \in Early \ {"idle"},
           Pend(u) \/ Fail(u), ScansGood, UNCHANGED <<upload, gate, art, evidence>>,
           formal' \in [Keys -> SUBSET {"part", "payload", "record", "commit"}], faults' \in Nat
    PROVE  Onward(u)
<1>1. Ending(u) /\ pc[u] \notin Late
  BY DEF Ending, Early
<1> QED BY <1>1, Pends, Fails

\* A promotion that goes on, with its rows, objects and reply as they were.
LEMMA PromotionGoesOn ==
    ASSUME IInv, NEW u \in Uploads, pc[u] \in Early \ {"idle"},
           NEW p \in {"refresh", "open", "payload", "record", "commit", "mark"}, Go(u, p), ScansGood,
           UNCHANGED <<upload, gate, rows, object, reply, lock, faults>>,
           formal' \in [Keys -> SUBSET {"part", "payload", "record", "commit"}],
           spool' \in [Uploads -> {None, "file", "stale"}]
    PROVE  Onward(u)
<1>1. Walked(u, p)
  BY WalksOn DEF Early, Steps, Late
<1>2. RowsGood
  BY <1>1, RowsStay DEF Walked, ScansGood
<1>3. FileTypes'
  BY DEF IInv, TypeOK, FileTypes
<1> QED BY <1>1, <1>2, <1>3, GoesEarly DEF Early, Steps, Late, rows

\* To activate the source, its receipt has been published.
LEMMA ActivateGoesOn ==
    ASSUME IInv, NEW u \in Uploads, pc[u] \in Early \ {"idle"}, Go(u, "activate"), ScansGood,
           receipt'[key[u]].status = "published",
           UNCHANGED <<upload, gate, rows, files, reply, lock, faults>>
    PROVE  Onward(u)
<1>1. Walked(u, "activate")
  BY WalksOn DEF Early, Steps, Late
<1>2. RowsGood
  BY <1>1, RowsStay DEF Walked, ScansGood
<1>3. FileTypes' /\ ObjectsGood(u)
  BY ObjectsStay DEF IInv, TypeOK, FileTypes, files
<1>4. object'[u] = None /\ reply'[u] # "result"
  BY NoResultYet DEF files, Early, Late
<1>5. UploadOK(u)'
  BY <1>1, <1>4 DEF UploadOK, Walked
<1> QED BY <1>1, <1>2, <1>3, <1>5, Goes DEF rows

LEMMA ClaimGoesOn == ASSUME IInv, NEW u \in Uploads, Claim(u) PROVE Onward(u)
<1> DEFINE k == key[u]
<1>1. /\ pc[u] = "claim" /\ k \in Keys /\ faults' \in Nat /\ pc[u] \in Early \ {"idle"}
      /\ UNCHANGED <<upload, gate, art, evidence, attempt, clean, formal, faults>>
      /\ formal' \in [Keys -> SUBSET {"part", "payload", "record", "commit"}]
  BY KeyIsKey DEF Claim, IInv, TypeOK, UploadTypes, FileTypes, Early, Steps, Late
<1>2. ASSUME Fail(u) \/ Pend(u), UNCHANGED receipt PROVE Onward(u)
  <2>1. ScansGood
    BY <1>1, <1>2, ScansStay DEF scans
  <2> QED BY <1>1, <1>2, <2>1, PromotionEnds
<1>3. ASSUME receipt[k].status \in {"pending", "failed", "publishing"},
             receipt' = Owned(k, u), Go(u, "refresh"), UNCHANGED <<res, spool, object, reply, lock>>
      PROVE  Onward(u)
  <2>1. ScansGood
    BY <1>1, <1>3, ScansOwned
  <2>2. spool' \in [Uploads -> {None, "file", "stale"}]
    BY <1>3 DEF IInv, TypeOK, FileTypes
  <2> QED BY <1>1, <1>3, <2>1, <2>2, PromotionGoesOn DEF rows
<1>4. ASSUME receipt[k].status = "published", UNCHANGED receipt, Go(u, "activate"),
             UNCHANGED <<res, spool, object, reply, lock>>
      PROVE  Onward(u)
  <2>1. ScansGood
    BY <1>1, <1>4, ScansStay DEF scans
  <2> QED BY <1>1, <1>4, <2>1, ActivateGoesOn DEF rows, files
<1> QED BY <1>2, <1>3, <1>4 DEF Claim

LEMMA RefreshGoesOn == ASSUME IInv, NEW u \in Uploads, Refresh(u) PROVE Onward(u)
<1> DEFINE k == key[u]
<1>1. /\ pc[u] = "refresh" /\ k \in Keys /\ faults' \in Nat /\ pc[u] \in Early \ {"idle"}
      /\ UNCHANGED <<upload, gate, art, evidence, attempt, clean, formal, faults>>
      /\ formal' \in [Keys -> SUBSET {"part", "payload", "record", "commit"}]
  BY KeyIsKey DEF Refresh, IInv, TypeOK, UploadTypes, FileTypes, Early, Steps, Late
<1>2. ASSUME Pend(u), UNCHANGED receipt PROVE Onward(u)
  <2>1. ScansGood
    BY <1>1, <1>2, ScansStay DEF scans
  <2> QED BY <1>1, <1>2, <2>1, PromotionEnds
<1>3. ASSUME receipt[k].owner = u, receipt' = Owned(k, u), Go(u, "open"),
             UNCHANGED <<res, spool, object, reply, lock>>
      PROVE  Onward(u)
  <2>1. ReceiptOK(k) /\ u # None
    BY <1>1, MediaAssumption DEF IInv
  <2>2. ScansGood
    BY <1>1, <1>3, <2>1, ScansOwned DEF ReceiptOK
  <2>3. spool' \in [Uploads -> {None, "file", "stale"}]
    BY <1>3 DEF IInv, TypeOK, FileTypes
  <2> QED BY <1>1, <1>3, <2>2, <2>3, PromotionGoesOn DEF rows
<1> QED BY <1>2, <1>3 DEF Refresh

LEMMA OpenFormalGoesOn == ASSUME IInv, NEW u \in Uploads, OpenFormal(u) PROVE Onward(u)
<1> DEFINE k == key[u]
<1>1. /\ pc[u] = "open" /\ k \in Keys /\ faults' \in Nat /\ pc[u] \in Early \ {"idle"}
      /\ UNCHANGED <<upload, gate, art, evidence, attempt, clean, faults>>
      /\ formal \in [Keys -> SUBSET {"part", "payload", "record", "commit"}]
      /\ spool \in [Uploads -> {None, "file", "stale"}]
  BY KeyIsKey DEF OpenFormal, IInv, TypeOK, UploadTypes, FileTypes, Early, Steps, Late
<1>2. ASSUME NEW p \in {"mark", "payload"}, Go(u, p),
             UNCHANGED <<res, spool, object, reply, lock, receipt>>,
             formal' \in {formal, [formal EXCEPT ![k] = {"part"}]}
      PROVE  Onward(u)
  <2>1. ScansGood
    BY <1>1, <1>2, ScansStay DEF scans
  <2>2. formal' \in [Keys -> SUBSET {"part", "payload", "record", "commit"}]
    BY <1>1, <1>2
  <2> QED BY <1>1, <1>2, <2>1, <2>2, PromotionGoesOn DEF rows
<1>3. ASSUME Pend(u) \/ Fail(u), MarkFailed(u), UNCHANGED formal PROVE Onward(u)
  <2>1. ScansGood
    BY <1>1, <1>3, ScansMarkFailed
  <2> QED BY <1>1, <1>3, <2>1, PromotionEnds
<1> QED BY <1>2, <1>3 DEF OpenFormal

LEMMA RollBackEnds ==
    ASSUME IInv, NEW u \in Uploads, pc[u] \in Early \ {"idle"}, RollBack(u),
           UNCHANGED <<upload, gate, art, evidence, attempt, clean>>, faults' \in Nat
    PROVE  Onward(u)
<1>1. ScansGood
  BY KeyIsKey, ScansMarkFailed DEF RollBack
<1>2. formal' \in [Keys -> SUBSET {"part", "payload", "record", "commit"}]
  BY DEF RollBack, IInv, TypeOK, FileTypes
<1> QED BY <1>1, <1>2, PromotionEnds DEF RollBack

LEMMA PublishPayloadGoesOn == ASSUME IInv, NEW u \in Uploads, PublishPayload(u) PROVE Onward(u)
<1>1. /\ pc[u] \in Early \ {"idle"} /\ faults' \in Nat
      /\ UNCHANGED <<upload, gate, art, evidence, attempt, clean, faults>>
  BY DEF PublishPayload, IInv, TypeOK, UploadTypes, Early, Steps, Late
<1>2. CASE RollBack(u)
  BY <1>1, <1>2, RollBackEnds
<1>3. CASE /\ formal' = [formal EXCEPT ![key[u]] = (@ \ {"part"}) \cup {"payload"}]
           /\ Go(u, "record") /\ UNCHANGED <<res, spool, object, reply, lock, receipt>>
  <2>1. ScansGood
    BY <1>1, <1>3, ScansStay DEF scans
  <2>2. FileTypes
    BY DEF IInv, TypeOK
  <2>3. formal' \in [Keys -> SUBSET {"part", "payload", "record", "commit"}]
    BY <1>3, <2>2 DEF FileTypes
  <2>4. spool' \in [Uploads -> {None, "file", "stale"}]
    BY <1>3, <2>2 DEF FileTypes
  <2> QED BY <1>1, <1>3, <2>1, <2>3, <2>4, PromotionGoesOn DEF rows
<1> QED BY <1>2, <1>3 DEF PublishPayload

LEMMA PublishRecordGoesOn == ASSUME IInv, NEW u \in Uploads, PublishRecord(u) PROVE Onward(u)
<1>1. /\ pc[u] \in Early \ {"idle"} /\ Go(u, "commit") /\ ScansGood
      /\ UNCHANGED <<upload, gate, reply, rows, spool, object, lock, faults>>
  BY ScansStay DEF PublishRecord, Early, Steps, Late
<1>2. FileTypes
  BY DEF IInv, TypeOK
<1>3. formal' \in [Keys -> SUBSET {"part", "payload", "record", "commit"}]
  BY <1>2 DEF FileTypes, PublishRecord
<1>4. spool' \in [Uploads -> {None, "file", "stale"}]
  BY <1>1, <1>2 DEF FileTypes
<1> QED BY <1>1, <1>3, <1>4, PromotionGoesOn

LEMMA PublishCommitGoesOn == ASSUME IInv, NEW u \in Uploads, PublishCommit(u) PROVE Onward(u)
<1>1. /\ pc[u] \in Early \ {"idle"} /\ faults' \in Nat
      /\ UNCHANGED <<upload, gate, art, evidence, attempt, clean, faults>>
  BY DEF PublishCommit, IInv, TypeOK, UploadTypes, Early, Steps, Late
<1>2. CASE RollBack(u)
  BY <1>1, <1>2, RollBackEnds
<1>3. CASE /\ formal' = [formal EXCEPT ![key[u]] = @ \cup {"commit"}]
           /\ spool' = Dropped(receipt[key[u]].spool)
           /\ Go(u, "mark") /\ UNCHANGED <<res, object, reply, lock, receipt>>
  <2>1. ScansGood
    BY <1>1, <1>3, ScansStay DEF scans
  <2>2. FileTypes
    BY DEF IInv, TypeOK
  <2>3. formal' \in [Keys -> SUBSET {"part", "payload", "record", "commit"}]
    BY <1>3, <2>2 DEF FileTypes
  <2>4. spool' \in [Uploads -> {None, "file", "stale"}]
    BY <1>3, <2>2 DEF FileTypes, Dropped
  <2> QED BY <1>1, <1>3, <2>1, <2>3, <2>4, PromotionGoesOn DEF rows
<1> QED BY <1>2, <1>3 DEF PublishCommit

LEMMA MarkPublishedGoesOn == ASSUME IInv, NEW u \in Uploads, MarkPublished(u) PROVE Onward(u)
<1> DEFINE k == key[u]
<1>1. /\ pc[u] \in Early \ {"idle"} /\ k \in Keys /\ faults' \in Nat
      /\ UNCHANGED <<upload, gate, art, evidence, attempt, clean, formal, faults>>
      /\ formal' \in [Keys -> SUBSET {"part", "payload", "record", "commit"}]
  BY KeyIsKey DEF MarkPublished, IInv, TypeOK, UploadTypes, FileTypes, Early, Steps, Late
<1>2. CASE Pend(u) /\ UNCHANGED receipt
  <2>1. ScansGood
    BY <1>1, <1>2, ScansStay DEF scans
  <2> QED BY <1>1, <1>2, <2>1, PromotionEnds
<1>3. CASE /\ receipt[k].owner = u \/ receipt[k].status = "published"
           /\ receipt' = [receipt EXCEPT ![k].status = "published", ![k].owner = None,
                                         ![k].lapsed = FALSE]
           /\ Go(u, "activate") /\ UNCHANGED <<res, spool, object, reply, lock>>
  <2> DEFINE r == [receipt[k] EXCEPT !.status = "published", !.owner = None, !.lapsed = FALSE]
  <2>1. receipt \in [Keys -> CleanReceipt] /\ ReceiptOK(k) /\ u # None
    BY <1>1, MediaAssumption DEF IInv, TypeOK, ScanTypes
  <2>2. r \in CleanReceipt /\ r.status = "published" /\ r.owner = None
    <3>1. receipt[k] \in CleanReceipt
      BY <1>1, <2>1
    <3> QED BY ONLY <3>1 DEF CleanReceipt, r
  <2>3. receipt' = [receipt EXCEPT ![k] = r]
    BY <1>1, <1>3, <2>1
  <2> HIDE DEF r
  <2>4. /\ receipt' \in [Keys -> CleanReceipt] /\ receipt'[k] = r
        /\ \A q \in Keys \ {k} : receipt'[q] = receipt[q]
    BY <1>1, <2>1, <2>2, <2>3
  <2>5. receipt[k].status # None
    BY <1>3, <2>1 DEF ReceiptOK, None
  <2>6. ScansGood
    BY <1>1, <2>2, <2>4, <2>5, ScansMoved
  <2> QED BY <1>1, <1>3, <2>2, <2>4, <2>6, ActivateGoesOn DEF rows, files
<1> QED BY <1>2, <1>3 DEF MarkPublished

LEMMA CommitGoesOn ==
    ASSUME IInv, NEW u \in Uploads, NEW p \in {"validate", "stage", "lock", "finalize"},
           Walked(u, p), UNCHANGED <<rows, reply>>, ScansGood, ObjectsGood(u), FileTypes',
           pc[u] # "done", NEW k, k = key[u], Scanned(k)',
           p \in {"validate", "stage"} => object'[u] = None,
           p \in {"lock", "finalize"} => object'[u] = "staged" /\ gate'[u] = "held"
    PROVE  Onward(u)
<1>1. reply'[u] # "result"
  BY NoResultYet
<1>2. UploadOK(u)'
  BY <1>1 DEF UploadOK, Walked, Early, Late, Scanned
<1>3. RowsGood
  BY RowsStay DEF Walked, ScansGood
<1> QED BY <1>2, <1>3, Goes DEF rows

LEMMA ActivateStepGoesOn == ASSUME IInv, NEW u \in Uploads, Activate(u) PROVE Onward(u)
<1>1. /\ pc[u] = "activate" /\ pc[u] \in Early \ {"idle"} /\ key[u] \in Keys /\ faults' \in Nat
      /\ UNCHANGED <<upload, gate, art, evidence, attempt, receipt, formal, faults>>
      /\ formal' \in [Keys -> SUBSET {"part", "payload", "record", "commit"}]
      /\ FileTypes
  BY KeyIsKey DEF Activate, IInv, TypeOK, UploadTypes, FileTypes, Early, Steps, Late
<1>2. ScanTypes /\ (\A k \in Keys : ReceiptOK(k)) /\ UploadOK(u)
  BY DEF IInv, TypeOK
<1>3. ScansGood
  BY <1>1, <1>2 DEF ScansGood, ScanTypes, ScansOnward, Scanned, ReceiptOK, Activate
<1>4. CASE Fail(u)
  BY <1>1, <1>3, <1>4, PromotionEnds
<1>5. CASE Go(u, "validate") /\ UNCHANGED <<res, spool, object, reply, lock>>
  <2>1. Walked(u, "validate")
    BY <1>1, <1>5, WalksOn DEF Steps, Late
  <2>2. attempt'[key[u]] = "clean" /\ receipt'[key[u]].status = "published" /\ key[u] \in clean'
    BY <1>1, <1>2 DEF UploadOK, ReceiptOK, Activate, None
  <2>3. PICK k : k = key[u]
    OBVIOUS
  <2>4. Scanned(k)'
    BY <2>2, <2>3 DEF Scanned
  <2>5. object'[u] = None
    BY <1>1, <1>5, NoResultYet
  <2>6. FileTypes'
    BY <1>1, <1>5 DEF FileTypes
  <2>7. ObjectsGood(u)
    BY <1>5, ObjectsStay
  <2> QED BY <1>1, <1>3, <1>5, <2>1, <2>3, <2>4, <2>5, <2>6, <2>7, CommitGoesOn DEF rows
<1> QED BY <1>4, <1>5 DEF Activate

LEMMA ValidateGoesOn == ASSUME IInv, NEW u \in Uploads, Validate(u) PROVE Onward(u)
<1>1. /\ pc[u] = "validate" /\ pc[u] \in Early \ {"idle"} /\ key[u] \in Keys /\ faults' \in Nat
      /\ UNCHANGED <<upload, gate, art, evidence, scans, formal, faults>>
      /\ formal' \in [Keys -> SUBSET {"part", "payload", "record", "commit"}]
      /\ ScansGood /\ FileTypes
  BY KeyIsKey, ScansStay DEF Validate, IInv, TypeOK, UploadTypes, FileTypes, Early, Steps, Late
<1>2. CASE Fail(u)
  BY <1>1, <1>2, PromotionEnds
<1>3. CASE Go(u, "stage") /\ UNCHANGED <<res, spool, object, reply, lock>>
  <2>1. Walked(u, "stage")
    BY <1>1, <1>3, WalksOn DEF Steps, Late
  <2>2. UploadOK(u)
    BY DEF IInv
  <2>3. PICK k : k = key[u]
    OBVIOUS
  <2>4. Scanned(k)'
    BY <1>1, <2>2, <2>3 DEF UploadOK, ScansGood, ScansOnward
  <2>5. object'[u] = None
    BY <1>1, <1>3, NoResultYet
  <2>6. FileTypes'
    BY <1>1, <1>3 DEF FileTypes
  <2>7. ObjectsGood(u)
    BY <1>3, ObjectsStay
  <2> QED BY <1>1, <1>3, <2>1, <2>3, <2>4, <2>5, <2>6, <2>7, CommitGoesOn DEF rows
<1> QED BY <1>2, <1>3 DEF Validate
-----------------------------------------------------------------------------
(* The commit *)

LEMMA StageGoesOn == ASSUME IInv, NEW u \in Uploads, Stage(u) PROVE Onward(u)
<1>1. /\ pc[u] = "stage" /\ pc[u] \in Early \ {"idle"} /\ key[u] \in Keys /\ faults' \in Nat
      /\ UNCHANGED <<upload, art, evidence, scans, formal, faults>>
      /\ formal' \in [Keys -> SUBSET {"part", "payload", "record", "commit"}]
      /\ ScansGood /\ FileTypes
  BY KeyIsKey, ScansStay DEF Stage, IInv, TypeOK, UploadTypes, FileTypes, Early, Steps, Late
<1>2. CASE Fail(u) /\ UNCHANGED gate
  BY <1>1, <1>2, PromotionEnds
<1>3. CASE /\ gate' = [gate EXCEPT ![u] = "held"] /\ object' = [object EXCEPT ![u] = "staged"]
           /\ Go(u, "lock") /\ UNCHANGED <<res, spool, reply, lock>>
  <2>1. UploadOK(u) /\ gate \in [Uploads -> {"open", "held", "cancelled"}]
    BY DEF IInv, TypeOK, UploadTypes
  <2>2. /\ gate' \in [Uploads -> {"open", "held", "cancelled"}] /\ gate'[u] = "held"
        /\ \A v \in Uploads \ {u} : gate'[v] = gate[v]
    BY <1>3, <2>1
  <2>3. Walked(u, "lock")
    <3>1. Alone(u)
      BY <1>1, <1>3, <2>2 DEF Alone, upload
    <3> QED BY <1>1, <1>3, <2>2, <3>1, Walks
            DEF Steps, Late, upload, IInv, TypeOK, UploadTypes
  <2>4. PICK k : k = key[u]
    OBVIOUS
  <2>5. Scanned(k)'
    BY <1>1, <2>1, <2>4 DEF UploadOK, ScansGood, ScansOnward
  <2>6. object[u] = None
    BY <1>1, NoResultYet
  <2>7. /\ object' \in [Uploads -> {None, "staged", "referenced"}] /\ object'[u] = "staged"
        /\ \A v \in Uploads \ {u} : object'[v] = object[v]
    BY <1>1, <1>3 DEF FileTypes
  <2>8. FileTypes'
    BY <1>1, <1>3, <2>7 DEF FileTypes
  <2>9. ObjectsGood(u)
    BY <1>1, <2>6, <2>7 DEF ObjectsGood, OthersKeep, ObjectsOnward, ObjectStands, None
  <2> QED BY <1>1, <1>3, <2>2, <2>3, <2>4, <2>5, <2>7, <2>8, <2>9, CommitGoesOn DEF rows
<1> QED BY <1>2, <1>3 DEF Stage

LEMMA TakeRunLockGoesOn == ASSUME IInv, NEW u \in Uploads, TakeRunLock(u) PROVE Onward(u)
<1>1. /\ pc[u] = "lock" /\ key[u] \in Keys /\ faults' \in Nat
      /\ UNCHANGED <<upload, gate, art, evidence, scans, formal, faults>>
      /\ formal' \in [Keys -> SUBSET {"part", "payload", "record", "commit"}]
      /\ ScansGood /\ FileTypes
  BY KeyIsKey, ScansStay DEF TakeRunLock, IInv, TypeOK, UploadTypes, FileTypes
<1>2. CASE Fail(u)
  BY <1>1, <1>2, Fails DEF Ending, Late
<1>3. CASE /\ lock' = [lock EXCEPT ![SessionOf[key[u]]] = u]
           /\ Go(u, "finalize") /\ UNCHANGED <<res, spool, object, reply>>
  <2>1. UploadOK(u)
    BY DEF IInv
  <2>2. lock' \in [Sessions -> Uploads \cup {None}]
    BY <1>3 DEF IInv, TypeOK, UploadTypes
  <2>3. Walked(u, "finalize")
    <3>1. Alone(u)
      BY <1>1, <1>3 DEF Alone, upload
    <3> QED BY <1>1, <1>3, <2>2, <3>1, Walks
            DEF Steps, Late, upload, IInv, TypeOK, UploadTypes
  <2>4. PICK k : k = key[u]
    OBVIOUS
  <2>5. Scanned(k)'
    BY <1>1, <2>1, <2>4 DEF UploadOK, ScansGood, ScansOnward
  <2>6. object'[u] = "staged" /\ gate'[u] = "held"
    BY <1>1, <1>3, <2>1 DEF UploadOK
  <2>7. FileTypes'
    BY <1>1, <1>3 DEF FileTypes
  <2>8. ObjectsGood(u)
    BY <1>3, ObjectsStay
  <2> QED BY <1>1, <1>3, <2>3, <2>4, <2>5, <2>6, <2>7, <2>8, CommitGoesOn DEF rows
<1> QED BY <1>2, <1>3 DEF TakeRunLock

LEMMA LateIsOK ==
    ASSUME NEW u \in Uploads, NEW p \in {"follow", "refer"}, Walked(u, p), reply'[u] # "result",
           p = "refer" => Refers(u)'
    PROVE  UploadOK(u)'
BY DEF Walked, UploadOK, Early, Late

\* The finalize of a key that is still open: an artifact of its own, or one that is there.
LEMMA SettlesGoesOn ==
    ASSUME IInv, NEW u \in Uploads, NEW k, k = key[u], NEW i, i = Image(k), pc[u] = "finalize",
           res[k].status = "ACTIVE", ~TooMany(k), res' = Settled(k, u),
           art' = IF art[i] = NoArt
                    THEN [art EXCEPT ![i] = [state |-> "PENDING_REFERENCE", by |-> u]] ELSE art,
           evidence' = IF art[i].state = "REFERENCED" THEN evidence \cup {k} ELSE evidence,
           on' = [on EXCEPT ![u] = u],
           IF art[i] = NoArt
             THEN Go(u, "refer") /\ UNCHANGED <<spool, object, reply, lock>>
             ELSE /\ object' = Aborted(u) /\ UNCHANGED spool
                  /\ IF art[i].state = "REFERENCED" THEN Answer(u, "result")
                       ELSE Go(u, "follow") /\ UNCHANGED <<reply, lock>>,
           UNCHANGED <<key, body, resumed, seen, gate, scans, formal, faults>>
    PROVE  Onward(u)
<1>1. /\ k \in Keys /\ ScansGood /\ FileTypes /\ UploadOK(u) /\ RowOK(k)
      /\ on \in [Uploads -> Uploads \cup {None}] /\ art \in [Images -> Artifact]
      /\ pc[u] \notin Late
  BY KeyIsKey, ScansStay DEF IInv, TypeOK, UploadTypes, RowTypes, Late
<1>2. i \in Images
  BY <1>1, ImageIsImage DEF IInv, RowOK, None
<1>3. /\ on' \in [Uploads -> Uploads \cup {None}] /\ on'[u] = u
      /\ \A v \in Uploads \ {u} : on'[v] = on[v]
  BY <1>1
<1>4. PICK p \in {"refer", "follow", "done"} :
        /\ Walked(u, p)
        /\ p = "refer" => art[i] = NoArt /\ UNCHANGED <<object, reply>>
        /\ p # "refer" => art[i] # NoArt /\ object' = Aborted(u)
        /\ p = "follow" => UNCHANGED reply
        /\ p = "done" => art[i].state = "REFERENCED"
  <2>1. CASE Go(u, "refer") /\ UNCHANGED <<object, reply, lock>> /\ art[i] = NoArt
    <3>1. Alone(u) /\ "refer" \in Steps
      BY <1>3, <2>1 DEF Alone, Steps
    <3>2. Walked(u, "refer")
      BY <1>1, <1>3, <2>1, <3>1, Walks DEF IInv, TypeOK, UploadTypes
    <3> QED BY <2>1, <3>2
  <2>2. CASE /\ Go(u, "follow") /\ UNCHANGED <<reply, lock>> /\ art[i] # NoArt
             /\ object' = Aborted(u)
    <3>1. Alone(u) /\ "follow" \in Steps
      BY <1>3, <2>2 DEF Alone, Steps
    <3>2. Walked(u, "follow")
      BY <1>1, <1>3, <2>2, <3>1, Walks DEF IInv, TypeOK, UploadTypes
    <3> QED BY <2>2, <3>2
  <2>3. CASE /\ Answer(u, "result") /\ art[i] # NoArt /\ art[i].state = "REFERENCED"
             /\ object' = Aborted(u)
    <3>1. Walked(u, "done")
      BY <1>3, <2>3, Ends DEF IInv, TypeOK, UploadTypes, Answers
    <3> QED BY <2>3, <3>1
  <2> QED BY <2>1, <2>2, <2>3
<1>5. pc'[u] \in Late /\ PeopleOnward
  BY <1>4 DEF Walked, Late
<1>6. RowsGood
  BY <1>1, <1>5, RowsSettled DEF ScansGood
<1>7. ObjectsGood(u)
  BY <1>1, <1>4, ObjectsStay, ObjectsAborted
<1>8. FileTypes'
  BY <1>1, <1>7 DEF FileTypes, ObjectsGood
<1>9. UploadOK(u)'
  <2>1. CASE p = "refer"
    <3>1. res'[k].status = "PENDING_REFERENCE" /\ res'[k].body = res[k].body
      <4>1. art[i].state # "REFERENCED" /\ res[k] \in Reservation /\ res \in [Keys -> Reservation]
        BY <1>1, <1>4, <2>1 DEF NoArt, None, IInv, TypeOK, RowTypes
      <4> QED BY <1>1, <4>1 DEF Settled, Reservation
    <3>2. art'[i].by = u
      BY <1>1, <1>2, <1>4, <2>1
    <3>3. Refers(u)'
      BY <1>3, <3>1, <3>2 DEF Refers, Replayable, Image
    <3> QED BY <1>4, <2>1, <3>3, LateIsOK, NoResultYet
  <2>2. CASE p = "follow"
    BY <1>4, <2>2, LateIsOK, NoResultYet
  <2>3. CASE p = "done"
    BY <1>4, <2>3, EndIsOK
  <2> QED BY <2>1, <2>2, <2>3
<1>10. ASSUME NEW j \in Images PROVE ArtOK(j)'
  <2>1. CASE art'[j] = art[j]
    BY <1>5, <1>7, <2>1, ArtKept DEF ObjectsGood
  <2>2. CASE j = i /\ art[i] = NoArt
    <3>1. art'[j].by = u /\ art'[j].state = "PENDING_REFERENCE"
      BY <1>1, <1>2, <2>2
    <3>2. object'[u] = "staged"
      BY <1>1, <2>2 DEF UploadOK
    <3> QED BY <1>5, <3>1, <3>2 DEF ArtOK
  <2> QED BY <1>1, <1>2, <2>1, <2>2
<1>11. TypeOK'
  BY <1>1, <1>4, <1>6, <1>8 DEF TypeOK, Walked, ScansGood, RowsGood
<1>12. IInv'
  BY <1>1, <1>4, <1>6, <1>7, <1>9, <1>10, <1>11, Combine DEF Walked, ObjectsGood, ScansGood
<1> QED BY <1>4, <1>6, <1>12 DEF Onward, Walked, RowsGood

\* An outcome that is there already, which whoever looks may complete: u ends with it, or
\* follows it, or is told that it is not one for a fresh upload.
LEMMA LooksAndGoesOn ==
    ASSUME IInv, NEW u \in Uploads, NEW k, k = key[u], pc[u] # "idle", pc[u] # "done",
           LookUp(k), Replayable(res[k]), NEW p \in {"follow", "done"},
           Go(u, p), p = "follow" => UNCHANGED <<reply, lock>>,
           NEW what \in Answers, p = "done" => Answer(u, what),
           what = "result" => res'[k].status = "COMPLETED",
           pc[u] \notin Late \/ UNCHANGED object, object' = Aborted(u) \/ UNCHANGED object,
           UNCHANGED <<upload, gate, art, scans, spool, formal, faults>>
    PROVE  Onward(u)
<1>1. /\ k \in Keys /\ ScansGood /\ FileTypes
  BY KeyIsKey, ScansStay DEF IInv, TypeOK
<1>2. Walked(u, p) /\ (p = "done" => reply'[u] = what)
  <2>1. CASE p = "follow"
    BY <2>1, WalksOn DEF Steps, Late
  <2>2. CASE p = "done"
    BY <2>2, Ends DEF upload, IInv, TypeOK, UploadTypes
  <2> QED BY <2>1, <2>2
<1>3. RowsGood
  BY <1>1, <1>2, RowsLookedUp DEF Walked, ScansGood
<1>4. ObjectsGood(u)
  BY ObjectsStay, ObjectsAborted
<1>5. FileTypes'
  BY <1>1, <1>4 DEF FileTypes, ObjectsGood
<1>6. UploadOK(u)'
  <2>1. CASE p = "follow"
    BY <1>2, <2>1, LateIsOK, NoResultYet
  <2>2. CASE p = "done" /\ what # "result"
    BY <1>2, <2>2, EndIsOK
  <2>3. CASE p = "done" /\ what = "result"
    <3>1. RowOK(k)'
      BY <1>1, <1>3 DEF RowsGood
    <3>2. k \in evidence'
      BY <2>3, <3>1 DEF RowOK
    <3> QED BY <1>2, <2>3, <3>2, EndIsOK
  <2> QED BY <2>1, <2>2, <2>3
<1> QED BY <1>1, <1>2, <1>3, <1>4, <1>5, <1>6, Goes

LEMMA FinalizeGoesOn == ASSUME IInv, NEW u \in Uploads, Finalize(u) PROVE Onward(u)
<1> DEFINE k == key[u]
           i == Image(k)
<1>1. /\ pc[u] = "finalize" /\ faults' \in Nat
      /\ UNCHANGED <<key, body, resumed, seen, gate, scans, formal, faults>>
      /\ ScansGood /\ formal' \in [Keys -> SUBSET {"part", "payload", "record", "commit"}]
  BY ScansStay DEF Finalize, IInv, TypeOK, UploadTypes, FileTypes
<1>2. ASSUME Fail(u) \/ Pend(u), UNCHANGED <<art, evidence, on>> PROVE Onward(u)
  <2>1. Ending(u)
    BY <1>1, <1>2 DEF Ending, upload
  <2> QED BY <1>1, <1>2, <2>1, Fails, Pends DEF Late
<1>3. ASSUME Replayable(res[k]), LookUp(k), UNCHANGED <<art, on, spool>>,
             \/ /\ object' = Aborted(u)
                /\ \/ res'[k].status = "COMPLETED" /\ Answer(u, "result")
                   \/ Go(u, "follow") /\ UNCHANGED <<reply, lock>>
             \/ Answer(u, "impossible") /\ UNCHANGED object
      PROVE  Onward(u)
  <2>1. UNCHANGED <<upload, gate, art, scans, spool, formal, faults>>
    BY <1>1, <1>3 DEF upload
  <2>2. CASE object' = Aborted(u) /\ res'[k].status = "COMPLETED" /\ Answer(u, "result")
    <3>1. Go(u, "done") /\ "result" \in Answers
      BY <2>2 DEF Answer, Answers
    <3> QED BY <1>1, <1>3, <2>1, <2>2, <3>1, LooksAndGoesOn DEF Late
  <2>3. CASE object' = Aborted(u) /\ Go(u, "follow") /\ UNCHANGED <<reply, lock>>
    <3>1. "pending" \in Answers
      BY DEF Answers
    <3> QED BY <1>1, <1>3, <2>1, <2>3, <3>1, LooksAndGoesOn DEF Late
  <2>4. CASE Answer(u, "impossible") /\ UNCHANGED object
    <3>1. Go(u, "done") /\ "impossible" \in Answers
      BY <2>4 DEF Answer, Answers
    <3> QED BY <1>1, <1>3, <2>1, <2>4, <3>1, LooksAndGoesOn
  <2> QED BY <1>3, <2>2, <2>3, <2>4
<1>4. ASSUME res[k].status = "ACTIVE", ~TooMany(k), res' = Settled(k, u),
             art' = IF art[i] = NoArt
                      THEN [art EXCEPT ![i] = [state |-> "PENDING_REFERENCE", by |-> u]] ELSE art,
             evidence' = IF art[i].state = "REFERENCED" THEN evidence \cup {k} ELSE evidence,
             on' = [on EXCEPT ![u] = u],
             IF art[i] = NoArt
               THEN Go(u, "refer") /\ UNCHANGED <<spool, object, reply, lock>>
               ELSE /\ object' = Aborted(u) /\ UNCHANGED spool
                    /\ IF art[i].state = "REFERENCED" THEN Answer(u, "result")
                         ELSE Go(u, "follow") /\ UNCHANGED <<reply, lock>>
      PROVE  Onward(u)
  BY <1>1, <1>4, SettlesGoesOn
<1> QED BY <1>1, <1>2, <1>3, <1>4 DEF Finalize

LEMMA ReconcileGoesOn == ASSUME IInv, NEW u \in Uploads, Reconcile(u) PROVE Onward(u)
<1> DEFINE k == key[u]
<1>1. /\ pc[u] = "follow" /\ k \in Keys /\ LookUp(k) /\ faults' \in Nat
      /\ UNCHANGED <<key, body, resumed, seen, gate, art, scans, files, faults>>
      /\ ScansGood /\ FileTypes' /\ ObjectsGood(u)
  BY KeyIsKey, ScansStay, ObjectsStay DEF Reconcile, files, IInv, TypeOK, UploadTypes, FileTypes
<1>2. ASSUME Replayable(res'[k]) PROVE Replayable(res[k])
  BY <1>1, <1>2 DEF LookUp, Follows, Replayable
<1>3. ASSUME Replayable(res'[k]), UNCHANGED on, NEW what \in {"result", "pending"},
             Answer(u, what), what = "result" => res'[k].status = "COMPLETED"
      PROVE  Onward(u)
  <2>1. Go(u, "done") /\ what \in Answers
    BY <1>3 DEF Answer, Answers
  <2> QED BY <1>1, <1>2, <1>3, <2>1, LooksAndGoesOn DEF upload, files
<1>4. ASSUME res'[k].status = "PENDING_REFERENCE", res'[k].intent = "MARK",
             on' = [on EXCEPT ![u] = res'[k].staged], Go(u, "refer"), UNCHANGED <<reply, lock>>
      PROVE  Onward(u)
  <2>1. PeopleOnward
    BY <1>1, <1>4 DEF PeopleOnward, Go, Late, IInv, TypeOK, UploadTypes
  <2>2. RowsGood
    BY <1>1, <2>1, RowsLookedUp DEF ScansGood
  <2>3. RowOK(k)' /\ k' = k
    BY <1>1, <2>2 DEF RowsGood
  <2>4. res'[k].staged \in Uploads /\ art'[Image(k)'].by = res'[k].staged
    BY <1>4, <2>3 DEF RowOK, Replayable
  <2>5. /\ on' \in [Uploads -> Uploads \cup {None}] /\ on'[u] = res'[k].staged
        /\ \A v \in Uploads \ {u} : on'[v] = on[v]
    BY <1>4, <2>4 DEF IInv, TypeOK, UploadTypes
  <2>6. Walked(u, "refer")
    <3>1. Alone(u)
      BY <1>1, <1>4, <2>5 DEF Alone
    <3> QED BY <1>1, <1>4, <2>5, <3>1, Walks DEF IInv, TypeOK, UploadTypes, Steps, Late
  <2>7. Refers(u)'
    BY <1>1, <1>4, <2>3, <2>4, <2>5 DEF Refers, Replayable
  <2>8. UploadOK(u)'
    BY <1>1, <1>4, <2>6, <2>7, LateIsOK, NoResultYet
  <2> QED BY <1>1, <2>2, <2>6, <2>8, Goes
<1> QED BY <1>1, <1>3, <1>4 DEF Reconcile, Replayable

LEMMA PublishReplayGoesOn == ASSUME IInv, NEW u \in Uploads, PublishReplay(u) PROVE Onward(u)
<1> DEFINE k == key[u]
<1>1. /\ pc[u] = "publish" /\ k \in Keys /\ faults' \in Nat /\ ScansGood /\ FileTypes /\ UploadOK(u)
      /\ UNCHANGED <<upload, rows, scans, spool, formal, faults>>
      /\ formal' \in [Keys -> SUBSET {"part", "payload", "record", "commit"}]
  BY KeyIsKey, ScansStay DEF PublishReplay, IInv, TypeOK, UploadTypes, FileTypes
<1>2. CASE Answer(u, "error") /\ UNCHANGED <<object, gate>>
  <2>1. Ending(u)
    BY <1>1, <1>2 DEF Ending, rows
  <2> QED BY <1>1, <1>2, <2>1, Leaves DEF Answers, rows
<1>3. CASE /\ seen[u] = "mark" /\ lock' = [lock EXCEPT ![SessionOf[k]] = u]
           /\ gate' = [gate EXCEPT ![u] = "held"] /\ Go(u, "refer") /\ UNCHANGED <<object, reply>>
  <2>1. /\ lock' \in [Sessions -> Uploads \cup {None}]
        /\ gate' \in [Uploads -> {"open", "held", "cancelled"}] /\ gate'[u] = "held"
        /\ \A v \in Uploads \ {u} : gate'[v] = gate[v]
    BY <1>3 DEF IInv, TypeOK, UploadTypes
  <2>2. Walked(u, "refer")
    <3>1. Alone(u)
      BY <1>1, <1>3, <2>1 DEF Alone, upload
    <3> QED BY <1>1, <1>3, <2>1, <3>1, Walks DEF IInv, TypeOK, UploadTypes, Steps, Late, upload
  <2>3. RowsGood
    BY <1>1, <2>2, RowsStay DEF Walked, ScansGood
  <2>4. Refers(u)'
    <3>1. Refers(u)
      BY <1>1, <1>3 DEF UploadOK
    <3> QED BY <1>1, <3>1 DEF Refers, rows, upload, Image
  <2>5. UploadOK(u)'
    BY <1>1, <1>3, <2>2, <2>4, LateIsOK, NoResultYet
  <2>6. ObjectsGood(u) /\ FileTypes'
    BY <1>1, <1>3, ObjectsStay DEF FileTypes
  <2> QED BY <1>1, <2>2, <2>3, <2>5, <2>6, Goes DEF rows
<1>4. CASE /\ seen[u] # "mark" /\ object' = Aborted(on[u]) /\ UNCHANGED gate
           /\ Answer(u, IF seen[u] = "nothing" THEN "result" ELSE "pending")
  <2> DEFINE what == IF seen[u] = "nothing" THEN "result" ELSE "pending"
  <2>1. what \in Answers
    BY DEF Answers
  <2>2. Walked(u, "done") /\ reply'[u] = what
    BY <1>1, <1>4, <2>1, Ends DEF upload, IInv, TypeOK, UploadTypes
  <2>3. RowsGood
    BY <1>1, <2>2, RowsStay DEF Walked, ScansGood
  <2>4. UploadOK(u)'
    <3>1. what = "result" => k \in evidence'
      BY <1>1 DEF UploadOK, rows
    <3> QED BY <2>2, <3>1, EndIsOK
  <2>5. PICK w \in Uploads : w = on[u] /\ pc[w] \in Late /\ Idle(w)
    BY <1>1, <1>4 DEF UploadOK
  <2>6. /\ object' \in [Uploads -> {None, "staged", "referenced"}]
        /\ object[w] = "staged" \/ object' = object
        /\ \A v \in Uploads \ {w} : object'[v] = object[v]
    BY <1>1, <1>4, <2>5 DEF FileTypes, Aborted
  <2>7. ObjectsGood(u)
    <3>1. OthersKeep(u)
      BY <2>5, <2>6 DEF OthersKeep
    <3>2. ASSUME NEW v \in Uploads PROVE ObjectStands(v)
      BY <2>5, <2>6 DEF ObjectStands, Idle
    <3> QED BY <2>6, <3>1, <3>2 DEF ObjectsGood, ObjectsOnward
  <2>8. FileTypes'
    BY <1>1, <2>6 DEF FileTypes
  <2> QED BY <1>1, <2>2, <2>3, <2>4, <2>7, <2>8, Goes DEF rows
<1> QED BY <1>2, <1>3, <1>4 DEF PublishReplay

\* The object an upload is to reference is that of an artifact, whose upload is late.
LEMMA ReferredIsOwned ==
    ASSUME IInv, NEW u \in Uploads, pc[u] \in {"refer", "confirm"}
    PROVE  /\ Refers(u) /\ on[u] \in Uploads /\ Image(key[u]) \in Images
           /\ art[Image(key[u])] # NoArt /\ art[Image(key[u])].by = on[u] /\ pc[on[u]] \in Late
<1>1. UploadOK(u) /\ key[u] \in Keys
  BY KeyIsKey DEF IInv
<1>2. Refers(u) /\ RowOK(key[u])
  BY <1>1 DEF UploadOK, IInv
<1>3. Image(key[u]) \in Images
  BY <1>1, <1>2, ImageIsImage DEF IInv, RowOK, Refers, Replayable, None
<1>4. ArtOK(Image(key[u])) /\ art[Image(key[u])] # NoArt
  BY <1>1, <1>2, <1>3 DEF IInv, RowOK, Refers
<1> QED BY <1>2, <1>3, <1>4 DEF Refers, ArtOK

\* A reference that failed is answered with what the rows say, and they stay as they are.
LEMMA Unrefers ==
    ASSUME IInv, NEW u \in Uploads, pc[u] \in {"refer", "confirm"}, Unreferenced(u), ScansGood,
           FileTypes', ObjectsGood(u), UNCHANGED <<upload, gate, rows>>, faults' \in Nat
    PROVE  Onward(u)
<1> DEFINE k == key[u]
           w == IF res[k].status = "COMPLETED" /\ res[k].staged = on[u] THEN "result" ELSE "error"
<1>1. k \in Keys /\ Answer(u, w) /\ RowOK(k) /\ UploadOK(u)
  BY KeyIsKey DEF Unreferenced, IInv
<1>2. Walked(u, "done") /\ reply'[u] = w
  BY <1>1, Ends DEF Answers, upload, IInv, TypeOK, UploadTypes
<1>3. RowsGood
  BY <1>1, <1>2, RowsStay DEF Walked, ScansGood
<1>4. w = "result" => k \in evidence /\ evidence' = evidence
  BY <1>1 DEF RowOK, rows
<1>5. UploadOK(u)'
  BY <1>2, <1>4, EndIsOK
<1> QED BY <1>1, <1>2, <1>3, <1>5, Goes DEF rows

LEMMA MarkReferencedGoesOn == ASSUME IInv, NEW u \in Uploads, MarkReferenced(u) PROVE Onward(u)
<1> DEFINE k == key[u]
<1>1. /\ pc[u] = "refer" /\ k \in Keys /\ faults' \in Nat /\ ScansGood /\ FileTypes
      /\ UNCHANGED <<upload, gate, rows, scans, spool, formal, faults>>
      /\ formal' \in [Keys -> SUBSET {"part", "payload", "record", "commit"}]
  BY KeyIsKey, ScansStay DEF MarkReferenced, IInv, TypeOK, UploadTypes, FileTypes
<1>2. CASE Unreferenced(u)
  <2>1. UNCHANGED files
    BY <1>1, <1>2 DEF files, Unreferenced
  <2>2. FileTypes' /\ ObjectsGood(u)
    BY <1>1, <2>1, ObjectsStay DEF files, FileTypes
  <2> QED BY <1>1, <1>2, <2>2, Unrefers
<1>3. CASE /\ object' = [object EXCEPT ![on[u]] = "referenced"]
           /\ Go(u, "confirm") /\ UNCHANGED <<reply, lock>>
  <2>1. Walked(u, "confirm")
    BY <1>1, <1>3, WalksOn DEF Steps, Late
  <2>2. RowsGood
    BY <1>1, <2>1, RowsStay DEF Walked, ScansGood
  <2>3. on[u] \in Uploads /\ pc[on[u]] \in Late /\ Refers(u)
    BY <1>1, ReferredIsOwned
  <2>4. /\ object' \in [Uploads -> {None, "staged", "referenced"}]
        /\ object'[on[u]] = "referenced"
        /\ \A v \in Uploads \ {on[u]} : object'[v] = object[v]
    BY <1>1, <1>3, <2>3 DEF FileTypes
  <2>5. ObjectsGood(u) /\ FileTypes'
    BY <1>1, <2>3, <2>4 DEF ObjectsGood, OthersKeep, ObjectsOnward, ObjectStands, FileTypes
  <2>6. Refers(u)'
    BY <1>1, <2>3 DEF Refers, rows, upload, Image
  <2>7. UploadOK(u)'
    <3>1. reply'[u] # "result" /\ object'[on'[u]] = "referenced"
      BY <1>1, <1>3, <2>4, NoResultYet DEF upload
    <3> QED BY <2>1, <2>6, <3>1 DEF UploadOK, Walked, Early, Late
  <2> QED BY <1>1, <2>1, <2>2, <2>5, <2>7, Goes DEF rows
<1> QED BY <1>2, <1>3 DEF MarkReferenced

LEMMA ConfirmReferenceGoesOn ==
    ASSUME IInv, NEW u \in Uploads, ConfirmReference(u) PROVE Onward(u)
<1> DEFINE k == key[u]
<1>1. /\ pc[u] = "confirm" /\ k \in Keys /\ Answer(u, "result") /\ ScansGood /\ FileTypes'
      /\ UNCHANGED <<upload, gate, scans, files, faults>> /\ ObjectsGood(u)
      /\ RowOK(k) /\ UploadOK(u)
  BY KeyIsKey, ScansStay, ObjectsStay
  DEF ConfirmReference, files, IInv, TypeOK, UploadTypes, FileTypes
<1>2. Walked(u, "done")
  BY <1>1, Ends DEF Answers, upload, IInv, TypeOK, UploadTypes
<1>3. CASE res[k].status = "COMPLETED" /\ UNCHANGED rows
  <2>1. RowsGood
    BY <1>1, <1>2, <1>3, RowsStay DEF Walked, ScansGood
  <2>2. UploadOK(u)'
    BY <1>1, <1>2, <1>3, EndIsOK DEF rows, RowOK
  <2> QED BY <1>1, <1>2, <1>3, <2>1, <2>2, Goes DEF rows
<1>4. CASE /\ res[k].status # "COMPLETED"
           /\ res' = Completed(k, "ADOPTED") /\ evidence' = evidence \cup {k}
           /\ art' = [art EXCEPT ![Image(k)].state = "REFERENCED"]
  <2>0. PICK i : i = Image(k)
    OBVIOUS
  <2>1. /\ i \in Images /\ art[i] # NoArt /\ art[i].by = on[u] /\ Replayable(res[k])
        /\ on[u] \in Uploads /\ pc[on[u]] \in Late
    BY <2>0, <1>1, ReferredIsOwned DEF Refers
  <2>2. art \in [Images -> Artifact]
    BY DEF IInv, TypeOK, RowTypes
  <2>3. /\ art' \in [Images -> Artifact] /\ art'[i].by = art[i].by /\ art'[i].state = "REFERENCED"
        /\ \A j \in Images \ {i} : art'[j] = art[j]
    BY <2>0, <1>4, <2>1, <2>2 DEF Artifact
  <2>4. ArtOnward
    <3>1. art'[i] # NoArt
      BY <2>3 DEF NoArt, None
    <3> QED BY <2>3, <3>1 DEF ArtOnward, ArtStands
  <2>5. RowsGood
    BY <2>0, <1>1, <1>2, <1>4, <2>1, <2>3, <2>4, RowsCompleted DEF Walked, ScansGood
  <2>6. object'[on[u]] = "referenced"
    BY <1>1 DEF UploadOK, files
  <2>7. ArtOK(i)'
    BY <1>2, <2>1, <2>3, <2>6 DEF ArtOK, Walked, PeopleOnward
  <2>8. \A j \in Images : ArtOK(j)'
    BY <1>1, <1>2, <2>3, <2>7, ArtKept DEF Walked, ObjectsGood
  <2>9. UploadOK(u)'
    BY <1>2, <1>4, EndIsOK
  <2>10. TypeOK'
    BY <1>1, <1>2, <2>5 DEF TypeOK, Walked, ScansGood, RowsGood
  <2>11. IInv'
    BY <1>1, <1>2, <2>5, <2>8, <2>9, <2>10, Combine DEF Walked, ObjectsGood, ScansGood
  <2> QED BY <1>2, <2>5, <2>11 DEF Onward, Walked, RowsGood
<1> QED BY <1>3, <1>4 DEF ConfirmReference

-----------------------------------------------------------------------------
(* Time, cancellation and faults *)

LEMMA StepFailsGoesOn == ASSUME IInv, NEW u \in Uploads, StepFails(u) PROVE Onward(u)
<1>1. /\ UNCHANGED <<upload, gate, art, evidence, attempt, clean>> /\ faults' \in Nat
      /\ FileTypes
  BY DEF StepFails, IInv, TypeOK, UploadTypes
<1>2. ASSUME pc[u] # "idle", UNCHANGED <<receipt, formal>> PROVE Ending(u)
  BY <1>1, <1>2, ScansStay DEF Ending, scans, FileTypes
<1>3. CASE /\ pc[u] \in {"replay", "again", "read", "reserve", "publish", "follow", "refer",
                         "confirm"}
           /\ Committed(u) /\ UNCHANGED <<receipt, formal>>
  BY <1>2, <1>3, Leaves DEF Committed, Answers
<1>4. ASSUME pc[u] \in Early \ {"idle"}, Pend(u), MarkFailed(u), UNCHANGED formal PROVE Onward(u)
  <2>1. ScansGood
    BY <1>1, <1>4, KeyIsKey, ScansMarkFailed
  <2>2. formal' \in [Keys -> SUBSET {"part", "payload", "record", "commit"}]
    BY <1>1, <1>4 DEF FileTypes
  <2> QED BY <1>1, <1>4, <2>1, <2>2, PromotionEnds
<1>5. CASE pc[u] \in {"refresh", "open", "mark", "payload", "record", "commit"}
           /\ Pend(u) /\ MarkFailed(u) /\ UNCHANGED formal
  BY <1>4, <1>5 DEF Early, Steps, Late
<1>6. CASE pc[u] \in {"payload", "record", "commit"} /\ RollBack(u)
  BY <1>1, <1>6, RollBackEnds DEF Early, Steps, Late
<1>7. CASE pc[u] = "activate" /\ Pend(u) /\ UNCHANGED <<receipt, formal>>
  BY <1>2, <1>7, Pends DEF Late
<1>8. CASE pc[u] = "scan" /\ Unrejected(u) /\ UNCHANGED <<receipt, formal>>
  BY <1>2, <1>8, Unrejects
<1>9. CASE /\ pc[u] \in {"spool", "scan", "claim", "validate", "stage", "lock", "finalize"}
           /\ Fail(u) /\ UNCHANGED <<receipt, formal>>
  BY <1>2, <1>9, Fails DEF Late
<1>10. CASE pc[u] \in {"refer", "confirm"} /\ Unreferenced(u) /\ UNCHANGED <<receipt, formal>>
  <2>1. UNCHANGED files /\ UNCHANGED <<rows, scans>>
    BY <1>1, <1>10 DEF files, Unreferenced, rows, scans
  <2>2. FileTypes' /\ ObjectsGood(u) /\ ScansGood
    BY <1>1, <2>1, ObjectsStay, ScansStay DEF files, FileTypes
  <2> QED BY <1>1, <1>10, <2>1, <2>2, Unrefers
<1> QED BY <1>3, <1>5, <1>6, <1>7, <1>8, <1>9, <1>10 DEF StepFails

LEMMA CancelGoesOn == ASSUME IInv, NEW u \in Uploads, Cancel(u) PROVE Onward(u)
<1>1. /\ UNCHANGED <<pc, upload, reply, rows, scans, files, lock, faults>>
      /\ gate[u] = "open" /\ gate' = [gate EXCEPT ![u] = "cancelled"]
      /\ gate \in [Uploads -> {"open", "held", "cancelled"}]
  BY DEF Cancel, IInv, TypeOK, UploadTypes
<1>2. /\ gate' \in [Uploads -> {"open", "held", "cancelled"}]
      /\ \A v \in Uploads \ {u} : gate'[v] = gate[v]
  BY <1>1
<1>3. OthersStand(u) /\ PeopleOnward
  BY <1>1, <1>2 DEF OthersStand, Same, PeopleOnward, upload
<1>4. ScansGood /\ ObjectsGood(u)
  BY <1>1, ScansStay, ObjectsStay DEF files
<1>5. RowsGood
  BY <1>1, <1>3, <1>4, RowsStay DEF ScansGood
<1>6. UploadOK(u)'
  <2>1. UploadOK(u)
    BY DEF IInv
  <2> QED BY <1>1, <2>1 DEF UploadOK, Refers, Idle, Scanned, Image, upload, rows, scans, files
<1>7. TypeOK'
  <2>1. UploadTypes'
    BY <1>1, <1>2 DEF IInv, TypeOK, UploadTypes, upload
  <2>2. FileTypes'
    BY <1>1 DEF IInv, TypeOK, FileTypes, files
  <2> QED BY <1>4, <1>5, <2>1, <2>2 DEF TypeOK, ScansGood, RowsGood
<1>8. \A i \in Images : ArtOK(i)'
  BY <1>1, <1>3, <1>4, ArtKept DEF ObjectsGood, rows
<1>9. IInv'
  BY <1>3, <1>4, <1>5, <1>6, <1>7, <1>8, Combine DEF ScansGood, ObjectsGood
<1> QED BY <1>3, <1>5, <1>9 DEF Onward, RowsGood

LEMMA TimeGoesOn == ASSUME IInv, Time PROVE IInv' /\ RowsOnward /\ UNCHANGED <<key, reply>>
<1>1. UNCHANGED <<pc, upload, gate, reply, art, evidence, attempt, clean, formal, object, lock,
                  faults>>
  BY DEF Time
<1>2. (\A v \in Uploads : Same(v)) /\ PeopleOnward
  BY <1>1 DEF Same, PeopleOnward, upload
<1>3. ObjectsOnward
  BY <1>1 DEF ObjectsOnward, ObjectStands
<1>4. ScansGood /\ RowsGood /\ spool' \in [Uploads -> {None, "file", "stale"}]
  <2>0. /\ res \in [Keys -> Reservation] /\ receipt \in [Keys -> CleanReceipt]
        /\ spool \in [Uploads -> {None, "file", "stale"}]
    BY DEF IInv, TypeOK, RowTypes, ScanTypes, FileTypes
  <2>1. ASSUME NEW k \in Keys, res[k].status = "ACTIVE", res' = [res EXCEPT ![k].old = TRUE],
               UNCHANGED <<receipt, spool>>
        PROVE  ScansGood /\ RowsGood
    <3>1. ScansGood
      BY <1>1, <2>1, ScansStay DEF scans
    <3> DEFINE r == [res[k] EXCEPT !.old = TRUE]
    <3>2. res[k] \in Reservation
      BY <2>0
    <3>3. /\ r \in Reservation /\ r.status = res[k].status /\ r.body = res[k].body
          /\ r.staged = res[k].staged
      BY ONLY <3>2 DEF Reservation, r
    <3>4. res' = [res EXCEPT ![k] = r]
      BY <2>0, <2>1
    <3> HIDE DEF r
    <3>5. /\ res' \in [Keys -> Reservation] /\ res'[k] = r
          /\ \A q \in Keys \ {k} : res'[q] = res[q]
      BY <2>0, <3>3, <3>4
    <3>6. Drops(k)
      BY <2>1, <3>3, <3>5 DEF Drops
    <3> QED BY <1>1, <1>2, <3>1, <3>5, <3>6, RowsDropped DEF ScansGood
  <2>2. ASSUME NEW k \in Keys, receipt[k].owner # None,
               receipt' = [receipt EXCEPT ![k].lapsed = TRUE], UNCHANGED <<res, spool>>
        PROVE  ScansGood /\ RowsGood
    <3>1. receipt' \in [Keys -> CleanReceipt] /\ \A q \in Keys \ {k} : receipt'[q] = receipt[q]
      BY <2>0, <2>2 DEF CleanReceipt
    <3>2. receipt'[k].status = receipt[k].status /\ receipt'[k].owner = receipt[k].owner
      BY <2>0, <2>2 DEF CleanReceipt
    <3>3. ReceiptOK(k)
      BY DEF IInv
    <3>4. ScansGood
      BY <1>1, <2>2, <3>1, <3>2, <3>3, ScansMoved DEF ReceiptOK, None
    <3>5. RowsGood
      BY <1>1, <1>2, <2>2, <3>4, RowsStay DEF rows, ScansGood
    <3> QED BY <3>4, <3>5
  <2>3. ASSUME UNCHANGED <<res, receipt>> PROVE ScansGood /\ RowsGood
    <3>1. ScansGood
      BY <1>1, <2>3, ScansStay DEF scans
    <3> QED BY <1>1, <1>2, <2>3, <3>1, RowsStay DEF rows, ScansGood
  <2>4. spool' \in [Uploads -> {None, "file", "stale"}]
    BY <2>0 DEF Time, Expire
  <2> QED BY <2>1, <2>2, <2>3, <2>4 DEF Time, Expire
<1>5. \A v \in Uploads : UploadOK(v)'
  BY <1>1, <1>2, <1>3, <1>4, UploadKept DEF ScansGood, RowsGood
<1>6. \A i \in Images : ArtOK(i)'
  BY <1>1, <1>2, <1>3, ArtKept
<1>7. UploadTypes' /\ FileTypes'
  BY <1>1, <1>4 DEF IInv, TypeOK, UploadTypes, FileTypes, upload
<1>8. TypeOK'
  BY <1>4, <1>7 DEF TypeOK, ScansGood, RowsGood
<1>9. IInv'
  BY <1>4, <1>5, <1>6, <1>8 DEF IInv, ScansGood, RowsGood
<1> QED BY <1>1, <1>4, <1>9 DEF RowsGood, upload

LEMMA CrashGoesOn == ASSUME IInv, Crash PROVE IInv' /\ RowsOnward /\ UNCHANGED <<key, reply>>
<1>1. /\ UNCHANGED <<upload, gate, reply, rows, scans, files>>
      /\ pc' = [u \in Uploads |-> IF pc[u] = "idle" THEN "idle" ELSE "done"]
      /\ lock' = [s \in Sessions |-> None] /\ faults' = faults + 1
  BY DEF Crash
<1>2. PeopleOnward
  BY <1>1 DEF PeopleOnward, Late
<1>3. ObjectsOnward /\ ScansGood
  BY <1>1, ScansStay DEF ObjectsOnward, ObjectStands, files
<1>4. RowsGood
  BY <1>1, <1>2, <1>3, RowsStay DEF ScansGood
<1>5. ASSUME NEW v \in Uploads PROVE UploadOK(v)'
  <2>1. UploadOK(v) /\ key'[v] = key[v] /\ body'[v] = body[v] /\ reply'[v] = reply[v]
        /\ object'[v] = object[v] /\ evidence' = evidence
    BY <1>1 DEF IInv, upload, rows, files
  <2>2. CASE pc[v] = "idle" /\ pc'[v] = "idle"
    BY <2>1, <2>2 DEF UploadOK, Early, Late, Steps
  <2>3. CASE pc[v] # "idle" /\ pc'[v] = "done"
    BY <2>1, <2>3 DEF UploadOK, Early, Late
  <2> QED BY <1>1, <2>2, <2>3
<1>6. \A i \in Images : ArtOK(i)'
  BY <1>1, <1>2, <1>3, ArtKept DEF rows
<1>7. TypeOK'
  <2>1. pc' \in [Uploads -> Steps] /\ lock' \in [Sessions -> Uploads \cup {None}] /\ faults' \in Nat
    BY <1>1 DEF Steps, IInv, TypeOK, UploadTypes
  <2>2. UploadTypes'
    BY <1>1, <2>1 DEF IInv, TypeOK, UploadTypes, upload
  <2>3. FileTypes'
    BY <1>1 DEF IInv, TypeOK, FileTypes, files
  <2> QED BY <1>3, <1>4, <2>2, <2>3 DEF TypeOK, ScansGood, RowsGood
<1>8. IInv'
  BY <1>3, <1>4, <1>5, <1>6, <1>7 DEF IInv, ScansGood, RowsGood
<1> QED BY <1>1, <1>4, <1>8 DEF RowsGood, upload

-----------------------------------------------------------------------------
(* The theorems *)

LEMMA IngestGoesOn ==
    ASSUME IInv, NEW u \in Uploads, Ingest(u) PROVE Onward(u) /\ pc[u] # "done"
<1>1. Onward(u)
  BY FindReplayGoesOn, FindPendingReceiptGoesOn, ReserveGoesOn, WriteSpoolGoesOn,
     RecordScanGoesOn, ClaimGoesOn, RefreshGoesOn, OpenFormalGoesOn, PublishPayloadGoesOn,
     PublishRecordGoesOn, PublishCommitGoesOn, MarkPublishedGoesOn, ActivateStepGoesOn,
     ValidateGoesOn, StageGoesOn, TakeRunLockGoesOn, FinalizeGoesOn, ReconcileGoesOn,
     PublishReplayGoesOn, MarkReferencedGoesOn, ConfirmReferenceGoesOn
  DEF Ingest
<1>2. pc[u] # "done"
  BY DEF Ingest, FindReplay, FindPendingReceipt, Reserve, WriteSpool, RecordScan, Claim, Refresh,
         OpenFormal, PublishPayload, PublishRecord, PublishCommit, MarkPublished, Activate,
         Validate, Stage, TakeRunLock, Finalize, Reconcile, PublishReplay, MarkReferenced,
         ConfirmReference
<1> QED BY <1>1, <1>2

\* Every step keeps the invariant, goes onward in the rows, and at most one upload, which
\* had not ended, changes what it is of or what it was told.
LEMMA NextGoesOn ==
    ASSUME IInv, Next
    PROVE  /\ IInv' /\ RowsOnward
           /\ \/ UNCHANGED <<key, reply>>
              \/ \E u \in Uploads : OthersStand(u) /\ pc[u] # "done"
<1>1. ASSUME NEW u \in Uploads, Start(u) PROVE Onward(u) /\ pc[u] # "done"
  BY <1>1, StartGoesOn DEF Start
<1>2. ASSUME NEW u \in Uploads, Cancel(u) PROVE Onward(u) /\ pc[u] # "done"
  BY <1>2, CancelGoesOn DEF Cancel
<1>3. ASSUME NEW u \in Uploads, StepFails(u) PROVE Onward(u) /\ pc[u] # "done"
  BY <1>3, StepFailsGoesOn DEF StepFails
<1> QED BY <1>1, <1>2, <1>3, IngestGoesOn, TimeGoesOn, CrashGoesOn DEF Next, Onward

LEMMA Starts == Init => IInv
<1> SUFFICES ASSUME Init PROVE IInv
  OBVIOUS
<1>1. /\ \A u \in Uploads : /\ pc[u] = "idle" /\ object[u] = None /\ reply[u] = None
      /\ \A k \in Keys : res[k] = NoRes /\ receipt[k] = NoReceipt
      /\ \A i \in Images : art[i] = NoArt
      /\ evidence = {}
  BY DEF Init
<1>2. NoRes \in Reservation /\ NoRes.status = None /\ NoRes.staged = None
  BY DEF NoRes, Reservation
<1>3. NoReceipt \in CleanReceipt /\ NoReceipt.status = None /\ NoReceipt.owner = None
  BY DEF NoReceipt, CleanReceipt
<1>4. NoArt \in Artifact
  BY DEF NoArt, Artifact
<1>5. TypeOK
  <2>1. UploadTypes
    BY DEF Init, UploadTypes, Steps, Answers
  <2>2. RowTypes
    BY <1>2, <1>4 DEF Init, RowTypes
  <2>3. ScanTypes
    BY <1>3 DEF Init, ScanTypes
  <2>4. FileTypes
    BY DEF Init, FileTypes
  <2> QED BY <2>1, <2>2, <2>3, <2>4 DEF TypeOK
<1>6. QuotaHolds
  <2>1. ASSUME NEW s PROVE Occupied(res, evidence, s) = {} /\ Shown(s) = {}
    BY <1>1, <1>2 DEF Occupied, Shown, Held, None
  <2> QED BY <2>1, MediaAssumption, FS_EmptySet DEF QuotaHolds
<1>7. \A u \in Uploads : UploadOK(u)
  BY <1>1 DEF UploadOK, None
<1>8. \A k \in Keys : RowOK(k) /\ ReceiptOK(k)
  BY <1>1, <1>2, <1>3 DEF RowOK, ReceiptOK, Replayable, None
<1>9. \A i \in Images : ArtOK(i)
  BY <1>1 DEF ArtOK
<1> QED BY <1>5, <1>6, <1>7, <1>8, <1>9 DEF IInv

LEMMA Stutters == ASSUME IInv, UNCHANGED vars PROVE IInv'
<1>1. UNCHANGED <<pc, key, body, resumed, seen, on, gate, reply, res, art, evidence, attempt,
                  receipt, clean, spool, formal, object, lock, faults>>
  BY DEF vars, upload, rows, scans, files
<1>2. (\A v \in Uploads : Same(v)) /\ PeopleOnward /\ ObjectsOnward /\ ScansGood
  BY <1>1, ScansStay DEF Same, PeopleOnward, ObjectsOnward, ObjectStands, scans
<1>3. RowsGood
  BY <1>1, <1>2, RowsStay DEF rows, ScansGood
<1>4. \A v \in Uploads : UploadOK(v)'
  BY <1>1, <1>2, <1>3, UploadKept DEF ScansGood, RowsGood
<1>5. \A i \in Images : ArtOK(i)'
  BY <1>1, <1>2, ArtKept
<1>6. UploadTypes' /\ FileTypes'
  BY <1>1 DEF IInv, TypeOK, UploadTypes, FileTypes
<1>7. TypeOK'
  BY <1>2, <1>3, <1>6 DEF TypeOK, ScansGood, RowsGood
<1> QED BY <1>2, <1>3, <1>4, <1>5, <1>7 DEF IInv, ScansGood, RowsGood

\* The invariant is inductive, and holds of every reachable state.
THEOREM Inductive == Spec => []IInv
<1>1. IInv /\ [Next]_vars => IInv'
  BY NextGoesOn, Stutters
<1> QED BY <1>1, Starts, PTL DEF Spec

\* Every reachable state of image ingestion is well typed, for any uploads, keys,
\* sessions, quotas and faults.
THEOREM TypesHold == Spec => []TypeOK
<1>1. IInv => TypeOK
  BY DEF IInv
<1> QED BY <1>1, Inductive, PTL

\* EvidenceIsSound: an evidence row stands on an object that is referenced, was scanned
\* clean under its own receipt, and is not that of an upload which was told it is
\* cancelled, whatever is retried, cancelled or lost (MediaIngestionService.ingest,
\* finalize_ingestion, confirm_reference).
THEOREM EvidenceSound == Spec => []EvidenceIsSound
<1>1. ASSUME IInv PROVE ImageBehindEvidence
  <2>1. SUFFICES ASSUME NEW k \in evidence
                 PROVE  /\ res[k].status = "COMPLETED" /\ art[Image(k)].state = "REFERENCED"
                        /\ object[art[Image(k)].by] = "referenced"
    BY DEF ImageBehindEvidence
  <2>2. k \in Keys /\ RowOK(k)
    BY <1>1 DEF IInv, TypeOK, RowTypes
  <2>3. res[k].status = "COMPLETED" /\ art[Image(k)].state = "REFERENCED"
    BY <2>2 DEF RowOK
  <2>4. Image(k) \in Images
    BY <1>1, <2>2, <2>3, ImageIsImage DEF IInv, RowOK, None
  <2>5. ArtOK(Image(k)) /\ art[Image(k)] # NoArt
    BY <1>1, <2>3, <2>4 DEF IInv, NoArt, None
  <2> QED BY <2>3, <2>5 DEF ArtOK
<1>2. ASSUME IInv PROVE ShownWasScanned
  BY <1>2 DEF IInv, RowOK, Replayable, Scanned, ShownWasScanned
<1>3. ASSUME IInv PROVE CancelWins
  <2>1. ASSUME NEW u \in Uploads, NEW k \in Keys, res[k].staged = u PROVE gate[u] # "cancelled"
    <3>1. RowOK(k) /\ u # None
      BY <1>3, MediaAssumption DEF IInv
    <3> QED BY <2>1, <3>1 DEF RowOK
  <2> QED BY <2>1 DEF CancelWins
<1>4. IInv => EvidenceIsSound
  BY <1>1, <1>2, <1>3 DEF EvidenceIsSound
<1> QED BY <1>4, Inductive, PTL

\* PendingIsKept: what a committed intent is to reference is still there, and is what the
\* intent staged when it is to mark it, so a retry can complete it (finalize_ingestion).
THEOREM PendingKept == Spec => []PendingIsKept
<1>1. ASSUME IInv, NEW k \in Keys, res[k].status = "PENDING_REFERENCE", NEW i, i = Image(k)
      PROVE  /\ art[i] # NoArt
             /\ art[i].state = "PENDING_REFERENCE" => object[art[i].by] \in {"staged", "referenced"}
             /\ res[k].intent = "MARK" => art[i].by = res[k].staged
  <2>1. RowOK(k)
    BY <1>1 DEF IInv
  <2>2. i \in Images
    BY <1>1, <2>1, ImageIsImage DEF IInv, RowOK, None
  <2>3. ArtOK(i)
    BY <1>1, <2>2 DEF IInv
  <2> QED BY <1>1, <2>1, <2>3 DEF RowOK, ArtOK, Replayable
<1>2. IInv => PendingIsKept
  BY <1>1 DEF PendingIsKept
<1> QED BY <1>2, Inductive, PTL

\* QuotaHolds: no session occupies more items, nor shows more distinct images, than its
\* quotas, however its uploads overlap (reserve_ingestion, finalize_ingestion).
THEOREM QuotaIsKept == Spec => []QuotaHolds
<1>1. IInv => QuotaHolds
  BY DEF IInv
<1> QED BY <1>1, Inductive, PTL
-----------------------------------------------------------------------------
(* The refinement *)

Told == {<<u, key[u]>> : u \in {v \in Uploads : reply[v] = "result"}}

LEMMA PromiseStarts == Init => Promise!Init
BY DEF Init, Promise!Init, Dead, NoRes, None

LEMMA TellsOrNot ==
    ASSUME IInv, IInv', NEW u \in Uploads, OthersStand(u), pc[u] # "done"
    PROVE  \/ Told' = Told
           \/ \E k \in evidence' : Told' = Told \cup {<<u, k>>}
<1>1. reply[u] # "result"
  BY NoResultYet
<1>2. \A v \in Uploads \ {u} : key'[v] = key[v] /\ reply'[v] = reply[v]
  BY DEF OthersStand, Same
<1>3. CASE reply'[u] # "result"
  BY <1>1, <1>2, <1>3 DEF Told
<1>4. CASE reply'[u] = "result"
  <2>1. key'[u] \in evidence'
    <3>1. UploadOK(u)'
      BY DEF IInv
    <3> QED BY <1>4, <3>1 DEF UploadOK
  <2>2. Told' = Told \cup {<<u, key'[u]>>}
    BY <1>1, <1>2, <1>4 DEF Told
  <2> QED BY <2>1, <2>2
<1> QED BY <1>3, <1>4

LEMMA ShowsOrBuries ==
    ASSUME IInv, IInv', RowsOnward PROVE Promise!Show \/ Promise!Bury
<1>1. /\ evidence' \subseteq Keys /\ evidence \subseteq evidence' /\ Dead \subseteq Dead'
      /\ Dead' \subseteq Keys
  BY DEF RowsOnward, RowStands, IInv, TypeOK, RowTypes, Dead
<1>2. \A k \in Keys : ~(k \in evidence' /\ k \in Dead')
  BY DEF IInv, RowOK, Dead
<1>3. CASE Dead' = Dead
  <2>1. evidence' \ evidence \in SUBSET (Keys \ (evidence \cup Dead))
    BY <1>1, <1>2
  <2>2. evidence' = evidence \cup (evidence' \ evidence)
    BY <1>1
  <2> QED BY <1>3, <2>1, <2>2 DEF Promise!Show
<1>4. CASE evidence' = evidence
  <2>1. Dead' \ Dead \in SUBSET (Keys \ evidence)
    BY <1>1, <1>2, <1>4
  <2>2. Dead' = Dead \cup (Dead' \ Dead)
    BY <1>1
  <2> QED BY <1>4, <2>1, <2>2 DEF Promise!Bury
<1> QED BY <1>3, <1>4 DEF RowsOnward

\* Every step of an upload, of time, of a cancellation or of a crash is one of the promise.
LEMMA PromiseKept ==
    ASSUME IInv, [Next]_vars PROVE [Promise!Next]_(Promise!pvars)
<1>1. CASE UNCHANGED vars
  BY <1>1 DEF vars, upload, rows, Promise!pvars, Dead
<1>2. CASE Next
  <2>1. /\ IInv' /\ RowsOnward
        /\ \/ UNCHANGED <<key, reply>>
           \/ \E u \in Uploads : OthersStand(u) /\ pc[u] # "done"
    BY <1>2, NextGoesOn
  <2>2. Promise!Show \/ Promise!Bury
    BY <2>1, ShowsOrBuries
  <2>3. \/ Told' = Told
        \/ \E u \in Uploads, k \in evidence' : Told' = Told \cup {<<u, k>>}
    <3>1. CASE UNCHANGED <<key, reply>>
      BY <3>1 DEF Told
    <3>2. CASE \E u \in Uploads : OthersStand(u) /\ pc[u] # "done"
      BY <2>1, <3>2, TellsOrNot
    <3> QED BY <2>1, <3>1, <3>2
  <2> QED BY <2>2, <2>3 DEF Promise!Next, Promise!Tell, Told
<1> QED BY <1>1, <1>2

\* KeepsPromise: every interleaving of uploads, retries, expiries, cancellations and crashes
\* is one that MediaPromise allows: a key is shown or dead for good, never both, and nobody is
\* told of an image that is not durably part of the session (MediaIngestionService.ingest).
THEOREM KeepsItsPromise == Spec => KeepsPromise
BY PromiseStarts, PromiseKept, Inductive, PTL DEF Spec, KeepsPromise, Promise!Spec
=============================================================================
