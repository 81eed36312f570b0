---------------------------- MODULE MediaStores ----------------------------
(*************************************************************************)
(* The files of one clean receipt, call by call: the spool, the payload,  *)
(* record and commit marker of its quarantined source, the staged objects *)
(* of its uploads with their manifests, the referenced object, and the    *)
(* janitor's sweeps with their deletion journal. A call of the file       *)
(* system may fail, and the process or the power may fail between two of  *)
(* them. The calls of an operation are put together when it starts, from  *)
(* what it then finds.                                                    *)
(*                                                                       *)
(* The rows are those of the other components: the pending receipt, the   *)
(* artifact that names an object, and how far the time of the             *)
(* reservation went. Attempts of an upload come one after the other:      *)
(* that two of them overlap is what MediaIngestion is about.              *)
(*************************************************************************)
EXTENDS DurableFiles, Naturals

CONSTANTS Attempts,    \* how often the upload is tried
          Outages,     \* whether the janitor's questions to the database may raise
          MaxFaults    \* bound: crashes, power losses and calls that fail, together

ASSUME StoresAssumption ==
    /\ Attempts \in Nat \ {0} /\ Outages \in BOOLEAN
    /\ MaxFaults \in Nat

VARIABLES
    fs,       \* the directories of both stores
    at, todo, \* the upload: what it is doing, and the calls it has yet to make
    try,      \* its attempt
    phase, calls, \* the janitor: what it sweeps, and the calls it has yet to make
    left,     \* what the phase has yet to look at
    trouble,  \* whether a call failed in this part of the sweep
    receipt,  \* the pending receipt: the attempt whose spool it names, and its status
    clean,    \* whether the receipt is active
    row,      \* the attempt whose object the artifact row names, or 0
    time,     \* of the reservation: fresh, the spool expired, or over for good
    linked,   \* whether a reference found its link in place
    crashes, failures

upload == <<at, todo, try>>
janitor == <<phase, calls, left, trouble>>
rows == <<receipt, clean, row, time>>
bounds == <<crashes, failures>>
vars == <<fs, upload, janitor, rows, linked, bounds>>

Tries == 1..Attempts
SpoolPart(a) == <<"spool", "part", a>>
Spool(a) == <<"spool", "file", a>>
PayloadPart == <<"payloads", "part", 0>>
Payload == <<"payloads", "file", 0>>
RecordPart == <<"records", "part", 0>>
Record == <<"records", "file", 0>>
CommitPart == <<"commits", "part", 0>>
Commit == <<"commits", "file", 0>>
Journal(f, state) == <<"journal", state, f>>
ManifestPart(a) == <<"manifests", "part", a>>
Manifest(a, state) == <<"manifests", state, a>>
ObjectPart(a) == <<"staged", "part", a>>
Object(a) == <<"staged", "file", a>>
Reference(a) == <<"referenced", "file", a>>

Here(f) == f \in fs.now
Triplet == {Payload, Record, Commit}
Whole == Triplet \subseteq fs.now
Bound(a) == Here(Manifest(a, "bound"))
Manifested(a) == Bound(a) \/ Here(Manifest(a, "only"))

Activities == {"idle", "spooling", "open", "publishing", "rolling", "using", "clean", "staging",
               "unstaging", "marking", "aborting"}
Phases == {"rest", "journals", "parts", "commits", "records", "payloads", "expired", "objects",
           "pending"}
Statuses == {"none", "pending", "publishing", "published", "failed"}
NoReceipt == [spool |-> 0, status |-> "none"]

Init ==
    /\ fs = Empty /\ at = "idle" /\ todo = <<>> /\ try = 0
    /\ phase = "rest" /\ calls = <<>> /\ left = {} /\ trouble = FALSE
    /\ receipt = NoReceipt /\ clean = FALSE /\ row = 0 /\ time = "fresh"
    /\ linked = FALSE /\ crashes = 0 /\ failures = 0
-----------------------------------------------------------------------------
(* What the operations call *)

WriteSpool(a) == <<Create(SpoolPart(a))>> \o Publish(SpoolPart(a), Spool(a), {})

PublishCommitFirst(a) ==                                              \* mutant
    <<Create(CommitPart)>> \o Publish(CommitPart, Commit, {})
    \o <<Link(Spool(a), PayloadPart)>> \o Publish(PayloadPart, Payload, {})
    \o <<Create(RecordPart)>> \o Publish(RecordPart, Record, {}) \o Erase(Spool(a))
PublishFormal(a) ==
    (IF Here(PayloadPart) THEN Erase(PayloadPart) ELSE <<>>)
    \o <<Link(Spool(a), PayloadPart)>> \o Publish(PayloadPart, Payload, {})
    \o <<Create(RecordPart)>> \o Publish(RecordPart, Record, {})
    \o <<Create(CommitPart)>> \o Publish(CommitPart, Commit, {})
    \o Erase(Spool(a))

Rolled(f) == IF Here(f) THEN Erase(f) ELSE <<>>
RollbackSpool(a) == Rolled(SpoolPart(a)) \o Rolled(Spool(a))
RollbackFormal ==
    Rolled(CommitPart) \o Rolled(Commit) \o Rolled(RecordPart) \o Rolled(Record)
    \o Rolled(PayloadPart) \o Rolled(Payload)

StageObject(a) ==
    <<Create(ManifestPart(a))>> \o Publish(ManifestPart(a), Manifest(a, "only"), {})
    \o <<Create(ObjectPart(a))>> \o Publish(ObjectPart(a), Object(a), {})
    \o <<Create(ManifestPart(a))>>
    \o Publish(ManifestPart(a), Manifest(a, "bound"), {Manifest(a, "only")})

Unstage(a) ==
    Erase(ObjectPart(a)) \o Erase(ManifestPart(a))
    \o (IF Here(Object(a)) /\ ~Manifested(a) THEN Erase(Object(a)) ELSE <<>>)

\* mark_referenced raises when the object or its manifest is not what the caller says.
Markable(a) ==
    IF Manifested(a) THEN Bound(a) /\ (Here(Object(a)) \/ Here(Reference(a)))
                     ELSE Here(Reference(a))
MarkUnsynced(a) ==                                                    \* mutant
    (IF ~Here(Object(a)) THEN <<>>
     ELSE (IF Here(Reference(a)) THEN <<>> ELSE <<Link(Object(a), Reference(a))>>) \o Erase(Object(a)))
    \o (IF Bound(a) THEN Erase(Manifest(a, "bound")) ELSE <<>>)
MarkReferenced(a) ==
    (IF ~Here(Object(a)) THEN <<>>
     ELSE (IF Here(Reference(a)) THEN <<>>
           ELSE <<Link(Object(a), Reference(a)), Sync("referenced")>>) \o Erase(Object(a)))
    \o (IF Bound(a) THEN Erase(Manifest(a, "bound")) ELSE <<>>)

Abortable(a) ==
    IF Manifested(a) THEN Bound(a) /\ ~Here(Reference(a))
                     ELSE ~Here(Object(a)) /\ ~Here(Reference(a))
AbortManifestFirst(a) ==                                              \* mutant
    IF Bound(a) THEN Erase(Manifest(a, "bound")) \o Erase(Object(a)) ELSE <<>>
AbortStaged(a) ==
    IF Bound(a) THEN Erase(Object(a)) \o Erase(Manifest(a, "bound")) ELSE <<>>

FinishDeletion(f) ==
    <<Unlink(f), Sync(Dir(f)), Put(Journal(f, "done"), {Journal(f, "intent")}), Sync("journal")>>
    \o Erase(Journal(f, "done"))
RecoveryUnlink(f) ==
    IF ~Here(f) THEN <<>>
    ELSE (IF Here(Journal(f, "intent")) \/ Here(Journal(f, "done")) THEN <<>>
          ELSE <<Put(Journal(f, "intent"), {}), Sync("journal")>>) \o FinishDeletion(f)
DeleteTriplet == RecoveryUnlink(Commit) \o RecoveryUnlink(Payload) \o RecoveryUnlink(Record)
-----------------------------------------------------------------------------
(* The upload *)

Doing(what, program) == at' = what /\ todo' = program
Ended == Doing("idle", <<>>)
Claimed == receipt' = [receipt EXCEPT !.status = "publishing"]
Failed == receipt' = [receipt EXCEPT !.status = IF @ = "publishing" THEN "failed" ELSE @]

\* A replay of a completed upload references its object again, whoever staged it.
Begin ==
    /\ at = "idle" /\ try < Attempts /\ (time # "over" \/ row # 0)
    /\ try' = try + 1
    /\ IF row # 0
         THEN IF Markable(row) THEN Doing("marking", MarkReferenced(row)) ELSE Ended
       ELSE IF receipt = NoReceipt THEN Doing("spooling", WriteSpool(try'))
       ELSE Doing("open", <<>>)
    /\ linked' = (linked \/ (row # 0 /\ Here(Object(row)) /\ Here(Reference(row))))
    /\ UNCHANGED <<fs, janitor, rows, bounds>>

\* The scan: what is not clean goes, and its key with it.
Scan ==
    /\ at = "spooling" /\ todo = <<>>
    /\ \/ /\ receipt' = [spool |-> try, status |-> "pending"] /\ Doing("open", <<>>)
          /\ UNCHANGED time
       \/ /\ Doing("rolling", Erase(Spool(try))) /\ time' = "over" /\ UNCHANGED receipt
    /\ UNCHANGED <<fs, try, janitor, clean, row, linked, bounds>>

\* open_formal_clean_receipt, then the promotion of the spool that the receipt names.
Open ==
    /\ at = "open"
    /\ \/ Whole /\ Doing("using", <<>>) /\ Claimed /\ UNCHANGED time
       \/ /\ ~Whole /\ Triplet \cap fs.now # {}
          /\ Ended /\ Failed /\ time' = "over"
       \/ /\ Triplet \cap fs.now = {}
          /\ \/ /\ Here(Spool(receipt.spool)) /\ time = "fresh"
                /\ Doing("publishing", PublishFormal(receipt.spool)) /\ Claimed /\ UNCHANGED time
             \/ /\ Here(Spool(receipt.spool)) /\ time # "fresh"
                /\ Ended /\ Failed /\ time' = "over"
             \/ ~Here(Spool(receipt.spool)) /\ Ended /\ Failed /\ UNCHANGED time
    /\ UNCHANGED <<fs, try, janitor, clean, row, linked, bounds>>

\* The validation of what was published; then its receipt is marked and active.
Activate ==
    /\ at \in {"publishing", "using"} /\ todo = <<>>
    /\ Doing("clean", <<>>) /\ clean' = TRUE
    /\ receipt' = [receipt EXCEPT !.status = "published"]
    /\ UNCHANGED <<fs, try, janitor, row, time, linked, bounds>>

\* What is read back may be no image, or not be there any more.
Use ==
    /\ at = "clean"
    /\ \/ Whole /\ Doing("staging", StageObject(try)) /\ UNCHANGED time
       \/ Ended /\ time' = "over"
    /\ UNCHANGED <<fs, try, janitor, receipt, clean, row, linked, bounds>>

\* The finalize, which takes no reservation that is over, or finds that the image is there.
Finalize ==
    /\ at = "staging" /\ todo = <<>>
    /\ \/ time # "over" /\ row' = try /\ Doing("marking", MarkReferenced(try))
       \/ /\ UNCHANGED row
          /\ IF Abortable(try) THEN Doing("aborting", AbortStaged(try)) ELSE Ended
    /\ UNCHANGED <<fs, try, janitor, receipt, clean, time, linked, bounds>>

Over ==
    /\ at \in {"rolling", "unstaging", "marking", "aborting"} /\ todo = <<>> /\ Ended
    /\ UNCHANGED <<fs, try, janitor, rows, linked, bounds>>

\* An exception: what it is answered with depends on the operation it ends.
Handled ==
    CASE at = "spooling" -> Doing("rolling", RollbackSpool(try))
      [] at = "publishing" ->
           Doing("rolling", IF Len(todo) <= 2 /\ Whole THEN Rolled(PayloadPart) ELSE RollbackFormal)
      [] at = "staging" -> Doing("unstaging", Unstage(try))
      [] at = "rolling" -> Doing("rolling", Tail(todo))
      [] OTHER -> Ended

\* The link that a sweep made meanwhile is taken for this one's, and is not synced again.
Overtaken(c) == c.do = "link" /\ c.to \in fs.now /\ Dir(c.to) = "referenced"

\* What was published is read back before its spool goes.
Unvalidated == at = "publishing" /\ Len(todo) = 2 /\ ~Whole

Call ==
    /\ todo # <<>>
    /\ LET c == Head(todo)
           sound == Possible(fs, c) /\ ~Unvalidated
       IN
       \/ /\ sound /\ fs' = After(fs, c) /\ Doing(at, Tail(todo))
          /\ UNCHANGED <<receipt, linked, failures>>
       \/ /\ Overtaken(c) /\ Doing(at, SubSeq(todo, 3, Len(todo))) /\ linked' = TRUE
          /\ UNCHANGED <<fs, receipt, failures>>
       \/ /\ ~sound /\ ~Overtaken(c) /\ Handled /\ Failed
          /\ UNCHANGED <<fs, linked, failures>>
       \/ /\ crashes + failures < MaxFaults /\ failures' = failures + 1
          /\ Handled /\ Failed /\ UNCHANGED <<fs, linked>>
    /\ UNCHANGED <<try, janitor, clean, row, time, crashes>>
-----------------------------------------------------------------------------
(* The sweep *)

\* The three answers of a question to the database, or the exception it raises.
Ask(answer) == {answer} \cup (IF Outages THEN {"raises"} ELSE {})
ReservationActive == Ask(IF time = "over" THEN "no" ELSE "yes")
IsReferenced(a) == Ask(IF row = a THEN "yes" ELSE IF time = "over" THEN "no" ELSE "unknown")

Old(f) == Here(f) /\ f \notin fs.young
Parts == {PayloadPart, RecordPart, CommitPart} \cup {SpoolPart(a) : a \in Tries}
Journals == {f \in fs.now : Dir(f) = "journal"}
ManifestsOf(a) == {Manifest(a, s) : s \in {"only", "bound"}}
Manifests == UNION {ManifestsOf(a) : a \in Tries}

\* What each phase lists when it starts.
Listed(p) ==
    CASE p = "journals" -> Journals
      [] p = "parts" -> Parts \cap fs.now
      [] p = "commits" -> {Commit} \cap fs.now
      [] p \in {"records", "expired"} -> {Record} \cap fs.now
      [] p = "payloads" -> {Payload} \cap fs.now
      [] p = "objects" -> Manifests \cap fs.now
      [] p = "pending" -> {Spool(a) : a \in {receipt.spool} \ {0}}
      [] OTHER -> {}

SweepCommit == IF Old(Commit) /\ ~Whole THEN DeleteTriplet ELSE <<>>
SweepRecordUnasked(answer) ==                                         \* mutant
    IF ~Old(Record) THEN <<>> ELSE IF ~Here(Payload) THEN RecoveryUnlink(Record) ELSE DeleteTriplet
SweepRecord(answer) ==
    IF ~Old(Record) THEN <<>>
    ELSE IF ~Here(Payload) \/ answer = "raises" THEN RecoveryUnlink(Record)
    ELSE IF answer = "no" THEN DeleteTriplet ELSE <<>>
SweepPayloadRecorded == IF Old(Payload) /\ Here(Record) /\ ~Here(Commit) THEN RecoveryUnlink(Payload) ELSE <<>> \* mutant
SweepPayload == IF Old(Payload) /\ ~Here(Record) /\ ~Here(Commit) THEN RecoveryUnlink(Payload) ELSE <<>>
SweepExpired == IF Whole /\ time = "over" THEN DeleteTriplet ELSE <<>>
SweepObject(a, answer) ==
    IF \A f \in ManifestsOf(a) : ~Old(f) THEN <<>>
    ELSE IF answer = "yes" THEN IF Bound(a) /\ Markable(a) THEN MarkReferenced(a) ELSE <<>>
    ELSE IF answer = "no" /\ ~Here(Reference(a))
      THEN IF Bound(a) THEN AbortStaged(a) ELSE Erase(Object(a)) \o Erase(Manifest(a, "only"))
    ELSE <<>>
Expired == time # "fresh" /\ ~clean /\ receipt.status \in {"pending", "failed"}
Discard(spooled) ==
    IF Expired THEN Rolled(spooled) \o Rolled(Commit) \o Rolled(Record) \o Rolled(Payload) ELSE <<>>

Swept(f) ==
    CASE phase = "journals" -> {IF f[2] = "intent" THEN FinishDeletion(f[3]) ELSE Erase(f)}
      [] phase = "parts" -> {IF Old(f) THEN RecoveryUnlink(f) ELSE <<>>}
      [] phase = "commits" -> {SweepCommit}
      [] phase = "records" -> {SweepRecord(answer) : answer \in ReservationActive}
      [] phase = "payloads" -> {SweepPayload}
      [] phase = "expired" -> {SweepExpired}
      [] phase = "objects" -> {SweepObject(f[3], answer) : answer \in IsReferenced(f[3])}
      [] phase = "pending" -> {Discard(f)}

\* recover_quarantine ends with the first phase that had trouble; the rest is swept all
\* the same. A phase that lists nothing takes no time.
Order == <<"journals", "parts", "commits", "records", "payloads", "expired", "objects", "pending",
           "rest">>
Place(p) == IF p = "rest" THEN 0 ELSE CHOOSE i \in 1..9 : Order[i] = p
Follows(p) ==
    LET from == IF trouble /\ Place(p) < Place("expired") THEN Place("expired") ELSE Place(p) + 1
    IN  Order[CHOOSE i \in from..9 : /\ Listed(Order[i]) # {} \/ i = 9
                                    /\ \A j \in from..(i - 1) : Listed(Order[j]) = {}]

Sweep(f) ==
    /\ f \in left /\ calls = <<>> /\ left' = left \ {f} /\ calls' \in Swept(f)
    /\ linked' = (linked \/ (phase = "objects" /\ calls' = MarkReferenced(f[3])
                               /\ Here(Object(f[3])) /\ Here(Reference(f[3]))))
    /\ UNCHANGED <<fs, upload, phase, trouble, rows, bounds>>

\* The row of the pending receipt goes when its files are gone, and it was not activated.
Forgettable == phase = "pending" /\ ~trouble /\ Expired /\ receipt # NoReceipt
NextPhase ==
    /\ left = {} /\ calls = <<>>
    /\ phase' = Follows(phase) /\ left' = Listed(phase') /\ trouble' = FALSE
    /\ receipt' = IF Forgettable THEN NoReceipt ELSE receipt
    /\ UNCHANGED <<fs, upload, calls, clean, row, time, linked, bounds>>

\* The deletion of one file that fails is given up, with what was to follow it; a journal
\* whose end could not be synced is written again. A discard goes on with the next file.
GivenUp(c) ==
    IF phase = "pending" THEN Tail(calls)
    ELSE IF c.do = "sync" /\ c.to \notin {c.of} \cup fs.now /\ Dir(c.to) = "journal"
      THEN <<Put(c.to, {}), Sync("journal")>>
    ELSE <<>>

JanitorCall ==
    /\ calls # <<>>
    /\ LET c == Head(calls) IN
       \/ /\ Possible(fs, c) /\ fs' = After(fs, c) /\ calls' = Tail(calls)
          /\ UNCHANGED <<trouble, linked, failures>>
       \/ /\ Overtaken(c) /\ calls' = SubSeq(calls, 3, Len(calls)) /\ linked' = TRUE
          /\ UNCHANGED <<fs, trouble, failures>>
       \/ /\ ~Possible(fs, c) /\ ~Overtaken(c) /\ calls' = <<>> /\ trouble' = TRUE
          /\ UNCHANGED <<fs, linked, failures>>
       \/ /\ crashes + failures < MaxFaults /\ failures' = failures + 1
          /\ calls' = GivenUp(c) /\ trouble' = TRUE /\ UNCHANGED <<fs, linked>>
    /\ UNCHANGED <<upload, phase, left, rows, crashes>>
-----------------------------------------------------------------------------
(* Time, and the ends of the process *)

\* The files that are there get older than the sweep's limit, which is no shorter than the
\* time a spool has and a promotion or a staging takes.
Grow ==
    /\ fs.young # {} /\ time # "fresh" /\ at \notin {"publishing", "staging"} /\ fs' = [fs EXCEPT !.young = {}]
    /\ UNCHANGED <<upload, janitor, rows, linked, bounds>>

\* A promotion takes less than the 900 s of a reservation.
Pass ==
    /\ \/ time = "fresh" /\ time' = "late"
       \/ time = "late" /\ time' = "over" /\ at # "publishing"
    /\ UNCHANGED <<fs, upload, janitor, receipt, clean, row, linked, bounds>>

Crash ==
    /\ crashes + failures < MaxFaults /\ crashes' = crashes + 1
    /\ fs' \in {fs} \cup Remains(fs)
    /\ Ended /\ phase' = "rest" /\ calls' = <<>> /\ left' = {} /\ trouble' = FALSE
    /\ UNCHANGED <<try, rows, linked, failures>>

UploadStep == Begin \/ Scan \/ Open \/ Activate \/ Use \/ Finalize \/ Over \/ Call
SweepStep == (\E f \in left : Sweep(f)) \/ NextPhase \/ JanitorCall
Next == UploadStep \/ SweepStep \/ Grow \/ Pass \/ Crash
Spec == Init /\ [][Next]_vars

Fairness == WF_vars(UploadStep) /\ WF_vars(SweepStep) /\ WF_vars(Grow) /\ WF_vars(Pass)
LiveSpec == Spec /\ Fairness
-----------------------------------------------------------------------------
TypeOK ==
    /\ fs = [now |-> fs.now, disk |-> fs.disk, young |-> fs.young]
    /\ fs.young \subseteq fs.now \cup fs.disk
    /\ at \in Activities /\ try \in 0..Attempts /\ phase \in Phases /\ trouble \in BOOLEAN
    /\ receipt \in [spool : 0..Attempts, status : Statuses] /\ clean \in BOOLEAN /\ row \in 0..Attempts
    /\ time \in {"fresh", "late", "over"} /\ linked \in BOOLEAN
    /\ crashes \in 0..MaxFaults /\ failures \in 0..MaxFaults

\* A commit marker means a whole source, before and after a crash or a power loss, unless a
\* call failed: then the rollback or the discard may leave a marker of nothing.
CommitIsWhole ==
    failures = 0 => \A files \in {fs.now, fs.disk} : Commit \in files => Triplet \subseteq files

\* No object is left staged that neither a row references nor a manifest names: the sweep
\* finds objects by their manifests. (Of a referenced one a second link may be left.)
ObjectIsNamed ==
    \A a \in Tries \ {row}, files \in {fs.now, fs.disk} :
        Object(a) \in files => ManifestsOf(a) \cap files # {}

\* What a name promises is there: a marker has its source, an object its manifest or row.
NamesAreKept == CommitIsWhole /\ ObjectIsNamed

\* An object that a row references is on disk under one of its names, whatever fails and
\* whenever the power does.
ReferencedIsKept ==
    row # 0 => {Object(row), Reference(row)} \cap fs.now \cap fs.disk # {}

\* The same, where no reference was made over a link that was in place already.
FirstReferenceIsKept == ~linked => ReferencedIsKept

\* The sweep takes nothing of a whole source whose reservation may still need it; the
\* discard of an expired receipt is another matter, see the hazards, and so is a deletion
\* that is resumed after a call had failed: a rollback that was not synced may come back.
SourceIsKept ==
    [][/\ SweepStep /\ Whole /\ time # "over" /\ phase # "pending"
       /\ phase = "journals" => failures = 0
       => Whole']_vars

\* With time all that an upload, a crash or an earlier sweep left behind is gone, or is the
\* object of a row; spools and object parts excepted, which no sweep looks for, and what a
\* second reference has lost.
Leftovers ==
    \/ \E f \in fs.now : Dir(f) \in {"payloads", "records", "commits", "journal"}
    \/ \E a \in Tries : Manifested(a) \/ (a # row /\ Here(Object(a)))
LeftoversGo == <>[](Leftovers => linked)
=============================================================================
