------------------------- MODULE MediaStores_proofs -------------------------
(*************************************************************************)
(* The safety of MediaStores, for any number of attempts, crashes, power   *)
(* losses and calls that fail: no object that no row names is without a    *)
(* manifest, and the object of the row is on disk (ObjectInv); and, where  *)
(* the database answers the sweep, a marker has its source and no sweep    *)
(* takes a source that may be needed (SourceInv).                          *)
(*                                                                         *)
(* The argument is about programs, the calls that are yet to be made: what *)
(* each may touch (Shapes), what will be durable (Ensured) or durably gone *)
(* (Cleared) when its i-th call is made, whatever the power does before.   *)
(*************************************************************************)
EXTENDS MediaStores, Integers, TLAPS

(* What a call does *)

Dos == {"create", "put", "move", "link", "unlink", "sync"}
Adds(c) == IF c.do \in {"create", "put", "link", "move"} THEN {c.to} ELSE {}
Removes(c) ==
    (CASE c.do \in {"create", "put", "link"} -> c.over
       [] c.do = "move" -> c.over \cup {c.of}
       [] c.do = "unlink" -> {c.of}
       [] OTHER -> {}) \ Adds(c)
Syncs(c, d) == c.do = "sync" /\ c.of[1] = d

Either(d) == d.now \cup d.disk
Firm(d) == d.now \cap d.disk

\* When the calls of s before its i-th are made, f is durable, or is durably gone.
Ensured(d, s, i, f) ==
    \/ f \in Firm(d)
    \/ f \in d.now /\ \E k \in 1..(i - 1) : Syncs(s[k], Dir(f))
    \/ \E k \in 1..(i - 1) : \E j \in 1..(k - 1) : f \in Adds(s[j]) /\ Syncs(s[k], Dir(f))
Cleared(d, s, i, f) ==
    \/ f \notin Either(d)
    \/ f \notin d.now /\ \E k \in 1..(i - 1) : Syncs(s[k], Dir(f))
    \/ \E k \in 1..(i - 1) : \E j \in 1..(k - 1) : f \in Removes(s[j]) /\ Syncs(s[k], Dir(f))

IsProgram(s) == \E S : s \in Seq(S)
-----------------------------------------------------------------------------
(* The inductive invariant *)

SpoolFiles == {SpoolPart(a) : a \in 0..Attempts} \cup {Spool(a) : a \in 0..Attempts}
SourceParts == {PayloadPart, RecordPart, CommitPart}
SourceFiles == SpoolFiles \cup SourceParts \cup Triplet
JournalFiles == {Journal(g, s) : g \in SourceFiles, s \in {"intent", "done"}}
JournalOf(f) == {Journal(f, s) : s \in {"intent", "done"}}
StagedFiles(a) == {ManifestPart(a), ObjectPart(a), Object(a)} \cup ManifestsOf(a)
Replaced(a) == {ManifestPart(a), ObjectPart(a), Manifest(a, "only")}
MarkedFiles(a) == {Object(a), Manifest(a, "bound")}
SweptFiles(a) == {Object(a)} \cup ManifestsOf(a)

IsCall(c) ==
    /\ c.do \in Dos
    /\ c.do = "unlink" => c.to = c.of
    /\ c.do = "link" => Dir(c.to) \in {"payloads", "referenced"}
    /\ c.do \in {"create", "move", "link"} => Dir(c.to) # "journal"

\* The calls of s add and remove no other files; a sync is of a directory or ends a removal.
Within(c, adds, removes) ==
    /\ IsCall(c) /\ Adds(c) \subseteq adds /\ Removes(c) \subseteq removes
    /\ c.do = "sync" => c.to \in {c.of} \cup removes
Makes(s, adds, removes) == IsProgram(s) /\ \A i \in DOMAIN s : Within(s[i], adds, removes)

\* Where an attempt has not staged yet, and where it never will again.
Before == {"spooling", "open", "publishing", "rolling", "using", "clean"}
Fresh(a) == a > try \/ (a = try /\ at \in Before)
Past(a) == a < try \/ (a = try /\ at \notin Before \cup {"staging"})

\* s is a program for what an upload does: w of attempt a, whose object r is in the row.
Fits(w, s, a, r) ==
    /\ w = "spooling" => Makes(s, SpoolFiles, SpoolFiles)
    /\ w = "publishing" => Makes(s, SourceParts \cup Triplet, SourceParts \cup SpoolFiles)
    /\ w = "rolling" => Makes(s, {}, SourceFiles)
    /\ w = "staging" => Makes(s, StagedFiles(a), Replaced(a))
    /\ w = "unstaging" => Makes(s, {}, {ManifestPart(a), ObjectPart(a), Object(a)})
    /\ w = "marking" => r # 0 /\ Makes(s, {Reference(r)}, MarkedFiles(r))
    /\ w = "aborting" => Makes(s, {}, MarkedFiles(a))
    /\ w \in {"idle", "open", "using", "clean"} => s = <<>>
UploadShape == Fits(at, todo, try, row)
Marks == row # 0 /\ Makes(calls, {Reference(row)}, MarkedFiles(row))
Sweepable == UNION {SweptFiles(a) : a \in {b \in Tries \ {row} : Past(b)}}
Aborts == Makes(calls, {}, Sweepable)
Deletes == Makes(calls, JournalFiles, JournalFiles \cup SourceFiles)
SweepShape == IF phase = "objects" THEN Marks \/ Aborts ELSE Deletes
LeftShape ==
    /\ phase = "journals" => left \subseteq JournalFiles
    /\ phase = "parts" => left \subseteq Parts
    /\ phase = "objects" => left \subseteq Manifests
    /\ phase = "pending" => left \subseteq SpoolFiles
    /\ phase = "rest" => left = {} /\ calls = <<>> /\ ~trouble
RowShape ==
    /\ at \notin {"idle", "marking"} => row = 0
    /\ at # "idle" => try # 0
    /\ row <= try
FilesShape ==
    /\ \A f \in Either(fs) : Dir(f) = "journal" => f \in JournalFiles
    /\ \A a \in Tries : Fresh(a) => StagedFiles(a) \cap Either(fs) = {}
    /\ \A a \in Tries \ {row} : Reference(a) \notin Either(fs)
    /\ at = "staging" => StagedFiles(try) \cap fs.now \subseteq fs.young
Shapes == TypeOK /\ UploadShape /\ SweepShape /\ LeftShape /\ RowShape /\ FilesShape

\* While an object is staged its manifest comes first, and at the end it is durable.
StagingInv ==
    at = "staging" =>
        /\ Ensured(fs, todo, Len(todo) + 1, Object(try))
        /\ \A i \in DOMAIN todo :
             /\ Object(try) \in Adds(todo[i]) => Ensured(fs, todo, i, Manifest(try, "only"))
             /\ Manifest(try, "only") \in Removes(todo[i]) =>
                  /\ Manifest(try, "bound") \in Adds(todo[i])
                  /\ \A j \in DOMAIN todo : Object(try) \in Adds(todo[j]) => j < i

\* A referenced object is durable, and what would remove its staged name ensures the other.
Kept(d, a) == {Object(a), Reference(a)} \cap Firm(d) # {}
MarkGuard(d, s, a) ==
    \A i \in DOMAIN s : Object(a) \in Removes(s[i]) => Ensured(d, s, i, Reference(a))
KeptInv == row # 0 /\ ~linked =>
    Kept(fs, row) /\ MarkGuard(fs, todo, row) /\ MarkGuard(fs, calls, row)

\* An object has a manifest, and what would remove its manifest has removed the object.
Named(d, a) == Object(a) \in Either(d) => ManifestsOf(a) \cap d.now # {} /\ ManifestsOf(a) \cap d.disk # {}
NameGuard(d, s, a) ==
    \A i \in DOMAIN s : ManifestsOf(a) \cap Removes(s[i]) # {} =>
        Cleared(d, s, i, Object(a)) \/ ManifestsOf(a) \cap Adds(s[i]) # {}
NamedInv == \A a \in Tries \ {row} :
    Named(fs, a) /\ NameGuard(fs, todo, a) /\ NameGuard(fs, calls, a)
ObjectInv == Shapes /\ StagingInv /\ KeptInv /\ NamedInv
-----------------------------------------------------------------------------
(* The source *)

Early == time = "fresh" \/ at = "publishing"
EarlyInv == Early =>
    /\ Either(fs) \subseteq fs.young /\ Either(fs) \cap JournalFiles = {} /\ calls = <<>>
    /\ phase = "journals" => left = {}
ReceiptInv ==
    /\ at = "publishing" => receipt.status = "publishing" /\ time # "over"
    /\ at \in {"spooling", "rolling"} => receipt.status # "publishing"
    /\ at \in {"clean", "staging", "unstaging", "marking", "aborting"} \/ row # 0 => clean

\* Nothing of a whole source is deleted where its reservation may be needed.
HalfInv == phase \notin {"pending", "journals"} /\ time # "over" =>
    \A i \in DOMAIN calls : Triplet \cap Removes(calls[i]) # {} => ~Whole

\* The publication as it goes on where no call fails: k calls are yet to be made.
PubCall(k, a) ==
    CASE k = 13 -> Unlink(PayloadPart)
      [] k = 12 -> [Sync("payloads") EXCEPT !.to = PayloadPart]
      [] k = 11 -> Link(Spool(a), PayloadPart)
      [] k = 10 -> Move(PayloadPart, Payload, {})
      [] k = 9 -> Sync("payloads")
      [] k = 8 -> Create(RecordPart)
      [] k = 7 -> Move(RecordPart, Record, {})
      [] k = 6 -> Sync("records")
      [] k = 5 -> Create(CommitPart)
      [] k = 4 -> Move(CommitPart, Commit, {})
      [] k = 3 -> Sync("commits")
      [] k = 2 -> Unlink(Spool(a))
      [] k = 1 -> [Sync("spool") EXCEPT !.to = Spool(a)]
PubFiles(d, k, spooled) ==
    /\ k >= 3 => spooled \in d.now
    /\ PayloadPart \in d.now <=> k \in {10, 13}
    /\ RecordPart \in d.now <=> k = 7
    /\ CommitPart \in d.now <=> k = 4
    /\ {RecordPart, CommitPart} \cap d.disk = {}
    /\ Payload \in d.now <=> k <= 9
    /\ k <= 8 => Payload \in d.disk
    /\ Record \in d.now <=> k <= 6
    /\ Record \in d.disk <=> k <= 5
    /\ Commit \in d.now <=> k <= 3
    /\ Commit \in d.disk => k <= 2
PubInv == at = "publishing" /\ failures = 0 =>
    /\ Len(todo) <= 13 /\ \A i \in DOMAIN todo : todo[i] = PubCall(Len(todo) - i + 1, receipt.spool)
    /\ PubFiles(fs, Len(todo), Spool(receipt.spool))
EarlyFiles == failures = 0 /\ Early =>
    /\ {RecordPart, CommitPart, Record, Commit} \cap Either(fs) # {} => Payload \in Firm(fs)
    /\ Payload \in fs.disk => Payload \in fs.now
RollInv == failures = 0 /\ at = "rolling" => Makes(todo, {}, SpoolFiles)

\* A program takes the payload and the record when the marker is durably gone, and the
\* journal of the marker when the marker is.
Intents == {Journal(Payload, "intent"), Journal(Record, "intent")}
Intent == Journal(Commit, "intent")
Done == Journal(Commit, "done")
Touches(s, files) == {i \in DOMAIN s : files \cap (Adds(s[i]) \cup Removes(s[i])) # {}}
Announced(d, s, i, late) == Ensured(d, s, i, Intent) \/ (late /\ Intent \in d.now)
Orderly(d, s, late) ==
    /\ \A i \in Touches(s, {Payload, Record} \cup Intents) : Cleared(d, s, i, Commit)
    /\ \A i \in DOMAIN s : Commit \in Removes(s[i]) =>
         /\ i + 1 \in DOMAIN s /\ Syncs(s[i + 1], "commits")
         /\ Commit \in Either(d) => Announced(d, s, i, late)
    /\ \A i \in DOMAIN s : Intent \in Removes(s[i]) =>
         Cleared(d, s, i, Commit) /\ \A j \in DOMAIN s : Commit \in Removes(s[j]) => j < i
    /\ \A f \in {Intent, Done} : \A i \in DOMAIN s : f \in Adds(s[i]) => \E k \in DOMAIN s : k > i /\ f \in Removes(s[k])

\* A marker comes after the source and goes before it. Where no attempt runs any more, a
\* process that ended between the entry in the journal and its sync does no harm.
Late == clean \/ (at = "idle" /\ time = "over")
Resumed == IF phase = "journals" THEN left ELSE {}
CommitInv == failures = 0 =>
    /\ Commit \in Either(fs) => {Payload, Record} \subseteq Firm(fs)
    /\ Commit \in Either(fs) => clean \/ receipt.status = "publishing" \/ Intent \in Firm(fs)
    /\ Intents \cap (Either(fs) \cup Resumed) # {} => Commit \notin Either(fs)
    /\ Orderly(fs, calls, Late)

\* A deletion of the marker that was cut short is resumed before anything else is swept.
Ends(s, f) == \E k \in DOMAIN s : f \in Removes(s[k])
ResumeInv == failures = 0 =>
    /\ Commit \in fs.disk \ fs.now =>
         /\ Intent \in fs.now /\ phase # "objects" /\ (Intent \in fs.disk \/ Late)
         /\ phase = "rest" \/ Intent \in Resumed \/ Cleared(fs, calls, Len(calls) + 1, Commit)
    /\ \A f \in {Intent, Done} : f \in fs.now => phase = "rest" \/ f \in Resumed \/ Ends(calls, f)
    /\ Intent \in Resumed => Intent \in fs.now /\ ~Ends(calls, Intent)
    /\ (phase = "rest" \/ Intent \in Resumed) /\ Intent \in fs.now /\ Commit \in Either(fs) =>
         Intent \in fs.disk \/ Late
Taken == Triplet \cup {Journal(g, "intent") : g \in Triplet}
CalmInv == failures = 0 /\ time # "over" =>
    /\ Commit \in Either(fs) => Commit \in fs.now
    /\ Touches(calls, Taken) # {} => Commit \notin Either(fs)
    /\ Taken \cap JournalFiles \cap (Either(fs) \cup Resumed) # {} => Commit \notin Either(fs)
SourceInv == EarlyInv /\ ReceiptInv /\ HalfInv /\ PubInv /\ EarlyFiles /\ RollInv /\ CommitInv /\ ResumeInv /\ CalmInv
-----------------------------------------------------------------------------
\* What is left of a program when its first call is made.
LEMMA TailIs ==
    ASSUME NEW s, IsProgram(s), s # <<>>
    PROVE  /\ Len(s) \in Nat \ {0} /\ DOMAIN s = 1..Len(s) /\ Head(s) = s[1]
           /\ IsProgram(Tail(s)) /\ Len(Tail(s)) = Len(s) - 1
           /\ DOMAIN Tail(s) = 1..(Len(s) - 1)
           /\ \A i \in 1..(Len(s) - 1) : Tail(s)[i] = s[i + 1]
<1>1. PICK S : s \in Seq(S)
  BY DEF IsProgram
<1>2. Tail(s) \in Seq(S) /\ Len(s) \in Nat
  BY <1>1
<1> QED BY <1>1, <1>2 DEF IsProgram

LEMMA ProgramIs ==
    ASSUME NEW s, IsProgram(s)
    PROVE  Len(s) \in Nat /\ DOMAIN s = 1..Len(s) /\ (s = <<>> <=> Len(s) = 0)
BY DEF IsProgram

LEMMA RestIs ==
    ASSUME NEW s, IsProgram(s), s # <<>>
    PROVE  /\ IsProgram(SubSeq(s, 3, Len(s)))
           /\ \A i \in DOMAIN SubSeq(s, 3, Len(s)) :
                 i + 2 \in DOMAIN s /\ SubSeq(s, 3, Len(s))[i] = s[i + 2]
<1>1. PICK S : s \in Seq(S)
  BY DEF IsProgram
<1>2. Len(s) \in Nat \ {0}
  BY <1>1
<1>3. SubSeq(s, 3, Len(s)) \in Seq(S)
  BY <1>1, <1>2
<1>4. DOMAIN SubSeq(s, 3, Len(s)) = 1..(IF 3 <= Len(s) THEN Len(s) - 2 ELSE 0)
  BY <1>1, <1>2
<1> QED BY <1>1, <1>2, <1>3, <1>4 DEF IsProgram

LEMMA JoinedIs ==
    ASSUME NEW s, NEW t, IsProgram(s), IsProgram(t)
    PROVE  /\ IsProgram(s \o t) /\ Len(s \o t) = Len(s) + Len(t)
           /\ \A i \in 1..Len(s) : (s \o t)[i] = s[i]
           /\ \A i \in 1..Len(t) : (s \o t)[Len(s) + i] = t[i]
           /\ \A i \in DOMAIN (s \o t) : i \in DOMAIN s \/ i - Len(s) \in DOMAIN t
<1>1. PICK S : s \in Seq(S)
  BY DEF IsProgram
<1>2. PICK T : t \in Seq(T)
  BY DEF IsProgram
<1>3. s \in Seq(S \cup T) /\ t \in Seq(S \cup T)
  BY <1>1, <1>2
<1>4. s \o t \in Seq(S \cup T)
  BY <1>3
<1> QED BY <1>1, <1>2, <1>3, <1>4 DEF IsProgram

\* What a call makes of the entries.
LEMMA AfterIs ==
    ASSUME NEW d, NEW c, c.do \in Dos
    PROVE  /\ After(d, c).now = (d.now \ Removes(c)) \cup Adds(c)
           /\ c.do # "sync" => After(d, c).disk = d.disk
           /\ c.do = "sync" => /\ After(d, c).now = d.now
                               /\ \A f : f \in After(d, c).disk <=>
                                    IF Dir(f) = c.of[1] THEN f \in d.now ELSE f \in d.disk
BY DEF After, Seen, Synced, Renewed, Aged, Removes, Adds, Dos, In
\* One call, of this program or another, that does not remove f leaves it ensured.
LEMMA EnsuredStays ==
    ASSUME NEW d, NEW c, c.do \in Dos, NEW s, NEW i \in Nat, NEW f, f \notin Removes(c),
           Ensured(d, s, i, f)
    PROVE  Ensured(After(d, c), s, i, f)
<1>1. f \in Firm(d) => f \in Firm(After(d, c))
  BY AfterIs DEF Firm
<1>2. f \in d.now => f \in After(d, c).now
  BY AfterIs
<1> QED BY <1>1, <1>2 DEF Ensured

LEMMA ClearedStays ==
    ASSUME NEW d, NEW c, c.do \in Dos, NEW s, NEW i \in Nat, NEW f, f \notin Adds(c),
           Cleared(d, s, i, f)
    PROVE  Cleared(After(d, c), s, i, f)
<1>1. f \notin Either(d) => f \notin Either(After(d, c))
  BY AfterIs DEF Either
<1>2. f \notin d.now => f \notin After(d, c).now
  BY AfterIs
<1> QED BY <1>1, <1>2 DEF Cleared

\* The first call of the program itself: what it adds is synced by a later one.
LEMMA EnsuredOnward ==
    ASSUME NEW d, NEW s, IsProgram(s), s # <<>>, Head(s).do \in Dos,
           NEW e, e = After(d, Head(s)), NEW t, t = Tail(s),
           NEW i \in 1..Len(s), NEW f, f \notin Removes(Head(s)), Ensured(d, s, i + 1, f)
    PROVE  Ensured(e, t, i, f)
<1>1. /\ Len(s) \in Nat \ {0} /\ Head(s) = s[1]
      /\ \A k \in 1..(Len(s) - 1) : t[k] = s[k + 1]
  BY TailIs
<1>2. /\ e.now = (d.now \ Removes(s[1])) \cup Adds(s[1])
      /\ s[1].do # "sync" => e.disk = d.disk
      /\ s[1].do = "sync" => /\ e.now = d.now
                             /\ \A g : g \in e.disk <=>
                                  IF Dir(g) = s[1].of[1] THEN g \in d.now ELSE g \in d.disk
  BY <1>1, AfterIs
<1>3. f \notin Removes(s[1])
  BY <1>1
<1>4. CASE f \in Firm(d)
  BY <1>2, <1>3, <1>4 DEF Firm, Ensured
<1>5. CASE f \in d.now /\ \E k \in 1..i : Syncs(s[k], Dir(f))
  <2>1. PICK k \in 1..i : Syncs(s[k], Dir(f))
    BY <1>5
  <2>2. CASE k = 1
    <3>1. f \in Firm(e)
      BY <1>2, <1>5, <2>1, <2>2 DEF Firm, Syncs
    <3> QED BY <3>1 DEF Ensured
  <2>3. CASE k # 1
    <3>1. k - 1 \in 1..(i - 1) /\ t[k - 1] = s[k]
      BY <1>1, <2>3
    <3>2. f \in e.now
      BY <1>2, <1>3, <1>5
    <3> QED BY <2>1, <3>1, <3>2 DEF Ensured
  <2> QED BY <2>2, <2>3
<1>6. CASE \E k \in 1..i : \E j \in 1..(k - 1) : f \in Adds(s[j]) /\ Syncs(s[k], Dir(f))
  <2>1. PICK k \in 1..i : \E j \in 1..(k - 1) : f \in Adds(s[j]) /\ Syncs(s[k], Dir(f))
    BY <1>6
  <2>2. PICK j \in 1..(k - 1) : f \in Adds(s[j]) /\ Syncs(s[k], Dir(f))
    BY <2>1
  <2>3. k - 1 \in 1..(i - 1) /\ t[k - 1] = s[k]
    BY <1>1, <2>2
  <2>4. CASE j = 1
    <3>1. f \in e.now
      BY <1>2, <2>2, <2>4
    <3> QED BY <2>2, <2>3, <3>1 DEF Ensured
  <2>5. CASE j # 1
    <3>1. j - 1 \in 1..((k - 1) - 1) /\ t[j - 1] = s[j]
      BY <1>1, <2>2, <2>5
    <3> QED BY <2>2, <2>3, <3>1 DEF Ensured
  <2> QED BY <2>4, <2>5
<1>7. (i + 1) - 1 = i
  BY <1>1
<1> QED BY <1>4, <1>5, <1>6, <1>7 DEF Ensured

LEMMA ClearedOnward ==
    ASSUME NEW d, NEW s, IsProgram(s), s # <<>>, Head(s).do \in Dos,
           NEW e, e = After(d, Head(s)), NEW t, t = Tail(s),
           NEW i \in 1..Len(s), NEW f, f \notin Adds(Head(s)), Cleared(d, s, i + 1, f)
    PROVE  Cleared(e, t, i, f)
<1>1. /\ Len(s) \in Nat \ {0} /\ Head(s) = s[1]
      /\ \A k \in 1..(Len(s) - 1) : t[k] = s[k + 1]
  BY TailIs
<1>2. /\ e.now = (d.now \ Removes(s[1])) \cup Adds(s[1])
      /\ s[1].do # "sync" => e.disk = d.disk
      /\ s[1].do = "sync" => /\ e.now = d.now
                             /\ \A g : g \in e.disk <=>
                                  IF Dir(g) = s[1].of[1] THEN g \in d.now ELSE g \in d.disk
  BY <1>1, AfterIs
<1>3. f \notin Adds(s[1])
  BY <1>1
<1>4. CASE f \notin Either(d)
  BY <1>2, <1>3, <1>4 DEF Either, Cleared
<1>5. CASE f \notin d.now /\ \E k \in 1..i : Syncs(s[k], Dir(f))
  <2>1. PICK k \in 1..i : Syncs(s[k], Dir(f))
    BY <1>5
  <2>2. CASE k = 1
    <3>1. f \notin Either(e)
      BY <1>2, <1>5, <2>1, <2>2 DEF Either, Syncs
    <3> QED BY <3>1 DEF Cleared
  <2>3. CASE k # 1
    <3>1. k - 1 \in 1..(i - 1) /\ t[k - 1] = s[k]
      BY <1>1, <2>3
    <3>2. f \notin e.now
      BY <1>2, <1>3, <1>5
    <3> QED BY <2>1, <3>1, <3>2 DEF Cleared
  <2> QED BY <2>2, <2>3
<1>6. CASE \E k \in 1..i : \E j \in 1..(k - 1) : f \in Removes(s[j]) /\ Syncs(s[k], Dir(f))
  <2>1. PICK k \in 1..i : \E j \in 1..(k - 1) : f \in Removes(s[j]) /\ Syncs(s[k], Dir(f))
    BY <1>6
  <2>2. PICK j \in 1..(k - 1) : f \in Removes(s[j]) /\ Syncs(s[k], Dir(f))
    BY <2>1
  <2>3. k - 1 \in 1..(i - 1) /\ t[k - 1] = s[k]
    BY <1>1, <2>2
  <2>4. CASE j = 1
    <3>1. f \notin e.now
      BY <1>2, <1>3, <2>2, <2>4
    <3> QED BY <2>2, <2>3, <3>1 DEF Cleared
  <2>5. CASE j # 1
    <3>1. j - 1 \in 1..((k - 1) - 1) /\ t[j - 1] = s[j]
      BY <1>1, <2>2, <2>5
    <3> QED BY <2>2, <2>3, <3>1 DEF Cleared
  <2> QED BY <2>4, <2>5
<1>7. (i + 1) - 1 = i
  BY <1>1
<1> QED BY <1>4, <1>5, <1>6, <1>7 DEF Cleared
-----------------------------------------------------------------------------
(* Programs and the files they add and remove *)

LEMMA CreateIs ==
    ASSUME NEW f
    PROVE  /\ Create(f).do = "create" /\ Create(f).of = f /\ Adds(Create(f)) = {f}
           /\ \A A, R : f \in A /\ Dir(f) # "journal" => Within(Create(f), A, R)
BY DEF Create, Adds, Removes, IsCall, Dos, Within

LEMMA PutIs ==
    ASSUME NEW f, NEW over
    PROVE  /\ Put(f, over).do = "put" /\ Adds(Put(f, over)) = {f}
           /\ Removes(Put(f, over)) = over \ {f}
           /\ \A A, R : f \in A /\ over \ {f} \subseteq R => Within(Put(f, over), A, R)
BY DEF Put, Adds, Removes, IsCall, Dos, Within

LEMMA MoveIs ==
    ASSUME NEW f, NEW g, NEW over
    PROVE  /\ Move(f, g, over).do = "move" /\ Move(f, g, over).of = f /\ Adds(Move(f, g, over)) = {g}
           /\ Removes(Move(f, g, over)) = (over \cup {f}) \ {g}
           /\ \A A, R : g \in A /\ Dir(g) # "journal" /\ (over \cup {f}) \ {g} \subseteq R =>
                Within(Move(f, g, over), A, R)
BY DEF Move, Adds, Removes, IsCall, Dos, Within

LEMMA LinkIs ==
    ASSUME NEW f, NEW g, Dir(g) \in {"payloads", "referenced"}
    PROVE  /\ Link(f, g).do = "link" /\ Link(f, g).of = f /\ Link(f, g).to = g
           /\ Adds(Link(f, g)) = {g} /\ Removes(Link(f, g)) = {}
           /\ \A A, R : g \in A => Within(Link(f, g), A, R)
BY DEF Link, Adds, Removes, IsCall, Dos, Within

LEMMA UnlinkIs ==
    ASSUME NEW f
    PROVE  /\ Unlink(f).do = "unlink" /\ Adds(Unlink(f)) = {} /\ Removes(Unlink(f)) = {f}
           /\ \A A, R : f \in R => Within(Unlink(f), A, R)
BY DEF Unlink, Adds, Removes, IsCall, Dos, Within

LEMMA SyncIs ==
    ASSUME NEW d
    PROVE  /\ Sync(d).do = "sync" /\ Sync(d).of = <<d>> /\ Syncs(Sync(d), d)
           /\ Adds(Sync(d)) = {} /\ Removes(Sync(d)) = {} /\ \A A, R : Within(Sync(d), A, R)
BY DEF Sync, Adds, Removes, Syncs, IsCall, Dos, Within

\* The sync that ends the erasure of a file.
LEMMA EndIs ==
    ASSUME NEW f, NEW c, c = [Sync(Dir(f)) EXCEPT !.to = f]
    PROVE  /\ c.do = "sync" /\ c.of = <<Dir(f)>> /\ c.to = f /\ Syncs(c, Dir(f))
           /\ Adds(c) = {} /\ Removes(c) = {} /\ \A A, R : f \in R => Within(c, A, R)
BY DEF Sync, Adds, Removes, Syncs, IsCall, Dos, Within

LEMMA PairsJoined ==
    ASSUME NEW a, NEW b, NEW c, NEW e
    PROVE  <<a, b>> \o <<c, e>> = <<a, b, c, e>>
<1> DEFINE S == {a, b, c, e}
           s == <<a, b>> \o <<c, e>>
           t == <<a, b, c, e>>
<1>1. <<a, b>> \in Seq(S) /\ <<c, e>> \in Seq(S) /\ t \in Seq(S)
  OBVIOUS
<1>2. s \in Seq(S) /\ Len(s) = 4 /\ Len(t) = 4
  BY <1>1
<1>3. \A i \in 1..4 : s[i] = t[i]
  BY <1>1
<1>4. s = [i \in 1..4 |-> s[i]] /\ t = [i \in 1..4 |-> t[i]]
  BY <1>1, <1>2
<1> QED BY <1>3, <1>4

LEMMA MakesNothing ==
    ASSUME NEW A, NEW R
    PROVE  Makes(<<>>, A, R)
<1>1. <<>> \in Seq({}) /\ DOMAIN <<>> = {}
  OBVIOUS
<1> QED BY <1>1 DEF Makes, IsProgram

LEMMA MakesTwo ==
    ASSUME NEW A, NEW R, NEW b, NEW c, Within(b, A, R), Within(c, A, R)
    PROVE  Makes(<<b>>, A, R) /\ Makes(<<b, c>>, A, R)
<1>1. <<b>> \in Seq({b, c}) /\ <<b, c>> \in Seq({b, c})
  OBVIOUS
<1>2. /\ \A i \in DOMAIN <<b>> : <<b>>[i] = b
      /\ \A i \in DOMAIN <<b, c>> : <<b, c>>[i] = b \/ <<b, c>>[i] = c
  OBVIOUS
<1>3. IsProgram(<<b>>) /\ IsProgram(<<b, c>>)
  BY <1>1 DEF IsProgram
<1> QED BY <1>2, <1>3 DEF Makes

LEMMA MakesJoined ==
    ASSUME NEW A, NEW R, NEW s, NEW t, Makes(s, A, R), Makes(t, A, R)
    PROVE  Makes(s \o t, A, R)
<1>1. IsProgram(s) /\ IsProgram(t)
  BY DEF Makes
<1>2. IsProgram(s \o t) /\ DOMAIN (s \o t) = 1..Len(s \o t)
  BY <1>1, JoinedIs, ProgramIs
<1>3. ASSUME NEW i \in DOMAIN (s \o t)
      PROVE  \/ i \in DOMAIN s /\ (s \o t)[i] = s[i]
             \/ i - Len(s) \in DOMAIN t /\ (s \o t)[i] = t[i - Len(s)]
  <2>1. i \in Int /\ Len(s) \in Nat /\ Len(t) \in Nat /\ DOMAIN s = 1..Len(s) /\ DOMAIN t = 1..Len(t)
    BY <1>1, <1>2, <1>3, ProgramIs
  <2>2. CASE i \in DOMAIN s
    BY <1>1, <2>1, <2>2, JoinedIs
  <2>3. CASE i - Len(s) \in DOMAIN t
    <3>1. (s \o t)[Len(s) + (i - Len(s))] = t[i - Len(s)]
      BY <1>1, <2>1, <2>3, JoinedIs
    <3>2. Len(s) + (i - Len(s)) = i
      BY <2>1
    <3> QED BY <2>3, <3>1, <3>2
  <2> QED BY <1>1, <1>3, <2>2, <2>3, JoinedIs
<1> QED BY <1>2, <1>3 DEF Makes

LEMMA MakesTail ==
    ASSUME NEW A, NEW R, NEW s, Makes(s, A, R), s # <<>>
    PROVE  /\ Makes(Tail(s), A, R) /\ Within(Head(s), A, R)
           /\ IsCall(Head(s)) /\ Adds(Head(s)) \subseteq A /\ Removes(Head(s)) \subseteq R
<1>1. IsProgram(s)
  BY DEF Makes
<1>2. /\ Len(s) \in Nat \ {0} /\ DOMAIN s = 1..Len(s) /\ Head(s) = s[1]
      /\ IsProgram(Tail(s)) /\ DOMAIN Tail(s) = 1..(Len(s) - 1)
      /\ \A i \in 1..(Len(s) - 1) : Tail(s)[i] = s[i + 1]
  BY <1>1, TailIs
<1>3. 1 \in DOMAIN s /\ \A i \in DOMAIN Tail(s) : i + 1 \in DOMAIN s
  BY <1>2
<1> QED BY <1>2, <1>3 DEF Makes, Within

LEMMA MakesRest ==
    ASSUME NEW A, NEW R, NEW s, Makes(s, A, R), s # <<>>
    PROVE  Makes(SubSeq(s, 3, Len(s)), A, R)
BY RestIs DEF Makes

LEMMA RemovesOnward ==
    ASSUME NEW R, NEW s, Makes(s, {}, R), s # <<>>
    PROVE  /\ Makes(Tail(s), {}, R) /\ Makes(SubSeq(s, 3, Len(s)), {}, R)
           /\ IsCall(Head(s)) /\ Within(Head(s), {}, R)
           /\ Adds(Head(s)) = {} /\ Removes(Head(s)) \subseteq R
<1> DEFINE A == {}
<1>1. Makes(s, A, R) /\ \A X : X \subseteq A => X = {}
  OBVIOUS
<1> HIDE DEF A
<1>2. /\ Makes(Tail(s), A, R) /\ Makes(SubSeq(s, 3, Len(s)), A, R)
      /\ IsCall(Head(s)) /\ Within(Head(s), A, R)
      /\ Adds(Head(s)) = {} /\ Removes(Head(s)) \subseteq R
  BY <1>1, MakesTail, MakesRest
<1> QED BY <1>2 DEF A

LEMMA MakesMore ==
    ASSUME NEW A, NEW R, NEW B, NEW S, A \subseteq B, R \subseteq S, NEW s, Makes(s, A, R)
    PROVE  Makes(s, B, S)
BY DEF Makes, Within

LEMMA MakesErase ==
    ASSUME NEW A, NEW R, NEW f \in R
    PROVE  Makes(Erase(f), A, R)
<1> DEFINE c == [Sync(Dir(f)) EXCEPT !.to = f]
<1>1. Erase(f) = <<Unlink(f), c>>
  BY DEF Erase
<1>2. Within(Unlink(f), A, R) /\ Within(c, A, R)
  BY UnlinkIs, EndIs
<1> HIDE DEF c
<1> QED BY <1>1, <1>2, MakesTwo

LEMMA MakesPublish ==
    ASSUME NEW A, NEW R, NEW f \in R, NEW g \in A, Dir(g) # "journal", NEW over, over \ {g} \subseteq R
    PROVE  Makes(Publish(f, g, over), A, R)
<1>1. (over \cup {f}) \ {g} \subseteq R
  OBVIOUS
<1>2. Within(Move(f, g, over), A, R) /\ Within(Sync(Dir(g)), A, R)
  BY <1>1, MoveIs, SyncIs
<1> QED BY <1>2, MakesTwo DEF Publish

LEMMA MakesCreate ==
    ASSUME NEW A, NEW R, NEW f \in A, Dir(f) # "journal"
    PROVE  Makes(<<Create(f)>>, A, R)
<1>1. Within(Create(f), A, R)
  BY CreateIs
<1> QED BY <1>1, MakesTwo
-----------------------------------------------------------------------------
(* The programs of the upload and of the sweep *)

\* A file's directory tells what it is of; its last part, of which attempt.
LEMMA DirsAre ==
    ASSUME NEW a
    PROVE  /\ Dir(SpoolPart(a)) = "spool" /\ Dir(Spool(a)) = "spool"
           /\ Dir(PayloadPart) = "payloads" /\ Dir(Payload) = "payloads"
           /\ Dir(RecordPart) = "records" /\ Dir(Record) = "records"
           /\ Dir(CommitPart) = "commits" /\ Dir(Commit) = "commits"
           /\ Dir(ManifestPart(a)) = "manifests" /\ \A s : Dir(Manifest(a, s)) = "manifests"
           /\ Dir(ObjectPart(a)) = "staged" /\ Dir(Object(a)) = "staged"
           /\ Dir(Reference(a)) = "referenced" /\ \A s : Dir(Journal(a, s)) = "journal"
BY DEF Dir, SpoolPart, Spool, PayloadPart, Payload, RecordPart, Record, CommitPart, Commit,
       ManifestPart, Manifest, ObjectPart, Object, Reference, Journal

LEMMA DirsDiffer ==
    /\ \A f \in SourceFiles : Dir(f) \in {"spool", "payloads", "records", "commits"}
    /\ \A f \in JournalFiles : Dir(f) = "journal"
    /\ \A a : \A f \in StagedFiles(a) : Dir(f) \in {"manifests", "staged"}
BY DirsAre DEF SourceFiles, SpoolFiles, SourceParts, Triplet, JournalFiles, StagedFiles, ManifestsOf

LEMMA NamesDiffer ==
    ASSUME NEW a, NEW b, a # b
    PROVE  /\ StagedFiles(a) \cap StagedFiles(b) = {} /\ Reference(a) # Reference(b)
           /\ Object(a) \notin ManifestsOf(a) /\ ManifestPart(a) \notin ManifestsOf(a)
BY DEF StagedFiles, ManifestsOf, ManifestPart, Manifest, ObjectPart, Object, Reference

LEMMA MakesRolled ==
    ASSUME NEW A, NEW R, NEW f \in R
    PROVE  Makes(Rolled(f), A, R)
BY MakesErase, MakesNothing DEF Rolled

LEMMA WriteSpoolMakes ==
    ASSUME NEW a \in 0..Attempts
    PROVE  Makes(WriteSpool(a), SpoolFiles, SpoolFiles)
<1>1. SpoolPart(a) \in SpoolFiles /\ Spool(a) \in SpoolFiles /\ Dir(SpoolPart(a)) # "journal" /\ Dir(Spool(a)) # "journal"
  BY DirsAre DEF SpoolFiles
<1>2. Makes(Publish(SpoolPart(a), Spool(a), {}), SpoolFiles, SpoolFiles)
  BY <1>1, MakesPublish
<1>3. Makes(<<Create(SpoolPart(a))>>, SpoolFiles, SpoolFiles)
  BY <1>1, MakesCreate
<1> QED BY <1>2, <1>3, MakesJoined DEF WriteSpool

LEMMA PublishMakes ==
    ASSUME NEW a \in 0..Attempts
    PROVE  Makes(PublishFormal(a), SourceParts \cup Triplet, SourceParts \cup SpoolFiles)
<1> DEFINE A == SourceParts \cup Triplet
           R == SourceParts \cup SpoolFiles
           erase == IF Here(PayloadPart) THEN Erase(PayloadPart) ELSE <<>>
           link == <<Link(Spool(a), PayloadPart)>>
<1>1. /\ Spool(a) \in R /\ SourceParts \subseteq A /\ SourceParts \subseteq R /\ Triplet \subseteq A
      /\ {PayloadPart, RecordPart, CommitPart} \subseteq SourceParts /\ {Payload, Record, Commit} \subseteq Triplet
      /\ \A f \in {Payload, RecordPart, Record, CommitPart, Commit} : Dir(f) # "journal"
  BY DirsAre DEF SpoolFiles, SourceParts, Triplet
<1> HIDE DEF A, R
<1>2. Makes(erase, A, R)
  BY <1>1, MakesErase, MakesNothing
<1>3. Within(Link(Spool(a), PayloadPart), A, R)
  <2>1. Dir(PayloadPart) = "payloads" /\ PayloadPart \in A
    BY <1>1, DirsAre
  <2> QED BY <2>1, LinkIs
<1>5. Makes(link, A, R)
  BY <1>3, MakesTwo
<1>6. /\ Makes(Publish(PayloadPart, Payload, {}), A, R) /\ Makes(Publish(RecordPart, Record, {}), A, R)
      /\ Makes(Publish(CommitPart, Commit, {}), A, R)
  BY <1>1, MakesPublish
<1>7. Makes(<<Create(RecordPart)>>, A, R) /\ Makes(<<Create(CommitPart)>>, A, R)
  BY <1>1, MakesCreate
<1>8. Makes(Erase(Spool(a)), A, R)
  BY <1>1, MakesErase
<1>9. PublishFormal(a) = erase \o link \o Publish(PayloadPart, Payload, {})
        \o <<Create(RecordPart)>> \o Publish(RecordPart, Record, {})
        \o <<Create(CommitPart)>> \o Publish(CommitPart, Commit, {}) \o Erase(Spool(a))
  BY DEF PublishFormal
<1> HIDE DEF erase, link
<1>10. Makes(erase \o link \o Publish(PayloadPart, Payload, {}), A, R)
  BY <1>2, <1>5, <1>6, MakesJoined
<1>11. Makes(erase \o link \o Publish(PayloadPart, Payload, {})
        \o <<Create(RecordPart)>> \o Publish(RecordPart, Record, {}), A, R)
  BY <1>6, <1>7, <1>10, MakesJoined
<1>12. Makes(erase \o link \o Publish(PayloadPart, Payload, {})
        \o <<Create(RecordPart)>> \o Publish(RecordPart, Record, {})
        \o <<Create(CommitPart)>> \o Publish(CommitPart, Commit, {}), A, R)
  BY <1>6, <1>7, <1>11, MakesJoined
<1>13. Makes(PublishFormal(a), A, R)
  BY <1>8, <1>9, <1>12, MakesJoined
<1> QED BY <1>13 DEF A, R

LEMMA RollbackMakes ==
    /\ \A a \in 0..Attempts : Makes(RollbackSpool(a), {}, SpoolFiles)
    /\ Makes(RollbackFormal, {}, SourceFiles) /\ Makes(Rolled(PayloadPart), {}, SourceFiles)
<1>1. /\ \A a \in 0..Attempts : {SpoolPart(a), Spool(a)} \subseteq SpoolFiles
      /\ SpoolFiles \subseteq SourceFiles
      /\ {PayloadPart, RecordPart, CommitPart, Payload, Record, Commit} \subseteq SourceFiles
  BY DEF SpoolFiles, SourceFiles, SourceParts, Triplet
<1>2. ASSUME NEW a \in 0..Attempts
      PROVE  Makes(RollbackSpool(a), {}, SpoolFiles)
  <2>1. Makes(Rolled(SpoolPart(a)), {}, SpoolFiles) /\ Makes(Rolled(Spool(a)), {}, SpoolFiles)
    BY <1>1, MakesRolled
  <2> QED BY <2>1, MakesJoined DEF RollbackSpool
<1>3. ASSUME NEW f \in {PayloadPart, RecordPart, CommitPart, Payload, Record, Commit}
      PROVE  Makes(Rolled(f), {}, SourceFiles)
  BY <1>1, <1>3, MakesRolled
<1>4. Makes(Rolled(CommitPart) \o Rolled(Commit) \o Rolled(RecordPart), {}, SourceFiles)
  BY <1>3, MakesJoined
<1>5. Makes(Rolled(CommitPart) \o Rolled(Commit) \o Rolled(RecordPart) \o Rolled(Record)
            \o Rolled(PayloadPart), {}, SourceFiles)
  BY <1>3, <1>4, MakesJoined
<1>6. Makes(RollbackFormal, {}, SourceFiles)
  BY <1>3, <1>5, MakesJoined DEF RollbackFormal
<1> QED BY <1>2, <1>3, <1>6

LEMMA StageMakes ==
    ASSUME NEW a
    PROVE  Makes(StageObject(a), StagedFiles(a), Replaced(a))
<1> DEFINE A == StagedFiles(a)
           R == Replaced(a)
<1>1. /\ {ManifestPart(a), ObjectPart(a), Object(a), Manifest(a, "only"), Manifest(a, "bound")} \subseteq A
      /\ {ManifestPart(a), ObjectPart(a), Manifest(a, "only")} \subseteq R
      /\ \A f \in {ManifestPart(a), ObjectPart(a), Object(a), Manifest(a, "only"), Manifest(a, "bound")} : Dir(f) # "journal"
  BY DirsAre DEF StagedFiles, ManifestsOf, Replaced
<1> HIDE DEF A, R
<1>2. Makes(<<Create(ManifestPart(a))>>, A, R) /\ Makes(<<Create(ObjectPart(a))>>, A, R)
  BY <1>1, MakesCreate
<1>3. /\ Makes(Publish(ManifestPart(a), Manifest(a, "only"), {}), A, R)
      /\ Makes(Publish(ObjectPart(a), Object(a), {}), A, R)
  BY <1>1, MakesPublish
<1>4. Makes(Publish(ManifestPart(a), Manifest(a, "bound"), {Manifest(a, "only")}), A, R)
  BY <1>1, MakesPublish
<1>5. Makes(<<Create(ManifestPart(a))>> \o Publish(ManifestPart(a), Manifest(a, "only"), {})
            \o <<Create(ObjectPart(a))>>, A, R)
  BY <1>2, <1>3, MakesJoined
<1>6. Makes(<<Create(ManifestPart(a))>> \o Publish(ManifestPart(a), Manifest(a, "only"), {})
            \o <<Create(ObjectPart(a))>> \o Publish(ObjectPart(a), Object(a), {})
            \o <<Create(ManifestPart(a))>>, A, R)
  BY <1>2, <1>3, <1>5, MakesJoined
<1>7. Makes(StageObject(a), A, R)
  BY <1>4, <1>6, MakesJoined DEF StageObject
<1> QED BY <1>7 DEF A, R

LEMMA UnstageMakes ==
    ASSUME NEW a
    PROVE  Makes(Unstage(a), {}, {ManifestPart(a), ObjectPart(a), Object(a)})
<1> DEFINE R == {ManifestPart(a), ObjectPart(a), Object(a)}
           object == IF Here(Object(a)) /\ ~Manifested(a) THEN Erase(Object(a)) ELSE <<>>
<1>2. ManifestPart(a) \in R /\ ObjectPart(a) \in R /\ Object(a) \in R
  OBVIOUS
<1> HIDE DEF R
<1>3. Makes(Erase(ObjectPart(a)), {}, R) /\ Makes(Erase(ManifestPart(a)), {}, R) /\ Makes(object, {}, R)
  BY <1>2, MakesErase, MakesNothing
<1>4. Unstage(a) = Erase(ObjectPart(a)) \o Erase(ManifestPart(a)) \o object
  BY DEF Unstage
<1> HIDE DEF object
<1>5. Makes(Unstage(a), {}, R)
  BY <1>3, <1>4, MakesJoined
<1> QED BY <1>5 DEF R

LEMMA MarkMakes ==
    ASSUME NEW a
    PROVE  Makes(MarkReferenced(a), {Reference(a)}, MarkedFiles(a))
<1> DEFINE A == {Reference(a)}
           R == MarkedFiles(a)
           link == IF Here(Reference(a)) THEN <<>> ELSE <<Link(Object(a), Reference(a)), Sync("referenced")>>
           object == IF ~Here(Object(a)) THEN <<>> ELSE link \o Erase(Object(a))
           manifest == IF Bound(a) THEN Erase(Manifest(a, "bound")) ELSE <<>>
<1>2. Object(a) \in R /\ Manifest(a, "bound") \in R
  BY DEF MarkedFiles
<1>3. Within(Link(Object(a), Reference(a)), A, R) /\ Within(Sync("referenced"), A, R)
  <2>1. Dir(Reference(a)) = "referenced" /\ Reference(a) \in A
    BY DirsAre
  <2> QED BY <2>1, LinkIs, SyncIs
<1> HIDE DEF A, R
<1>4. Makes(link, A, R)
  BY <1>3, MakesTwo, MakesNothing
<1>5. Makes(Erase(Object(a)), A, R) /\ Makes(manifest, A, R)
  BY <1>2, MakesErase, MakesNothing
<1>6. MarkReferenced(a) = object \o manifest
  BY DEF MarkReferenced
<1> HIDE DEF link, manifest
<1>7. Makes(object, A, R)
  BY <1>4, <1>5, MakesJoined, MakesNothing
<1> HIDE DEF object
<1>8. Makes(MarkReferenced(a), A, R)
  BY <1>5, <1>6, <1>7, MakesJoined
<1> QED BY <1>8 DEF A, R

LEMMA AbortMakes ==
    ASSUME NEW a
    PROVE  /\ Makes(AbortStaged(a), {}, MarkedFiles(a))
           /\ Makes(Erase(Object(a)) \o Erase(Manifest(a, "only")), {}, SweptFiles(a))
<1>2. /\ Object(a) \in MarkedFiles(a) /\ Manifest(a, "bound") \in MarkedFiles(a)
      /\ Object(a) \in SweptFiles(a) /\ Manifest(a, "only") \in SweptFiles(a)
  BY DEF MarkedFiles, SweptFiles, ManifestsOf
<1>3. /\ Makes(Erase(Object(a)), {}, MarkedFiles(a)) /\ Makes(Erase(Manifest(a, "bound")), {}, MarkedFiles(a))
      /\ Makes(Erase(Object(a)), {}, SweptFiles(a)) /\ Makes(Erase(Manifest(a, "only")), {}, SweptFiles(a))
  BY <1>2, MakesErase
<1> QED BY <1>3, MakesJoined, MakesNothing DEF AbortStaged

LEMMA DeletionTouches ==
    ASSUME NEW f
    PROVE  /\ Makes(FinishDeletion(f), JournalOf(f), JournalOf(f) \cup {f})
           /\ Makes(RecoveryUnlink(f), JournalOf(f), JournalOf(f) \cup {f})
<1> DEFINE A == JournalOf(f)
           R == JournalOf(f) \cup {f}
           intent == Journal(f, "intent")
           done == Journal(f, "done")
           finish == Put(done, {intent})
           begin == Put(intent, {})
           both == <<Unlink(f), Sync(Dir(f))>>
           journal == IF Here(intent) \/ Here(done) THEN <<>> ELSE <<begin, Sync("journal")>>
<1>1. intent \in A /\ done \in A /\ intent \in R /\ done \in R /\ f \in R
  BY DEF JournalOf
<1> HIDE DEF A, R, intent, done
<1>2. Within(Unlink(f), A, R) /\ \A d : Within(Sync(d), A, R)
  BY <1>1, UnlinkIs, SyncIs
<1>3. {intent} \ {done} \subseteq R /\ {} \ {intent} \subseteq R
  BY <1>1
<1>4. Within(finish, A, R) /\ Within(begin, A, R)
  BY <1>1, <1>3, PutIs
<1> HIDE DEF begin, finish
<1>6. Makes(both, A, R) /\ Makes(<<finish, Sync("journal")>>, A, R) /\ Makes(<<begin, Sync("journal")>>, A, R)
  BY <1>2, <1>4, MakesTwo
<1>7. FinishDeletion(f) = both \o <<finish, Sync("journal")>> \o Erase(done)
  <2>1. FinishDeletion(f) = <<Unlink(f), Sync(Dir(f)), finish, Sync("journal")>> \o Erase(done)
    BY DEF FinishDeletion, intent, done, finish
  <2>2. <<Unlink(f), Sync(Dir(f))>> \o <<finish, Sync("journal")>>
          = <<Unlink(f), Sync(Dir(f)), finish, Sync("journal")>>
    BY PairsJoined
  <2> QED BY <2>1, <2>2
<1>8. Makes(Erase(done), A, R)
  BY <1>1, MakesErase
<1> HIDE DEF both
<1>9. Makes(both \o <<finish, Sync("journal")>>, A, R)
  BY <1>6, MakesJoined
<1>10. Makes(FinishDeletion(f), A, R)
  BY <1>7, <1>8, <1>9, MakesJoined
<1>11. Makes(journal, A, R)
  BY <1>6, MakesNothing
<1>12. RecoveryUnlink(f) = IF ~Here(f) THEN <<>> ELSE journal \o FinishDeletion(f)
  BY DEF RecoveryUnlink, intent, done, begin
<1> HIDE DEF journal
<1>13. Makes(RecoveryUnlink(f), A, R)
  BY <1>10, <1>11, <1>12, MakesJoined, MakesNothing
<1> QED BY <1>10, <1>13 DEF A, R

LEMMA DeletionMakes ==
    ASSUME NEW f \in SourceFiles
    PROVE  /\ Makes(FinishDeletion(f), JournalFiles, JournalFiles \cup SourceFiles)
           /\ Makes(RecoveryUnlink(f), JournalFiles, JournalFiles \cup SourceFiles)
<1>1. JournalOf(f) \subseteq JournalFiles /\ JournalOf(f) \cup {f} \subseteq JournalFiles \cup SourceFiles
  BY DEF JournalOf, JournalFiles
<1>2. /\ Makes(FinishDeletion(f), JournalOf(f), JournalOf(f) \cup {f})
      /\ Makes(RecoveryUnlink(f), JournalOf(f), JournalOf(f) \cup {f})
  BY DeletionTouches
<1> DEFINE A == JournalOf(f)
           R == JournalOf(f) \cup {f}
           B == JournalFiles
           S == JournalFiles \cup SourceFiles
<1>3. /\ A \subseteq B /\ R \subseteq S
      /\ Makes(FinishDeletion(f), A, R) /\ Makes(RecoveryUnlink(f), A, R)
  BY <1>1, <1>2
<1> HIDE DEF A, R, B, S
<1>4. Makes(FinishDeletion(f), B, S) /\ Makes(RecoveryUnlink(f), B, S)
  BY <1>3, MakesMore
<1> QED BY <1>4 DEF B, S

LEMMA TripletMakes ==
    Makes(DeleteTriplet, JournalFiles, JournalFiles \cup SourceFiles)
<1>1. Commit \in SourceFiles /\ Payload \in SourceFiles /\ Record \in SourceFiles
  BY DEF SourceFiles, Triplet
<1> QED BY <1>1, DeletionMakes, MakesJoined DEF DeleteTriplet

LEMMA DiscardMakes ==
    ASSUME NEW f \in SpoolFiles
    PROVE  Makes(Discard(f), JournalFiles, JournalFiles \cup SourceFiles)
<1> DEFINE A == JournalFiles
           R == JournalFiles \cup SourceFiles
<1>1. {Commit, Payload, Record, f} \subseteq R
  BY DEF SourceFiles, Triplet
<1> HIDE DEF A, R
<1>2. Makes(Rolled(f), A, R) /\ Makes(Rolled(Commit), A, R) /\ Makes(Rolled(Record), A, R) /\ Makes(Rolled(Payload), A, R)
  BY <1>1, MakesRolled
<1>3. Makes(Rolled(f) \o Rolled(Commit) \o Rolled(Record), A, R)
  BY <1>2, MakesJoined
<1>4. Makes(Discard(f), A, R)
  BY <1>2, <1>3, MakesJoined, MakesNothing DEF Discard
<1> QED BY <1>4 DEF A, R
-----------------------------------------------------------------------------
(* Types *)

\* The phase that follows is the first that lists anything, from where the sweep goes on.
LEMMA FollowsIs ==
    ASSUME phase \in Phases
    PROVE  /\ Follows(phase) \in Phases
           /\ phase = "rest" /\ ~trouble /\ Journals # {} => Follows(phase) = "journals"
<1> DEFINE L(i) == Listed(Order[i]) # {} \/ i = 9
           First(n, i) == i \in n..9 /\ L(i) /\ \A j \in n..(i - 1) : ~L(j)
           from == IF trouble /\ Place(phase) < Place("expired") THEN Place("expired") ELSE Place(phase) + 1
           Goes(i) == /\ Listed(Order[i]) # {} \/ i = 9
                      /\ \A j \in from..(i - 1) : Listed(Order[j]) = {}
<1>1. \A p \in Phases : Place(p) \in 0..8
  <2>1. ASSUME NEW p \in Phases \ {"rest"}
        PROVE  Place(p) \in 1..8
    <3>1. /\ Order[1] = "journals" /\ Order[2] = "parts" /\ Order[3] = "commits" /\ Order[4] = "records"
          /\ Order[5] = "payloads" /\ Order[6] = "expired" /\ Order[7] = "objects"
          /\ Order[8] = "pending" /\ Order[9] = "rest"
      BY DEF Order
    <3>2. \E i \in 1..9 : Order[i] = p
      BY <2>1, <3>1 DEF Phases
    <3>3. Place(p) \in 1..9 /\ Order[Place(p)] = p
      BY <2>1, <3>2 DEF Place
    <3> QED BY <2>1, <3>1, <3>3
  <2> QED BY <2>1 DEF Place
<1>2. from \in 1..9
  BY <1>1 DEF Phases
<1>3. Place("rest") = 0
  BY DEF Place
<1>4. First(9, 9)
  OBVIOUS
<1>5. ASSUME NEW n \in 1..8, \E i : First(n + 1, i)
      PROVE  \E i : First(n, i)
  <2>1. PICK i : First(n + 1, i)
    BY <1>5
  <2>2. CASE L(n)
    <3>1. First(n, n)
      BY <2>2
    <3> QED BY <3>1
  <2>3. CASE ~L(n)
    <3>1. n \in Int /\ i \in Int /\ \A j \in n..(i - 1) : j = n \/ j \in (n + 1)..(i - 1)
      BY <2>1
    <3>2. i \in n..9
      BY <2>1
    <3> HIDE DEF L
    <3>3. First(n, i)
      BY <2>1, <2>3, <3>1, <3>2
    <3> QED BY <3>3
  <2> QED BY <2>2, <2>3
<1> HIDE DEF First
<1>6. \A n \in 1..9 : \E i : First(n, i)
  <2>1. (\E i : First(8, i)) /\ (\E i : First(7, i)) /\ (\E i : First(6, i)) /\ (\E i : First(5, i))
        /\ (\E i : First(4, i)) /\ (\E i : First(3, i)) /\ (\E i : First(2, i)) /\ (\E i : First(1, i))
    <3>1. 8 + 1 = 9 /\ 7 + 1 = 8 /\ 6 + 1 = 7 /\ 5 + 1 = 6 /\ 4 + 1 = 5 /\ 3 + 1 = 4 /\ 2 + 1 = 3 /\ 1 + 1 = 2
      OBVIOUS
    <3>2. \E i : First(8, i)
      BY <1>4, <1>5, <3>1
    <3>3. \E i : First(7, i)
      BY <1>5, <3>1, <3>2
    <3>4. \E i : First(6, i)
      BY <1>5, <3>1, <3>3
    <3>5. \E i : First(5, i)
      BY <1>5, <3>1, <3>4
    <3>6. \E i : First(4, i)
      BY <1>5, <3>1, <3>5
    <3>7. \E i : First(3, i)
      BY <1>5, <3>1, <3>6
    <3>8. \E i : First(2, i)
      BY <1>5, <3>1, <3>7
    <3>9. \E i : First(1, i)
      BY <1>5, <3>1, <3>8
    <3> QED BY <3>2, <3>3, <3>4, <3>5, <3>6, <3>7, <3>8, <3>9
  <2> QED BY <1>4, <2>1
<1>7. PICK i : First(from, i)
  BY <1>2, <1>6
<1>8. i \in from..9 /\ Goes(i)
  <2>1. i \in from..9 /\ L(i) /\ \A j \in from..(i - 1) : ~L(j)
    BY <1>7 DEF First
  <2> QED BY <2>1
<1>9. Follows(phase) = Order[CHOOSE k \in from..9 : Goes(k)]
  BY DEF Follows
<1>10. PICK k \in from..9 : Follows(phase) = Order[k] /\ Goes(k)
  BY <1>8, <1>9
<1>11. k \in 1..9
  BY <1>2, <1>10
<1>12. Order[k] \in Phases
  BY <1>11 DEF Order, Phases
<1>13. ASSUME phase = "rest", ~trouble, Journals # {}
       PROVE  Follows(phase) = "journals"
  <2>1. from = 1 /\ Order[1] = "journals"
    BY <1>3, <1>13 DEF Order
  <2>2. Listed(Order[1]) # {}
    BY <1>13, <2>1 DEF Listed
  <2>3. k = 1
    BY <1>10, <2>1, <2>2
  <2> QED BY <1>10, <2>1, <2>3
<1> QED BY <1>10, <1>12, <1>13

\* A call, and a power loss, leave a file system whose young files are there.
FilesTyped(d) ==
    d = [now |-> d.now, disk |-> d.disk, young |-> d.young] /\ d.young \subseteq Either(d)

LEMMA FilesType ==
    ASSUME NEW d
    PROVE  /\ \A c : FilesTyped(After(d, c))
           /\ \A e \in Remains(d) : FilesTyped(e) /\ e.now = e.disk /\ e.young = d.young \cap e.now
                                    /\ Firm(d) \subseteq e.now /\ e.now \subseteq Either(d)
<1>1. ASSUME NEW c
      PROVE  FilesTyped(After(d, c))
  BY DEF FilesTyped, After, Either
<1>2. ASSUME NEW e \in Remains(d)
      PROVE  /\ FilesTyped(e) /\ e.now = e.disk /\ e.young = d.young \cap e.now
             /\ Firm(d) \subseteq e.now /\ e.now \subseteq Either(d)
  <2>1. PICK gone, kept : /\ kept = {f \in d.now : Dir(f) \notin gone} \cup {f \in d.disk : Dir(f) \in gone}
                          /\ e = [now |-> kept, disk |-> kept, young |-> d.young \cap kept]
    BY <1>2 DEF Remains
  <2> QED BY <2>1 DEF FilesTyped, Either, Firm
<1> QED BY <1>1, <1>2

LEMMA InitTyped == Init => TypeOK
<1> SUFFICES ASSUME Init PROVE TypeOK
  OBVIOUS
<1>1. FilesTyped(fs)
  BY DEF Init, Empty, FilesTyped
<1>2. receipt \in [spool : 0..Attempts, status : Statuses] /\ try \in 0..Attempts /\ row \in 0..Attempts
      /\ crashes \in 0..MaxFaults /\ failures \in 0..MaxFaults
  BY StoresAssumption DEF Init, NoReceipt, Statuses
<1>3. at \in Activities /\ phase \in Phases /\ trouble \in BOOLEAN /\ clean \in BOOLEAN
      /\ time \in {"fresh", "late", "over"} /\ linked \in BOOLEAN
  BY DEF Init, Activities, Phases
<1> QED BY <1>1, <1>2, <1>3 DEF TypeOK, FilesTyped, Either

\* One fault more is within the bound.
LEMMA FaultsBounded ==
    ASSUME crashes \in 0..MaxFaults, failures \in 0..MaxFaults, crashes + failures < MaxFaults
    PROVE  crashes + 1 \in 0..MaxFaults /\ failures + 1 \in 0..MaxFaults
BY StoresAssumption

LEMMA NextTyped ==
    ASSUME TypeOK, [Next]_vars
    PROVE  TypeOK'
<1> USE StoresAssumption
<1>1. CASE Begin
  BY <1>1 DEF Begin, TypeOK, Doing, Ended, Activities, janitor, rows, bounds
<1>2. CASE Scan
  BY <1>2 DEF Scan, TypeOK, Doing, Activities, Statuses, janitor, bounds
<1>3. CASE Open
  BY <1>3 DEF Open, TypeOK, Doing, Ended, Claimed, Failed, Activities, Statuses, janitor, bounds
<1>4. CASE Activate
  BY <1>4 DEF Activate, TypeOK, Doing, Activities, Statuses, janitor, bounds
<1>5. CASE Use
  BY <1>5 DEF Use, TypeOK, Doing, Ended, Activities, janitor, bounds
<1>6. CASE Finalize
  BY <1>6 DEF Finalize, TypeOK, Doing, Ended, Activities, janitor, bounds
<1>7. CASE Over
  BY <1>7 DEF Over, TypeOK, Doing, Ended, Activities, janitor, rows, bounds
<1>8. CASE Call
  <2>1. at' \in Activities
    BY <1>8 DEF Call, TypeOK, Doing, Ended, Handled, Activities
  <2>2. receipt' \in [spool : 0..Attempts, status : Statuses]
    BY <1>8 DEF Call, TypeOK, Failed, Statuses
  <2>3. FilesTyped(fs')
    BY <1>8, FilesType DEF Call, TypeOK, FilesTyped, Either
  <2>4. linked' \in BOOLEAN
    BY <1>8 DEF Call, TypeOK
  <2>5. failures' \in 0..MaxFaults
    BY <1>8, FaultsBounded DEF Call, TypeOK
  <2> QED BY <1>8, <2>1, <2>2, <2>3, <2>4, <2>5 DEF Call, TypeOK, janitor, FilesTyped, Either
<1>9. CASE \E f \in left : Sweep(f)
  BY <1>9 DEF Sweep, TypeOK, upload, rows, bounds
<1>10. CASE NextPhase
  <2>1. phase' \in Phases
    BY <1>10, FollowsIs DEF NextPhase, TypeOK
  <2>2. receipt' \in [spool : 0..Attempts, status : Statuses]
    BY <1>10 DEF NextPhase, TypeOK, NoReceipt, Statuses
  <2> QED BY <1>10, <2>1, <2>2 DEF NextPhase, TypeOK, upload, bounds
<1>11. CASE JanitorCall
  <2>1. FilesTyped(fs')
    BY <1>11, FilesType DEF JanitorCall, TypeOK, FilesTyped, Either
  <2>2. trouble' \in BOOLEAN /\ linked' \in BOOLEAN
    BY <1>11 DEF JanitorCall, TypeOK
  <2>3. failures' \in 0..MaxFaults
    BY <1>11, FaultsBounded DEF JanitorCall, TypeOK
  <2> QED BY <1>11, <2>1, <2>2, <2>3 DEF JanitorCall, TypeOK, upload, rows, FilesTyped, Either
<1>12. CASE Grow
  BY <1>12 DEF Grow, TypeOK, upload, janitor, rows, bounds
<1>13. CASE Pass
  BY <1>13 DEF Pass, TypeOK, upload, janitor, bounds
<1>14. CASE Crash
  <2>1. FilesTyped(fs')
    BY <1>14, FilesType DEF Crash, TypeOK, FilesTyped, Either
  <2>2. at' \in Activities /\ phase' \in Phases /\ trouble' \in BOOLEAN
    BY <1>14 DEF Crash, Ended, Doing, Activities, Phases
  <2>3. crashes' \in 0..MaxFaults
    BY <1>14, FaultsBounded DEF Crash, TypeOK
  <2> QED BY <1>14, <2>1, <2>2, <2>3 DEF Crash, TypeOK, rows, FilesTyped, Either
<1>15. CASE UNCHANGED vars
  BY <1>15 DEF vars, TypeOK, upload, janitor, rows, bounds
<1> QED BY <1>1, <1>2, <1>3, <1>4, <1>5, <1>6, <1>7, <1>8, <1>9, <1>10, <1>11, <1>12, <1>13, <1>14, <1>15
       DEF Next, UploadStep, SweepStep

\* The stores are what they say they are, whatever fails.
THEOREM Typed == Spec => []TypeOK
BY InitTyped, NextTyped, PTL DEF Spec
-----------------------------------------------------------------------------
(* Shapes: which files each side touches *)

LEMMA FitsOnward ==
    ASSUME NEW w \in Activities, NEW s, NEW a, NEW r, Fits(w, s, a, r), s # <<>>
    PROVE  /\ Fits(w, Tail(s), a, r) /\ Fits(w, SubSeq(s, 3, Len(s)), a, r) /\ IsCall(Head(s))
           /\ IsProgram(s)
           /\ Removes(Head(s)) \subseteq SourceFiles \cup StagedFiles(a) \cup StagedFiles(r)
           /\ Adds(Head(s)) \subseteq SourceFiles \cup StagedFiles(a) \cup {Reference(r)}
           /\ w # "staging" => Adds(Head(s)) \subseteq SourceFiles \cup {Reference(r)}
           /\ w # "marking" => Adds(Head(s)) \subseteq SourceFiles \cup StagedFiles(a)
<1> DEFINE Sound(A, R) == /\ Makes(Tail(s), A, R) /\ Makes(SubSeq(s, 3, Len(s)), A, R)
                          /\ IsCall(Head(s)) /\ Adds(Head(s)) \subseteq A /\ IsProgram(s)
                          /\ Removes(Head(s)) \subseteq R
<1>1. \A A, R : Makes(s, A, R) => Sound(A, R)
  <2>1. \A A, R : Makes(s, A, R) => IsProgram(s)
    BY DEF Makes
  <2> QED BY <2>1, MakesTail, MakesRest
<1> HIDE DEF Sound
<1>2. /\ SpoolFiles \subseteq SourceFiles /\ SourceParts \subseteq SourceFiles /\ Triplet \subseteq SourceFiles
      /\ Replaced(a) \subseteq StagedFiles(a) /\ MarkedFiles(a) \subseteq StagedFiles(a)
      /\ MarkedFiles(r) \subseteq StagedFiles(r)
      /\ {ManifestPart(a), ObjectPart(a), Object(a)} \subseteq StagedFiles(a)
  BY DEF SourceFiles, StagedFiles, Replaced, MarkedFiles, ManifestsOf
<1>3. CASE w = "spooling"
  <2>1. Sound(SpoolFiles, SpoolFiles)
    BY <1>1, <1>3 DEF Fits
  <2> QED BY <1>2, <1>3, <2>1 DEF Fits, Sound
<1>4. CASE w = "publishing"
  <2>1. Sound(SourceParts \cup Triplet, SourceParts \cup SpoolFiles)
    BY <1>1, <1>4 DEF Fits
  <2> QED BY <1>2, <1>4, <2>1 DEF Fits, Sound
<1>5. CASE w = "rolling"
  <2>1. Sound({}, SourceFiles)
    BY <1>1, <1>5 DEF Fits
  <2> QED BY <1>2, <1>5, <2>1 DEF Fits, Sound
<1>6. CASE w = "staging"
  <2>1. Sound(StagedFiles(a), Replaced(a))
    BY <1>1, <1>6 DEF Fits
  <2> QED BY <1>2, <1>6, <2>1 DEF Fits, Sound
<1>7. CASE w = "unstaging"
  <2>1. Sound({}, {ManifestPart(a), ObjectPart(a), Object(a)})
    BY <1>1, <1>7 DEF Fits
  <2> QED BY <1>2, <1>7, <2>1 DEF Fits, Sound
<1>8. CASE w = "marking"
  <2>1. r # 0 /\ Sound({Reference(r)}, MarkedFiles(r))
    BY <1>1, <1>8 DEF Fits
  <2> QED BY <1>2, <1>8, <2>1 DEF Fits, Sound
<1>9. CASE w = "aborting"
  <2>1. Sound({}, MarkedFiles(a))
    BY <1>1, <1>9 DEF Fits
  <2> QED BY <1>2, <1>9, <2>1 DEF Fits, Sound
<1>10. CASE w \in {"idle", "open", "using", "clean"}
  BY <1>10 DEF Fits
<1> QED BY <1>3, <1>4, <1>5, <1>6, <1>7, <1>8, <1>9, <1>10 DEF Activities

LEMMA RollingFits ==
    ASSUME NEW s, NEW a, NEW r, Makes(s, {}, SourceFiles)
    PROVE  Fits("rolling", s, a, r)
BY DEF Fits

LEMMA HandledFits ==
    ASSUME TypeOK, UploadShape, todo # <<>>, Handled
    PROVE  Fits(at', todo', try, row)
<1>1. CASE at = "spooling"
  <2>1. Makes(RollbackSpool(try), {}, SpoolFiles) /\ SpoolFiles \subseteq SourceFiles
    BY RollbackMakes DEF TypeOK, SourceFiles
  <2>2. Makes(RollbackSpool(try), {}, SourceFiles)
    BY <2>1, MakesMore
  <2> QED BY <1>1, <2>2, RollingFits DEF Handled, Doing
<1>2. CASE at = "publishing"
  <2>1. Makes(todo', {}, SourceFiles) /\ at' = "rolling"
    BY <1>2, RollbackMakes DEF Handled, Doing
  <2> QED BY <2>1, RollingFits
<1>3. CASE at = "staging"
  <2>1. at' = "unstaging" /\ todo' = Unstage(try)
    BY <1>3 DEF Handled, Doing
  <2> QED BY <2>1, UnstageMakes DEF Fits
<1>4. CASE at = "rolling"
  <2>1. at' = "rolling" /\ todo' = Tail(todo)
    BY <1>4 DEF Handled, Doing
  <2> QED BY <1>4, <2>1, FitsOnward DEF UploadShape, TypeOK
<1>5. CASE at \notin {"spooling", "publishing", "staging", "rolling"}
  <2>1. at' = "idle" /\ todo' = <<>>
    BY <1>5 DEF Handled, Ended, Doing
  <2> QED BY <2>1 DEF Fits
<1> QED BY <1>1, <1>2, <1>3, <1>4, <1>5

LEMMA NextUploadShape ==
    ASSUME TypeOK, UploadShape, RowShape, [Next]_vars
    PROVE  UploadShape'
<1> SUFFICES Fits(at', todo', try', row')
  BY DEF UploadShape
<1>1. CASE Begin
  <2>1. try' \in 0..Attempts
    BY <1>1, StoresAssumption DEF Begin, TypeOK
  <2>2. CASE at' = "marking"
    <3>1. row' = row /\ row # 0 /\ todo' = MarkReferenced(row)
      BY <1>1, <2>2 DEF Begin, Doing, Ended, rows
    <3> QED BY <2>2, <3>1, MarkMakes DEF Fits
  <2>3. CASE at' = "spooling"
    <3>1. todo' = WriteSpool(try')
      BY <1>1, <2>3 DEF Begin, Doing, Ended
    <3> QED BY <2>1, <2>3, <3>1, WriteSpoolMakes DEF Fits
  <2>4. CASE at' \in {"idle", "open"}
    <3>1. todo' = <<>>
      BY <1>1, <2>4 DEF Begin, Doing, Ended
    <3> QED BY <2>4, <3>1 DEF Fits
  <2>5. at' \in {"idle", "open", "marking", "spooling"}
    BY <1>1 DEF Begin, Doing, Ended
  <2> QED BY <2>2, <2>3, <2>4, <2>5
<1>2. CASE Scan
  <2>1. CASE at' = "open" /\ todo' = <<>>
    BY <2>1 DEF Fits
  <2>2. CASE at' = "rolling" /\ todo' = Erase(Spool(try))
    <3>1. Spool(try) \in SourceFiles
      BY DEF TypeOK, SourceFiles, SpoolFiles
    <3> QED BY <2>2, <3>1, MakesErase, RollingFits
  <2> QED BY <1>2, <2>1, <2>2 DEF Scan, Doing
<1>3. CASE Open
  <2>1. CASE at' \in {"using", "idle"} /\ todo' = <<>>
    BY <2>1 DEF Fits
  <2>2. CASE at' = "publishing" /\ todo' = PublishFormal(receipt.spool)
    <3>1. receipt.spool \in 0..Attempts
      BY DEF TypeOK
    <3> QED BY <2>2, <3>1, PublishMakes DEF Fits
  <2> QED BY <1>3, <2>1, <2>2 DEF Open, Doing, Ended
<1>4. CASE Activate
  BY <1>4 DEF Activate, Doing, Fits
<1>5. CASE Use
  <2>1. CASE at' = "idle" /\ todo' = <<>>
    BY <2>1 DEF Fits
  <2>2. CASE at' = "staging" /\ todo' = StageObject(try)
    <3>1. try' = try
      BY <1>5 DEF Use
    <3> QED BY <2>2, <3>1, StageMakes DEF Fits
  <2> QED BY <1>5, <2>1, <2>2 DEF Use, Doing, Ended
<1>6. CASE Finalize
  <2>1. CASE at' = "idle" /\ todo' = <<>>
    BY <2>1 DEF Fits
  <2>2. CASE at' = "marking" /\ todo' = MarkReferenced(try) /\ row' = try
    <3>1. try # 0
      BY <1>6 DEF Finalize, RowShape
    <3> QED BY <2>2, <3>1, MarkMakes DEF Fits
  <2>3. CASE at' = "aborting" /\ todo' = AbortStaged(try)
    <3>1. try' = try
      BY <1>6 DEF Finalize
    <3> QED BY <2>3, <3>1, AbortMakes DEF Fits
  <2> QED BY <1>6, <2>1, <2>2, <2>3 DEF Finalize, Doing, Ended
<1>7. CASE Over
  BY <1>7 DEF Over, Ended, Doing, Fits
<1>8. CASE Call
  <2>1. try' = try /\ row' = row /\ todo # <<>>
    BY <1>8 DEF Call
  <2>2. CASE at' = at /\ todo' = Tail(todo)
    BY <2>1, <2>2, FitsOnward DEF UploadShape, TypeOK
  <2>3. CASE at' = at /\ todo' = SubSeq(todo, 3, Len(todo))
    BY <2>1, <2>3, FitsOnward DEF UploadShape, TypeOK
  <2>4. CASE Handled
    BY <2>1, <2>4, HandledFits
  <2> QED BY <1>8, <2>2, <2>3, <2>4 DEF Call, Doing
<1>9. CASE SweepStep \/ Grow \/ Pass \/ UNCHANGED vars
  <2>1. UNCHANGED <<at, todo, try, row>>
    BY <1>9 DEF SweepStep, Sweep, NextPhase, JanitorCall, Grow, Pass, vars, upload, rows
  <2> QED BY <2>1 DEF UploadShape
<1>10. CASE Crash
  BY <1>10 DEF Crash, Ended, Doing, Fits
<1> QED BY <1>1, <1>2, <1>3, <1>4, <1>5, <1>6, <1>7, <1>8, <1>9, <1>10 DEF Next, UploadStep

LEMMA NextRowShape ==
    ASSUME TypeOK, RowShape, UploadShape, [Next]_vars
    PROVE  RowShape'
<1>1. CASE Begin
  BY <1>1 DEF Begin, Doing, Ended, rows, RowShape, TypeOK
<1>2. CASE Scan \/ Open \/ Activate \/ Use
  BY <1>2 DEF Scan, Open, Activate, Use, Doing, Ended, RowShape
<1>3. CASE Finalize
  BY <1>3 DEF Finalize, Doing, Ended, RowShape, TypeOK
<1>4. CASE Over
  BY <1>4 DEF Over, Doing, Ended, rows, RowShape
<1>5. CASE Call
  <2>1. CASE at' = at
    BY <1>5, <2>1 DEF Call, RowShape
  <2>2. CASE Handled
    BY <1>5, <2>2 DEF Call, Handled, Doing, Ended, RowShape
  <2> QED BY <1>5, <2>1, <2>2 DEF Call, Doing
<1>6. CASE SweepStep \/ Grow \/ Pass \/ UNCHANGED vars
  <2>1. UNCHANGED <<at, try, row>>
    BY <1>6 DEF SweepStep, Sweep, NextPhase, JanitorCall, Grow, Pass, vars, upload, rows
  <2> QED BY <2>1 DEF RowShape
<1>7. CASE Crash
  BY <1>7 DEF Crash, Ended, Doing, rows, RowShape
<1> QED BY <1>1, <1>2, <1>3, <1>4, <1>5, <1>6, <1>7 DEF Next, UploadStep

\* The first call of the sweep's program: what it may touch.
LEMMA SweepOnward ==
    ASSUME SweepShape, calls # <<>>
    PROVE  /\ IsProgram(calls) /\ IsCall(Head(calls))
           /\ \/ /\ phase = "objects" /\ row # 0 /\ Makes(calls, {Reference(row)}, MarkedFiles(row))
                 /\ Makes(Tail(calls), {Reference(row)}, MarkedFiles(row))
                 /\ Makes(SubSeq(calls, 3, Len(calls)), {Reference(row)}, MarkedFiles(row))
                 /\ Adds(Head(calls)) \subseteq {Reference(row)} /\ Removes(Head(calls)) \subseteq MarkedFiles(row)
              \/ /\ phase = "objects" /\ Makes(calls, {}, Sweepable) /\ Makes(Tail(calls), {}, Sweepable)
                 /\ Makes(SubSeq(calls, 3, Len(calls)), {}, Sweepable)
                 /\ Adds(Head(calls)) = {} /\ Removes(Head(calls)) \subseteq Sweepable
              \/ /\ phase # "objects" /\ Makes(Tail(calls), JournalFiles, JournalFiles \cup SourceFiles)
                 /\ Makes(SubSeq(calls, 3, Len(calls)), JournalFiles, JournalFiles \cup SourceFiles)
                 /\ Adds(Head(calls)) \subseteq JournalFiles
                 /\ Removes(Head(calls)) \subseteq JournalFiles \cup SourceFiles
<1>1. CASE Marks /\ phase = "objects"
  <2>1. /\ Makes(Tail(calls), {Reference(row)}, MarkedFiles(row)) /\ IsCall(Head(calls))
        /\ Makes(SubSeq(calls, 3, Len(calls)), {Reference(row)}, MarkedFiles(row))
        /\ Adds(Head(calls)) \subseteq {Reference(row)} /\ Removes(Head(calls)) \subseteq MarkedFiles(row)
    BY <1>1, MakesTail, MakesRest DEF Marks
  <2>2. IsProgram(calls)
    BY <1>1 DEF Marks, Makes
  <2> QED BY <1>1, <2>1, <2>2 DEF Marks
<1>2. CASE Aborts /\ phase = "objects"
  <2>1. /\ Makes(Tail(calls), {}, Sweepable) /\ IsCall(Head(calls))
        /\ Makes(SubSeq(calls, 3, Len(calls)), {}, Sweepable)
        /\ Adds(Head(calls)) = {} /\ Removes(Head(calls)) \subseteq Sweepable
    BY <1>2, RemovesOnward DEF Aborts
  <2>2. IsProgram(calls)
    BY <1>2 DEF Aborts, Makes
  <2> QED BY <1>2, <2>1, <2>2 DEF Aborts
<1>3. CASE Deletes /\ phase # "objects"
  <2>1. /\ Makes(Tail(calls), JournalFiles, JournalFiles \cup SourceFiles) /\ IsCall(Head(calls))
        /\ Makes(SubSeq(calls, 3, Len(calls)), JournalFiles, JournalFiles \cup SourceFiles)
        /\ Adds(Head(calls)) \subseteq JournalFiles /\ Removes(Head(calls)) \subseteq JournalFiles \cup SourceFiles
    BY <1>3, MakesTail, MakesRest DEF Deletes
  <2>2. IsProgram(calls)
    BY <1>3 DEF Deletes, Makes
  <2> QED BY <1>3, <2>1, <2>2
<1> QED BY <1>1, <1>2, <1>3 DEF SweepShape

LEMMA EitherAfter ==
    ASSUME NEW d, NEW c, c.do \in Dos
    PROVE  /\ Either(After(d, c)) \subseteq Either(d) \cup Adds(c)
           /\ After(d, c).now \subseteq d.now \cup Adds(c)
BY AfterIs DEF Either

\* A young file that a call does not name stays young while it is seen.
LEMMA YoungAfter ==
    ASSUME NEW d, NEW c, IsCall(c), NEW f \in d.young, f \in After(d, c).now, f \notin Adds(c), f \notin Removes(c)
    PROVE  f \in After(d, c).young
<1>1. c.do = "unlink" => c.to = c.of
  BY DEF IsCall
<1>2. c.do = "sync" \/ f # c.to
  BY <1>1 DEF IsCall, Dos, Adds, Removes
<1>3. f \in Renewed(d, c)
  BY <1>2 DEF Renewed
<1> QED BY <1>3 DEF After

\* So does one that a call makes, or makes of a young one.
LEMMA YoungMade ==
    ASSUME NEW d, NEW c, IsCall(c), NEW f \in Adds(c), c.do \in {"create", "put"} \/ c.of \in d.young,
           f \in After(d, c).now
    PROVE  f \in After(d, c).young
<1>1. f = c.to /\ c.do # "sync"
  BY DEF Adds, IsCall, Dos
<1>2. f \in Renewed(d, c)
  BY <1>1 DEF Renewed, Aged
<1> QED BY <1>2 DEF After

\* An attempt that has not staged yet did not do so before.
LEMMA FreshBefore ==
    ASSUME TypeOK, [Next]_vars, NEW a \in Tries, Fresh(a)'
    PROVE  Fresh(a)
<1>1. CASE Begin
  BY <1>1 DEF Begin, Fresh, TypeOK, Tries
<1>2. CASE Scan \/ Open \/ Activate \/ Use \/ Finalize \/ Over
  BY <1>2 DEF Scan, Open, Activate, Use, Finalize, Over, Doing, Ended, Fresh, Before
<1>3. CASE Call
  BY <1>3 DEF Call, Handled, Doing, Ended, Fresh, Before
<1>4. CASE SweepStep \/ Grow \/ Pass \/ UNCHANGED vars
  <2>1. UNCHANGED <<at, try>>
    BY <1>4 DEF SweepStep, Sweep, NextPhase, JanitorCall, Grow, Pass, vars, upload
  <2> QED BY <2>1 DEF Fresh
<1>5. CASE Crash
  BY <1>5 DEF Crash, Ended, Doing, Fresh, Before
<1> QED BY <1>1, <1>2, <1>3, <1>4, <1>5 DEF Next, UploadStep

\* And one that is past stays past.
LEMMA PastStays ==
    ASSUME TypeOK, RowShape, [Next]_vars
    PROVE  /\ \A a \in Tries : Past(a) => Past(a)'
           /\ \A a \in Tries \ {row} : Past(a) => a \in Tries \ {row'}
<1>1. ASSUME NEW a \in Tries, Past(a)
      PROVE  Past(a)' /\ (a # row => a # row')
  <2>1. CASE Begin
    BY <1>1, <2>1 DEF Begin, Past, TypeOK, Tries, rows
  <2>2. CASE Scan \/ Open \/ Activate \/ Use
    BY <1>1, <2>2 DEF Scan, Open, Activate, Use, Doing, Ended, Past, Before
  <2>3. CASE Finalize
    BY <1>1, <2>3 DEF Finalize, Doing, Ended, Past, Before, TypeOK, Tries
  <2>4. CASE Over
    BY <1>1, <2>4 DEF Over, Doing, Ended, Past, Before, rows
  <2>5. CASE Call
    BY <1>1, <2>5 DEF Call, Handled, Doing, Ended, Past, Before
  <2>6. CASE SweepStep \/ Grow \/ Pass \/ UNCHANGED vars
    <3>1. UNCHANGED <<at, try, row>>
      BY <2>6 DEF SweepStep, Sweep, NextPhase, JanitorCall, Grow, Pass, vars, upload, rows
    <3> QED BY <1>1, <3>1 DEF Past
  <2>7. CASE Crash
    BY <1>1, <2>7 DEF Crash, Ended, Doing, Past, Before, rows
  <2> QED BY <2>1, <2>2, <2>3, <2>4, <2>5, <2>6, <2>7 DEF Next, UploadStep
<1> QED BY <1>1

\* How the files change in a step.
LEMMA FilesMove ==
    ASSUME TypeOK, [Next]_vars
    PROVE  \/ /\ todo # <<>> /\ Possible(fs, Head(todo)) /\ ~Unvalidated /\ fs' = After(fs, Head(todo))
              /\ todo' = Tail(todo) /\ UNCHANGED <<at, try, janitor, rows, linked, bounds>>
           \/ /\ calls # <<>> /\ Possible(fs, Head(calls)) /\ fs' = After(fs, Head(calls))
              /\ calls' = Tail(calls) /\ UNCHANGED <<upload, phase, left, trouble, rows, linked, bounds>>
           \/ /\ fs'.now = fs.now /\ fs'.disk = fs.disk /\ at # "staging" /\ ~Early
              /\ UNCHANGED <<upload, janitor, rows, linked, bounds>>
           \/ /\ fs' \in Remains(fs) /\ at' = "idle" /\ todo' = <<>> /\ calls' = <<>>
              /\ UNCHANGED <<try, rows, linked, failures>>
           \/ fs' = fs
<1>1. CASE UploadStep
  BY <1>1 DEF UploadStep, Begin, Scan, Open, Activate, Use, Finalize, Over, Call, Doing, bounds, rows
<1>2. CASE SweepStep
  BY <1>2 DEF SweepStep, Sweep, NextPhase, JanitorCall, bounds
<1>3. CASE Grow
  <2>1. fs' = [now |-> fs.now, disk |-> fs.disk, young |-> {}]
    BY <1>3 DEF Grow, TypeOK
  <2> QED BY <1>3, <2>1 DEF Grow, Early
<1>4. CASE Pass \/ UNCHANGED vars
  BY <1>4 DEF Pass, vars
<1>5. CASE Crash
  BY <1>5 DEF Crash, Ended, Doing
<1> QED BY <1>1, <1>2, <1>3, <1>4, <1>5 DEF Next

LEMMA NextFilesShape ==
    ASSUME Shapes, [Next]_vars
    PROVE  FilesShape'
<1> USE DEF Shapes
<1>1. ASSUME NEW f \in Either(fs)', f \notin Either(fs)
      PROVE  \/ /\ todo # <<>> /\ f \in Adds(Head(todo)) /\ UNCHANGED <<at, try, row>>
                /\ f \in SourceFiles \cup StagedFiles(try) \cup {Reference(row)}
                /\ at # "staging" => f \in SourceFiles \cup {Reference(row)}
             \/ /\ calls # <<>> /\ f \in Adds(Head(calls)) /\ UNCHANGED <<at, try, row>>
                /\ f \in JournalFiles \cup {Reference(row)}
  <2>1. CASE /\ todo # <<>> /\ fs' = After(fs, Head(todo)) /\ UNCHANGED <<at, try, row>>
    <3>1. /\ IsCall(Head(todo))
          /\ Adds(Head(todo)) \subseteq SourceFiles \cup StagedFiles(try) \cup {Reference(row)}
          /\ at # "staging" => Adds(Head(todo)) \subseteq SourceFiles \cup {Reference(row)}
      BY <2>1, FitsOnward DEF UploadShape, TypeOK
    <3>2. Either(fs)' = Either(After(fs, Head(todo)))
      BY <2>1
    <3>3. f \in Adds(Head(todo))
      BY <1>1, <3>1, <3>2, EitherAfter DEF IsCall
    <3> QED BY <2>1, <3>1, <3>3
  <2>2. CASE /\ calls # <<>> /\ fs' = After(fs, Head(calls)) /\ UNCHANGED <<at, try, row>>
    <3>1. IsCall(Head(calls)) /\ Adds(Head(calls)) \subseteq JournalFiles \cup {Reference(row)}
      BY <2>2, SweepOnward
    <3>2. Either(fs)' = Either(After(fs, Head(calls)))
      BY <2>2
    <3>3. f \in Adds(Head(calls))
      BY <1>1, <3>1, <3>2, EitherAfter DEF IsCall
    <3> QED BY <2>2, <3>1, <3>3
  <2>3. CASE fs'.now = fs.now /\ fs'.disk = fs.disk
    BY <1>1, <2>3 DEF Either
  <2>4. CASE fs' \in Remains(fs)
    <3>1. fs'.now = fs'.disk /\ fs'.now \subseteq Either(fs)
      BY <2>4, FilesType
    <3> QED BY <1>1, <3>1 DEF Either
  <2>5. CASE fs' = fs
    BY <1>1, <2>5 DEF Either
  <2> QED BY <2>1, <2>2, <2>3, <2>4, <2>5, FilesMove DEF upload, rows
<1>2. ASSUME NEW f \in Either(fs)', Dir(f) = "journal"
      PROVE  f \in JournalFiles
  <2>1. Dir(Reference(row)) = "referenced"
    BY DirsAre
  <2>2. f \in Either(fs) => f \in JournalFiles
    BY <1>2 DEF FilesShape
  <2> QED BY <1>1, <1>2, <2>1, <2>2, DirsDiffer
<1>3. ASSUME NEW a \in Tries, Fresh(a)', NEW f \in StagedFiles(a), f \in Either(fs)'
      PROVE  FALSE
  <2>1. Fresh(a) /\ f \notin Either(fs)
    BY <1>3, FreshBefore DEF FilesShape
  <2>2. Dir(f) \in {"manifests", "staged"} /\ Dir(Reference(row)) = "referenced"
    BY <1>3, DirsDiffer, DirsAre
  <2>3. f \notin SourceFiles \cup JournalFiles \cup {Reference(row)}
    BY <2>2, DirsDiffer
  <2>4. at = "staging" /\ f \in StagedFiles(try)
    BY <1>1, <1>3, <2>1, <2>3
  <2>5. a # try
    BY <2>1, <2>4 DEF Fresh, Before, TypeOK
  <2> QED BY <1>3, <2>4, <2>5, NamesDiffer
<1>4. ASSUME NEW a \in Tries \ {row'}, Reference(a) \in Either(fs)'
      PROVE  FALSE
  <2>1. Dir(Reference(a)) = "referenced"
    BY DirsAre
  <2>2. CASE row' = row
    <3>1. Reference(a) \notin Either(fs)
      BY <1>4, <2>2 DEF FilesShape
    <3>2. Reference(a) # Reference(row)
      BY <1>4, <2>2, NamesDiffer
    <3> QED BY <1>1, <1>4, <2>1, <3>1, <3>2, DirsDiffer
  <2>3. CASE row' # row
    <3>1. Finalize
      BY <2>3 DEF Next, UploadStep, Begin, Scan, Open, Activate, Use, Over, Call, SweepStep, Sweep,
           NextPhase, JanitorCall, Grow, Pass, Crash, vars, rows
    <3>2. row = 0 /\ fs' = fs
      BY <3>1 DEF Finalize, RowShape
    <3>3. a \in Tries \ {row} /\ Reference(a) \in Either(fs)
      BY <1>4, <3>2 DEF Tries, Either
    <3> QED BY <3>3 DEF FilesShape
  <2> QED BY <2>2, <2>3
<1>5. ASSUME at' = "staging", NEW f \in StagedFiles(try'), f \in fs'.now
      PROVE  f \in fs'.young
  <2>1. CASE at # "staging"
    <3>1. Use
      BY <1>5, <2>1 DEF Next, UploadStep, Begin, Scan, Open, Activate, Finalize, Over, Call, Handled, Doing,
           Ended, SweepStep, Sweep, NextPhase, JanitorCall, Grow, Pass, Crash, vars, upload
    <3>2. try' = try /\ fs' = fs /\ Fresh(try) /\ try \in Tries
      BY <3>1, StoresAssumption DEF Use, Fresh, Before, TypeOK, RowShape, Tries
    <3>3. f \notin Either(fs)
      BY <1>5, <3>2 DEF FilesShape
    <3> QED BY <1>5, <3>2, <3>3 DEF Either
  <2>2. CASE at = "staging" /\ fs' = fs
    <3>1. try' = try
      BY <1>5, <2>2 DEF Next, UploadStep, Begin, Scan, Open, Activate, Use, Finalize, Over, Call, Doing,
           Ended, SweepStep, Sweep, NextPhase, JanitorCall, Grow, Pass, Crash, vars, upload
    <3> QED BY <1>5, <2>2, <3>1 DEF FilesShape
  <2>3. CASE /\ at = "staging" /\ todo # <<>> /\ Possible(fs, Head(todo)) /\ fs' = After(fs, Head(todo)) /\ try' = try
    <3> DEFINE c == Head(todo)
    <3>1. Makes(todo, StagedFiles(try), Replaced(try))
      BY <2>3 DEF UploadShape, Fits
    <3>2. /\ IsCall(c) /\ Adds(c) \subseteq StagedFiles(try)
          /\ Removes(c) \subseteq Replaced(try)
      BY <2>3, <3>1, MakesTail
    <3>3. Removes(c) \subseteq StagedFiles(try)
      BY <3>2 DEF StagedFiles, ManifestsOf, Replaced
    <3>4. StagedFiles(try) \cap fs.now \subseteq fs.young
      BY <2>3 DEF FilesShape
    <3> HIDE DEF c
    <3>5. CASE f \in Adds(c)
      <4>1. c.do # "link"
        <5>1. Dir(f) \in {"manifests", "staged"}
          BY <1>5, DirsDiffer
        <5>2. f = c.to
          BY <3>5 DEF Adds
        <5> QED BY <3>2, <5>1, <5>2 DEF IsCall
      <4>2. c.do = "move" => c.of \in fs.now
        BY <2>3 DEF Possible, c
      <4>3. c.do = "move" => c.of \in StagedFiles(try)
        BY <3>2, <3>3 DEF Removes, Adds
      <4>4. c.do \in {"create", "put"} \/ c.of \in fs.young
        BY <3>2, <3>4, <3>5, <4>1, <4>2, <4>3 DEF IsCall, Dos, Adds
      <4> QED BY <1>5, <2>3, <3>2, <3>5, <4>4, YoungMade DEF c
    <3>6. CASE f \notin Adds(c)
      <4>1. f \in fs.now /\ f \notin Removes(c)
        BY <1>5, <2>3, <3>2, <3>6, AfterIs DEF IsCall, c
      <4>2. f \in fs.young
        BY <1>5, <2>3, <3>4, <4>1
      <4> QED BY <1>5, <2>3, <3>2, <3>6, <4>1, <4>2, YoungAfter DEF c
    <3> QED BY <3>5, <3>6
  <2>4. CASE /\ at = "staging" /\ calls # <<>> /\ fs' = After(fs, Head(calls)) /\ try' = try
    <3> DEFINE c == Head(calls)
    <3>1. row = 0
      BY <2>4 DEF RowShape
    <3>2. /\ IsCall(c) /\ Adds(c) \subseteq JournalFiles \cup {Reference(row)}
          /\ Removes(c) \subseteq JournalFiles \cup SourceFiles \cup Sweepable
      BY <2>4, <3>1, SweepOnward
    <3>3. Dir(f) \in {"manifests", "staged"} /\ Dir(Reference(row)) = "referenced"
      BY <1>5, DirsDiffer, DirsAre
    <3>4. f \notin JournalFiles \cup SourceFiles \cup {Reference(row)}
      BY <3>3, DirsDiffer
    <3>5. f \notin Sweepable
      <4>1. SUFFICES ASSUME NEW b \in Tries, Past(b), f \in SweptFiles(b) PROVE FALSE
        BY DEF Sweepable
      <4>2. b # try
        BY <2>4, <4>1 DEF Past, TypeOK
      <4>3. f \in StagedFiles(b) /\ f \in StagedFiles(try)
        BY <1>5, <2>4, <4>1 DEF StagedFiles, SweptFiles
      <4> QED BY <4>2, <4>3, NamesDiffer
    <3> HIDE DEF c
    <3>6. f \in fs.now
      BY <1>5, <2>4, <3>2, <3>4, AfterIs DEF IsCall, c
    <3>7. f \in fs.young
      BY <1>5, <2>4, <3>6 DEF FilesShape
    <3> QED BY <1>5, <2>4, <3>2, <3>4, <3>5, <3>7, YoungAfter DEF c
  <2> QED BY <1>5, <2>1, <2>2, <2>3, <2>4, FilesMove DEF upload, rows
<1> QED BY <1>2, <1>3, <1>4, <1>5 DEF FilesShape

LEMMA NextLeftShape ==
    ASSUME Shapes, [Next]_vars
    PROVE  LeftShape'
<1> USE DEF Shapes
<1>1. CASE \E f \in left : Sweep(f)
  BY <1>1 DEF Sweep, LeftShape
<1>2. CASE NextPhase
  <2>1. left' = Listed(phase') /\ calls' = <<>> /\ trouble' = FALSE /\ receipt.spool \in 0..Attempts
    BY <1>2 DEF NextPhase, TypeOK
  <2>2. phase' = "journals" => left' \subseteq JournalFiles
    <3>1. \A f \in fs.now : Dir(f) = "journal" => f \in JournalFiles
      BY DEF FilesShape, Either
    <3> QED BY <2>1, <3>1 DEF Listed, Journals
  <2>3. phase' = "parts" => left' \subseteq Parts
    BY <2>1 DEF Listed
  <2>4. phase' = "objects" => left' \subseteq Manifests
    BY <2>1 DEF Listed
  <2>5. phase' = "pending" => left' \subseteq SpoolFiles
    BY <2>1 DEF Listed, SpoolFiles
  <2>6. phase' = "rest" => left' = {}
    BY <2>1 DEF Listed
  <2> QED BY <2>1, <2>2, <2>3, <2>4, <2>5, <2>6 DEF LeftShape
<1>3. CASE JanitorCall
  BY <1>3 DEF JanitorCall, LeftShape
<1>4. CASE UploadStep \/ Grow \/ Pass \/ UNCHANGED vars
  <2>1. UNCHANGED <<phase, calls, left, trouble>>
    BY <1>4 DEF UploadStep, Begin, Scan, Open, Activate, Use, Finalize, Over, Call, Grow, Pass, vars, janitor
  <2> QED BY <2>1 DEF LeftShape
<1>5. CASE Crash
  BY <1>5 DEF Crash, LeftShape
<1> QED BY <1>1, <1>2, <1>3, <1>4, <1>5 DEF Next, SweepStep

\* What is swept of an attempt's objects has not to be staged any more.
LEMMA OldIsPast ==
    ASSUME Shapes, NEW a \in Tries, NEW f \in ManifestsOf(a), Old(f)
    PROVE  Past(a)
<1>1. f \in StagedFiles(a) /\ f \in fs.now /\ f \notin fs.young
  BY DEF StagedFiles, Old, Here
<1>2. ~Fresh(a)
  BY <1>1 DEF Shapes, FilesShape, Either
<1>3. ~(a = try /\ at = "staging")
  BY <1>1 DEF Shapes, FilesShape
<1> QED BY <1>2, <1>3 DEF Past, Fresh, Shapes, TypeOK, Tries

\* Every program that a sweep starts keeps to the files of its phase.
LEMMA SweptFits ==
    ASSUME Shapes, NEW f \in left, NEW p \in Swept(f)
    PROVE  IF phase = "objects"
             THEN (row # 0 /\ Makes(p, {Reference(row)}, MarkedFiles(row))) \/ Makes(p, {}, Sweepable)
             ELSE Makes(p, JournalFiles, JournalFiles \cup SourceFiles)
<1> USE DEF Shapes
<1> DEFINE Deletion(s) == Makes(s, JournalFiles, JournalFiles \cup SourceFiles)
<1>1. Deletion(<<>>) /\ Deletion(DeleteTriplet) /\ \A g \in SourceFiles : Deletion(FinishDeletion(g)) /\ Deletion(RecoveryUnlink(g))
  BY MakesNothing, TripletMakes, DeletionMakes
<1>2. Payload \in SourceFiles /\ Record \in SourceFiles
  BY DEF SourceFiles, Triplet
<1>3. CASE phase = "journals"
  <2>1. PICK g \in SourceFiles, s \in {"intent", "done"} : f = Journal(g, s)
    BY <1>3 DEF LeftShape, JournalFiles
  <2>2. f[2] = s /\ f[3] = g
    BY <2>1 DEF Journal
  <2>3. f \in JournalFiles
    BY <1>3 DEF LeftShape
  <2>4. Deletion(Erase(f))
    BY <2>3, MakesErase
  <2>5. p = FinishDeletion(g) \/ p = Erase(f)
    BY <1>3, <2>2 DEF Swept
  <2> QED BY <1>1, <1>3, <2>4, <2>5
<1>4. CASE phase = "parts"
  <2>1. f \in SourceFiles
    BY <1>4 DEF LeftShape, Parts, SourceFiles, SpoolFiles, SourceParts, Tries
  <2>2. p = RecoveryUnlink(f) \/ p = <<>>
    BY <1>4 DEF Swept
  <2> QED BY <1>1, <1>4, <2>1, <2>2
<1>5. CASE phase = "commits"
  <2>1. p = DeleteTriplet \/ p = <<>>
    BY <1>5 DEF Swept, SweepCommit
  <2> QED BY <1>1, <1>5, <2>1
<1>6. CASE phase = "records"
  <2>1. p = DeleteTriplet \/ p = <<>> \/ p = RecoveryUnlink(Record)
    BY <1>6 DEF Swept, SweepRecord
  <2> QED BY <1>1, <1>2, <1>6, <2>1
<1>7. CASE phase = "payloads"
  <2>1. p = <<>> \/ p = RecoveryUnlink(Payload)
    BY <1>7 DEF Swept, SweepPayload
  <2> QED BY <1>1, <1>2, <1>7, <2>1
<1>8. CASE phase = "expired"
  <2>1. p = DeleteTriplet \/ p = <<>>
    BY <1>8 DEF Swept, SweepExpired
  <2> QED BY <1>1, <1>8, <2>1
<1>9. CASE phase = "pending"
  <2>1. p = Discard(f) /\ f \in SpoolFiles
    BY <1>9 DEF Swept, LeftShape
  <2> QED BY <1>9, <2>1, DiscardMakes
<1>10. CASE phase = "objects"
  <2>1. PICK a \in Tries : f \in ManifestsOf(a)
    BY <1>10 DEF LeftShape, Manifests
  <2>2. f[3] = a
    BY <2>1 DEF ManifestsOf, Manifest
  <2>3. PICK answer \in IsReferenced(a) : p = SweepObject(a, answer)
    BY <1>10, <2>2 DEF Swept
  <2>4. CASE p = <<>>
    BY <1>10, <2>4, MakesNothing
  <2>5. CASE p # <<>>
    <3>1. Past(a)
      BY <2>3, <2>5, OldIsPast DEF SweepObject
    <3>2. CASE answer = "yes"
      <4>1. row = a /\ p = MarkReferenced(row) /\ row # 0
        BY <2>3, <2>5, <3>2 DEF IsReferenced, Ask, SweepObject, Tries
      <4> QED BY <1>10, <4>1, MarkMakes
    <3>3. CASE answer = "no"
      <4>1. row # a
        BY <2>3, <3>3 DEF IsReferenced, Ask
      <4>2. SweptFiles(a) \subseteq Sweepable /\ MarkedFiles(a) \subseteq Sweepable
        BY <3>1, <4>1 DEF Sweepable, SweptFiles, MarkedFiles, ManifestsOf
      <4>3. \/ p = AbortStaged(a)
            \/ p = Erase(Object(a)) \o Erase(Manifest(a, "only"))
        BY <2>3, <2>5, <3>3 DEF SweepObject
      <4>4. Makes(AbortStaged(a), {}, Sweepable) /\ Makes(Erase(Object(a)) \o Erase(Manifest(a, "only")), {}, Sweepable)
        BY <4>2, AbortMakes, MakesMore
      <4> QED BY <1>10, <4>3, <4>4
    <3> QED BY <2>3, <2>5, <3>2, <3>3 DEF SweepObject
  <2> QED BY <2>4, <2>5
<1>11. phase # "rest"
  BY DEF LeftShape
<1> QED BY <1>3, <1>4, <1>5, <1>6, <1>7, <1>8, <1>9, <1>10, <1>11 DEF TypeOK, Phases

LEMMA NextSweepShape ==
    ASSUME Shapes, [Next]_vars
    PROVE  SweepShape'
<1> USE DEF Shapes
<1>1. Sweepable \subseteq Sweepable'
  BY PastStays DEF Sweepable
<1>2. CASE \E f \in left : Sweep(f)
  <2>1. PICK f \in left : calls' \in Swept(f) /\ UNCHANGED <<phase, at, try, row>>
    BY <1>2 DEF Sweep, upload, rows
  <2>2. Sweepable' = Sweepable
    BY <2>1 DEF Sweepable, Past
  <2> QED BY <2>1, <2>2, SweptFits DEF SweepShape, Marks, Aborts, Deletes
<1>3. CASE calls' = <<>>
  <2>1. Aborts' /\ Deletes'
    BY <1>3, MakesNothing DEF Aborts, Deletes
  <2> QED BY <2>1 DEF SweepShape
<1>4. CASE JanitorCall /\ calls' # <<>>
  <2>1. UNCHANGED <<phase, at, try, row>> /\ calls # <<>>
    BY <1>4 DEF JanitorCall, upload, rows
  <2>2. Sweepable' = Sweepable
    BY <2>1 DEF Sweepable, Past
  <2>3. CASE calls' = Tail(calls) \/ calls' = SubSeq(calls, 3, Len(calls))
    BY <2>1, <2>2, <2>3, SweepOnward DEF SweepShape, Marks, Aborts, Deletes
  <2>4. CASE calls' = GivenUp(Head(calls)) /\ calls' # Tail(calls)
    <3> DEFINE c == Head(calls)
    <3>1. /\ phase # "pending" /\ c.do = "sync" /\ c.to \notin {c.of} \cup fs.now /\ Dir(c.to) = "journal"
          /\ calls' = <<Put(c.to, {}), Sync("journal")>>
      BY <1>4, <2>4 DEF GivenUp
    <3>2. phase # "objects" /\ c.to \in JournalFiles
      <4>1. CASE Marks /\ phase = "objects"
        <5>1. Within(c, {Reference(row)}, MarkedFiles(row))
          BY <2>1, <4>1, MakesTail DEF Marks
        <5>2. c.to \in StagedFiles(row)
          BY <3>1, <5>1 DEF Within, MarkedFiles, StagedFiles, ManifestsOf
        <5> QED BY <3>1, <5>2, DirsDiffer
      <4>2. CASE Aborts /\ phase = "objects"
        <5>1. Within(c, {}, Sweepable)
          BY <2>1, <4>2, RemovesOnward DEF Aborts
        <5>2. PICK b \in Tries : c.to \in StagedFiles(b)
          BY <3>1, <5>1 DEF Within, Sweepable, SweptFiles, StagedFiles
        <5> QED BY <3>1, <5>2, DirsDiffer
      <4>3. CASE Deletes /\ phase # "objects"
        <5>1. Within(c, JournalFiles, JournalFiles \cup SourceFiles)
          BY <2>1, <4>3, MakesTail DEF Deletes
        <5>2. c.to \in JournalFiles \cup SourceFiles
          BY <3>1, <5>1 DEF Within
        <5> QED BY <3>1, <4>3, <5>2, DirsDiffer
      <4> QED BY <4>1, <4>2, <4>3 DEF SweepShape
    <3>3. /\ Within(Put(c.to, {}), JournalFiles, JournalFiles \cup SourceFiles)
          /\ Within(Sync("journal"), JournalFiles, JournalFiles \cup SourceFiles)
      <4>1. {} \ {c.to} \subseteq JournalFiles \cup SourceFiles
        OBVIOUS
      <4> QED BY <3>2, <4>1, PutIs, SyncIs
    <3>4. Makes(calls', JournalFiles, JournalFiles \cup SourceFiles)
      BY <3>1, <3>3, MakesTwo
    <3> QED BY <2>1, <3>2, <3>4 DEF SweepShape, Deletes
  <2> QED BY <1>4, <2>3, <2>4 DEF JanitorCall
<1>5. CASE UNCHANGED <<phase, calls>>
  <2>1. CASE Marks /\ phase = "objects"
    <3>1. row' = row
      BY <2>1 DEF Marks, RowShape, Next, UploadStep, Begin, Scan, Open, Activate, Use, Finalize, Over, Call, SweepStep,
           Sweep, NextPhase, JanitorCall, Grow, Pass, Crash, vars, rows
    <3> QED BY <1>5, <2>1, <3>1 DEF SweepShape, Marks
  <2>2. CASE Aborts /\ phase = "objects"
    BY <1>1, <1>5, <2>2, MakesMore DEF SweepShape, Aborts
  <2>3. CASE Deletes /\ phase # "objects"
    BY <1>5, <2>3 DEF SweepShape, Deletes
  <2> QED BY <2>1, <2>2, <2>3 DEF SweepShape
<1>6. CASE NextPhase \/ Crash
  BY <1>3, <1>6 DEF NextPhase, Crash
<1>7. CASE UploadStep \/ Grow \/ Pass \/ UNCHANGED vars
  BY <1>5, <1>7 DEF UploadStep, Begin, Scan, Open, Activate, Use, Finalize, Over, Call, Grow, Pass, vars, janitor
<1> QED BY <1>2, <1>3, <1>4, <1>6, <1>7 DEF Next, SweepStep

LEMMA InitShapes == Init => Shapes
<1> SUFFICES ASSUME Init PROVE Shapes
  OBVIOUS
<1>1. UploadShape /\ LeftShape /\ RowShape
  BY DEF Init, UploadShape, Fits, LeftShape, RowShape
<1>2. SweepShape
  BY MakesNothing DEF Init, SweepShape, Deletes
<1>3. FilesShape
  BY DEF Init, FilesShape, Empty, Either
<1> QED BY <1>1, <1>2, <1>3, InitTyped DEF Shapes

LEMMA NextShapes ==
    ASSUME Shapes, [Next]_vars
    PROVE  Shapes'
BY NextTyped, NextUploadShape, NextSweepShape, NextLeftShape, NextRowShape, NextFilesShape DEF Shapes
-----------------------------------------------------------------------------
(* What programs ensure and clear as they go on *)

LEMMA MarkStays ==
    ASSUME NEW d, NEW c, c.do \in Dos, NEW s, IsProgram(s), NEW a, MarkGuard(d, s, a), Reference(a) \notin Removes(c)
    PROVE  MarkGuard(After(d, c), s, a)
<1>1. DOMAIN s \subseteq Nat
  BY ProgramIs
<1> QED BY <1>1, EnsuredStays DEF MarkGuard

LEMMA MarkOnward ==
    ASSUME NEW d, NEW s, IsProgram(s), s # <<>>, Head(s).do \in Dos, NEW a, MarkGuard(d, s, a),
           Reference(a) \notin Removes(Head(s))
    PROVE  MarkGuard(After(d, Head(s)), Tail(s), a)
<1>1. /\ Len(s) \in Nat \ {0} /\ DOMAIN s = 1..Len(s) /\ DOMAIN Tail(s) = 1..(Len(s) - 1)
      /\ \A i \in 1..(Len(s) - 1) : Tail(s)[i] = s[i + 1]
  BY TailIs
<1>2. ASSUME NEW i \in DOMAIN Tail(s), Object(a) \in Removes(Tail(s)[i])
      PROVE  Ensured(After(d, Head(s)), Tail(s), i, Reference(a))
  <2>1. i + 1 \in DOMAIN s /\ i \in 1..Len(s) /\ Tail(s)[i] = s[i + 1]
    BY <1>1, <1>2
  <2>2. Ensured(d, s, i + 1, Reference(a))
    BY <1>2, <2>1 DEF MarkGuard
  <2> QED BY <2>1, <2>2, EnsuredOnward
<1> QED BY <1>2 DEF MarkGuard

LEMMA NameStays ==
    ASSUME NEW d, NEW c, c.do \in Dos, NEW s, IsProgram(s), NEW a, NameGuard(d, s, a), Object(a) \notin Adds(c)
    PROVE  NameGuard(After(d, c), s, a)
<1>1. DOMAIN s \subseteq Nat
  BY ProgramIs
<1> QED BY <1>1, ClearedStays DEF NameGuard

LEMMA NameOnward ==
    ASSUME NEW d, NEW s, IsProgram(s), s # <<>>, Head(s).do \in Dos, NEW a, NameGuard(d, s, a),
           Object(a) \notin Adds(Head(s))
    PROVE  NameGuard(After(d, Head(s)), Tail(s), a)
<1>1. /\ Len(s) \in Nat \ {0} /\ DOMAIN s = 1..Len(s) /\ DOMAIN Tail(s) = 1..(Len(s) - 1)
      /\ \A i \in 1..(Len(s) - 1) : Tail(s)[i] = s[i + 1]
  BY TailIs
<1>2. ASSUME NEW i \in DOMAIN Tail(s), ManifestsOf(a) \cap Removes(Tail(s)[i]) # {},
             ManifestsOf(a) \cap Adds(Tail(s)[i]) = {}
      PROVE  Cleared(After(d, Head(s)), Tail(s), i, Object(a))
  <2>1. i + 1 \in DOMAIN s /\ i \in 1..Len(s) /\ Tail(s)[i] = s[i + 1]
    BY <1>1, <1>2
  <2>2. Cleared(d, s, i + 1, Object(a))
    BY <1>2, <2>1 DEF NameGuard
  <2> QED BY <2>1, <2>2, ClearedOnward
<1> QED BY <1>2 DEF NameGuard

LEMMA FirstIs ==
    ASSUME NEW d, NEW s, NEW f
    PROVE  /\ Ensured(d, s, 1, f) => f \in Firm(d)
           /\ Cleared(d, s, 1, f) => f \notin Either(d)
<1>1. 1 - 1 = 0 /\ \A k \in 1..0 : FALSE
  OBVIOUS
<1> QED BY <1>1 DEF Ensured, Cleared

LEMMA MarkFree ==
    ASSUME NEW d, NEW s, NEW A, NEW R, Makes(s, A, R), NEW a, Object(a) \notin R
    PROVE  MarkGuard(d, s, a)
BY DEF Makes, Within, MarkGuard

LEMMA NameFree ==
    ASSUME NEW d, NEW s, NEW A, NEW R, Makes(s, A, R), NEW a, ManifestsOf(a) \cap R = {}
    PROVE  NameGuard(d, s, a)
BY DEF Makes, Within, NameGuard

LEMMA KeptAfter ==
    ASSUME NEW d, NEW c, c.do \in Dos, NEW a, Kept(d, a), Reference(a) \notin Removes(c),
           Object(a) \in Removes(c) => Reference(a) \in Firm(d)
    PROVE  Kept(After(d, c), a)
<1>1. \A f : f \in Firm(d) /\ f \notin Removes(c) => f \in Firm(After(d, c))
  BY AfterIs DEF Firm
<1> QED BY <1>1 DEF Kept

LEMMA NamedAfter ==
    ASSUME NEW d, NEW c, c.do \in Dos, NEW a, Named(d, a),
           ManifestsOf(a) \cap Removes(c) # {} => Object(a) \notin Either(d) \/ ManifestsOf(a) \cap Adds(c) # {},
           Object(a) \in Adds(c) => ManifestsOf(a) \cap Firm(d) # {} /\ ManifestsOf(a) \cap Removes(c) = {}
    PROVE  Named(After(d, c), a)
<1> DEFINE e == After(d, c)
           M == ManifestsOf(a)
<1>1. /\ e.now = (d.now \ Removes(c)) \cup Adds(c)
      /\ c.do # "sync" => e.disk = d.disk
      /\ c.do = "sync" => /\ e.now = d.now
                          /\ \A f : f \in e.disk <=> IF Dir(f) = c.of[1] THEN f \in d.now ELSE f \in d.disk
  BY AfterIs
<1>2. Either(e) \subseteq Either(d) \cup Adds(c)
  BY EitherAfter
<1>3. \A f \in M : Dir(f) = "manifests"
  BY DirsAre DEF ManifestsOf
<1>4. Adds(c) # {} => c.do # "sync"
  BY DEF Adds
<1> HIDE DEF e, M
<1> SUFFICES ASSUME Object(a) \in Either(e)
             PROVE  M \cap e.now # {} /\ M \cap e.disk # {}
  BY DEF Named, e, M
<1>5. CASE Object(a) \in Adds(c)
  <2>1. M \cap Firm(d) # {} /\ M \cap Removes(c) = {}
    BY <1>5 DEF M
  <2> QED BY <1>1, <1>4, <1>5, <2>1 DEF Firm
<1>6. CASE Object(a) \notin Adds(c)
  <2>1. Object(a) \in Either(d)
    BY <1>2, <1>6
  <2>2. M \cap d.now # {} /\ M \cap d.disk # {}
    BY <2>1 DEF Named, M
  <2>3. CASE M \cap Adds(c) # {}
    BY <1>1, <1>4, <2>2, <2>3
  <2>4. CASE M \cap Removes(c) = {}
    <3>1. M \cap e.now # {}
      BY <1>1, <2>2, <2>4
    <3>2. M \cap e.disk # {}
      BY <1>1, <1>3, <2>2
    <3> QED BY <3>1, <3>2
  <2> QED BY <2>1, <2>3, <2>4 DEF M
<1> QED BY <1>5, <1>6
-----------------------------------------------------------------------------
(* The order in which the programs of an object make their calls *)

LEMMA PairIs ==
    ASSUME NEW b, NEW c
    PROVE  /\ IsProgram(<<b>>) /\ Len(<<b>>) = 1 /\ <<b>>[1] = b
           /\ IsProgram(<<b, c>>) /\ Len(<<b, c>>) = 2 /\ <<b, c>>[1] = b /\ <<b, c>>[2] = c
<1>1. /\ <<b>> \in Seq({b}) /\ Len(<<b>>) = 1 /\ <<b>>[1] = b
      /\ <<b, c>> \in Seq({b, c}) /\ Len(<<b, c>>) = 2 /\ <<b, c>>[1] = b /\ <<b, c>>[2] = c
  OBVIOUS
<1>2. IsProgram(<<b>>)
  BY <1>1 DEF IsProgram
<1>3. IsProgram(<<b, c>>)
  <2> DEFINE S == {b, c}
             t == <<b, c>>
  <2>1. t \in Seq(S)
    BY <1>1
  <2> HIDE DEF S, t
  <2>2. IsProgram(t)
    BY <2>1 DEF IsProgram
  <2> QED BY <2>2 DEF t
<1> QED BY <1>1, <1>2, <1>3

LEMMA OneMore ==
    ASSUME NEW s, IsProgram(s), NEW p, IsProgram(p), Len(p) = 1
    PROVE  /\ IsProgram(s \o p) /\ Len(s \o p) = Len(s) + 1 /\ (s \o p)[Len(s) + 1] = p[1]
           /\ \A i \in 1..Len(s) : (s \o p)[i] = s[i]
<1>1. IsProgram(s \o p) /\ Len(s \o p) = Len(s) + Len(p)
  BY JoinedIs
<1>3. \A i \in 1..Len(s) : (s \o p)[i] = s[i]
  BY JoinedIs
<1>4. \A i \in 1..Len(p) : (s \o p)[Len(s) + i] = p[i]
  BY JoinedIs
<1>2. 1 \in 1..Len(p)
  OBVIOUS
<1> QED BY <1>1, <1>2, <1>3, <1>4

LEMMA TwoMore ==
    ASSUME NEW s, IsProgram(s), NEW p, IsProgram(p), Len(p) = 2
    PROVE  /\ IsProgram(s \o p) /\ Len(s \o p) = Len(s) + 2
           /\ (s \o p)[Len(s) + 1] = p[1] /\ (s \o p)[Len(s) + 2] = p[2]
           /\ \A i \in 1..Len(s) : (s \o p)[i] = s[i]
<1>1. IsProgram(s \o p) /\ Len(s \o p) = Len(s) + Len(p)
  BY JoinedIs
<1>3. /\ \A i \in 1..Len(s) : (s \o p)[i] = s[i]
      /\ \A i \in 1..Len(p) : (s \o p)[Len(s) + i] = p[i]
  BY JoinedIs
<1>2. 1 \in 1..Len(p) /\ 2 \in 1..Len(p)
  OBVIOUS
<1> QED BY <1>1, <1>2, <1>3

\* The manifest comes before the object it names, and gives way only to one that binds it.
LEMMA StageIs ==
    ASSUME NEW a, NEW s, s = StageObject(a)
    PROVE  /\ IsProgram(s) /\ Len(s) = 9
           /\ s[1] = Create(ManifestPart(a)) /\ s[2] = Move(ManifestPart(a), Manifest(a, "only"), {})
           /\ s[3] = Sync("manifests")
           /\ s[4] = Create(ObjectPart(a)) /\ s[5] = Move(ObjectPart(a), Object(a), {}) /\ s[6] = Sync("staged")
           /\ s[7] = Create(ManifestPart(a))
           /\ s[8] = Move(ManifestPart(a), Manifest(a, "bound"), {Manifest(a, "only")}) /\ s[9] = Sync("manifests")
<1> DEFINE c1 == Create(ManifestPart(a))
           c2 == Move(ManifestPart(a), Manifest(a, "only"), {})
           c4 == Create(ObjectPart(a))
           c5 == Move(ObjectPart(a), Object(a), {})
           c8 == Move(ManifestPart(a), Manifest(a, "bound"), {Manifest(a, "only")})
           m == Sync("manifests")
           o == Sync("staged")
<1>1. s = <<c1>> \o <<c2, m>> \o <<c4>> \o <<c5, o>> \o <<c1>> \o <<c8, m>>
  BY DirsAre DEF StageObject, Publish
<1> HIDE DEF c1, c2, c4, c5, c8, m, o
<1> DEFINE t1 == <<c1>>
           p2 == <<c2, m>>
           p3 == <<c4>>
           p4 == <<c5, o>>
           p5 == <<c1>>
           p6 == <<c8, m>>
           t2 == t1 \o p2
           t3 == t2 \o p3
           t4 == t3 \o p4
           t5 == t4 \o p5
           t6 == t5 \o p6
<1>2. /\ IsProgram(t1) /\ Len(t1) = 1 /\ t1[1] = c1
      /\ IsProgram(p2) /\ Len(p2) = 2 /\ p2[1] = c2 /\ p2[2] = m
      /\ IsProgram(p3) /\ Len(p3) = 1 /\ p3[1] = c4
      /\ IsProgram(p4) /\ Len(p4) = 2 /\ p4[1] = c5 /\ p4[2] = o
      /\ IsProgram(p5) /\ Len(p5) = 1 /\ p5[1] = c1
      /\ IsProgram(p6) /\ Len(p6) = 2 /\ p6[1] = c8 /\ p6[2] = m
  BY PairIs
<1> HIDE DEF t1, p2, p3, p4, p5, p6
<1>3. /\ IsProgram(t2) /\ Len(t2) = 3
      /\ t2[1] = c1 /\ t2[2] = c2 /\ t2[3] = m
  <2>0. IsProgram(t1) /\ IsProgram(p2) /\ Len(p2) = 2
    BY <1>2
  <2>1. /\ IsProgram(t2) /\ Len(t2) = Len(t1) + 2
        /\ t2[Len(t1) + 1] = p2[1] /\ t2[Len(t1) + 2] = p2[2]
        /\ \A i \in 1..Len(t1) : t2[i] = t1[i]
    BY <2>0, TwoMore
  <2> QED BY <1>2, <2>1
<1> HIDE DEF t2
<1>4. /\ IsProgram(t3) /\ Len(t3) = 4
      /\ t3[1] = c1 /\ t3[2] = c2 /\ t3[3] = m /\ t3[4] = c4
  <2>0. IsProgram(t2) /\ IsProgram(p3) /\ Len(p3) = 1
    BY <1>2, <1>3
  <2>1. /\ IsProgram(t3) /\ Len(t3) = Len(t2) + 1
        /\ t3[Len(t2) + 1] = p3[1]
        /\ \A i \in 1..Len(t2) : t3[i] = t2[i]
    BY <2>0, OneMore
  <2> QED BY <1>2, <1>3, <2>1
<1> HIDE DEF t3
<1>5. /\ IsProgram(t4) /\ Len(t4) = 6
      /\ t4[1] = c1 /\ t4[2] = c2 /\ t4[3] = m /\ t4[4] = c4 /\ t4[5] = c5 /\ t4[6] = o
  <2>0. IsProgram(t3) /\ IsProgram(p4) /\ Len(p4) = 2
    BY <1>2, <1>4
  <2>1. /\ IsProgram(t4) /\ Len(t4) = Len(t3) + 2
        /\ t4[Len(t3) + 1] = p4[1] /\ t4[Len(t3) + 2] = p4[2]
        /\ \A i \in 1..Len(t3) : t4[i] = t3[i]
    BY <2>0, TwoMore
  <2> HIDE DEF t4
  <2>4. Len(t3) = 4
    BY <1>4
  <2>2. /\ Len(t4) = 6 /\ t4[5] = p4[1] /\ t4[6] = p4[2]
        /\ \A i \in 1..4 : t4[i] = t3[i]
    BY <2>1, <2>4
  <2>3. t4[1] = t3[1] /\ t4[2] = t3[2] /\ t4[3] = t3[3] /\ t4[4] = t3[4]
    BY <2>2
  <2>5. p4[1] = c5 /\ p4[2] = o
    BY <1>2
  <2> QED BY <1>4, <2>1, <2>2, <2>3, <2>5
<1> HIDE DEF t4
<1>6. /\ IsProgram(t5) /\ Len(t5) = 7
      /\ t5[1] = c1 /\ t5[2] = c2 /\ t5[3] = m /\ t5[4] = c4 /\ t5[5] = c5 /\ t5[6] = o /\ t5[7] = c1
  <2>0. IsProgram(t4) /\ IsProgram(p5) /\ Len(p5) = 1
    BY <1>2, <1>5
  <2>1. /\ IsProgram(t5) /\ Len(t5) = Len(t4) + 1
        /\ t5[Len(t4) + 1] = p5[1]
        /\ \A i \in 1..Len(t4) : t5[i] = t4[i]
    BY <2>0, OneMore
  <2> QED BY <1>2, <1>5, <2>1
<1> HIDE DEF t5
<1>7. /\ IsProgram(t6) /\ Len(t6) = 9
      /\ t6[1] = c1 /\ t6[2] = c2 /\ t6[3] = m /\ t6[4] = c4 /\ t6[5] = c5 /\ t6[6] = o /\ t6[7] = c1 /\ t6[8] = c8 /\ t6[9] = m
  <2>0. IsProgram(t5) /\ IsProgram(p6) /\ Len(p6) = 2
    BY <1>2, <1>6
  <2>1. /\ IsProgram(t6) /\ Len(t6) = Len(t5) + 2
        /\ t6[Len(t5) + 1] = p6[1] /\ t6[Len(t5) + 2] = p6[2]
        /\ \A i \in 1..Len(t5) : t6[i] = t5[i]
    BY <2>0, TwoMore
  <2> HIDE DEF t6
  <2>4. Len(t5) = 7
    BY <1>6
  <2>2. /\ Len(t6) = 9 /\ t6[8] = p6[1] /\ t6[9] = p6[2]
        /\ \A i \in 1..7 : t6[i] = t5[i]
    BY <2>1, <2>4
  <2>3. /\ t6[1] = t5[1] /\ t6[2] = t5[2] /\ t6[3] = t5[3] /\ t6[4] = t5[4]
        /\ t6[5] = t5[5] /\ t6[6] = t5[6] /\ t6[7] = t5[7]
    BY <2>2
  <2>5. p6[1] = c8 /\ p6[2] = m
    BY <1>2
  <2> QED BY <1>6, <2>1, <2>2, <2>3, <2>5
<1> HIDE DEF t6
<1>8. s = t6
  BY <1>1 DEF t1, t2, t3, t4, t5, t6, p2, p3, p4, p5, p6
<1> QED BY <1>7, <1>8 DEF c1, c2, c4, c5, c8, m, o

LEMMA StageStarts ==
    ASSUME NEW d, NEW a, NEW s, s = StageObject(a)
    PROVE  /\ Ensured(d, s, Len(s) + 1, Object(a)) /\ NameGuard(d, s, a)
           /\ \A i \in DOMAIN s :
                /\ Object(a) \in Adds(s[i]) => Ensured(d, s, i, Manifest(a, "only"))
                /\ Manifest(a, "only") \in Removes(s[i]) =>
                     /\ Manifest(a, "bound") \in Adds(s[i])
                     /\ \A j \in DOMAIN s : Object(a) \in Adds(s[j]) => j < i
<1>0. /\ IsProgram(s) /\ Len(s) = 9
      /\ s[1] = Create(ManifestPart(a)) /\ s[2] = Move(ManifestPart(a), Manifest(a, "only"), {})
      /\ s[3] = Sync("manifests")
      /\ s[4] = Create(ObjectPart(a)) /\ s[5] = Move(ObjectPart(a), Object(a), {}) /\ s[6] = Sync("staged")
      /\ s[7] = Create(ManifestPart(a))
      /\ s[8] = Move(ManifestPart(a), Manifest(a, "bound"), {Manifest(a, "only")}) /\ s[9] = Sync("manifests")
  BY StageIs
<1>1. /\ Adds(s[1]) = {ManifestPart(a)} /\ Adds(s[2]) = {Manifest(a, "only")} /\ Adds(s[3]) = {}
      /\ Adds(s[4]) = {ObjectPart(a)} /\ Adds(s[5]) = {Object(a)} /\ Adds(s[6]) = {}
      /\ Adds(s[7]) = {ManifestPart(a)} /\ Adds(s[8]) = {Manifest(a, "bound")} /\ Adds(s[9]) = {}
  <2>1. \A f : Adds(Create(f)) = {f}
    BY DEF Create, Adds
  <2>2. \A f, g, over : Adds(Move(f, g, over)) = {g}
    BY DEF Move, Adds
  <2> QED BY <1>0, <2>1, <2>2, SyncIs
<1>2. /\ Removes(s[1]) = {} /\ Removes(s[2]) = {ManifestPart(a)} \ {Manifest(a, "only")} /\ Removes(s[3]) = {}
      /\ Removes(s[4]) = {} /\ Removes(s[5]) = {ObjectPart(a)} \ {Object(a)} /\ Removes(s[6]) = {}
      /\ Removes(s[7]) = {} /\ Removes(s[9]) = {}
  <2>1. \A f : Removes(Create(f)) = {}
    BY DEF Create, Removes
  <2>2. \A f, g : Removes(Move(f, g, {})) = {f} \ {g}
    BY DEF Move, Removes, Adds
  <2> QED BY <1>0, <2>1, <2>2, SyncIs
<1>3. Syncs(s[3], "manifests") /\ Syncs(s[6], "staged")
  BY <1>0, SyncIs
<1>4. IsProgram(s) /\ Len(s) = 9 /\ DOMAIN s = 1..9
  BY <1>0, ProgramIs
<1>5. /\ Object(a) # ManifestPart(a) /\ Object(a) # ObjectPart(a) /\ Object(a) \notin ManifestsOf(a)
      /\ ManifestPart(a) \notin ManifestsOf(a) /\ ObjectPart(a) \notin ManifestsOf(a)
      /\ Manifest(a, "only") \in ManifestsOf(a) /\ Manifest(a, "bound") \in ManifestsOf(a)
      /\ Dir(Object(a)) = "staged" /\ Dir(Manifest(a, "only")) = "manifests"
  BY DEF ManifestsOf, ManifestPart, Manifest, ObjectPart, Object, Dir
<1>6. Ensured(d, s, Len(s) + 1, Object(a))
  <2>1. 6 \in 1..((Len(s) + 1) - 1) /\ 5 \in 1..(6 - 1)
    BY <1>4
  <2> QED BY <1>1, <1>3, <1>5, <2>1 DEF Ensured
<1>7. \A i \in DOMAIN s : Object(a) \in Adds(s[i]) => i = 5
  BY <1>1, <1>4, <1>5
<1>8. Ensured(d, s, 5, Manifest(a, "only"))
  <2>1. 3 \in 1..(5 - 1) /\ 2 \in 1..(3 - 1)
    OBVIOUS
  <2> QED BY <1>1, <1>3, <1>5, <2>1 DEF Ensured
<1>9. \A i \in DOMAIN s : ManifestsOf(a) \cap Removes(s[i]) # {} => i = 8
  BY <1>2, <1>4, <1>5
<1>10. NameGuard(d, s, a)
  BY <1>1, <1>5, <1>9 DEF NameGuard
<1>11. \A i \in DOMAIN s : Manifest(a, "only") \in Removes(s[i]) =>
         /\ Manifest(a, "bound") \in Adds(s[i])
         /\ \A j \in DOMAIN s : Object(a) \in Adds(s[j]) => j < i
  BY <1>1, <1>5, <1>7, <1>9
<1> QED BY <1>6, <1>7, <1>8, <1>10, <1>11

\* Where no link is in place, the staged name goes after the link is durable.
LEMMA MarkStarts ==
    ASSUME NEW a, ~(Here(Object(a)) /\ Here(Reference(a)))
    PROVE  MarkGuard(fs, MarkReferenced(a), a)
<1> DEFINE link == Link(Object(a), Reference(a))
           sync == Sync("referenced")
           rest == Erase(Object(a))
           bound == IF Bound(a) THEN Erase(Manifest(a, "bound")) ELSE <<>>
           s == MarkReferenced(a)
<1>1. CASE ~Here(Object(a))
  <2>1. s = <<>> \o bound
    BY <1>1 DEF MarkReferenced
  <2>2. Makes(bound, {}, {Manifest(a, "bound")}) /\ Makes(<<>>, {}, {Manifest(a, "bound")})
    BY MakesErase, MakesNothing
  <2> HIDE DEF bound, s
  <2>3. Makes(s, {}, {Manifest(a, "bound")})
    BY <2>1, <2>2, MakesJoined
  <2>4. Object(a) \notin {Manifest(a, "bound")}
    BY DirsAre
  <2>5. MarkGuard(fs, s, a)
    BY <2>3, <2>4, MarkFree
  <2> QED BY <2>5 DEF s
<1>2. CASE Here(Object(a))
  <2>1. s = <<link, sync>> \o rest \o bound
    BY <1>2 DEF MarkReferenced
  <2>2. Adds(link) = {Reference(a)} /\ Removes(link) = {} /\ Removes(sync) = {} /\ Syncs(sync, "referenced")
        /\ Dir(Reference(a)) = "referenced"
    BY LinkIs, SyncIs, DirsAre
  <2> DEFINE R == MarkedFiles(a)
  <2>3. Makes(rest, {}, R) /\ Makes(bound, {}, R)
    <3>1. Object(a) \in R /\ Manifest(a, "bound") \in R
      BY DEF MarkedFiles
    <3> HIDE DEF R
    <3> QED BY <3>1, MakesErase, MakesNothing
  <2> HIDE DEF link, sync, rest, bound, s, R
  <2>4. IsProgram(rest) /\ IsProgram(bound) /\ IsProgram(<<link, sync>>) /\ Len(<<link, sync>>) = 2
        /\ <<link, sync>>[1] = link /\ <<link, sync>>[2] = sync
    <3>1. <<link, sync>> \in Seq({link, sync})
      OBVIOUS
    <3> QED BY <2>3, <3>1 DEF Makes, IsProgram
  <2> DEFINE t == <<link, sync>> \o rest
  <2>5. IsProgram(t) /\ Len(t) \in Nat /\ Len(t) >= 2 /\ t[1] = link /\ t[2] = sync
    <3>1. Len(rest) \in Nat
      BY <2>4, ProgramIs
    <3>2. 1 \in 1..2 /\ 2 \in 1..2
      OBVIOUS
    <3>3. IsProgram(t) /\ Len(t) = 2 + Len(rest) /\ t[1] = link /\ t[2] = sync
      BY <2>4, <3>2, JoinedIs
    <3> QED BY <3>1, <3>3
  <2> HIDE DEF t
  <2>6. IsProgram(s) /\ s[1] = link /\ s[2] = sync
    <3>1. s = t \o bound
      BY <2>1 DEF t
    <3>2. 1 \in 1..Len(t) /\ 2 \in 1..Len(t)
      BY <2>5
    <3> QED BY <2>4, <2>5, <3>1, <3>2, JoinedIs
  <2>7. ASSUME NEW i \in DOMAIN s, Object(a) \in Removes(s[i])
        PROVE  Ensured(fs, s, i, Reference(a))
    <3>1. i \in Nat /\ i >= 1
      BY <2>6, ProgramIs
    <3>2. i # 1 /\ i # 2
      BY <2>2, <2>6, <2>7
    <3>3. 2 \in 1..(i - 1) /\ 1 \in 1..(2 - 1)
      BY <3>1, <3>2
    <3> QED BY <2>2, <2>6, <3>3 DEF Ensured
  <2> QED BY <2>7 DEF MarkGuard, s
<1> QED BY <1>1, <1>2

\* An object is erased, durably, before the manifest that names it.
LEMMA AbortStarts ==
    ASSUME NEW d, NEW a, NEW m \in ManifestsOf(a), NEW s, s = Erase(Object(a)) \o Erase(m)
    PROVE  NameGuard(d, s, a)
<1> DEFINE b == Unlink(Object(a))
           c == [Sync(Dir(Object(a))) EXCEPT !.to = Object(a)]
           e == Erase(m)
<1>1. s = <<b, c>> \o e
  BY DEF Erase
<1>2. Removes(b) = {Object(a)} /\ Removes(c) = {} /\ Syncs(c, Dir(Object(a)))
  BY UnlinkIs, EndIs
<1>3. Makes(e, {}, ManifestsOf(a))
  BY MakesErase
<1>4. Object(a) \notin ManifestsOf(a)
  BY DEF ManifestsOf, Object, Manifest
<1> HIDE DEF b, c, e
<1>5. /\ IsProgram(<<b, c>>) /\ Len(<<b, c>>) = 2 /\ <<b, c>>[1] = b /\ <<b, c>>[2] = c /\ IsProgram(e)
      /\ 1 \in 1..2 /\ 2 \in 1..2
  <2>1. /\ <<b, c>> \in Seq({b, c}) /\ Len(<<b, c>>) = 2 /\ <<b, c>>[1] = b /\ <<b, c>>[2] = c
        /\ 1 \in 1..2 /\ 2 \in 1..2
    OBVIOUS
  <2>2. IsProgram(<<b, c>>)
    BY <2>1 DEF IsProgram
  <2> QED BY <1>3, <2>1, <2>2 DEF Makes
<1>6. IsProgram(s) /\ s[1] = b /\ s[2] = c
  BY <1>1, <1>5, JoinedIs
<1>7. ASSUME NEW i \in DOMAIN s, ManifestsOf(a) \cap Removes(s[i]) # {}
      PROVE  Cleared(d, s, i, Object(a))
  <2>1. i \in Nat /\ i >= 1
    BY <1>6, ProgramIs
  <2>2. i # 1 /\ i # 2
    BY <1>2, <1>4, <1>6, <1>7
  <2>3. 2 \in 1..(i - 1) /\ 1 \in 1..(2 - 1)
    BY <2>1, <2>2
  <2> QED BY <1>2, <1>6, <2>3 DEF Cleared
<1> QED BY <1>7 DEF NameGuard

\* What the sweep calls touches nothing of an object that is being staged.
LEMMA SweepAside ==
    ASSUME Shapes, at = "staging", calls # <<>>, NEW f \in StagedFiles(try)
    PROVE  IsCall(Head(calls)) /\ f \notin Adds(Head(calls)) /\ f \notin Removes(Head(calls))
<1>1. row = 0 /\ SweepShape /\ TypeOK
  BY DEF Shapes, RowShape
<1>2. Dir(f) \in {"manifests", "staged"}
  BY DirsDiffer
<1>3. f \notin JournalFiles \cup SourceFiles
  BY <1>2, DirsDiffer
<1>4. f \notin Sweepable
  <2>1. SUFFICES ASSUME NEW b \in Tries, Past(b), f \in SweptFiles(b) PROVE FALSE
    BY DEF Sweepable
  <2>2. b # try
    BY <1>1, <2>1 DEF Past, TypeOK
  <2>3. f \in StagedFiles(b) /\ f \in StagedFiles(try)
    BY <2>1 DEF StagedFiles, SweptFiles
  <2> QED BY <2>2, <2>3, NamesDiffer
<1> QED BY <1>1, <1>3, <1>4, SweepOnward

LEMMA NextStaging ==
    ASSUME Shapes, StagingInv, [Next]_vars
    PROVE  StagingInv'
<1> SUFFICES ASSUME at' = "staging"
             PROVE  /\ Ensured(fs', todo', Len(todo') + 1, Object(try'))
                    /\ \A i \in DOMAIN todo' :
                         /\ Object(try') \in Adds(todo'[i]) => Ensured(fs', todo', i, Manifest(try', "only"))
                         /\ Manifest(try', "only") \in Removes(todo'[i]) =>
                              /\ Manifest(try', "bound") \in Adds(todo'[i])
                              /\ \A j \in DOMAIN todo' : Object(try') \in Adds(todo'[j]) => j < i
  BY DEF StagingInv
<1> DEFINE only == Manifest(try, "only")
           bound == Manifest(try, "bound")
           object == Object(try)
<1>0. only \in StagedFiles(try) /\ object \in StagedFiles(try)
  BY DEF StagedFiles, ManifestsOf
<1>1. CASE at # "staging"
  <2>1. Use
    BY <1>1 DEF Next, UploadStep, Begin, Scan, Open, Activate, Finalize, Over, Call, Handled, Doing,
         Ended, SweepStep, Sweep, NextPhase, JanitorCall, Grow, Pass, Crash, vars, upload
  <2>2. todo' = StageObject(try) /\ try' = try
    BY <2>1 DEF Use, Doing, Ended
  <2> QED BY <2>2, StageStarts
<1>2. CASE at = "staging"
  <2>1. /\ Ensured(fs, todo, Len(todo) + 1, object)
        /\ \A i \in DOMAIN todo :
             /\ object \in Adds(todo[i]) => Ensured(fs, todo, i, only)
             /\ only \in Removes(todo[i]) =>
                  bound \in Adds(todo[i]) /\ \A j \in DOMAIN todo : object \in Adds(todo[j]) => j < i
    BY <1>2 DEF StagingInv
  <2>2. Makes(todo, StagedFiles(try), Replaced(try)) /\ IsProgram(todo)
    BY <1>2 DEF Shapes, UploadShape, Fits, Makes
  <2>3. DOMAIN todo = 1..Len(todo) /\ Len(todo) \in Nat
    BY <2>2, ProgramIs
  <2>4. CASE todo # <<>> /\ fs' = After(fs, Head(todo)) /\ todo' = Tail(todo) /\ try' = try
    <3>0. IsCall(Head(todo)) /\ Removes(Head(todo)) \subseteq Replaced(try)
      BY <2>2, <2>4, MakesTail
    <3> DEFINE c == Head(todo)
    <3>1. IsCall(c) /\ c.do \in Dos /\ Removes(c) \subseteq Replaced(try)
      BY <3>0 DEF IsCall
    <3>2. object \notin Removes(c)
      BY <3>1 DEF Replaced, ManifestPart, ObjectPart, Object, Manifest
    <3>3. /\ Len(todo) \in Nat \ {0} /\ c = todo[1] /\ Len(todo') = Len(todo) - 1
          /\ DOMAIN todo' = 1..(Len(todo) - 1)
          /\ \A i \in 1..(Len(todo) - 1) : todo'[i] = todo[i + 1]
      BY <2>2, <2>4, TailIs
    <3> HIDE DEF only, bound, object
    <3>4. Ensured(fs', todo', Len(todo') + 1, object)
      <4>1. Len(todo) \in 1..Len(todo) /\ Len(todo') + 1 = Len(todo)
        BY <3>3
      <4>2. Ensured(fs', todo', Len(todo), object)
        BY <2>1, <2>2, <2>4, <3>1, <3>2, <4>1, EnsuredOnward
      <4> QED BY <4>1, <4>2
    <3>5. ASSUME NEW i \in DOMAIN todo', object \in Adds(todo'[i])
          PROVE  Ensured(fs', todo', i, only)
      <4>1. i + 1 \in DOMAIN todo /\ i \in 1..Len(todo) /\ 1 \in DOMAIN todo /\ object \in Adds(todo[i + 1])
        BY <2>3, <3>3, <3>5
      <4>2. Ensured(fs, todo, i + 1, only)
        BY <2>1, <4>1
      <4>3. only \notin Removes(c)
        <5>1. ~(i + 1 < 1)
          BY <4>1
        <5> QED BY <2>1, <3>3, <4>1, <5>1
      <4> QED BY <2>2, <2>4, <3>1, <4>1, <4>2, <4>3, EnsuredOnward
    <3>6. ASSUME NEW i \in DOMAIN todo', only \in Removes(todo'[i])
          PROVE  bound \in Adds(todo'[i]) /\ \A j \in DOMAIN todo' : object \in Adds(todo'[j]) => j < i
      <4>1. i + 1 \in DOMAIN todo /\ only \in Removes(todo[i + 1]) /\ todo'[i] = todo[i + 1]
        BY <2>3, <3>3, <3>6
      <4>2. bound \in Adds(todo[i + 1]) /\ \A j \in DOMAIN todo : object \in Adds(todo[j]) => j < i + 1
        BY <2>1, <4>1
      <4>3. ASSUME NEW j \in DOMAIN todo', object \in Adds(todo'[j]) PROVE j < i
        <5>1. j + 1 \in DOMAIN todo /\ object \in Adds(todo[j + 1])
          BY <2>3, <3>3, <4>3
        <5>2. j + 1 < i + 1
          BY <4>2, <5>1
        <5> QED BY <3>3, <5>2
      <4> QED BY <4>1, <4>2, <4>3
    <3> QED BY <2>4, <3>4, <3>5, <3>6 DEF only, bound, object
  <2>5. CASE calls # <<>> /\ fs' = After(fs, Head(calls)) /\ UNCHANGED upload
    <3>1. Head(calls).do \in Dos /\ only \notin Removes(Head(calls)) /\ object \notin Removes(Head(calls))
      BY <1>0, <1>2, <2>5, SweepAside DEF IsCall
    <3>2. todo' = todo /\ try' = try
      BY <2>5 DEF upload
    <3> HIDE DEF only, bound, object
    <3>3. Ensured(fs', todo, Len(todo) + 1, object)
      <4>1. Len(todo) + 1 \in Nat
        BY <2>3
      <4> QED BY <2>1, <2>5, <3>1, <4>1, EnsuredStays
    <3>4. \A i \in DOMAIN todo : object \in Adds(todo[i]) => Ensured(fs', todo, i, only)
      <4>1. \A i \in DOMAIN todo : i \in Nat
        BY <2>3
      <4> QED BY <2>1, <2>5, <3>1, <4>1, EnsuredStays
    <3> QED BY <2>1, <3>2, <3>3, <3>4 DEF only, bound, object
  <2>6. CASE fs' = fs /\ ~(todo # <<>> /\ fs' = After(fs, Head(todo)) /\ todo' = Tail(todo) /\ try' = try)
    <3>1. ~(todo # <<>> /\ Overtaken(Head(todo)))
      <4>1. SUFFICES ASSUME todo # <<>>, Overtaken(Head(todo)) PROVE FALSE
        OBVIOUS
      <4>2. Head(todo).to \in StagedFiles(try)
        BY <2>2, <4>1, MakesTail DEF Overtaken, Adds
      <4> QED BY <4>1, <4>2, DirsDiffer DEF Overtaken
    <3>2. todo' = todo /\ try' = try
      <4>1. CASE Call
        <5>1. CASE Handled
          BY <1>2, <5>1 DEF Handled, Doing
        <5> QED BY <2>6, <3>1, <4>1, <5>1 DEF Call, Doing
      <4>2. CASE ~Call
        BY <1>2, <2>6, <4>2 DEF Next, UploadStep, Begin, Scan, Open, Activate, Use, Finalize, Over, Doing,
           Ended, SweepStep, Sweep, NextPhase, JanitorCall, Grow, Pass, Crash, vars, upload
      <4> QED BY <4>1, <4>2
    <3> QED BY <2>1, <2>6, <3>2
  <2> QED BY <1>2, <2>4, <2>5, <2>6, FilesMove DEF Shapes, upload, rows
<1> QED BY <1>1, <1>2
-----------------------------------------------------------------------------
(* The guards of a program that a step starts, or goes on with elsewhere *)

Called ==
    /\ todo # <<>> /\ fs' = After(fs, Head(todo)) /\ todo' = Tail(todo)
    /\ UNCHANGED <<at, try, janitor, rows, linked, bounds>>
SweepCalled ==
    /\ calls # <<>> /\ fs' = After(fs, Head(calls)) /\ calls' = Tail(calls)
    /\ UNCHANGED <<upload, phase, left, trouble, rows, linked, bounds>>

\* Nothing of the objects of a is removed.
Spares(s, a) == \E A, R : Makes(s, A, R) /\ R \cap SweptFiles(a) = {}

LEMMA SparesGuards ==
    ASSUME NEW s, NEW a, Spares(s, a), NEW d
    PROVE  MarkGuard(d, s, a) /\ NameGuard(d, s, a)
<1>1. PICK A, R : Makes(s, A, R) /\ R \cap SweptFiles(a) = {}
  BY DEF Spares
<1>2. Object(a) \notin R /\ ManifestsOf(a) \cap R = {}
  BY <1>1 DEF SweptFiles
<1> QED BY <1>1, <1>2, MarkFree, NameFree

LEMMA SparesFar ==
    ASSUME NEW s, NEW a, NEW A, NEW R, Makes(s, A, R), R \subseteq JournalFiles \cup SourceFiles
    PROVE  Spares(s, a)
<1>1. \A f \in SweptFiles(a) : f \in StagedFiles(a)
  BY DEF SweptFiles, StagedFiles
<1>2. R \cap SweptFiles(a) = {}
  BY <1>1, DirsDiffer
<1> QED BY <1>2 DEF Spares

LEMMA SparesNone == ASSUME NEW a PROVE Spares(<<>>, a)
<1>1. Makes(<<>>, SourceFiles, SourceFiles)
  BY MakesNothing
<1> QED BY <1>1, SparesFar

LEMMA SparesOther ==
    ASSUME NEW s, NEW a, NEW b, a # b, NEW A, NEW R, Makes(s, A, R), R \subseteq StagedFiles(b)
    PROVE  Spares(s, a)
<1>1. \A f \in SweptFiles(a) : f \in StagedFiles(a)
  BY DEF SweptFiles, StagedFiles
<1>2. R \cap SweptFiles(a) = {}
  BY <1>1, NamesDiffer
<1> QED BY <1>2 DEF Spares

LEMMA SparesSwept ==
    ASSUME NEW s, NEW a, Makes(s, {}, Sweepable), a = row \/ ~Past(a)
    PROVE  Spares(s, a)
<1>1. \A b \in {e \in Tries \ {row} : Past(e)} : b # a
  OBVIOUS
<1>2. \A f \in SweptFiles(a) : f \in StagedFiles(a)
  BY DEF SweptFiles, StagedFiles
<1>3. \A b : \A f \in SweptFiles(b) : f \in StagedFiles(b)
  BY DEF SweptFiles, StagedFiles
<1>4. Sweepable \cap SweptFiles(a) = {}
  <2>1. SUFFICES ASSUME NEW b \in {e \in Tries \ {row} : Past(e)}, NEW f \in SweptFiles(b), f \in SweptFiles(a)
                 PROVE  FALSE
    BY DEF Sweepable
  <2>2. b # a
    BY <1>1
  <2>3. f \in StagedFiles(b) /\ f \in StagedFiles(a)
    BY <1>2, <1>3, <2>1
  <2> QED BY <2>2, <2>3, NamesDiffer
<1> QED BY <1>4 DEF Spares

\* A link that is in place already is one to a reference.
LEMMA OvertakenIs ==
    ASSUME Shapes
    PROVE  /\ todo # <<>> /\ Overtaken(Head(todo)) => at = "marking"
           /\ calls # <<>> /\ Overtaken(Head(calls)) =>
                phase = "objects" /\ row # 0 /\ Makes(SubSeq(calls, 3, Len(calls)), {Reference(row)}, MarkedFiles(row))
<1> USE DEF Shapes
<1>1. ASSUME todo # <<>>, Overtaken(Head(todo)), at # "marking" PROVE FALSE
  <2>1. Adds(Head(todo)) \subseteq SourceFiles \cup StagedFiles(try)
    BY <1>1, FitsOnward DEF UploadShape, TypeOK
  <2>2. Head(todo).to \in SourceFiles \cup StagedFiles(try)
    BY <1>1, <2>1 DEF Overtaken, Adds
  <2> QED BY <1>1, <2>2, DirsDiffer DEF Overtaken
<1>2. ASSUME calls # <<>>, Overtaken(Head(calls))
      PROVE  phase = "objects" /\ row # 0 /\ Makes(SubSeq(calls, 3, Len(calls)), {Reference(row)}, MarkedFiles(row))
  <2>1. Head(calls).to \in Adds(Head(calls)) /\ Dir(Head(calls).to) = "referenced"
    BY <1>2 DEF Overtaken, Adds
  <2>2. Head(calls).to \notin JournalFiles
    BY <2>1, DirsDiffer
  <2> QED BY <1>2, <2>1, <2>2, SweepOnward
<1> QED BY <1>1, <1>2

Guarded(s, a) ==
    /\ a = row' /\ ~linked' => MarkGuard(fs', s, a)
    /\ a # row' => NameGuard(fs', s, a)

LEMMA UploadGuards ==
    ASSUME Shapes, [Next]_vars, NEW a \in Tries
    PROVE  todo' = todo \/ Called \/ Guarded(todo', a)
<1> SUFFICES ASSUME todo' # todo, ~Called PROVE Guarded(todo', a)
  OBVIOUS
<1> USE DEF Shapes
<1>1. Fits(at', todo', try', row') /\ RowShape' /\ at' \in Activities
  BY NextUploadShape, NextRowShape, NextTyped DEF UploadShape, TypeOK
<1>2. Spares(todo', a) => Guarded(todo', a)
  BY SparesGuards DEF Guarded
<1>3. CASE at' \in {"idle", "open", "using", "clean"}
  <2>1. todo' = <<>>
    BY <1>1, <1>3 DEF Fits
  <2> QED BY <1>2, <2>1, SparesNone
<1>4. CASE at' \in {"spooling", "publishing", "rolling"}
  <2>1. /\ SpoolFiles \subseteq JournalFiles \cup SourceFiles
        /\ SourceParts \cup SpoolFiles \subseteq JournalFiles \cup SourceFiles
        /\ SourceFiles \subseteq JournalFiles \cup SourceFiles
    BY DEF SourceFiles
  <2>2. \/ Makes(todo', SpoolFiles, SpoolFiles) \/ Makes(todo', SourceParts \cup Triplet, SourceParts \cup SpoolFiles)
        \/ Makes(todo', {}, SourceFiles)
    BY <1>1, <1>4 DEF Fits
  <2>3. Spares(todo', a)
    <3>1. CASE Makes(todo', SpoolFiles, SpoolFiles)
      BY <2>1, <3>1, SparesFar
    <3>2. CASE Makes(todo', SourceParts \cup Triplet, SourceParts \cup SpoolFiles)
      <4> DEFINE A == SourceParts \cup Triplet
                 R == SourceParts \cup SpoolFiles
      <4>1. Makes(todo', A, R) /\ R \subseteq JournalFiles \cup SourceFiles
        BY <2>1, <3>2
      <4> HIDE DEF A, R
      <4> QED BY <4>1, SparesFar
    <3>3. CASE Makes(todo', {}, SourceFiles)
      <4> DEFINE A == {}
      <4>1. Makes(todo', A, SourceFiles)
        BY <3>3
      <4> HIDE DEF A
      <4> QED BY <2>1, <4>1, SparesFar
    <3> QED BY <2>2, <3>1, <3>2, <3>3
  <2> QED BY <1>2, <2>3
<1>5. ASSUME todo # <<>>, Call PROVE \/ /\ Overtaken(Head(todo)) /\ at' = at /\ linked' = TRUE /\ row' = row
                                     \/ Handled /\ fs' = fs /\ row' = row
  BY <1>5 DEF Call, Called, Doing, rows, bounds
<1>6. ~UNCHANGED todo
  OBVIOUS
<1>7. CASE at' = "staging"
  <2>1. ~Call
    BY <1>5, <1>7, OvertakenIs DEF Handled, Doing, Ended, Call
  <2>2. Use /\ todo' = StageObject(try)
    BY <1>6, <1>7, <2>1 DEF Next, UploadStep, Begin, Scan, Open, Activate, Use, Finalize, Over, Doing,
           Ended, SweepStep, Sweep, NextPhase, JanitorCall, Grow, Pass, Crash, vars, upload
  <2>3. row' = 0 /\ a # 0
    BY <1>1, <1>7 DEF RowShape, Tries
  <2>4. NameGuard(fs', todo', a)
    <3>1. CASE a = try
      BY <2>2, <3>1, StageStarts
    <3>2. CASE a # try
      <4>1. Makes(todo', StagedFiles(try), Replaced(try)) /\ Replaced(try) \subseteq StagedFiles(try)
        BY <2>2, StageMakes DEF Replaced, StagedFiles, ManifestsOf
      <4>2. Spares(todo', a)
        BY <3>2, <4>1, SparesOther
      <4> QED BY <4>2, SparesGuards
    <3> QED BY <3>1, <3>2
  <2> QED BY <2>3, <2>4 DEF Guarded
<1>8. CASE at' = "unstaging"
  <2> DEFINE R == {ManifestPart(try'), ObjectPart(try'), Object(try')}
             A == {}
  <2>1. Makes(todo', A, R)
    BY <1>1, <1>8 DEF Fits
  <2>2. row' = 0 /\ a # 0
    BY <1>1, <1>8 DEF RowShape, Tries
  <2>3. ManifestsOf(a) \cap R = {}
    BY DEF ManifestsOf, Manifest, ManifestPart, ObjectPart, Object
  <2> HIDE DEF A, R
  <2>4. NameGuard(fs', todo', a)
    BY <2>1, <2>3, NameFree
  <2> QED BY <2>2, <2>4 DEF Guarded
<1>9. CASE at' = "marking"
  <2>1. CASE a # row'
    <3> DEFINE A == {Reference(row')}
    <3>1. Makes(todo', A, MarkedFiles(row')) /\ MarkedFiles(row') \subseteq StagedFiles(row')
      BY <1>1, <1>9 DEF Fits, MarkedFiles, StagedFiles, ManifestsOf
    <3> HIDE DEF A
    <3>2. Spares(todo', a)
      BY <2>1, <3>1, SparesOther
    <3> QED BY <1>2, <3>2
  <2>2. CASE a = row' /\ Call
    BY <1>5, <1>9, <2>2 DEF Handled, Doing, Ended, Guarded, Call
  <2>3. CASE a = row' /\ Begin
    <3>1. row' = row /\ fs' = fs /\ todo' = MarkReferenced(row)
          /\ (~linked' => ~(Here(Object(row)) /\ Here(Reference(row))))
      BY <1>9, <2>3 DEF Begin, Doing, Ended, rows
    <3> QED BY <2>3, <3>1, MarkStarts DEF Guarded
  <2>4. CASE a = row' /\ Finalize
    <3>1. row' = try /\ row = 0 /\ fs' = fs /\ todo' = MarkReferenced(try)
      BY <1>9, <2>4 DEF Finalize, Doing, Ended, RowShape
    <3>2. ~Here(Reference(try))
      BY <2>4, <3>1 DEF FilesShape, Here, Either, Tries
    <3> QED BY <2>4, <3>1, <3>2, MarkStarts DEF Guarded
  <2>5. CASE ~Call /\ ~Begin /\ ~Finalize
    BY <1>6, <1>9, <2>5 DEF Next, UploadStep, Scan, Open, Activate, Use, Over, Doing,
           Ended, SweepStep, Sweep, NextPhase, JanitorCall, Grow, Pass, Crash, vars, upload
  <2> QED BY <2>1, <2>2, <2>3, <2>4, <2>5
<1>10. CASE at' = "aborting"
  <2>1. ~Call
    BY <1>5, <1>10, OvertakenIs DEF Handled, Doing, Ended, Call
  <2>2. Finalize /\ todo' = AbortStaged(try)
    BY <1>6, <1>10, <2>1 DEF Next, UploadStep, Begin, Scan, Open, Activate, Use, Finalize, Over, Doing,
           Ended, SweepStep, Sweep, NextPhase, JanitorCall, Grow, Pass, Crash, vars, upload
  <2>3. row' = 0 /\ a # 0
    BY <1>1, <1>10 DEF RowShape, Tries
  <2>4. NameGuard(fs', todo', a)
    <3>1. CASE a = try
      <4>1. CASE Bound(try)
        <5>1. todo' = Erase(Object(try)) \o Erase(Manifest(try, "bound")) /\ Manifest(try, "bound") \in ManifestsOf(try)
          BY <2>2, <4>1 DEF AbortStaged, ManifestsOf
        <5> QED BY <3>1, <5>1, AbortStarts
      <4>2. CASE ~Bound(try)
        <5>1. todo' = <<>>
          BY <2>2, <4>2 DEF AbortStaged
        <5> QED BY <5>1, SparesNone, SparesGuards
      <4> QED BY <4>1, <4>2
    <3>2. CASE a # try
      <4> DEFINE A == {}
      <4>1. Makes(todo', A, MarkedFiles(try)) /\ MarkedFiles(try) \subseteq StagedFiles(try)
        BY <2>2, AbortMakes DEF MarkedFiles, StagedFiles, ManifestsOf
      <4> HIDE DEF A
      <4>2. Spares(todo', a)
        BY <3>2, <4>1, SparesOther
      <4> QED BY <4>2, SparesGuards
    <3> QED BY <3>1, <3>2
  <2> QED BY <2>3, <2>4 DEF Guarded
<1> QED BY <1>1, <1>3, <1>4, <1>7, <1>8, <1>9, <1>10 DEF Activities

\* What a sweep of an object starts.
LEMMA SweptIs ==
    ASSUME Shapes, phase = "objects", NEW f \in left, NEW p \in Swept(f)
    PROVE  \/ p = <<>>
           \/ row # 0 /\ f[3] = row /\ p = MarkReferenced(row)
           \/ \E b \in Tries \ {row} : \E m \in ManifestsOf(b) : Past(b) /\ p = Erase(Object(b)) \o Erase(m)
<1> USE DEF Shapes
<1>1. PICK a \in Tries : f \in ManifestsOf(a)
  BY DEF LeftShape, Manifests
<1>2. f[3] = a
  BY <1>1 DEF ManifestsOf, Manifest
<1>3. PICK answer \in IsReferenced(a) : p = SweepObject(a, answer)
  BY <1>2 DEF Swept
<1>4. SUFFICES ASSUME p # <<>> PROVE \/ row # 0 /\ f[3] = row /\ p = MarkReferenced(row)
                                     \/ \E b \in Tries \ {row} : \E m \in ManifestsOf(b) :
                                            Past(b) /\ p = Erase(Object(b)) \o Erase(m)
  OBVIOUS
<1>5. Past(a)
  BY <1>3, <1>4, OldIsPast DEF SweepObject
<1>6. CASE answer = "yes"
  BY <1>2, <1>3, <1>4, <1>6 DEF IsReferenced, Ask, SweepObject, Tries
<1>7. CASE answer = "no"
  <2>1. row # a
    BY <1>3, <1>7 DEF IsReferenced, Ask
  <2>2. \/ p = Erase(Object(a)) \o Erase(Manifest(a, "bound"))
        \/ p = Erase(Object(a)) \o Erase(Manifest(a, "only"))
    BY <1>3, <1>4, <1>7 DEF SweepObject, AbortStaged
  <2>3. Manifest(a, "bound") \in ManifestsOf(a) /\ Manifest(a, "only") \in ManifestsOf(a)
    BY DEF ManifestsOf
  <2> QED BY <1>5, <2>1, <2>2, <2>3
<1> QED BY <1>3, <1>4, <1>6, <1>7 DEF SweepObject

LEMMA SweepGuards ==
    ASSUME Shapes, [Next]_vars, NEW a \in Tries
    PROVE  calls' = calls \/ SweepCalled \/ Guarded(calls', a)
<1> SUFFICES ASSUME calls' # calls, ~SweepCalled PROVE Guarded(calls', a)
  OBVIOUS
<1> USE DEF Shapes
<1>1. Spares(calls', a) => Guarded(calls', a)
  BY SparesGuards DEF Guarded
<1>2. CASE calls' = <<>>
  BY <1>1, <1>2, SparesNone
<1>3. CASE \E f \in left : Sweep(f)
  <2>1. PICK f \in left : Sweep(f)
    BY <1>3
  <2>2. calls' \in Swept(f) /\ UNCHANGED <<fs, phase, row, at, try>>
    BY <2>1 DEF Sweep, upload, rows
  <2>3. CASE phase # "objects"
    <3>1. Makes(calls', JournalFiles, JournalFiles \cup SourceFiles)
      BY <2>2, <2>3, SweptFits
    <3> DEFINE R == JournalFiles \cup SourceFiles
    <3>2. Makes(calls', JournalFiles, R) /\ R \subseteq JournalFiles \cup SourceFiles
      BY <3>1
    <3> HIDE DEF R
    <3> QED BY <1>1, <3>2, SparesFar
  <2>4. CASE phase = "objects" /\ row # 0 /\ f[3] = row /\ calls' = MarkReferenced(row)
    <3>1. CASE a = row
      <4>1. ~linked' => ~(Here(Object(row)) /\ Here(Reference(row)))
        BY <2>1, <2>4 DEF Sweep
      <4> QED BY <2>2, <2>4, <3>1, <4>1, MarkStarts DEF Guarded
    <3>2. CASE a # row
      <4> DEFINE A == {Reference(row)}
      <4>1. Makes(calls', A, MarkedFiles(row)) /\ MarkedFiles(row) \subseteq StagedFiles(row)
        BY <2>4, MarkMakes DEF MarkedFiles, StagedFiles, ManifestsOf
      <4> HIDE DEF A
      <4> QED BY <1>1, <3>2, <4>1, SparesOther
    <3> QED BY <3>1, <3>2
  <2>5. ASSUME NEW b \in Tries \ {row}, NEW m \in ManifestsOf(b), calls' = Erase(Object(b)) \o Erase(m)
        PROVE  Guarded(calls', a)
    <3>1. CASE a = b
      <4>1. NameGuard(fs', calls', a)
        BY <2>5, <3>1, AbortStarts
      <4> QED BY <2>2, <3>1, <4>1 DEF Guarded
    <3>2. CASE a # b
      <4> DEFINE R == {Object(b)} \cup ManifestsOf(b)
                 A == {}
      <4>1. Object(b) \in R /\ m \in R /\ R \subseteq StagedFiles(b)
        BY DEF StagedFiles
      <4> HIDE DEF R, A
      <4>2. Makes(Erase(Object(b)), A, R) /\ Makes(Erase(m), A, R)
        BY <4>1, MakesErase
      <4>3. Makes(calls', A, R)
        BY <2>5, <4>2, MakesJoined
      <4> QED BY <1>1, <3>2, <4>1, <4>3, SparesOther
    <3> QED BY <3>1, <3>2
  <2> QED BY <1>2, <2>2, <2>3, <2>4, <2>5, SweptIs
<1>4. CASE JanitorCall /\ calls' # <<>>
  <2>1. CASE Overtaken(Head(calls)) /\ linked' = TRUE /\ calls' = SubSeq(calls, 3, Len(calls))
    <3>1. row' = row /\ calls # <<>>
      BY <1>4 DEF JanitorCall, rows
    <3>2. CASE a = row
      BY <2>1, <3>1, <3>2 DEF Guarded
    <3>3. CASE a # row
      <4> DEFINE A == {Reference(row)}
      <4>1. Makes(calls', A, MarkedFiles(row)) /\ MarkedFiles(row) \subseteq StagedFiles(row)
        BY <2>1, <3>1, OvertakenIs DEF MarkedFiles, StagedFiles, ManifestsOf
      <4> HIDE DEF A
      <4> QED BY <1>1, <3>3, <4>1, SparesOther
    <3> QED BY <3>2, <3>3
  <2>2. CASE calls' = GivenUp(Head(calls)) /\ phase = "pending"
    <3> DEFINE R == JournalFiles \cup SourceFiles
    <3>1. Makes(calls', JournalFiles, R)
      BY <1>4, <2>2, NextSweepShape DEF SweepShape, Deletes, JanitorCall
    <3>2. R \subseteq JournalFiles \cup SourceFiles
      OBVIOUS
    <3> HIDE DEF R
    <3> QED BY <1>1, <3>1, <3>2, SparesFar
  <2>3. CASE calls' = GivenUp(Head(calls)) /\ phase # "pending"
    <3> DEFINE g == Head(calls).to
               A == {g}
               R == {}
    <3>1. calls' = <<Put(g, {}), Sync("journal")>>
      BY <1>4, <2>3 DEF GivenUp
    <3>2. {} \ {g} \subseteq R /\ g \in A /\ R \subseteq JournalFiles \cup SourceFiles
      OBVIOUS
    <3>3. Within(Put(g, {}), A, R) /\ Within(Sync("journal"), A, R)
      <4> HIDE DEF A, R, g
      <4> QED BY <3>2, PutIs, SyncIs
    <3> HIDE DEF A, R, g
    <3>4. Makes(calls', A, R)
      BY <3>1, <3>3, MakesTwo
    <3> QED BY <1>1, <3>2, <3>4, SparesFar
  <2> QED BY <1>4, <2>1, <2>2, <2>3 DEF JanitorCall, SweepCalled, rows, bounds
<1>5. CASE NextPhase \/ Crash
  BY <1>2, <1>5 DEF NextPhase, Crash
<1>6. CASE UploadStep \/ Grow \/ Pass \/ UNCHANGED vars
  BY <1>6 DEF UploadStep, Begin, Scan, Open, Activate, Use, Finalize, Over, Call, Grow, Pass, vars, janitor
<1> QED BY <1>2, <1>3, <1>4, <1>5, <1>6 DEF Next, SweepStep
-----------------------------------------------------------------------------
(* The invariants of the objects *)

LEMMA CallsSpare ==
    ASSUME Shapes, at = "staging"
    PROVE  Spares(calls, try)
<1>1. row = 0 /\ ~Past(try) /\ SweepShape
  BY DEF Shapes, RowShape, Past, TypeOK
<1>2. CASE Aborts
  BY <1>1, <1>2, SparesSwept DEF Aborts
<1>3. CASE Deletes
  <2> DEFINE R == JournalFiles \cup SourceFiles
  <2>1. Makes(calls, JournalFiles, R) /\ R \subseteq JournalFiles \cup SourceFiles
    BY <1>3 DEF Deletes
  <2> HIDE DEF R
  <2> QED BY <2>1, SparesFar
<1> QED BY <1>1, <1>2, <1>3 DEF SweepShape, Marks

LEMMA StagingGuard ==
    ASSUME NEW a, NEW s, Makes(s, StagedFiles(a), Replaced(a)), NEW d,
           \A i \in DOMAIN s : Manifest(a, "only") \in Removes(s[i]) => Manifest(a, "bound") \in Adds(s[i])
    PROVE  NameGuard(d, s, a)
<1>1. \A f \in Replaced(a) \cap ManifestsOf(a) : f = Manifest(a, "only")
  BY DEF Replaced, ManifestsOf, ManifestPart, Manifest, ObjectPart
<1>2. \A i \in DOMAIN s : Removes(s[i]) \subseteq Replaced(a)
  BY DEF Makes, Within
<1>3. Manifest(a, "bound") \in ManifestsOf(a)
  BY DEF ManifestsOf
<1> QED BY <1>1, <1>2, <1>3 DEF NameGuard

\* The flag is never taken back, and the row stays with the attempt it names.
LEMMA RowStays ==
    ASSUME Shapes, [Next]_vars
    PROVE  /\ ~linked' => ~linked
           /\ row' = row \/ (Finalize /\ row = 0 /\ row' = try /\ at = "staging" /\ todo = <<>> /\ todo' = MarkReferenced(try))
<1> USE DEF Shapes
<1>1. CASE Finalize
  BY <1>1 DEF Finalize, RowShape, Doing
<1>2. CASE Begin \/ (\E f \in left : Sweep(f))
  BY <1>2 DEF Begin, Sweep, rows, TypeOK
<1>3. CASE Call \/ JanitorCall
  BY <1>3 DEF Call, JanitorCall, rows, TypeOK
<1>4. CASE Scan \/ Open \/ Activate \/ Use \/ Over \/ NextPhase \/ Grow \/ Pass \/ Crash \/ UNCHANGED vars
  BY <1>4 DEF Scan, Open, Activate, Use, Over, NextPhase, Grow, Pass, Crash, vars, rows
<1> QED BY <1>1, <1>2, <1>3, <1>4 DEF Next, UploadStep, SweepStep

\* What a step of a call leaves of the guards of the other program, and of this one.
LEMMA NextKept ==
    ASSUME Shapes, StagingInv, KeptInv, [Next]_vars
    PROVE  KeptInv'
<1> SUFFICES ASSUME row' # 0, ~linked'
             PROVE  Kept(fs', row') /\ MarkGuard(fs', todo', row') /\ MarkGuard(fs', calls', row')
  BY DEF KeptInv
<1> USE DEF Shapes
<1>0. row' \in Tries
  BY NextTyped DEF TypeOK, Tries
<1>1. CASE row' # row
  <2>1. /\ Finalize /\ row = 0 /\ row' = try /\ at = "staging" /\ todo = <<>> /\ todo' = MarkReferenced(try)
        /\ fs' = fs /\ calls' = calls
    BY <1>1, RowStays DEF Finalize, janitor
  <2>2. Kept(fs, try)
    <3>1. Ensured(fs, todo, 1, Object(try))
      <4>1. Len(todo) + 1 = 1
        BY <2>1
      <4> QED BY <2>1, <4>1 DEF StagingInv
    <3> QED BY <3>1, FirstIs DEF Kept
  <2>3. ~Here(Reference(try))
    BY <1>0, <2>1 DEF FilesShape, Here, Either, Tries
  <2>4. MarkGuard(fs, MarkReferenced(try), try)
    BY <2>3, MarkStarts
  <2>5. MarkGuard(fs, calls, try)
    BY <2>1, CallsSpare, SparesGuards
  <2> QED BY <2>1, <2>2, <2>4, <2>5
<1>2. CASE row' = row
  <2>1. /\ row # 0 /\ Kept(fs, row) /\ MarkGuard(fs, todo, row) /\ MarkGuard(fs, calls, row)
    BY <1>2, RowStays DEF KeptInv
  <2>2. \A a, b : Reference(a) \notin SourceFiles \cup JournalFiles \cup StagedFiles(b)
    BY DirsAre, DirsDiffer
  <2>3. \A s : IsProgram(s) /\ s # <<>> => 1 \in DOMAIN s /\ Head(s) = s[1]
    BY TailIs
  <2>4. IsProgram(calls) /\ IsProgram(todo)
    <3>1. IsProgram(<<>>)
      BY MakesNothing DEF Makes
    <3> QED BY <3>1, SweepOnward, FitsOnward DEF TypeOK, UploadShape
  <2>5. CASE Called
    <3> DEFINE c == Head(todo)
    <3>1. c.do \in Dos /\ Reference(row) \notin Removes(c)
      <4>1. IsCall(c) /\ Removes(c) \subseteq SourceFiles \cup StagedFiles(try) \cup StagedFiles(row)
        BY <2>5, FitsOnward DEF Called, TypeOK, UploadShape
      <4> QED BY <2>2, <4>1 DEF IsCall
    <3>2. Object(row) \in Removes(c) => Reference(row) \in Firm(fs)
      BY <2>1, <2>3, <2>4, <2>5, FirstIs DEF Called, MarkGuard
    <3>3. fs' = After(fs, c) /\ todo' = Tail(todo) /\ todo # <<>> /\ calls' = calls
      BY <2>5 DEF Called, janitor
    <3>4. Kept(After(fs, c), row)
      BY <2>1, <3>1, <3>2, KeptAfter
    <3>5. MarkGuard(After(fs, c), Tail(todo), row)
      BY <2>1, <2>4, <3>1, <3>3, MarkOnward
    <3>6. MarkGuard(After(fs, c), calls, row)
      BY <2>1, <2>4, <3>1, MarkStays
    <3> QED BY <1>2, <3>3, <3>4, <3>5, <3>6
  <2>6. CASE SweepCalled
    <3> DEFINE c == Head(calls)
    <3>1. c.do \in Dos /\ Reference(row) \notin Removes(c)
      <4>1. MarkedFiles(row) \subseteq StagedFiles(row)
        BY DEF MarkedFiles, StagedFiles, ManifestsOf
      <4>2. Reference(row) \notin Sweepable
        BY <2>2 DEF Sweepable, SweptFiles, StagedFiles
      <4> QED BY <2>2, <2>6, <4>1, <4>2, SweepOnward DEF SweepCalled, IsCall
    <3>2. Object(row) \in Removes(c) => Reference(row) \in Firm(fs)
      BY <2>1, <2>3, <2>4, <2>6, FirstIs DEF SweepCalled, MarkGuard
    <3>3. fs' = After(fs, c) /\ calls' = Tail(calls) /\ calls # <<>> /\ todo' = todo
      BY <2>6 DEF SweepCalled, upload
    <3>4. Kept(After(fs, c), row)
      BY <2>1, <3>1, <3>2, KeptAfter
    <3>5. MarkGuard(After(fs, c), Tail(calls), row)
      BY <2>1, <2>4, <3>1, <3>3, MarkOnward
    <3>6. MarkGuard(After(fs, c), todo, row)
      BY <2>1, <2>4, <3>1, MarkStays
    <3> QED BY <1>2, <3>3, <3>4, <3>5, <3>6
  <2>7. CASE fs'.now = fs.now /\ fs'.disk = fs.disk /\ todo' = todo /\ calls' = calls
    <3>1. Kept(fs', row)
      BY <2>1, <2>7 DEF Kept, Firm
    <3>2. MarkGuard(fs', todo, row) /\ MarkGuard(fs', calls, row)
      BY <2>1, <2>7 DEF MarkGuard, Ensured, Firm
    <3> QED BY <1>2, <2>7, <3>1, <3>2
  <2>8. CASE fs' \in Remains(fs) /\ todo' = <<>> /\ calls' = <<>>
    <3>1. Firm(fs) \subseteq Firm(fs')
      BY <2>8, FilesType DEF Firm
    <3>2. Kept(fs', row)
      BY <2>1, <3>1 DEF Kept
    <3>3. MarkGuard(fs', <<>>, row)
      BY SparesNone, SparesGuards
    <3> QED BY <1>2, <2>8, <3>2, <3>3
  <2>9. CASE fs' = fs /\ ~Called /\ ~SweepCalled
    <3>1. MarkGuard(fs', todo', row')
      <4>1. todo' = todo \/ Guarded(todo', row')
        BY <1>0, <2>9, UploadGuards
      <4> QED BY <1>2, <2>1, <2>9, <4>1 DEF Guarded
    <3>2. MarkGuard(fs', calls', row')
      <4>1. calls' = calls \/ Guarded(calls', row')
        BY <1>0, <2>9, SweepGuards
      <4> QED BY <1>2, <2>1, <2>9, <4>1 DEF Guarded
    <3> QED BY <1>2, <2>1, <2>9, <3>1, <3>2
  <2> QED BY <2>5, <2>6, <2>7, <2>8, <2>9, FilesMove DEF Called, SweepCalled, upload, janitor
<1> QED BY <1>1, <1>2

LEMMA NamedRemains ==
    ASSUME NEW d, NEW a, Named(d, a), NEW e \in Remains(d)
    PROVE  Named(e, a)
<1>1. PICK gone, kept : /\ kept = {f \in d.now : Dir(f) \notin gone} \cup {f \in d.disk : Dir(f) \in gone}
                        /\ e = [now |-> kept, disk |-> kept, young |-> d.young \cap kept]
  BY DEF Remains
<1>2. e.now = kept /\ e.disk = kept /\ kept \subseteq Either(d)
  BY <1>1 DEF Either
<1>3. \A f \in ManifestsOf(a) : Dir(f) = "manifests"
  BY DirsAre DEF ManifestsOf
<1>4. ManifestsOf(a) \cap d.now # {} /\ ManifestsOf(a) \cap d.disk # {} => ManifestsOf(a) \cap kept # {}
  BY <1>1, <1>3
<1> QED BY <1>2, <1>4 DEF Named, Either

LEMMA NextNamed ==
    ASSUME Shapes, StagingInv, NamedInv, [Next]_vars
    PROVE  NamedInv'
<1> SUFFICES ASSUME NEW a \in Tries \ {row'}
             PROVE  Named(fs', a) /\ NameGuard(fs', todo', a) /\ NameGuard(fs', calls', a)
  BY DEF NamedInv, Tries
<1> USE DEF Shapes
<1>1. a # row
  BY RowStays DEF Tries
<1>2. Named(fs, a) /\ NameGuard(fs, todo, a) /\ NameGuard(fs, calls, a)
  BY <1>1 DEF NamedInv
<1>3. Object(a) \in StagedFiles(a) /\ \A f \in StagedFiles(a) : f \notin SourceFiles \cup JournalFiles \cup {Reference(row)}
  <2>1. \A f \in StagedFiles(a) : Dir(f) \in {"manifests", "staged"}
    BY DirsDiffer
  <2>2. Dir(Reference(row)) = "referenced"
    BY DirsAre
  <2> QED BY <2>1, <2>2, DirsDiffer DEF StagedFiles
<1>4. \A s : IsProgram(s) /\ s # <<>> => 1 \in DOMAIN s /\ Head(s) = s[1]
  BY TailIs
<1>5. IsProgram(calls) /\ IsProgram(todo)
  <2>1. IsProgram(<<>>)
    BY MakesNothing DEF Makes
  <2> QED BY <2>1, SweepOnward, FitsOnward DEF TypeOK, UploadShape
<1>6. CASE Called
  <2> DEFINE c == Head(todo)
  <2>1. /\ IsCall(c) /\ Adds(c) \subseteq SourceFiles \cup StagedFiles(try) \cup {Reference(row)}
        /\ at # "staging" => Adds(c) \subseteq SourceFiles \cup {Reference(row)}
    BY <1>6, FitsOnward DEF Called, TypeOK, UploadShape
  <2>2. c.do \in Dos
    BY <2>1 DEF IsCall
  <2>3. fs' = After(fs, c) /\ todo' = Tail(todo) /\ todo # <<>> /\ calls' = calls /\ 1 \in DOMAIN todo /\ c = todo[1]
    BY <1>4, <1>5, <1>6 DEF Called, janitor
  <2>4. ManifestsOf(a) \cap Removes(c) # {} => Object(a) \notin Either(fs) \/ ManifestsOf(a) \cap Adds(c) # {}
    BY <1>2, <2>3, FirstIs DEF NameGuard
  <2>5. CASE Object(a) \notin Adds(c)
    <3>1. Named(After(fs, c), a)
      BY <1>2, <2>2, <2>4, <2>5, NamedAfter
    <3>2. NameGuard(After(fs, c), Tail(todo), a)
      BY <1>2, <1>5, <2>2, <2>3, <2>5, NameOnward
    <3>3. NameGuard(After(fs, c), calls, a)
      BY <1>2, <1>5, <2>2, <2>5, NameStays
    <3> QED BY <2>3, <3>1, <3>2, <3>3
  <2>6. CASE Object(a) \in Adds(c)
    <3>1. at = "staging" /\ a = try
      <4>1. Object(a) \in StagedFiles(try) /\ at = "staging"
        BY <1>3, <2>1, <2>6
      <4> QED BY <1>3, <4>1, NamesDiffer
    <3>2. Makes(todo, StagedFiles(a), Replaced(a))
      BY <3>1 DEF UploadShape, Fits
    <3>3. Ensured(fs, todo, 1, Manifest(a, "only")) /\ Manifest(a, "only") \notin Removes(c)
      <4>1. Ensured(fs, todo, 1, Manifest(a, "only"))
        BY <2>3, <2>6, <3>1 DEF StagingInv
      <4>2. ~(1 < 1)
        OBVIOUS
      <4>3. Manifest(a, "only") \notin Removes(c)
        BY <2>3, <2>6, <3>1, <4>2 DEF StagingInv
      <4> QED BY <4>1, <4>3
    <3>4. ManifestsOf(a) \cap Removes(c) = {}
      <4>1. Removes(c) \subseteq Replaced(a)
        BY <2>3, <3>2, MakesTail
      <4>2. \A f \in Replaced(a) \cap ManifestsOf(a) : f = Manifest(a, "only")
        BY DEF Replaced, ManifestsOf, ManifestPart, Manifest, ObjectPart
      <4> QED BY <3>3, <4>1, <4>2
    <3>5. ManifestsOf(a) \cap Firm(fs) # {}
      <4>1. Manifest(a, "only") \in Firm(fs)
        BY <3>3, FirstIs
      <4> QED BY <4>1 DEF ManifestsOf
    <3>6. Named(After(fs, c), a)
      BY <1>2, <2>2, <3>4, <3>5, NamedAfter
    <3>7. NameGuard(After(fs, c), Tail(todo), a)
      <4>1. Makes(todo', StagedFiles(a), Replaced(a))
        BY <2>3, <3>2, MakesTail
      <4>2. \A i \in DOMAIN todo' : Manifest(a, "only") \in Removes(todo'[i]) => Manifest(a, "bound") \in Adds(todo'[i])
        <5>1. StagingInv' /\ at' = "staging" /\ try' = try
          BY <1>6, <3>1, NextStaging DEF Called
        <5> QED BY <3>1, <5>1 DEF StagingInv
      <4> QED BY <2>3, <4>1, <4>2, StagingGuard
    <3>8. NameGuard(After(fs, c), calls, a)
      BY <3>1, CallsSpare, SparesGuards
    <3> QED BY <2>3, <3>6, <3>7, <3>8
  <2> QED BY <2>5, <2>6
<1>7. CASE SweepCalled
  <2> DEFINE c == Head(calls)
  <2>1. IsCall(c) /\ Adds(c) \subseteq JournalFiles \cup {Reference(row)}
    BY <1>7, SweepOnward DEF SweepCalled
  <2>2. c.do \in Dos /\ Object(a) \notin Adds(c)
    BY <1>3, <2>1 DEF IsCall
  <2>3. fs' = After(fs, c) /\ calls' = Tail(calls) /\ calls # <<>> /\ todo' = todo /\ 1 \in DOMAIN calls /\ c = calls[1]
    BY <1>4, <1>5, <1>7 DEF SweepCalled, upload
  <2>4. ManifestsOf(a) \cap Removes(c) # {} => Object(a) \notin Either(fs) \/ ManifestsOf(a) \cap Adds(c) # {}
    BY <1>2, <2>3, FirstIs DEF NameGuard
  <2>5. Named(After(fs, c), a)
    BY <1>2, <2>2, <2>4, NamedAfter
  <2>6. NameGuard(After(fs, c), Tail(calls), a)
    BY <1>2, <1>5, <2>2, <2>3, NameOnward
  <2>7. NameGuard(After(fs, c), todo, a)
    BY <1>2, <1>5, <2>2, NameStays
  <2> QED BY <2>3, <2>5, <2>6, <2>7
<1>8. CASE fs'.now = fs.now /\ fs'.disk = fs.disk /\ todo' = todo /\ calls' = calls
  <2>1. Named(fs', a)
    BY <1>2, <1>8 DEF Named, Either
  <2>2. NameGuard(fs', todo, a) /\ NameGuard(fs', calls, a)
    BY <1>2, <1>8 DEF NameGuard, Cleared, Either
  <2> QED BY <1>8, <2>1, <2>2
<1>9. CASE fs' \in Remains(fs) /\ todo' = <<>> /\ calls' = <<>>
  <2>1. Named(fs', a)
    BY <1>2, <1>9, NamedRemains
  <2>2. NameGuard(fs', <<>>, a)
    BY SparesNone, SparesGuards
  <2> QED BY <1>9, <2>1, <2>2
<1>10. CASE fs' = fs /\ ~Called /\ ~SweepCalled
  <2>1. NameGuard(fs', todo', a)
    <3>1. todo' = todo \/ Guarded(todo', a)
      BY <1>10, UploadGuards
    <3> QED BY <1>2, <1>10, <3>1 DEF Guarded
  <2>2. NameGuard(fs', calls', a)
    <3>1. calls' = calls \/ Guarded(calls', a)
      BY <1>10, SweepGuards
    <3> QED BY <1>2, <1>10, <3>1 DEF Guarded
  <2> QED BY <1>2, <1>10, <2>1, <2>2
<1> QED BY <1>6, <1>7, <1>8, <1>9, <1>10, FilesMove DEF Called, SweepCalled, upload, janitor

LEMMA InitObjects == Init => ObjectInv
<1> SUFFICES ASSUME Init PROVE ObjectInv
  OBVIOUS
<1>1. StagingInv /\ KeptInv
  BY DEF Init, StagingInv, KeptInv
<1>2. ASSUME NEW a \in Tries
      PROVE  Named(fs, a) /\ NameGuard(fs, todo, a) /\ NameGuard(fs, calls, a)
  <2>1. Named(fs, a)
    BY DEF Init, Empty, Named, Either
  <2>2. NameGuard(fs, <<>>, a)
    BY SparesNone, SparesGuards
  <2> QED BY <2>1, <2>2 DEF Init
<1> QED BY <1>1, <1>2, InitShapes DEF ObjectInv, NamedInv

LEMMA NextObjects ==
    ASSUME ObjectInv, [Next]_vars
    PROVE  ObjectInv'
BY NextShapes, NextStaging, NextKept, NextNamed DEF ObjectInv

\* Whatever fails and whenever the power does: the shapes of the programs, and what they
\* leave of the objects between two of their calls.
THEOREM ObjectInvariant == Spec => []ObjectInv
<1>1. ObjectInv /\ [Next]_vars => ObjectInv'
  BY NextObjects
<1> QED BY InitObjects, <1>1, PTL DEF Spec

\* put_staged writes the manifest before the object, abort_staged and the sweep take the
\* object before the manifest: no object stays without a name that leads to it, in what is
\* seen and in what a power loss leaves, but for the one that the row names.
THEOREM ObjectsNamed == Spec => []ObjectIsNamed
<1>1. ObjectInv => ObjectIsNamed
  <2> SUFFICES ASSUME ObjectInv, NEW a \in Tries \ {row}, NEW files \in {fs.now, fs.disk}, Object(a) \in files
               PROVE  ManifestsOf(a) \cap files # {}
    BY DEF ObjectIsNamed
  <2> QED BY DEF ObjectInv, NamedInv, Named, Either
<1> QED BY <1>1, ObjectInvariant, PTL

\* mark_referenced links and syncs the reference before the staged name goes, and a sweep
\* of the same object does so too: unless one of them found a link in place, the object of
\* the row is on disk under one of its names after every call and every power loss.
THEOREM FirstReferenceKept == Spec => []FirstReferenceIsKept
<1>1. ObjectInv => FirstReferenceIsKept
  BY DEF ObjectInv, KeptInv, Kept, Firm, FirstReferenceIsKept, ReferencedIsKept
<1> QED BY <1>1, ObjectInvariant, PTL
-----------------------------------------------------------------------------
(* The source: while the reservation is fresh, nothing is swept *)

\* What a call does not name is seen as before, and is not new on disk.
LEMMA SameAfter ==
    ASSUME NEW d, NEW c, c.do \in Dos, NEW f, f \notin Adds(c), f \notin Removes(c)
    PROVE  /\ f \in After(d, c).now <=> f \in d.now
           /\ f \in Either(After(d, c)) => f \in Either(d)
           /\ f \in Firm(d) => f \in Firm(After(d, c))
           /\ f \in After(d, c).disk /\ f \notin d.disk => f \in d.now
BY AfterIs DEF Either, Firm

LEMMA YoungAll ==
    ASSUME NEW d, NEW c, IsCall(c), Possible(d, c), Either(d) \subseteq d.young
    PROVE  Either(After(d, c)) \subseteq After(d, c).young
<1>1. c.do \in Dos /\ (c.do = "unlink" => c.to = c.of)
  BY DEF IsCall
<1>2. Either(After(d, c)) \subseteq Either(d) \cup Adds(c)
  BY <1>1, EitherAfter
<1> SUFFICES ASSUME NEW f \in Either(After(d, c)) PROVE f \in Renewed(d, c)
  BY DEF After, Either
<1>3. CASE c.do = "sync"
  BY <1>2, <1>3 DEF Renewed, Adds
<1>4. CASE c.do # "sync" /\ f # c.to
  BY <1>2, <1>4 DEF Renewed, Adds
<1>5. CASE c.do # "sync" /\ f = c.to
  <2>1. c.do \in {"create", "put"} \/ c.of \in d.young
    <3>1. CASE c.do \in {"move", "link"}
      BY <3>1 DEF Possible, Either
    <3>2. CASE c.do = "unlink"
      BY <1>1, <1>2, <1>5, <3>2 DEF Adds
    <3> QED BY <1>1, <1>5, <3>1, <3>2 DEF Dos
  <2> QED BY <1>5, <2>1 DEF Renewed, Aged
<1> QED BY <1>3, <1>4, <1>5

\* Time goes one way, and faults are counted.
LEMMA EarlyBefore ==
    ASSUME TypeOK, [Next]_vars
    PROVE  /\ Early' => Early
           /\ time' # "over" => time # "over"
           /\ failures' = 0 => failures = 0
           /\ clean => clean'
<1>1. CASE Begin \/ Scan \/ Activate \/ Use \/ Finalize \/ Over
  BY <1>1 DEF Begin, Scan, Activate, Use, Finalize, Over, Doing, Ended, rows, bounds, Early
<1>2. CASE Open
  BY <1>2 DEF Open, Doing, Ended, bounds, Early
<1>3. CASE Call
  BY <1>3 DEF Call, Handled, Doing, Ended, Early, TypeOK
<1>4. CASE JanitorCall
  BY <1>4 DEF JanitorCall, rows, upload, Early, TypeOK
<1>5. CASE (\E f \in left : Sweep(f)) \/ NextPhase \/ Grow \/ UNCHANGED vars
  BY <1>5 DEF Sweep, NextPhase, Grow, vars, rows, upload, bounds, Early
<1>6. CASE Pass
  BY <1>6 DEF Pass, upload, bounds, Early
<1>7. CASE Crash
  BY <1>7 DEF Crash, Ended, Doing, rows, Early
<1> QED BY <1>1, <1>2, <1>3, <1>4, <1>5, <1>6, <1>7 DEF Next, UploadStep, SweepStep

LEMMA NextReceipt ==
    ASSUME Shapes, ReceiptInv, [Next]_vars
    PROVE  ReceiptInv'
<1> USE DEF Shapes
<1>1. CASE Begin
  BY <1>1 DEF Begin, Doing, Ended, rows, ReceiptInv, NoReceipt
<1>2. CASE Scan
  BY <1>2 DEF Scan, Doing, ReceiptInv
<1>3. CASE Open
  BY <1>3 DEF Open, Doing, Ended, Claimed, Failed, ReceiptInv, TypeOK
<1>4. CASE Activate
  BY <1>4 DEF Activate, Doing, ReceiptInv
<1>5. CASE Use \/ Finalize
  BY <1>5 DEF Use, Finalize, Doing, Ended, ReceiptInv
<1>6. CASE Over
  BY <1>6 DEF Over, Doing, Ended, rows, ReceiptInv
<1>7. CASE Call
  <2>1. CASE at' = at /\ receipt' = receipt
    BY <1>7, <2>1 DEF Call, ReceiptInv
  <2>2. CASE Handled /\ Failed
    <3>1. receipt'.status # "publishing"
      BY <2>2 DEF Failed, TypeOK
    <3>2. at' \notin {"publishing", "clean", "staging", "marking", "aborting"} /\ (at' = "unstaging" => at = "staging")
      BY <2>2 DEF Handled, Doing, Ended
    <3>3. clean' = clean /\ row' = row
      BY <1>7 DEF Call
    <3> QED BY <3>1, <3>2, <3>3 DEF ReceiptInv
  <2> QED BY <1>7, <2>1, <2>2 DEF Call, Doing
<1>8. CASE NextPhase
  BY <1>8 DEF NextPhase, Forgettable, Expired, upload, ReceiptInv, NoReceipt
<1>9. CASE Pass
  BY <1>9 DEF Pass, upload, ReceiptInv
<1>10. CASE Crash
  BY <1>10 DEF Crash, Ended, Doing, rows, ReceiptInv
<1>11. CASE (\E f \in left : Sweep(f)) \/ JanitorCall \/ Grow \/ UNCHANGED vars
  BY <1>11 DEF Sweep, JanitorCall, Grow, vars, rows, upload, ReceiptInv
<1> QED BY <1>1, <1>2, <1>3, <1>4, <1>5, <1>6, <1>7, <1>8, <1>9, <1>10, <1>11 DEF Next, UploadStep, SweepStep

\* What is young is not swept, and a reservation that is fresh has no deletion to resume.
LEMMA EarlySwept ==
    ASSUME Shapes, EarlyInv, ReceiptInv, Early, NEW f \in left, NEW p \in Swept(f)
    PROVE  p = <<>>
<1> USE DEF Shapes
<1>1. \A g : ~Old(g)
  BY DEF EarlyInv, Either, Old, Here
<1>2. time # "over" /\ ~Expired
  BY DEF Early, ReceiptInv, Expired
<1>3. phase # "journals" /\ phase # "rest"
  BY DEF EarlyInv, LeftShape
<1>4. CASE phase = "objects"
  BY <1>1, <1>4 DEF Swept, SweepObject
<1>5. CASE phase = "pending"
  BY <1>2, <1>5 DEF Swept, Discard
<1>6. CASE phase \in {"parts", "commits", "records", "payloads", "expired"}
  BY <1>1, <1>2, <1>6 DEF Swept, SweepCommit, SweepRecord, SweepPayload, SweepExpired
<1> QED BY <1>3, <1>4, <1>5, <1>6 DEF TypeOK, Phases

LEMMA NextEarly ==
    ASSUME Shapes, EarlyInv, ReceiptInv, [Next]_vars
    PROVE  EarlyInv'
<1> SUFFICES ASSUME Early'
             PROVE  /\ Either(fs') \subseteq fs'.young /\ Either(fs') \cap JournalFiles = {} /\ calls' = <<>>
                    /\ phase' = "journals" => left' = {}
  BY DEF EarlyInv, JournalFiles, SourceFiles, SpoolFiles
<1> USE DEF Shapes
<1>1. Early
  BY EarlyBefore
<1>2. /\ Either(fs) \subseteq fs.young /\ Either(fs) \cap JournalFiles = {} /\ calls = <<>>
      /\ phase = "journals" => left = {}
  BY <1>1 DEF EarlyInv
<1>3. Either(fs') \subseteq fs'.young /\ Either(fs') \cap JournalFiles = {}
  <2>1. CASE todo # <<>> /\ Possible(fs, Head(todo)) /\ fs' = After(fs, Head(todo))
    <3>1. /\ IsCall(Head(todo)) /\ Adds(Head(todo)) \subseteq SourceFiles \cup StagedFiles(try) \cup {Reference(row)}
      BY <2>1, FitsOnward DEF TypeOK, UploadShape
    <3>2. Adds(Head(todo)) \cap JournalFiles = {}
      <4>1. Dir(Reference(row)) = "referenced"
        BY DirsAre
      <4> QED BY <3>1, <4>1, DirsDiffer
    <3>3. Either(fs') \subseteq Either(fs) \cup Adds(Head(todo))
      BY <2>1, <3>1, EitherAfter DEF IsCall
    <3> QED BY <1>2, <2>1, <3>1, <3>2, <3>3, YoungAll
  <2>2. CASE fs' \in Remains(fs)
    <3>1. fs'.now = fs'.disk /\ fs'.young = fs.young \cap fs'.now /\ fs'.now \subseteq Either(fs)
      BY <2>2, FilesType
    <3> QED BY <1>2, <3>1 DEF Either
  <2>3. CASE fs' = fs
    BY <1>2, <2>3
  <2> QED BY <1>1, <1>2, <2>1, <2>2, <2>3, FilesMove
<1>4. calls' = <<>> /\ (phase' = "journals" => left' = {})
  <2>1. CASE \E f \in left : Sweep(f)
    <3>1. calls' = <<>>
      BY <1>1, <2>1, EarlySwept DEF Sweep
    <3> QED BY <1>2, <2>1, <3>1 DEF Sweep
  <2>2. CASE NextPhase
    <3>1. Journals = {}
      BY <1>2 DEF Journals, FilesShape, Either
    <3> QED BY <1>2, <2>2, <3>1 DEF NextPhase, Listed
  <2>3. CASE JanitorCall
    BY <1>2, <2>3 DEF JanitorCall
  <2>4. CASE UploadStep \/ Grow \/ Pass \/ UNCHANGED vars
    BY <1>2, <2>4 DEF UploadStep, Begin, Scan, Open, Activate, Use, Finalize, Over, Call, Grow, Pass, vars, janitor
  <2>5. CASE Crash
    BY <2>5 DEF Crash
  <2> QED BY <2>1, <2>2, <2>3, <2>4, <2>5 DEF Next, SweepStep
<1> QED BY <1>3, <1>4
-----------------------------------------------------------------------------
(* The source: what the uploads and the sweep of the objects leave alone *)

FormalFiles == SourceParts \cup Triplet \cup JournalFiles
Far(s) == \A i \in DOMAIN s : FormalFiles \cap (Adds(s[i]) \cup Removes(s[i])) = {}
Alike(d, e) == \A f \in FormalFiles :
    /\ f \in e.now <=> f \in d.now
    /\ f \in e.disk => f \in Either(d)
    /\ f \in Firm(d) => f \in Firm(e)

LEMMA TakenIs ==
    /\ Taken \subseteq FormalFiles /\ {Intent, Done} \subseteq JournalFiles /\ Intents \subseteq Taken
    /\ Triplet \subseteq FormalFiles /\ Intent \in Taken /\ {Payload, Record, Commit} = Triplet
<1>1. Triplet \subseteq SourceFiles
  BY DEF SourceFiles
<1>2. {Journal(g, "intent") : g \in Triplet} \subseteq JournalFiles /\ Done \in JournalFiles
  BY <1>1 DEF JournalFiles, Done, Triplet
<1> QED BY <1>2 DEF Taken, Triplet, FormalFiles, Intent, Intents

LEMMA FormalIs ==
    /\ \A f \in FormalFiles : f \notin SpoolFiles
    /\ \A a : \A f \in FormalFiles : f \notin StagedFiles(a) /\ f # Reference(a)
<1>1. \A f \in FormalFiles : Dir(f) \in {"payloads", "records", "commits", "journal"}
  BY DirsAre, DirsDiffer DEF FormalFiles, SourceParts, Triplet
<1>2. \A f \in SpoolFiles : Dir(f) = "spool"
  BY DirsAre DEF SpoolFiles
<1>3. \A a : Dir(Reference(a)) = "referenced"
  BY DirsAre
<1> QED BY <1>1, <1>2, <1>3, DirsDiffer

LEMMA FarMakes ==
    ASSUME NEW s, NEW A, NEW R, Makes(s, A, R), FormalFiles \cap (A \cup R) = {}
    PROVE  Far(s)
BY DEF Makes, Within, Far

LEMMA FarHead ==
    ASSUME NEW s, IsProgram(s), s # <<>>, Far(s)
    PROVE  FormalFiles \cap (Adds(Head(s)) \cup Removes(Head(s))) = {}
BY TailIs DEF Far

LEMMA AlikeAfter ==
    ASSUME NEW d, NEW c, c.do \in Dos, FormalFiles \cap (Adds(c) \cup Removes(c)) = {}
    PROVE  Alike(d, After(d, c))
<1> SUFFICES ASSUME NEW f \in FormalFiles
             PROVE  /\ f \in After(d, c).now <=> f \in d.now
                    /\ f \in After(d, c).disk => f \in Either(d)
                    /\ f \in Firm(d) => f \in Firm(After(d, c))
  BY DEF Alike
<1>1. f \notin Adds(c) /\ f \notin Removes(c)
  OBVIOUS
<1> QED BY <1>1, SameAfter DEF Either

LEMMA UploadFar ==
    ASSUME Shapes, RollInv, failures = 0, at # "publishing"
    PROVE  Far(todo)
<1> USE DEF Shapes, UploadShape, Fits
<1>1. CASE at = "spooling"
  <2>1. Makes(todo, SpoolFiles, SpoolFiles)
    BY <1>1
  <2> QED BY <2>1, FarMakes, FormalIs
<1>2. CASE at = "rolling"
  <2>1. Makes(todo, {}, SpoolFiles)
    BY <1>2 DEF RollInv
  <2>2. FormalFiles \cap ({} \cup SpoolFiles) = {}
    BY FormalIs
  <2> QED BY <2>1, <2>2, FarMakes
<1>3. CASE at = "staging"
  <2>1. Makes(todo, StagedFiles(try), Replaced(try))
    BY <1>3
  <2>2. Replaced(try) \subseteq StagedFiles(try)
    BY DEF Replaced, StagedFiles, ManifestsOf
  <2> QED BY <2>1, <2>2, FarMakes, FormalIs
<1>4. CASE at = "unstaging"
  <2>1. Makes(todo, {}, {ManifestPart(try), ObjectPart(try), Object(try)})
    BY <1>4
  <2>2. FormalFiles \cap ({} \cup {ManifestPart(try), ObjectPart(try), Object(try)}) = {}
    BY FormalIs DEF StagedFiles
  <2> QED BY <2>1, <2>2, FarMakes
<1>5. CASE at = "marking"
  <2>1. Makes(todo, {Reference(row)}, MarkedFiles(row))
    BY <1>5
  <2>2. FormalFiles \cap ({Reference(row)} \cup MarkedFiles(row)) = {}
    BY FormalIs DEF StagedFiles, MarkedFiles, ManifestsOf
  <2> QED BY <2>1, <2>2, FarMakes
<1>6. CASE at = "aborting"
  <2>1. Makes(todo, {}, MarkedFiles(try))
    BY <1>6
  <2>2. FormalFiles \cap ({} \cup MarkedFiles(try)) = {}
    BY FormalIs DEF StagedFiles, MarkedFiles, ManifestsOf
  <2> QED BY <2>1, <2>2, FarMakes
<1>7. CASE at \in {"idle", "open", "using", "clean"}
  BY <1>7 DEF Far
<1> QED BY <1>1, <1>2, <1>3, <1>4, <1>5, <1>6, <1>7 DEF TypeOK, Activities

LEMMA ProgramFar ==
    ASSUME NEW p, Makes(p, {Reference(row)}, MarkedFiles(row)) \/ Makes(p, {}, Sweepable)
    PROVE  Far(p)
<1>1. CASE Makes(p, {Reference(row)}, MarkedFiles(row))
  <2>1. FormalFiles \cap ({Reference(row)} \cup MarkedFiles(row)) = {}
    BY FormalIs DEF StagedFiles, MarkedFiles, ManifestsOf
  <2> QED BY <1>1, <2>1, FarMakes
<1>2. CASE Makes(p, {}, Sweepable)
  <2>1. \A f \in Sweepable : \E a : f \in StagedFiles(a)
    BY DEF Sweepable, SweptFiles, StagedFiles
  <2>2. FormalFiles \cap ({} \cup Sweepable) = {}
    BY <2>1, FormalIs
  <2> QED BY <1>2, <2>2, FarMakes
<1> QED BY <1>1, <1>2

LEMMA ObjectsFar ==
    ASSUME Shapes, phase = "objects"
    PROVE  Far(calls)
BY ProgramFar DEF Shapes, SweepShape, Marks, Aborts

\* A deletion is made of calls that are always possible.
LEMMA DeletesGo ==
    ASSUME Shapes, phase # "objects", calls # <<>>
    PROVE  /\ IsProgram(calls) /\ IsCall(Head(calls)) /\ Possible(fs, Head(calls)) /\ ~Overtaken(Head(calls))
           /\ Adds(Head(calls)) \subseteq JournalFiles
           /\ Triplet \cap Adds(Head(calls)) = {}
<1>1. /\ IsProgram(calls) /\ IsCall(Head(calls)) /\ Adds(Head(calls)) \subseteq JournalFiles
  BY SweepOnward DEF Shapes
<1>2. Head(calls).do \notin {"create", "move", "link"}
  <2>1. ASSUME Head(calls).do \in {"create", "move", "link"} PROVE FALSE
    <3>1. Head(calls).to \in JournalFiles /\ Dir(Head(calls).to) # "journal"
      BY <1>1, <2>1 DEF Adds, IsCall
    <3> QED BY <3>1, DirsDiffer
  <2> QED BY <2>1
<1>3. Triplet \cap Adds(Head(calls)) = {}
  BY <1>1, DirsAre, DirsDiffer DEF Triplet
<1> QED BY <1>1, <1>2, <1>3 DEF Possible, Overtaken
-----------------------------------------------------------------------------
(* The publication *)

LEMMA PubNames ==
    ASSUME NEW a
    PROVE  /\ PayloadPart # Payload /\ RecordPart # Record /\ CommitPart # Commit
           /\ Dir(PayloadPart) = "payloads" /\ Dir(Payload) = "payloads" /\ Dir(RecordPart) = "records"
           /\ Dir(Record) = "records" /\ Dir(CommitPart) = "commits" /\ Dir(Commit) = "commits"
           /\ Dir(Spool(a)) = "spool"
BY DirsAre DEF PayloadPart, Payload, RecordPart, Record, CommitPart, Commit

LEMMA PubStep ==
    ASSUME NEW d, NEW k \in 1..13, PubFiles(d, k, Spool(receipt.spool)), NEW c, c = PubCall(k, receipt.spool)
    PROVE  c.do \in Dos /\ PubFiles(After(d, c), k - 1, Spool(receipt.spool))
<1> DEFINE S == Spool(receipt.spool)
           e == After(d, c)
           Moves(A, R) == /\ e.now = (d.now \ R) \cup A /\ e.disk = d.disk /\ c.do \in Dos
           Flushes(t) == /\ e.now = d.now /\ c.do \in Dos
                         /\ \A f : f \in e.disk <=> IF Dir(f) = t THEN f \in d.now ELSE f \in d.disk
<1>1. Dir(S) = "spool"
  BY DirsAre
<1> HIDE DEF S, e
<1>2. CASE k = 13
  <2>1. c = Unlink(PayloadPart)
    BY <1>2 DEF PubCall, S
  <2>2. Adds(c) = {} /\ Removes(c) = {PayloadPart} /\ c.do = "unlink"
    BY <2>1, PubNames DEF Unlink, Adds, Removes
  <2>3. Moves({}, {PayloadPart})
    BY <2>2, AfterIs DEF Dos, e
  <2>4. k - 1 = 12 /\ PubFiles(d, 13, S)
    BY <1>2 DEF S
  <2>5. PubFiles(e, 12, S)
    BY <1>1, <2>3, <2>4, PubNames DEF PubFiles
  <2> QED BY <2>3, <2>4, <2>5 DEF S, e
<1>3. CASE k = 12
  <2>1. c = [Sync("payloads") EXCEPT !.to = PayloadPart]
    BY <1>3 DEF PubCall, S
  <2>2. c.do = "sync" /\ c.of[1] = "payloads"
    BY <2>1 DEF Sync
  <2>3. Flushes("payloads")
    BY <2>2, AfterIs DEF Dos, e
  <2>4. k - 1 = 11 /\ PubFiles(d, 12, S)
    BY <1>3 DEF S
  <2>5. PubFiles(e, 11, S)
    BY <1>1, <2>3, <2>4, PubNames DEF PubFiles
  <2> QED BY <2>3, <2>4, <2>5 DEF S, e
<1>4. CASE k = 11
  <2>1. c = Link(S, PayloadPart)
    BY <1>4 DEF PubCall, S
  <2>2. Adds(c) = {PayloadPart} /\ Removes(c) = {} /\ c.do = "link"
    BY <2>1, PubNames DEF Link, Adds, Removes
  <2>3. Moves({PayloadPart}, {})
    BY <2>2, AfterIs DEF Dos, e
  <2>4. k - 1 = 10 /\ PubFiles(d, 11, S)
    BY <1>4 DEF S
  <2>5. PubFiles(e, 10, S)
    BY <1>1, <2>3, <2>4, PubNames DEF PubFiles
  <2> QED BY <2>3, <2>4, <2>5 DEF S, e
<1>5. CASE k = 10
  <2>1. c = Move(PayloadPart, Payload, {})
    BY <1>5 DEF PubCall, S
  <2>2. Adds(c) = {Payload} /\ Removes(c) = {PayloadPart} /\ c.do = "move"
    BY <2>1, PubNames DEF Move, Adds, Removes
  <2>3. Moves({Payload}, {PayloadPart})
    BY <2>2, AfterIs DEF Dos, e
  <2>4. k - 1 = 9 /\ PubFiles(d, 10, S)
    BY <1>5 DEF S
  <2>5. PubFiles(e, 9, S)
    BY <1>1, <2>3, <2>4, PubNames DEF PubFiles
  <2> QED BY <2>3, <2>4, <2>5 DEF S, e
<1>6. CASE k = 9
  <2>1. c = Sync("payloads")
    BY <1>6 DEF PubCall, S
  <2>2. c.do = "sync" /\ c.of[1] = "payloads"
    BY <2>1 DEF Sync
  <2>3. Flushes("payloads")
    BY <2>2, AfterIs DEF Dos, e
  <2>4. k - 1 = 8 /\ PubFiles(d, 9, S)
    BY <1>6 DEF S
  <2>5. PubFiles(e, 8, S)
    BY <1>1, <2>3, <2>4, PubNames DEF PubFiles
  <2> QED BY <2>3, <2>4, <2>5 DEF S, e
<1>7. CASE k = 8
  <2>1. c = Create(RecordPart)
    BY <1>7 DEF PubCall, S
  <2>2. Adds(c) = {RecordPart} /\ Removes(c) = {} /\ c.do = "create"
    BY <2>1, PubNames DEF Create, Adds, Removes
  <2>3. Moves({RecordPart}, {})
    BY <2>2, AfterIs DEF Dos, e
  <2>4. k - 1 = 7 /\ PubFiles(d, 8, S)
    BY <1>7 DEF S
  <2>5. PubFiles(e, 7, S)
    BY <1>1, <2>3, <2>4, PubNames DEF PubFiles
  <2> QED BY <2>3, <2>4, <2>5 DEF S, e
<1>8. CASE k = 7
  <2>1. c = Move(RecordPart, Record, {})
    BY <1>8 DEF PubCall, S
  <2>2. Adds(c) = {Record} /\ Removes(c) = {RecordPart} /\ c.do = "move"
    BY <2>1, PubNames DEF Move, Adds, Removes
  <2>3. Moves({Record}, {RecordPart})
    BY <2>2, AfterIs DEF Dos, e
  <2>4. k - 1 = 6 /\ PubFiles(d, 7, S)
    BY <1>8 DEF S
  <2>5. PubFiles(e, 6, S)
    BY <1>1, <2>3, <2>4, PubNames DEF PubFiles
  <2> QED BY <2>3, <2>4, <2>5 DEF S, e
<1>9. CASE k = 6
  <2>1. c = Sync("records")
    BY <1>9 DEF PubCall, S
  <2>2. c.do = "sync" /\ c.of[1] = "records"
    BY <2>1 DEF Sync
  <2>3. Flushes("records")
    BY <2>2, AfterIs DEF Dos, e
  <2>4. k - 1 = 5 /\ PubFiles(d, 6, S)
    BY <1>9 DEF S
  <2>5. PubFiles(e, 5, S)
    BY <1>1, <2>3, <2>4, PubNames DEF PubFiles
  <2> QED BY <2>3, <2>4, <2>5 DEF S, e
<1>10. CASE k = 5
  <2>1. c = Create(CommitPart)
    BY <1>10 DEF PubCall, S
  <2>2. Adds(c) = {CommitPart} /\ Removes(c) = {} /\ c.do = "create"
    BY <2>1, PubNames DEF Create, Adds, Removes
  <2>3. Moves({CommitPart}, {})
    BY <2>2, AfterIs DEF Dos, e
  <2>4. k - 1 = 4 /\ PubFiles(d, 5, S)
    BY <1>10 DEF S
  <2>5. PubFiles(e, 4, S)
    BY <1>1, <2>3, <2>4, PubNames DEF PubFiles
  <2> QED BY <2>3, <2>4, <2>5 DEF S, e
<1>11. CASE k = 4
  <2>1. c = Move(CommitPart, Commit, {})
    BY <1>11 DEF PubCall, S
  <2>2. Adds(c) = {Commit} /\ Removes(c) = {CommitPart} /\ c.do = "move"
    BY <2>1, PubNames DEF Move, Adds, Removes
  <2>3. Moves({Commit}, {CommitPart})
    BY <2>2, AfterIs DEF Dos, e
  <2>4. k - 1 = 3 /\ PubFiles(d, 4, S)
    BY <1>11 DEF S
  <2>5. PubFiles(e, 3, S)
    BY <1>1, <2>3, <2>4, PubNames DEF PubFiles
  <2> QED BY <2>3, <2>4, <2>5 DEF S, e
<1>12. CASE k = 3
  <2>1. c = Sync("commits")
    BY <1>12 DEF PubCall, S
  <2>2. c.do = "sync" /\ c.of[1] = "commits"
    BY <2>1 DEF Sync
  <2>3. Flushes("commits")
    BY <2>2, AfterIs DEF Dos, e
  <2>4. k - 1 = 2 /\ PubFiles(d, 3, S)
    BY <1>12 DEF S
  <2>5. PubFiles(e, 2, S)
    BY <1>1, <2>3, <2>4, PubNames DEF PubFiles
  <2> QED BY <2>3, <2>4, <2>5 DEF S, e
<1>13. CASE k = 2
  <2>1. c = Unlink(S)
    BY <1>13 DEF PubCall, S
  <2>2. Adds(c) = {} /\ Removes(c) = {S} /\ c.do = "unlink"
    BY <2>1, PubNames DEF Unlink, Adds, Removes
  <2>3. Moves({}, {S})
    BY <2>2, AfterIs DEF Dos, e
  <2>4. k - 1 = 1 /\ PubFiles(d, 2, S)
    BY <1>13 DEF S
  <2>5. PubFiles(e, 1, S)
    BY <1>1, <2>3, <2>4, PubNames DEF PubFiles
  <2> QED BY <2>3, <2>4, <2>5 DEF S, e
<1>14. CASE k = 1
  <2>1. c = [Sync("spool") EXCEPT !.to = S]
    BY <1>14 DEF PubCall, S
  <2>2. c.do = "sync" /\ c.of[1] = "spool"
    BY <2>1 DEF Sync
  <2>3. Flushes("spool")
    BY <2>2, AfterIs DEF Dos, e
  <2>4. k - 1 = 0 /\ PubFiles(d, 1, S)
    BY <1>14 DEF S
  <2>5. PubFiles(e, 0, S)
    BY <1>1, <2>3, <2>4, PubNames DEF PubFiles
  <2> QED BY <2>3, <2>4, <2>5 DEF S, e
<1> QED BY <1>2, <1>3, <1>4, <1>5, <1>6, <1>7, <1>8, <1>9, <1>10, <1>11, <1>12, <1>13, <1>14

LEMMA PubHead ==
    ASSUME Shapes, PubInv, failures = 0, at = "publishing", todo # <<>>
    PROVE  /\ Len(todo) \in 1..13 /\ Head(todo) = PubCall(Len(todo), receipt.spool) /\ IsProgram(todo)
           /\ PubFiles(fs, Len(todo), Spool(receipt.spool))
<1>1. IsProgram(todo)
  BY DEF Shapes, UploadShape, Fits, Makes
<1>2. Len(todo) \in Nat \ {0} /\ Head(todo) = todo[1] /\ DOMAIN todo = 1..Len(todo)
  BY <1>1, TailIs
<1>3. Len(todo) - 1 + 1 = Len(todo) /\ 1 \in DOMAIN todo
  BY <1>2
<1>4. /\ Len(todo) <= 13 /\ todo[1] = PubCall(Len(todo) - 1 + 1, receipt.spool)
      /\ PubFiles(fs, Len(todo), Spool(receipt.spool))
  BY <1>3 DEF PubInv
<1>5. Len(todo) \in 1..13
  <2>1. \A m \in Nat \ {0} : m <= 13 => m \in 1..13
    OBVIOUS
  <2> QED BY <1>2, <1>4, <2>1
<1>6. Head(todo) = PubCall(Len(todo), receipt.spool)
  BY <1>2, <1>3, <1>4
<1> QED BY <1>1, <1>4, <1>5, <1>6

\* No call of a publication finds the files other than it left them.
LEMMA PubSound ==
    ASSUME Shapes, PubInv, failures = 0, at = "publishing", todo # <<>>
    PROVE  Possible(fs, Head(todo)) /\ ~Unvalidated
<1>1. PICK k \in 1..13 : k = Len(todo) /\ Head(todo) = PubCall(k, receipt.spool) /\ PubFiles(fs, k, Spool(receipt.spool))
  BY PubHead
<1>2. Possible(fs, Head(todo))
  <2>1. CASE k = 11
    <3>1. Head(todo) = Link(Spool(receipt.spool), PayloadPart) /\ PubFiles(fs, 11, Spool(receipt.spool))
      BY <1>1, <2>1 DEF PubCall
    <3> QED BY <3>1 DEF Possible, PubFiles, Link
  <2>2. CASE k = 10
    <3>1. Head(todo) = Move(PayloadPart, Payload, {}) /\ PubFiles(fs, 10, Spool(receipt.spool))
      BY <1>1, <2>2 DEF PubCall
    <3> QED BY <3>1 DEF Possible, PubFiles, Move
  <2>3. CASE k = 8
    <3>1. Head(todo) = Create(RecordPart) /\ PubFiles(fs, 8, Spool(receipt.spool))
      BY <1>1, <2>3 DEF PubCall
    <3> QED BY <3>1 DEF Possible, PubFiles, Create
  <2>4. CASE k = 7
    <3>1. Head(todo) = Move(RecordPart, Record, {}) /\ PubFiles(fs, 7, Spool(receipt.spool))
      BY <1>1, <2>4 DEF PubCall
    <3> QED BY <3>1 DEF Possible, PubFiles, Move
  <2>5. CASE k = 5
    <3>1. Head(todo) = Create(CommitPart) /\ PubFiles(fs, 5, Spool(receipt.spool))
      BY <1>1, <2>5 DEF PubCall
    <3> QED BY <3>1 DEF Possible, PubFiles, Create
  <2>6. CASE k = 4
    <3>1. Head(todo) = Move(CommitPart, Commit, {}) /\ PubFiles(fs, 4, Spool(receipt.spool))
      BY <1>1, <2>6 DEF PubCall
    <3> QED BY <3>1 DEF Possible, PubFiles, Move
  <2>7. CASE k = 13
    <3>1. Head(todo).do = "unlink"
      BY <1>1, <2>7 DEF PubCall, Unlink
    <3> QED BY <3>1 DEF Possible
  <2>8. CASE k = 12
    <3>1. Head(todo).do = "sync"
      BY <1>1, <2>8 DEF PubCall, Sync
    <3> QED BY <3>1 DEF Possible
  <2>9. CASE k = 9
    <3>1. Head(todo).do = "sync"
      BY <1>1, <2>9 DEF PubCall, Sync
    <3> QED BY <3>1 DEF Possible
  <2>10. CASE k = 6
    <3>1. Head(todo).do = "sync"
      BY <1>1, <2>10 DEF PubCall, Sync
    <3> QED BY <3>1 DEF Possible
  <2>11. CASE k = 3
    <3>1. Head(todo).do = "sync"
      BY <1>1, <2>11 DEF PubCall, Sync
    <3> QED BY <3>1 DEF Possible
  <2>12. CASE k = 2
    <3>1. Head(todo).do = "unlink"
      BY <1>1, <2>12 DEF PubCall, Unlink
    <3> QED BY <3>1 DEF Possible
  <2>13. CASE k = 1
    <3>1. Head(todo).do = "sync"
      BY <1>1, <2>13 DEF PubCall, Sync
    <3> QED BY <3>1 DEF Possible
  <2> QED BY <2>1, <2>2, <2>3, <2>4, <2>5, <2>6, <2>7, <2>8, <2>9, <2>10, <2>11, <2>12, <2>13
<1>3. ~Unvalidated
  <2>1. ASSUME Len(todo) = 2 PROVE Whole
    <3>1. PubFiles(fs, 2, Spool(receipt.spool))
      BY <1>1, <2>1
    <3> QED BY <3>1 DEF PubFiles, Whole, Triplet
  <2> QED BY <2>1 DEF Unvalidated
<1> QED BY <1>2, <1>3

\* The calls of a publication from where k are yet to be made to where m are.
Segment(s, k, m) ==
    /\ IsProgram(s) /\ Len(s) = k - m
    /\ \A i \in DOMAIN s : s[i] = PubCall(k - i + 1, receipt.spool)

LEMMA SegmentJoined ==
    ASSUME NEW k \in Nat, NEW m \in Nat, NEW n \in Nat, m <= k, n <= m,
           NEW s, NEW t, Segment(s, k, m), Segment(t, m, n)
    PROVE  Segment(s \o t, k, n)
<1>1. /\ IsProgram(s) /\ Len(s) = k - m /\ DOMAIN s = 1..(k - m)
      /\ IsProgram(t) /\ Len(t) = m - n /\ DOMAIN t = 1..(m - n)
  BY ProgramIs DEF Segment
<1>2. IsProgram(s \o t) /\ Len(s \o t) = k - n
  BY <1>1, JoinedIs
<1>3. DOMAIN (s \o t) = 1..(k - n)
  BY <1>2, ProgramIs
<1>4. ASSUME NEW i \in 1..(k - n) PROVE (s \o t)[i] = PubCall(k - i + 1, receipt.spool)
  <2>1. CASE i <= k - m
    <3>1. i \in 1..(k - m)
      BY <2>1
    <3>2. (s \o t)[i] = s[i]
      BY <1>1, <3>1, JoinedIs
    <3>3. s[i] = PubCall(k - i + 1, receipt.spool)
      BY <1>1, <3>1 DEF Segment
    <3> QED BY <3>2, <3>3
  <2>2. CASE ~(i <= k - m)
    <3>1. PICK j \in 1..(m - n) : i = (k - m) + j /\ m - j + 1 = k - i + 1
      BY <2>2
    <3>2. (s \o t)[i] = t[j]
      BY <1>1, <3>1, JoinedIs
    <3>3. t[j] = PubCall(m - j + 1, receipt.spool)
      BY <1>1, <3>1 DEF Segment
    <3> QED BY <3>1, <3>2, <3>3
  <2> QED BY <2>1, <2>2
<1> QED BY <1>2, <1>3, <1>4 DEF Segment

LEMMA SegmentOne ==
    ASSUME NEW k \in Nat \ {0}, NEW b, b = PubCall(k, receipt.spool)
    PROVE  Segment(<<b>>, k, k - 1)
<1>1. IsProgram(<<b>>) /\ Len(<<b>>) = 1 /\ <<b>>[1] = b
  BY PairIs
<1>2. DOMAIN <<b>> = {1} /\ k - (k - 1) = 1 /\ k - 1 + 1 = k
  OBVIOUS
<1> QED BY <1>1, <1>2 DEF Segment

LEMMA SegmentTwo ==
    ASSUME NEW k \in Nat \ {0, 1}, NEW b, NEW c, b = PubCall(k, receipt.spool), c = PubCall(k - 1, receipt.spool)
    PROVE  Segment(<<b, c>>, k, k - 2)
<1>1. IsProgram(<<b, c>>) /\ Len(<<b, c>>) = 2 /\ <<b, c>>[1] = b /\ <<b, c>>[2] = c
  BY PairIs
<1>2. DOMAIN <<b, c>> = {1, 2} /\ k - (k - 2) = 2 /\ k - 1 + 1 = k /\ k - 2 + 1 = k - 1
  OBVIOUS
<1> QED BY <1>1, <1>2 DEF Segment

LEMMA PublishIs ==
    Segment(PublishFormal(receipt.spool), IF Here(PayloadPart) THEN 13 ELSE 11, 0)
<1> DEFINE S == Spool(receipt.spool)
           erase == IF Here(PayloadPart) THEN Erase(PayloadPart) ELSE <<>>
           link == <<Link(S, PayloadPart)>>
           payload == Publish(PayloadPart, Payload, {})
           part == <<Create(RecordPart)>>
           record == Publish(RecordPart, Record, {})
           mark == <<Create(CommitPart)>>
           commit == Publish(CommitPart, Commit, {})
           last == Erase(S)
           k == IF Here(PayloadPart) THEN 13 ELSE 11
<1>1. PublishFormal(receipt.spool) = erase \o link \o payload \o part \o record \o mark \o commit \o last
  BY DEF PublishFormal
<1>2. Segment(erase, k, 11)
  <2>1. CASE Here(PayloadPart)
    <3>1. erase = <<Unlink(PayloadPart), [Sync("payloads") EXCEPT !.to = PayloadPart]>>
      BY <2>1, DirsAre DEF Erase
    <3>2. PubCall(13, receipt.spool) = Unlink(PayloadPart) /\ PubCall(13 - 1, receipt.spool) = [Sync("payloads") EXCEPT !.to = PayloadPart]
      BY DEF PubCall
    <3>3. PICK b, c : b = Unlink(PayloadPart) /\ c = [Sync("payloads") EXCEPT !.to = PayloadPart]
      OBVIOUS
    <3>4. Segment(<<b, c>>, 13, 13 - 2)
      BY <3>2, <3>3, SegmentTwo
    <3> QED BY <2>1, <3>1, <3>3, <3>4
  <2>2. CASE ~Here(PayloadPart)
    <3>1. IsProgram(<<>>) /\ Len(<<>>) = 0 /\ DOMAIN <<>> = {}
      BY MakesNothing DEF Makes
    <3>2. erase = <<>> /\ k = 11 /\ 11 - 11 = 0
      BY <2>2
    <3> QED BY <3>1, <3>2 DEF Segment
  <2> QED BY <2>1, <2>2
<1>3. Segment(link, 11, 10)
  <2>1. PubCall(11, receipt.spool) = Link(S, PayloadPart)
    BY DEF PubCall
  <2>2. Segment(link, 11, 11 - 1)
    BY <2>1, SegmentOne
  <2> QED BY <2>2
<1>4. Segment(payload, 10, 8)
  <2>1. PubCall(10, receipt.spool) = Move(PayloadPart, Payload, {}) /\ PubCall(10 - 1, receipt.spool) = Sync("payloads")
    BY DEF PubCall
  <2>2. payload = <<Move(PayloadPart, Payload, {}), Sync("payloads")>>
    BY DirsAre DEF Publish
  <2>3. Segment(payload, 10, 10 - 2)
    BY <2>1, <2>2, SegmentTwo
  <2> QED BY <2>3
<1>5. Segment(part, 8, 7)
  <2>1. PubCall(8, receipt.spool) = Create(RecordPart)
    BY DEF PubCall
  <2>2. Segment(part, 8, 8 - 1)
    BY <2>1, SegmentOne
  <2> QED BY <2>2
<1>6. Segment(record, 7, 5)
  <2>1. PubCall(7, receipt.spool) = Move(RecordPart, Record, {}) /\ PubCall(7 - 1, receipt.spool) = Sync("records")
    BY DEF PubCall
  <2>2. record = <<Move(RecordPart, Record, {}), Sync("records")>>
    BY DirsAre DEF Publish
  <2>3. Segment(record, 7, 7 - 2)
    BY <2>1, <2>2, SegmentTwo
  <2> QED BY <2>3
<1>7. Segment(mark, 5, 4)
  <2>1. PubCall(5, receipt.spool) = Create(CommitPart)
    BY DEF PubCall
  <2>2. Segment(mark, 5, 5 - 1)
    BY <2>1, SegmentOne
  <2> QED BY <2>2
<1>8. Segment(commit, 4, 2)
  <2>1. PubCall(4, receipt.spool) = Move(CommitPart, Commit, {}) /\ PubCall(4 - 1, receipt.spool) = Sync("commits")
    BY DEF PubCall
  <2>2. commit = <<Move(CommitPart, Commit, {}), Sync("commits")>>
    BY DirsAre DEF Publish
  <2>3. Segment(commit, 4, 4 - 2)
    BY <2>1, <2>2, SegmentTwo
  <2> QED BY <2>3
<1>9. Segment(last, 2, 0)
  <2>1. PubCall(2, receipt.spool) = Unlink(S) /\ PubCall(2 - 1, receipt.spool) = [Sync("spool") EXCEPT !.to = S]
    BY DEF PubCall
  <2>2. last = <<Unlink(S), [Sync("spool") EXCEPT !.to = S]>>
    BY DirsAre DEF Erase
  <2>3. Segment(last, 2, 2 - 2)
    BY <2>1, <2>2, SegmentTwo
  <2> QED BY <2>3
<1>10. k \in Nat /\ 11 <= k
  OBVIOUS
<1> HIDE DEF erase, link, payload, part, record, mark, commit, last, k
<1>11. Segment(erase \o link, k, 10)
  BY <1>2, <1>3, <1>10, SegmentJoined
<1>12. Segment(erase \o link \o payload, k, 8)
  BY <1>4, <1>10, <1>11, SegmentJoined
<1>13. Segment(erase \o link \o payload \o part, k, 7)
  BY <1>5, <1>10, <1>12, SegmentJoined
<1>14. Segment(erase \o link \o payload \o part \o record, k, 5)
  BY <1>6, <1>10, <1>13, SegmentJoined
<1>15. Segment(erase \o link \o payload \o part \o record \o mark, k, 4)
  BY <1>7, <1>10, <1>14, SegmentJoined
<1>16. Segment(erase \o link \o payload \o part \o record \o mark \o commit, k, 2)
  BY <1>8, <1>10, <1>15, SegmentJoined
<1>17. Segment(erase \o link \o payload \o part \o record \o mark \o commit \o last, k, 0)
  BY <1>9, <1>10, <1>16, SegmentJoined
<1> QED BY <1>1, <1>17 DEF k

LEMMA RowsWhilePublishing ==
    ASSUME Shapes, EarlyInv, ReceiptInv, [Next]_vars, at = "publishing", at' = "publishing", failures' = 0
    PROVE  /\ receipt' = receipt
           /\ \/ todo # <<>> /\ todo' = Tail(todo) /\ fs' = After(fs, Head(todo))
              \/ todo' = todo /\ fs' = fs
<1> USE DEF Shapes
<1>1. calls = <<>> /\ receipt.status = "publishing"
  BY DEF EarlyInv, Early, ReceiptInv
<1>2. CASE UploadStep
  <2>1. Call
    BY <1>2 DEF UploadStep, Begin, Scan, Open, Activate, Use, Finalize, Over, Doing, Ended
  <2>2. ~Overtaken(Head(todo))
    BY <2>1, OvertakenIs DEF Call
  <2>3. ~Handled
    BY DEF Handled, Doing
  <2> QED BY <2>1, <2>2, <2>3 DEF Call, Doing
<1>3. CASE SweepStep
  BY <1>1, <1>3 DEF SweepStep, Sweep, NextPhase, JanitorCall, Forgettable, Expired, upload, rows
<1>4. CASE Grow \/ Pass \/ UNCHANGED vars
  BY <1>4 DEF Grow, Pass, vars, upload, rows
<1>5. CASE Crash
  BY <1>5 DEF Crash, Ended, Doing
<1> QED BY <1>2, <1>3, <1>4, <1>5 DEF Next

\* What the publication starts from, where no call failed: of the source nothing is there.
LEMMA PubStarts ==
    ASSUME Shapes, EarlyFiles, failures = 0, Open, at' = "publishing"
    PROVE  /\ todo' = PublishFormal(receipt.spool) /\ receipt'.spool = receipt.spool /\ fs' = fs
           /\ PubFiles(fs, IF Here(PayloadPart) THEN 13 ELSE 11, Spool(receipt.spool))
<1>1. /\ Triplet \cap fs.now = {} /\ Here(Spool(receipt.spool)) /\ time = "fresh"
      /\ todo' = PublishFormal(receipt.spool) /\ fs' = fs
      /\ receipt' = [receipt EXCEPT !.status = "publishing"]
  BY DEF Open, Doing, Ended, Claimed
<1>2. receipt'.spool = receipt.spool
  BY <1>1 DEF Shapes, TypeOK
<1>3. /\ {RecordPart, CommitPart, Record, Commit} \cap Either(fs) # {} => Payload \in Firm(fs)
      /\ Payload \in fs.disk => Payload \in fs.now
  BY <1>1 DEF EarlyFiles, Early
<1>4. Payload \notin fs.now /\ Payload \notin fs.disk
  BY <1>1, <1>3 DEF Triplet
<1>5. \A f \in {RecordPart, CommitPart, Record, Commit} : f \notin fs.now /\ f \notin fs.disk
  BY <1>3, <1>4 DEF Firm, Either
<1>6. CASE Here(PayloadPart)
  <2>1. PubFiles(fs, 13, Spool(receipt.spool))
    BY <1>1, <1>4, <1>5, <1>6 DEF PubFiles, Here
  <2> QED BY <1>1, <1>2, <1>6, <2>1
<1>7. CASE ~Here(PayloadPart)
  <2>1. PubFiles(fs, 11, Spool(receipt.spool))
    BY <1>1, <1>4, <1>5, <1>7 DEF PubFiles, Here
  <2> QED BY <1>1, <1>2, <1>7, <2>1
<1> QED BY <1>6, <1>7

LEMMA NextPub ==
    ASSUME Shapes, EarlyInv, ReceiptInv, PubInv, EarlyFiles, [Next]_vars
    PROVE  PubInv'
<1> SUFFICES ASSUME at' = "publishing", failures' = 0
             PROVE  /\ Len(todo') <= 13
                    /\ \A i \in DOMAIN todo' : todo'[i] = PubCall(Len(todo') - i + 1, receipt'.spool)
                    /\ PubFiles(fs', Len(todo'), Spool(receipt'.spool))
  BY DEF PubInv
<1> USE DEF Shapes
<1>1. failures = 0
  BY EarlyBefore
<1>2. CASE at = "publishing"
  <2>1. receipt' = receipt
    BY <1>2, RowsWhilePublishing
  <2>2. CASE todo # <<>> /\ todo' = Tail(todo) /\ fs' = After(fs, Head(todo))
    <3> DEFINE k == Len(todo)
    <3>1. k \in 1..13 /\ Head(todo) = PubCall(k, receipt.spool) /\ PubFiles(fs, k, Spool(receipt.spool))
      BY <1>1, <1>2, <2>2, PubHead
    <3>2. IsProgram(todo)
      BY <1>1, <1>2, <2>2, PubHead
    <3>3. Len(Tail(todo)) = k - 1 /\ DOMAIN Tail(todo) = 1..(k - 1) /\ DOMAIN todo = 1..k
      BY <2>2, <3>2, TailIs
    <3>4. \A i \in 1..(k - 1) : Tail(todo)[i] = todo[i + 1]
      BY <2>2, <3>2, TailIs
    <3>5. PubFiles(After(fs, Head(todo)), k - 1, Spool(receipt.spool))
      BY <3>1, PubStep
    <3>6. \A i \in 1..k : todo[i] = PubCall(k - i + 1, receipt.spool)
      BY <1>1, <1>2, <3>3 DEF PubInv
    <3> HIDE DEF k
    <3>7. \A i \in 1..(k - 1) : i + 1 \in 1..k /\ k - (i + 1) + 1 = (k - 1) - i + 1
      BY <3>1
    <3>8. \A i \in 1..(k - 1) : Tail(todo)[i] = PubCall((k - 1) - i + 1, receipt.spool)
      BY <3>4, <3>6, <3>7
    <3>9. k - 1 <= 13
      BY <3>1
    <3> QED BY <2>1, <2>2, <3>3, <3>5, <3>8, <3>9
  <2>3. CASE todo' = todo /\ fs' = fs
    BY <1>1, <1>2, <2>1, <2>3 DEF PubInv
  <2> QED BY <1>2, <2>2, <2>3, RowsWhilePublishing
<1>3. CASE at # "publishing"
  <2>1. Open
    <3>1. UploadStep
      BY <1>3 DEF Next, SweepStep, Sweep, NextPhase, JanitorCall, Grow, Pass, Crash, Ended, Doing, vars, upload
    <3> QED BY <1>3, <3>1 DEF UploadStep, Begin, Scan, Activate, Use, Finalize, Over, Call, Handled, Doing, Ended
  <2>2. /\ todo' = PublishFormal(receipt.spool) /\ receipt'.spool = receipt.spool /\ fs' = fs
        /\ PubFiles(fs, IF Here(PayloadPart) THEN 13 ELSE 11, Spool(receipt.spool))
    BY <1>1, <2>1, PubStarts
  <2>3. PICK k \in {11, 13} : k = IF Here(PayloadPart) THEN 13 ELSE 11
    OBVIOUS
  <2>4. Segment(PublishFormal(receipt.spool), k, 0)
    BY <2>3, PublishIs
  <2>5. Len(todo') = k /\ \A i \in DOMAIN todo' : todo'[i] = PubCall(k - i + 1, receipt.spool)
    BY <2>2, <2>3, <2>4 DEF Segment
  <2> QED BY <2>2, <2>3, <2>5
<1> QED BY <1>2, <1>3

LEMMA NextRoll ==
    ASSUME Shapes, PubInv, RollInv, [Next]_vars
    PROVE  RollInv'
<1> SUFFICES ASSUME at' = "rolling", failures' = 0
             PROVE  Makes(todo', {}, SpoolFiles)
  BY DEF RollInv, SpoolFiles
<1> USE DEF Shapes
<1>1. failures = 0
  BY EarlyBefore
<1>2. CASE Scan
  <2>1. Spool(try) \in SpoolFiles
    BY DEF TypeOK, SpoolFiles
  <2>2. todo' = Erase(Spool(try))
    BY <1>2 DEF Scan, Doing
  <2> QED BY <2>1, <2>2, MakesErase
<1>3. CASE Call
  <2>1. ~Overtaken(Head(todo)) \/ at = "marking"
    BY <1>3, OvertakenIs DEF Call
  <2>2. CASE at = "rolling"
    <3>1. Makes(todo, {}, SpoolFiles) /\ todo # <<>>
      BY <1>1, <1>3, <2>2 DEF RollInv, Call
    <3>2. todo' = Tail(todo)
      BY <1>3, <2>1, <2>2 DEF Call, Handled, Doing
    <3> QED BY <3>1, <3>2, RemovesOnward
  <2>3. CASE at # "rolling"
    <3>1. Handled /\ ~(Possible(fs, Head(todo)) /\ ~Unvalidated)
      <4>1. failures' = failures + 1 => FALSE
        BY <1>1
      <4>2. ~(at' = at)
        BY <2>3
      <4> QED BY <1>3, <2>3, <4>1, <4>2 DEF Call, Doing
    <3>2. at # "publishing"
      BY <1>1, <1>3, <3>1, PubSound DEF Call
    <3>3. at = "spooling" /\ todo' = RollbackSpool(try)
      BY <2>3, <3>1, <3>2 DEF Handled, Doing, Ended
    <3>4. try \in 0..Attempts
      BY DEF TypeOK
    <3> QED BY <3>3, <3>4, RollbackMakes
  <2> QED BY <2>2, <2>3
<1>4. CASE Begin \/ Open \/ Activate \/ Use \/ Finalize \/ Over \/ Crash
  BY <1>4 DEF Begin, Open, Activate, Use, Finalize, Over, Crash, Doing, Ended
<1>5. CASE SweepStep \/ Grow \/ Pass \/ UNCHANGED vars
  <2>1. at' = at /\ todo' = todo
    BY <1>5 DEF SweepStep, Sweep, NextPhase, JanitorCall, Grow, Pass, vars, upload
  <2> QED BY <1>1, <2>1 DEF RollInv
<1> QED BY <1>2, <1>3, <1>4, <1>5 DEF Next, UploadStep

\* What the files of the source are when a spool that is fresh is looked for.
LEMMA NextEarlyFiles ==
    ASSUME Shapes, EarlyInv, ReceiptInv, PubInv, PubInv', EarlyFiles, RollInv, [Next]_vars
    PROVE  EarlyFiles'
<1> DEFINE E == {RecordPart, CommitPart, Record, Commit}
<1> SUFFICES ASSUME failures' = 0, Early'
             PROVE  /\ E \cap Either(fs') # {} => Payload \in Firm(fs')
                    /\ Payload \in fs'.disk => Payload \in fs'.now
  BY DEF EarlyFiles, RecordPart, CommitPart, Record, Commit, Payload
<1> USE DEF Shapes
<1>1. failures = 0 /\ Early
  BY EarlyBefore
<1>2. /\ E \cap Either(fs) # {} => Payload \in Firm(fs)
      /\ Payload \in fs.disk => Payload \in fs.now
  BY <1>1 DEF EarlyFiles
<1>3. calls = <<>>
  BY <1>1 DEF EarlyInv
<1>4. E \subseteq FormalFiles /\ Payload \in FormalFiles
  BY DEF FormalFiles, SourceParts, Triplet
<1>5. ASSUME Alike(fs, fs')
      PROVE  /\ E \cap Either(fs') # {} => Payload \in Firm(fs')
             /\ Payload \in fs'.disk => Payload \in fs'.now
  BY <1>2, <1>4, <1>5 DEF Alike, Either, Firm
<1>6. CASE todo # <<>> /\ fs' = After(fs, Head(todo)) /\ UNCHANGED at
  <2>1. IsCall(Head(todo)) /\ IsProgram(todo)
    BY <1>6, FitsOnward DEF TypeOK, UploadShape
  <2>2. CASE at = "publishing"
    <3>1. PICK k \in Nat : PubFiles(fs', k, Spool(receipt'.spool))
      <4>1. at' = "publishing"
        BY <1>6, <2>2
      <4>2. PubFiles(fs', Len(todo'), Spool(receipt'.spool))
        BY <4>1 DEF PubInv
      <4>3. Len(todo') \in Nat
        <5>1. IsProgram(todo')
          BY <4>1, NextUploadShape DEF UploadShape, Fits, Makes
        <5> QED BY <5>1, ProgramIs
      <4> QED BY <4>2, <4>3
    <3>2. E \cap Either(fs') # {} => Payload \in Firm(fs')
      BY <3>1 DEF PubFiles, Either, Firm
    <3>3. Payload \notin Removes(Head(todo))
      <4>1. Removes(Head(todo)) \subseteq SourceParts \cup SpoolFiles
        BY <1>6, <2>2, MakesTail DEF UploadShape, Fits
      <4>2. Payload \notin SpoolFiles
        BY <1>4, FormalIs
      <4>3. Payload \notin SourceParts
        BY DEF Payload, SourceParts, PayloadPart, RecordPart, CommitPart
      <4> QED BY <4>1, <4>2, <4>3
    <3>4. Payload \in fs'.disk => Payload \in fs'.now
      BY <1>2, <1>6, <2>1, <3>3, AfterIs DEF IsCall
    <3> QED BY <3>2, <3>4
  <2>3. CASE at # "publishing"
    <3>1. Alike(fs, fs')
      BY <1>1, <1>6, <2>1, <2>3, UploadFar, FarHead, AlikeAfter DEF IsCall
    <3> QED BY <1>5, <3>1
  <2> QED BY <2>2, <2>3
<1>7. CASE fs' \in Remains(fs)
  <2>1. /\ fs'.now = fs'.disk /\ Firm(fs) \subseteq fs'.now /\ fs'.now \subseteq Either(fs)
    BY <1>7, FilesType
  <2> QED BY <1>2, <2>1 DEF Either, Firm
<1>8. CASE fs' = fs
  BY <1>2, <1>8
<1> QED BY <1>1, <1>3, <1>6, <1>7, <1>8, FilesMove

\* The steps, as the source sees them while no call fails.
LEMMA SourceMove ==
    ASSUME Shapes, RollInv, failures = 0, failures' = 0, [Next]_vars
    PROVE  \/ /\ at = "publishing" /\ todo # <<>> /\ fs' = After(fs, Head(todo)) /\ IsCall(Head(todo))
              /\ UNCHANGED <<at, try, janitor, rows>>
           \/ /\ phase # "objects" /\ calls # <<>> /\ fs' = After(fs, Head(calls)) /\ calls' = Tail(calls)
              /\ UNCHANGED <<upload, phase, left, rows>>
           \/ Crash
           \/ /\ Alike(fs, fs')
              /\ \/ UNCHANGED <<phase, calls, left>>
                 \/ phase = "objects" /\ phase' = "objects" /\ UNCHANGED <<left, upload, rows>>
                 \/ NextPhase /\ fs' = fs
                 \/ (\E f \in left : Sweep(f)) /\ fs' = fs
<1> USE DEF Shapes
<1>1. fs' = fs => Alike(fs, fs')
  BY DEF Alike, Either, Firm
<1>2. CASE Begin \/ Scan \/ Open \/ Activate \/ Use \/ Finalize \/ Over
  BY <1>1, <1>2 DEF Begin, Scan, Open, Activate, Use, Finalize, Over, janitor
<1>3. CASE Call
  <2>1. todo # <<>> /\ UNCHANGED <<try, janitor>> /\ UNCHANGED <<clean, row, time>>
    BY <1>3 DEF Call
  <2>2. CASE fs' = fs
    BY <1>1, <2>1, <2>2 DEF janitor
  <2>3. CASE fs' # fs
    <3>1. fs' = After(fs, Head(todo)) /\ at' = at /\ receipt' = receipt
      BY <1>3, <2>3 DEF Call, Doing
    <3>2. IsCall(Head(todo)) /\ IsProgram(todo)
      BY <2>1, FitsOnward DEF TypeOK, UploadShape
    <3>3. CASE at # "publishing"
      <4>1. Alike(fs, fs')
        BY <2>1, <3>1, <3>2, <3>3, UploadFar, FarHead, AlikeAfter DEF IsCall
      <4> QED BY <2>1, <4>1 DEF janitor
    <3> QED BY <2>1, <3>1, <3>2, <3>3 DEF rows
  <2> QED BY <2>2, <2>3
<1>4. CASE JanitorCall
  <2>1. calls # <<>> /\ UNCHANGED <<upload, phase, left, rows>>
    BY <1>4 DEF JanitorCall
  <2>2. CASE phase = "objects"
    <3>1. fs' = fs \/ fs' = After(fs, Head(calls))
      BY <1>4 DEF JanitorCall
    <3>2. IsCall(Head(calls)) /\ IsProgram(calls)
      BY <2>1, SweepOnward
    <3>3. Alike(fs, After(fs, Head(calls)))
      BY <2>1, <2>2, <3>2, ObjectsFar, FarHead, AlikeAfter DEF IsCall
    <3> QED BY <1>1, <2>1, <2>2, <3>1, <3>3
  <2>3. CASE phase # "objects"
    <3>1. Possible(fs, Head(calls)) /\ ~Overtaken(Head(calls))
      BY <2>1, <2>3, DeletesGo
    <3>2. failures' = failures + 1 => FALSE
      OBVIOUS
    <3>3. fs' = After(fs, Head(calls)) /\ calls' = Tail(calls)
      BY <1>4, <3>1, <3>2 DEF JanitorCall
    <3> QED BY <2>1, <2>3, <3>3
  <2> QED BY <2>2, <2>3
<1>5. CASE \E f \in left : Sweep(f)
  BY <1>1, <1>5 DEF Sweep
<1>6. CASE NextPhase
  BY <1>1, <1>6 DEF NextPhase
<1>7. CASE Grow
  <2>1. fs'.now = fs.now /\ fs'.disk = fs.disk
    BY <1>7 DEF Grow, TypeOK
  <2>2. Alike(fs, fs')
    BY <2>1 DEF Alike, Either, Firm
  <2> QED BY <1>7, <2>2 DEF Grow, janitor
<1>8. CASE Pass \/ UNCHANGED vars
  BY <1>1, <1>8 DEF Pass, vars, janitor
<1> QED BY <1>2, <1>3, <1>4, <1>5, <1>6, <1>7, <1>8 DEF Next, UploadStep, SweepStep
-----------------------------------------------------------------------------
(* Nothing of a whole source is swept *)

\* The questions of a sweep are answered.
Answered == Outages = FALSE

LEMMA SweptHalf ==
    ASSUME Shapes, Answered, phase \notin {"pending", "journals"}, time # "over",
           NEW f \in left, NEW p \in Swept(f)
    PROVE  \A i \in DOMAIN p : Triplet \cap Removes(p[i]) # {} => ~Whole
<1> USE DEF Shapes
<1>1. CASE p = <<>>
  BY <1>1
<1>2. CASE phase = "parts"
  <2>1. f \in Parts /\ (p = <<>> \/ p = RecoveryUnlink(f))
    BY <1>2 DEF LeftShape, Swept
  <2>2. Makes(RecoveryUnlink(f), JournalOf(f), JournalOf(f) \cup {f})
    BY DeletionTouches
  <2>3. Triplet \cap (JournalOf(f) \cup {f}) = {}
    <3>1. \A g \in Triplet : Dir(g) # "journal" /\ Dir(g) # "spool" /\ g \notin SourceParts
      BY DirsAre DEF Triplet, SourceParts, Payload, Record, Commit, PayloadPart, RecordPart, CommitPart
    <3>2. \A g \in JournalOf(f) : Dir(g) = "journal"
      BY DirsAre DEF JournalOf
    <3>3. f \in SourceParts \/ Dir(f) = "spool"
      BY <2>1, DirsAre DEF Parts, SourceParts
    <3> QED BY <3>1, <3>2, <3>3
  <2> QED BY <1>1, <2>1, <2>2, <2>3 DEF Makes, Within
<1>3. CASE phase = "commits"
  BY <1>1, <1>3 DEF Swept, SweepCommit
<1>4. CASE phase = "records"
  <2>1. PICK answer \in ReservationActive : p = SweepRecord(answer)
    BY <1>4 DEF Swept
  <2>2. answer = "yes"
    BY <2>1 DEF ReservationActive, Ask, Answered
  <2> QED BY <1>1, <2>1, <2>2 DEF SweepRecord, Here, Whole, Triplet
<1>5. CASE phase = "payloads"
  BY <1>1, <1>5 DEF Swept, SweepPayload, Here, Whole, Triplet
<1>6. CASE phase = "expired"
  BY <1>1, <1>6 DEF Swept, SweepExpired
<1>7. CASE phase = "objects"
  <2>1. Far(p)
    BY <1>7, SweptFits, ProgramFar
  <2> QED BY <2>1, TakenIs DEF Far
<1>8. phase # "rest"
  BY DEF LeftShape
<1> QED BY <1>2, <1>3, <1>4, <1>5, <1>6, <1>7, <1>8 DEF TypeOK, Phases

\* Only a publication makes a source whole, and nothing is swept meanwhile.
LEMMA WholeBefore ==
    ASSUME Shapes, EarlyInv, [Next]_vars, calls # <<>>, calls' # <<>>, Whole'
    PROVE  Whole
<1> USE DEF Shapes
<1>1. Triplet \cap fs'.now \subseteq fs.now
  <2>1. at # "publishing"
    BY DEF EarlyInv, Early
  <2>2. CASE todo # <<>> /\ fs' = After(fs, Head(todo))
    <3>1. IsCall(Head(todo)) /\ Triplet \cap Adds(Head(todo)) = {}
      <4>1. \A f \in Triplet : f \notin SpoolFiles /\ (\A a : f \notin StagedFiles(a) /\ f # Reference(a))
        BY TakenIs, FormalIs
      <4>2. CASE at = "spooling"
        <5>1. Makes(todo, SpoolFiles, SpoolFiles)
          BY <4>2 DEF UploadShape, Fits
        <5> QED BY <2>2, <4>1, <5>1, MakesTail
      <4>3. CASE at = "staging"
        <5>1. Makes(todo, StagedFiles(try), Replaced(try))
          BY <4>3 DEF UploadShape, Fits
        <5>2. IsCall(Head(todo)) /\ Adds(Head(todo)) \subseteq StagedFiles(try)
          BY <2>2, <5>1, MakesTail
        <5> QED BY <4>1, <5>2
      <4>4. CASE at = "marking"
        <5>1. Makes(todo, {Reference(row)}, MarkedFiles(row))
          BY <4>4 DEF UploadShape, Fits
        <5>2. IsCall(Head(todo)) /\ Adds(Head(todo)) \subseteq {Reference(row)}
          BY <2>2, <5>1, MakesTail
        <5> QED BY <4>1, <5>2
      <4>5. CASE at \in {"rolling", "unstaging", "aborting"}
        <5>1. PICK R : Makes(todo, {}, R)
          BY <4>5 DEF UploadShape, Fits
        <5> QED BY <2>2, <5>1, RemovesOnward
      <4>6. CASE at \in {"idle", "open", "using", "clean"}
        BY <2>2, <4>6 DEF UploadShape, Fits
      <4> QED BY <2>1, <4>2, <4>3, <4>4, <4>5, <4>6 DEF TypeOK, Activities
    <3> QED BY <2>2, <3>1, AfterIs DEF IsCall
  <2>3. CASE calls # <<>> /\ fs' = After(fs, Head(calls))
    <3>1. IsCall(Head(calls)) /\ Triplet \cap Adds(Head(calls)) = {}
      <4>1. CASE phase = "objects"
        <5>1. IsCall(Head(calls)) /\ IsProgram(calls)
          BY <2>3, SweepOnward
        <5>2. FormalFiles \cap (Adds(Head(calls)) \cup Removes(Head(calls))) = {}
          BY <2>3, <4>1, <5>1, ObjectsFar, FarHead
        <5> QED BY <5>1, <5>2, TakenIs
      <4> QED BY <2>3, <4>1, DeletesGo
    <3> QED BY <2>3, <3>1, AfterIs DEF IsCall
  <2> QED BY <2>2, <2>3, FilesMove
<1> QED BY <1>1 DEF Whole, Triplet

LEMMA NextHalf ==
    ASSUME Shapes, EarlyInv, HalfInv, Answered, [Next]_vars
    PROVE  HalfInv'
<1> SUFFICES ASSUME phase' \notin {"pending", "journals"}, time' # "over",
                    NEW i \in DOMAIN calls', Triplet \cap Removes(calls'[i]) # {}
             PROVE  ~Whole'
  BY DEF HalfInv, Triplet, Payload, Record, Commit
<1> USE DEF Shapes
<1>1. time # "over"
  BY EarlyBefore
<1>2. calls' # <<>>
  BY DEF Triplet
<1>3. ASSUME calls # <<>>, phase' = phase, NEW j \in DOMAIN calls, calls'[i] = calls[j]
      PROVE  ~Whole'
  <2>1. ~Whole
    BY <1>1, <1>3 DEF HalfInv
  <2> QED BY <1>2, <1>3, <2>1, WholeBefore
<1>4. CASE \E f \in left : Sweep(f)
  <2>1. PICK f \in left : Sweep(f)
    BY <1>4
  <2>2. calls' \in Swept(f) /\ fs' = fs /\ phase' = phase
    BY <2>1 DEF Sweep
  <2>3. ~Whole
    BY <1>1, <2>2, SweptHalf
  <2> QED BY <2>2, <2>3 DEF Whole
<1>5. CASE JanitorCall
  <2>1. calls # <<>> /\ phase' = phase
    BY <1>5 DEF JanitorCall
  <2>2. IsProgram(calls)
    BY <2>1, SweepOnward
  <2>3. CASE calls' = Tail(calls)
    <3>1. i + 1 \in DOMAIN calls /\ calls'[i] = calls[i + 1]
      BY <2>1, <2>2, <2>3, TailIs
    <3> QED BY <1>3, <2>1, <3>1
  <2>4. CASE calls' = SubSeq(calls, 3, Len(calls))
    <3>1. i + 2 \in DOMAIN calls /\ calls'[i] = calls[i + 2]
      BY <2>1, <2>2, <2>4, RestIs
    <3> QED BY <1>3, <2>1, <3>1
  <2>5. CASE \E f : calls' = <<Put(f, {}), Sync("journal")>>
    <3>1. PICK f : calls' = <<Put(f, {}), Sync("journal")>>
      BY <2>5
    <3>2. PICK b, c : b = Put(f, {}) /\ c = Sync("journal")
      OBVIOUS
    <3>3. Removes(b) = {} /\ Removes(c) = {}
      BY <3>2 DEF Put, Sync, Removes
    <3>4. IsProgram(<<b, c>>) /\ Len(<<b, c>>) = 2 /\ <<b, c>>[1] = b /\ <<b, c>>[2] = c
      BY PairIs
    <3>5. DOMAIN calls' = 1..2
      BY <3>1, <3>2, <3>4, ProgramIs
    <3>6. i = 1 \/ i = 2
      BY <3>5
    <3> QED BY <3>1, <3>2, <3>3, <3>4, <3>6
  <2>6. calls' = <<>> \/ calls' = Tail(calls) \/ calls' = SubSeq(calls, 3, Len(calls))
        \/ \E f : calls' = <<Put(f, {}), Sync("journal")>>
    BY <1>5 DEF JanitorCall, GivenUp
  <2> QED BY <1>2, <2>3, <2>4, <2>5, <2>6
<1>6. CASE NextPhase \/ Crash
  BY <1>2, <1>6 DEF NextPhase, Crash
<1>7. CASE UploadStep \/ Grow \/ Pass \/ UNCHANGED vars
  <2>1. calls' = calls /\ phase' = phase
    BY <1>7 DEF UploadStep, Begin, Scan, Open, Activate, Use, Finalize, Over, Call, Grow, Pass, vars, janitor
  <2> QED BY <1>2, <1>3, <2>1
<1> QED BY <1>4, <1>5, <1>6, <1>7 DEF Next, SweepStep
-----------------------------------------------------------------------------
(* The order in which a deletion takes the files of a source *)

Around == {Commit, Intent, Done}
Shuns(s) == \A i \in DOMAIN s : Around \cap (Adds(s[i]) \cup Removes(s[i])) = {}

LEMMA AroundIs ==
    /\ Commit # Intent /\ Commit # Done /\ Intent # Done /\ Dir(Commit) = "commits"
    /\ Dir(Intent) = "journal" /\ Dir(Done) = "journal"
    /\ {Commit, Intent, Done} \cap ({Payload, Record} \cup Intents) = {}
BY DirsAre DEF Commit, Intent, Done, Payload, Record, Intents, Journal

LEMMA OrderlyStays ==
    ASSUME NEW d, NEW e, Alike(d, e), NEW s, IsProgram(s), NEW l, NEW m, l => m, Orderly(d, s, l)
    PROVE  Orderly(e, s, m)
<1>1. /\ Commit \in FormalFiles /\ Intent \in FormalFiles
  BY TakenIs DEF Triplet
<1>2. \A i \in DOMAIN s : Cleared(d, s, i, Commit) => Cleared(e, s, i, Commit)
  BY <1>1 DEF Alike, Cleared, Either
<1>3. Commit \in Either(e) => Commit \in Either(d)
  BY <1>1 DEF Alike, Either
<1>4. \A i \in DOMAIN s : Announced(d, s, i, l) => Announced(e, s, i, m)
  BY <1>1 DEF Alike, Announced, Ensured
<1>5. \A i \in Touches(s, {Payload, Record} \cup Intents) : Cleared(e, s, i, Commit)
  BY <1>2 DEF Orderly, Touches
<1>6. \A i \in DOMAIN s : Commit \in Removes(s[i]) =>
         /\ i + 1 \in DOMAIN s /\ Syncs(s[i + 1], "commits")
         /\ Commit \in Either(e) => Announced(e, s, i, m)
  BY <1>3, <1>4 DEF Orderly
<1>7. \A i \in DOMAIN s : Intent \in Removes(s[i]) =>
         Cleared(e, s, i, Commit) /\ \A j \in DOMAIN s : Commit \in Removes(s[j]) => j < i
  BY <1>2 DEF Orderly
<1>8. \A f \in {Intent, Done} : \A i \in DOMAIN s : f \in Adds(s[i]) => \E k \in DOMAIN s : k > i /\ f \in Removes(s[k])
  BY DEF Orderly
<1> QED BY <1>5, <1>6, <1>7, <1>8 DEF Orderly

LEMMA OrderlyFar ==
    ASSUME NEW s, Far(s), NEW d, NEW l
    PROVE  /\ Orderly(d, s, l) /\ Touches(s, Taken) = {}
           /\ \A f \in {Intent, Done} : ~Ends(s, f)
<1>1. \A i \in DOMAIN s : \A f \in Taken \cup {Intent, Done} : f \notin Adds(s[i]) /\ f \notin Removes(s[i])
  BY TakenIs DEF Far, FormalFiles
<1>2. {Payload, Record} \cup Intents \subseteq Taken /\ Commit \in Taken
  BY TakenIs DEF Taken, Triplet
<1>3. Touches(s, Taken) = {} /\ Touches(s, {Payload, Record} \cup Intents) = {}
  BY <1>1, <1>2 DEF Touches
<1> QED BY <1>1, <1>2, <1>3 DEF Orderly, Ends

LEMMA OrderlyGone ==
    ASSUME NEW s, Shuns(s), NEW d, Commit \notin Either(d), NEW l
    PROVE  Orderly(d, s, l)
<1>1. \A i \in DOMAIN s : Cleared(d, s, i, Commit)
  BY DEF Cleared
<1>2. \A i \in DOMAIN s : \A f \in {Commit, Intent, Done} : f \notin Adds(s[i]) /\ f \notin Removes(s[i])
  BY DEF Shuns, Around
<1> QED BY <1>1, <1>2 DEF Orderly, Touches

LEMMA OrderlyNone ==
    ASSUME NEW d, NEW l
    PROVE  /\ Orderly(d, <<>>, l) /\ Touches(<<>>, Taken) = {}
           /\ \A f \in {Intent, Done} : ~Ends(<<>>, f)
<1>1. Far(<<>>)
  BY DEF Far
<1> QED BY <1>1, OrderlyFar

\* What is cleared before a call of s is so in what continues s.
LEMMA Continued ==
    ASSUME NEW s, IsProgram(s), NEW u, \A i \in 1..Len(s) : u[i] = s[i], NEW d, NEW f,
           NEW i \in 1..(Len(s) + 1)
    PROVE  /\ Cleared(d, s, i, f) => Cleared(d, u, i, f)
           /\ Ensured(d, s, i, f) => Ensured(d, u, i, f)
<1>1. Len(s) \in Nat
  BY ProgramIs
<1>2. \A k \in 1..(i - 1) : k \in 1..Len(s) /\ \A j \in 1..(k - 1) : j \in 1..Len(s)
  BY <1>1
<1> QED BY <1>1, <1>2 DEF Cleared, Ensured

LEMMA ClearedLater ==
    ASSUME NEW d, NEW s, NEW i \in Nat, NEW j \in Nat, i <= j, NEW f, Cleared(d, s, i, f)
    PROVE  Cleared(d, s, j, f)
<1>1. \A k \in 1..(i - 1) : k \in 1..(j - 1)
  OBVIOUS
<1> QED BY <1>1 DEF Cleared

LEMMA OrderlyMore ==
    ASSUME NEW s, IsProgram(s), NEW t, IsProgram(t), Shuns(t), NEW d, NEW l,
           Orderly(d, s, l), Cleared(d, s, Len(s) + 1, Commit), NEW u, u = s \o t
    PROVE  IsProgram(u) /\ Orderly(d, u, l) /\ Cleared(d, u, Len(u) + 1, Commit)
<1>1. /\ Len(s) \in Nat /\ Len(t) \in Nat /\ DOMAIN s = 1..Len(s) /\ DOMAIN t = 1..Len(t)
      /\ IsProgram(u) /\ Len(u) = Len(s) + Len(t)
  BY JoinedIs, ProgramIs
<1>2. DOMAIN u = 1..(Len(s) + Len(t))
  BY <1>1, ProgramIs
<1>3. \A i \in 1..Len(s) : u[i] = s[i]
  BY JoinedIs
<1>4. ASSUME NEW i \in DOMAIN u, i \notin 1..Len(s)
      PROVE  i > Len(s) /\ \A f \in {Commit, Intent, Done} : f \notin Adds(u[i]) /\ f \notin Removes(u[i])
  <2>1. PICK j \in 1..Len(t) : i = Len(s) + j
    <3>1. i - Len(s) \in 1..Len(t) /\ i = Len(s) + (i - Len(s))
      BY <1>1, <1>2, <1>4
    <3> QED BY <3>1
  <2>2. u[i] = t[j]
    BY <2>1, JoinedIs
  <2>3. i > Len(s)
    BY <1>1, <2>1
  <2> QED BY <1>1, <2>2, <2>3 DEF Shuns, Around
<1>5. Cleared(d, u, Len(s) + 1, Commit)
  <2>1. Len(s) + 1 \in 1..(Len(s) + 1)
    BY <1>1
  <2> QED BY <1>3, <2>1, Continued
<1>6. \A i \in 1..Len(s) : /\ Cleared(d, s, i, Commit) => Cleared(d, u, i, Commit)
                           /\ Announced(d, s, i, l) => Announced(d, u, i, l)
  <2>1. \A i \in 1..Len(s) : i \in 1..(Len(s) + 1)
    BY <1>1
  <2> QED BY <1>3, <2>1, Continued DEF Announced
<1>7. ASSUME NEW i \in Touches(u, {Payload, Record} \cup Intents)
      PROVE  Cleared(d, u, i, Commit)
  <2>1. i \in DOMAIN u /\ ({Payload, Record} \cup Intents) \cap (Adds(u[i]) \cup Removes(u[i])) # {}
    BY DEF Touches
  <2>2. CASE i \in 1..Len(s)
    <3>1. i \in Touches(s, {Payload, Record} \cup Intents)
      BY <1>1, <1>3, <2>1, <2>2 DEF Touches
    <3> QED BY <1>6, <2>2, <3>1 DEF Orderly
  <2>3. CASE i \notin 1..Len(s)
    <3>1. Len(s) + 1 <= i /\ i \in Nat /\ Len(s) + 1 \in Nat
      BY <1>1, <1>2, <2>1, <2>3
    <3> QED BY <1>5, <3>1, ClearedLater
  <2> QED BY <2>2, <2>3
<1>8. ASSUME NEW i \in DOMAIN u, Commit \in Removes(u[i])
      PROVE  /\ i + 1 \in DOMAIN u /\ Syncs(u[i + 1], "commits")
             /\ Commit \in Either(d) => Announced(d, u, i, l)
  <2>1. i \in 1..Len(s)
    BY <1>4, <1>8
  <2>2. /\ i + 1 \in 1..Len(s) /\ Syncs(s[i + 1], "commits")
        /\ Commit \in Either(d) => Announced(d, s, i, l)
    BY <1>1, <1>3, <1>8, <2>1 DEF Orderly
  <2>3. i + 1 \in DOMAIN u
    BY <1>1, <1>2, <2>2
  <2> QED BY <1>3, <1>6, <2>1, <2>2, <2>3
<1>9. ASSUME NEW i \in DOMAIN u, Intent \in Removes(u[i])
      PROVE  Cleared(d, u, i, Commit) /\ \A j \in DOMAIN u : Commit \in Removes(u[j]) => j < i
  <2>1. i \in 1..Len(s)
    BY <1>4, <1>9
  <2>2. Cleared(d, s, i, Commit) /\ \A j \in 1..Len(s) : Commit \in Removes(s[j]) => j < i
    BY <1>1, <1>3, <1>9, <2>1 DEF Orderly
  <2>3. \A j \in DOMAIN u : Commit \in Removes(u[j]) => j < i
    BY <1>3, <1>4, <2>2
  <2> QED BY <1>6, <2>1, <2>2, <2>3
<1>10. ASSUME NEW f \in {Intent, Done}, NEW i \in DOMAIN u, f \in Adds(u[i])
       PROVE  \E k \in DOMAIN u : k > i /\ f \in Removes(u[k])
  <2>1. i \in 1..Len(s)
    BY <1>4, <1>10
  <2>2. PICK k \in 1..Len(s) : k > i /\ f \in Removes(s[k])
    BY <1>1, <1>3, <1>10, <2>1 DEF Orderly
  <2>3. k \in DOMAIN u /\ u[k] = s[k]
    BY <1>1, <1>2, <1>3, <2>2
  <2> QED BY <2>2, <2>3
<1>11. Cleared(d, u, Len(u) + 1, Commit)
  <2>1. Len(s) + 1 <= Len(u) + 1 /\ Len(s) + 1 \in Nat /\ Len(u) + 1 \in Nat
    BY <1>1
  <2> QED BY <1>5, <2>1, ClearedLater
<1>12. Orderly(d, u, l)
  BY <1>7, <1>8, <1>9, <1>10 DEF Orderly
<1> QED BY <1>1, <1>11, <1>12
LEMMA OrderlyOnward ==
    ASSUME NEW d, NEW s, IsProgram(s), s # <<>>, Head(s).do \in Dos, Commit \notin Adds(Head(s)), NEW l,
           Orderly(d, s, l), NEW e, e = After(d, Head(s)), NEW t, t = Tail(s)
    PROVE  Orderly(e, t, l)
<1>1. /\ Len(s) \in Nat \ {0} /\ DOMAIN s = 1..Len(s) /\ Head(s) = s[1] /\ IsProgram(t)
      /\ DOMAIN t = 1..(Len(s) - 1) /\ \A i \in 1..(Len(s) - 1) : t[i] = s[i + 1]
  BY TailIs
<1>2. \A i \in DOMAIN t : i \in 1..Len(s) /\ i + 1 \in DOMAIN s /\ t[i] = s[i + 1]
  BY <1>1
<1>3. \A i \in DOMAIN t : Cleared(d, s, i + 1, Commit) => Cleared(e, t, i, Commit)
  BY <1>2, ClearedOnward
<1>4. \A i \in Touches(t, {Payload, Record} \cup Intents) : Cleared(e, t, i, Commit)
  <2> SUFFICES ASSUME NEW i \in DOMAIN t, ({Payload, Record} \cup Intents) \cap (Adds(t[i]) \cup Removes(t[i])) # {}
               PROVE  Cleared(e, t, i, Commit)
    BY DEF Touches
  <2>1. i + 1 \in Touches(s, {Payload, Record} \cup Intents)
    BY <1>2 DEF Touches
  <2> QED BY <2>1, <1>3 DEF Orderly
<1>5. ASSUME NEW i \in DOMAIN t, Commit \in Removes(t[i])
      PROVE  /\ i + 1 \in DOMAIN t /\ Syncs(t[i + 1], "commits")
             /\ Commit \in Either(e) => Announced(e, t, i, l)
  <2>1. i + 1 \in DOMAIN s /\ Commit \in Removes(s[i + 1]) /\ i \in 1..Len(s) /\ i \in Nat
    BY <1>2, <1>1, <1>5
  <2>2. /\ (i + 1) + 1 \in DOMAIN s /\ Syncs(s[(i + 1) + 1], "commits")
        /\ Commit \in Either(d) => Announced(d, s, i + 1, l)
    BY <2>1 DEF Orderly
  <2>3. i + 1 \in DOMAIN t /\ t[i + 1] = s[(i + 1) + 1]
    BY <2>1, <2>2, <1>1
  <2>4. Intent \notin Removes(Head(s))
    <3>1. SUFFICES ASSUME Intent \in Removes(s[1])
                   PROVE  FALSE
      BY <1>1
    <3>2. 1 \in DOMAIN s
      BY <1>1
    <3>3. i + 1 < 1
      BY <3>1, <3>2, <2>1 DEF Orderly
    <3> QED BY <3>3, <2>1
  <2>5. Commit \in Either(e) => Commit \in Either(d)
    BY EitherAfter
  <2>6. Ensured(d, s, i + 1, Intent) => Ensured(e, t, i, Intent)
    BY <2>4, <2>1, EnsuredOnward
  <2>7. Intent \in d.now => Intent \in e.now
    BY <2>4, AfterIs
  <2>8. Announced(d, s, i + 1, l) => Announced(e, t, i, l)
    BY <2>6, <2>7 DEF Announced
  <2> QED BY <2>2, <2>3, <2>5, <2>8
<1>6. ASSUME NEW i \in DOMAIN t, Intent \in Removes(t[i])
      PROVE  Cleared(e, t, i, Commit) /\ \A j \in DOMAIN t : Commit \in Removes(t[j]) => j < i
  <2>1. i + 1 \in DOMAIN s /\ Intent \in Removes(s[i + 1]) /\ i \in Nat
    BY <1>2, <1>1, <1>6
  <2>2. Cleared(d, s, i + 1, Commit) /\ \A j \in DOMAIN s : Commit \in Removes(s[j]) => j < i + 1
    BY <2>1 DEF Orderly
  <2>3. \A j \in DOMAIN t : j \in Nat /\ (Commit \in Removes(t[j]) => j + 1 < i + 1)
    BY <1>1, <1>2, <2>2
  <2>4. \A j \in Nat : j + 1 < i + 1 => j < i
    BY <2>1
  <2> QED BY <2>2, <2>3, <2>4, <1>3
<1>7. ASSUME NEW f \in {Intent, Done}, NEW i \in DOMAIN t, f \in Adds(t[i])
      PROVE  \E k \in DOMAIN t : k > i /\ f \in Removes(t[k])
  <2>1. i + 1 \in DOMAIN s /\ f \in Adds(s[i + 1]) /\ i \in Nat /\ i >= 1
    BY <1>2, <1>1, <1>7
  <2>2. PICK k \in DOMAIN s : k > i + 1 /\ f \in Removes(s[k])
    BY <2>1 DEF Orderly
  <2>3. k - 1 \in DOMAIN t /\ t[k - 1] = s[k] /\ k - 1 > i
    BY <2>1, <2>2, <1>1
  <2> QED BY <2>2, <2>3
<1> QED BY <1>4, <1>5, <1>6, <1>7 DEF Orderly

Onto(u, s, p) == u = s \o p
LEMMA TwoOnto ==
    ASSUME NEW s, IsProgram(s), NEW p, IsProgram(p), Len(p) = 2, NEW u, Onto(u, s, p)
    PROVE  /\ Len(s) = 2 =>
                /\ IsProgram(u) /\ Len(u) = 4 /\ u[3] = p[1] /\ u[4] = p[2] /\ u[1] = s[1] /\ u[2] = s[2]
           /\ Len(s) = 4 =>
                /\ IsProgram(u) /\ Len(u) = 6 /\ u[5] = p[1] /\ u[6] = p[2]
                /\ u[1] = s[1] /\ u[2] = s[2] /\ u[3] = s[3] /\ u[4] = s[4]
<1>1. /\ IsProgram(u) /\ Len(u) = Len(s) + 2 /\ u[Len(s) + 1] = p[1] /\ u[Len(s) + 2] = p[2]
      /\ \A i \in 1..Len(s) : u[i] = s[i]
  BY TwoMore DEF Onto
<1> QED BY <1>1

LEMMA SixIs ==
    ASSUME NEW w, NEW x, NEW y, IsProgram(w), IsProgram(x), IsProgram(y), Len(w) = 2, Len(x) = 2, Len(y) = 2,
           NEW z, Onto(z, w, x), NEW s, Onto(s, z, y)
    PROVE  /\ IsProgram(s) /\ Len(s) = 6 /\ DOMAIN s = 1..6
           /\ s[1] = w[1] /\ s[2] = w[2] /\ s[3] = x[1] /\ s[4] = x[2] /\ s[5] = y[1] /\ s[6] = y[2]
<1>1. IsProgram(z) /\ Len(z) = 4 /\ z[3] = x[1] /\ z[4] = x[2] /\ z[1] = w[1] /\ z[2] = w[2]
  BY TwoOnto
<1>2. /\ IsProgram(s) /\ Len(s) = 6 /\ s[5] = y[1] /\ s[6] = y[2]
      /\ s[1] = z[1] /\ s[2] = z[2] /\ s[3] = z[3] /\ s[4] = z[4]
  BY <1>1, TwoOnto
<1> QED BY <1>1, <1>2, ProgramIs

\* The end of the deletion of the marker, which the journal announces.
LEMMA FinishIs ==
    ASSUME NEW s, s = FinishDeletion(Commit)
    PROVE  /\ IsProgram(s) /\ Len(s) = 6 /\ DOMAIN s = 1..6
           /\ Adds(s[1]) = {} /\ Removes(s[1]) = {Commit}
           /\ Adds(s[2]) = {} /\ Removes(s[2]) = {} /\ Syncs(s[2], "commits")
           /\ Adds(s[3]) = {Done} /\ Removes(s[3]) = {Intent}
           /\ Adds(s[4]) = {} /\ Removes(s[4]) = {}
           /\ Adds(s[5]) = {} /\ Removes(s[5]) = {Done}
           /\ Adds(s[6]) = {} /\ Removes(s[6]) = {}
<1>1. PICK b : b = Unlink(Commit)
  OBVIOUS
<1>2. PICK c : c = Sync("commits")
  OBVIOUS
<1>3. PICK g : g = {Intent}
  OBVIOUS
<1>4. PICK p : p = Put(Done, g)
  OBVIOUS
<1>5. PICK q : q = Sync("journal")
  OBVIOUS
<1>6. PICK u : u = Unlink(Done)
  OBVIOUS
<1>7. PICK v : v = [Sync(Dir(Done)) EXCEPT !.to = Done]
  OBVIOUS
<1>8. PICK w : w = <<b, c>>
  OBVIOUS
<1>14. PICK x : x = <<p, q>>
  OBVIOUS
<1>15. PICK y : y = <<u, v>>
  OBVIOUS
<1>16. s = <<b, c, p, q>> \o <<u, v>>
  BY <1>1, <1>2, <1>3, <1>4, <1>5, <1>6, <1>7, AroundIs DEF FinishDeletion, Erase, Intent, Done
<1>17. PICK z : z = w \o x
  OBVIOUS
<1>18. z = <<b, c, p, q>>
  BY <1>8, <1>14, <1>17, PairsJoined
<1>19. Onto(s, z, y) /\ Onto(z, w, x)
  BY <1>15, <1>16, <1>17, <1>18 DEF Onto
<1>20. /\ IsProgram(w) /\ Len(w) = 2 /\ w[1] = b /\ w[2] = c
       /\ IsProgram(x) /\ Len(x) = 2 /\ x[1] = p /\ x[2] = q
       /\ IsProgram(y) /\ Len(y) = 2 /\ y[1] = u /\ y[2] = v
  BY <1>8, <1>14, <1>15, PairIs
<1>9. /\ Adds(b) = {} /\ Removes(b) = {Commit} /\ Adds(u) = {} /\ Removes(u) = {Done}
  BY <1>1, <1>6, UnlinkIs
<1>10. Adds(c) = {} /\ Removes(c) = {} /\ Syncs(c, "commits") /\ Adds(q) = {} /\ Removes(q) = {}
  BY <1>2, <1>5, SyncIs
<1>11. Adds(v) = {} /\ Removes(v) = {}
  BY <1>7, EndIs
<1>12. Adds(p) = {Done} /\ Removes(p) = {Intent}
  <2>1. Adds(p) = {Done} /\ Removes(p) = g \ {Done}
    BY <1>4, PutIs
  <2> QED BY <2>1, <1>3, AroundIs
<1>13. /\ IsProgram(s) /\ Len(s) = 6 /\ DOMAIN s = 1..6
       /\ s[1] = b /\ s[2] = c /\ s[3] = p /\ s[4] = q /\ s[5] = u /\ s[6] = v
  BY <1>19, <1>20, SixIs
<1> QED BY <1>9, <1>10, <1>11, <1>12, <1>13

LEMMA OrderlyFinish ==
    ASSUME NEW d, NEW l, Commit \in Either(d) => Intent \in Firm(d) \/ (l /\ Intent \in d.now),
           NEW s, s = FinishDeletion(Commit)
    PROVE  /\ IsProgram(s) /\ Orderly(d, s, l) /\ Cleared(d, s, Len(s) + 1, Commit)
           /\ \A f \in {Intent, Done} : Ends(s, f)
<1>1. /\ IsProgram(s) /\ Len(s) = 6 /\ DOMAIN s = 1..6
      /\ Adds(s[1]) = {} /\ Removes(s[1]) = {Commit}
      /\ Adds(s[2]) = {} /\ Removes(s[2]) = {} /\ Syncs(s[2], "commits")
      /\ Adds(s[3]) = {Done} /\ Removes(s[3]) = {Intent}
      /\ Adds(s[4]) = {} /\ Removes(s[4]) = {}
      /\ Adds(s[5]) = {} /\ Removes(s[5]) = {Done}
      /\ Adds(s[6]) = {} /\ Removes(s[6]) = {}
  BY FinishIs
<1>2. \A i \in 1..6 : i = 1 \/ i = 2 \/ i = 3 \/ i = 4 \/ i = 5 \/ i = 6
  OBVIOUS
<1>3. \A i \in Nat : i >= 3 => Cleared(d, s, i, Commit)
  <2> SUFFICES ASSUME NEW i \in Nat, i >= 3
               PROVE  Cleared(d, s, i, Commit)
    OBVIOUS
  <2>1. 2 \in 1..(i - 1) /\ 1 \in 1..(2 - 1)
    OBVIOUS
  <2> QED BY <2>1, <1>1, AroundIs DEF Cleared
<1>4. \A i \in DOMAIN s : ({Payload, Record} \cup Intents) \cap (Adds(s[i]) \cup Removes(s[i])) = {}
  BY <1>1, <1>2, AroundIs
<1>5. \A i \in DOMAIN s : /\ Commit \in Removes(s[i]) => i = 1
                          /\ Intent \in Removes(s[i]) => i = 3
                          /\ Intent \notin Adds(s[i]) /\ (Done \in Adds(s[i]) => i = 3)
  BY <1>1, <1>2, AroundIs
<1>6. Commit \in Either(d) => Announced(d, s, 1, l)
  BY DEF Announced, Ensured
<1>7. Orderly(d, s, l)
  <2>1. Touches(s, {Payload, Record} \cup Intents) = {}
    BY <1>4 DEF Touches
  <2>2. \A i \in DOMAIN s : Commit \in Removes(s[i]) =>
          /\ i + 1 \in DOMAIN s /\ Syncs(s[i + 1], "commits")
          /\ Commit \in Either(d) => Announced(d, s, i, l)
    <3> SUFFICES ASSUME NEW i \in DOMAIN s, Commit \in Removes(s[i])
                 PROVE  /\ i + 1 \in DOMAIN s /\ Syncs(s[i + 1], "commits")
                        /\ Commit \in Either(d) => Announced(d, s, i, l)
      OBVIOUS
    <3>1. i = 1 /\ i + 1 = 2 /\ 2 \in 1..6
      BY <1>5
    <3> QED BY <3>1, <1>1, <1>6
  <2>3. \A i \in DOMAIN s : Intent \in Removes(s[i]) =>
          Cleared(d, s, i, Commit) /\ \A j \in DOMAIN s : Commit \in Removes(s[j]) => j < i
    BY <1>3, <1>5
  <2>4. \A f \in {Intent, Done} : \A i \in DOMAIN s : f \in Adds(s[i]) => \E k \in DOMAIN s : k > i /\ f \in Removes(s[k])
    BY <1>1, <1>5
  <2> QED BY <2>1, <2>2, <2>3, <2>4 DEF Orderly
<1>8. \A f \in {Intent, Done} : Ends(s, f)
  BY <1>1 DEF Ends
<1> QED BY <1>1, <1>3, <1>7, <1>8

\* A whole deletion writes and syncs the entry first.
LEMMA OrderlyCommit ==
    ASSUME NEW d, NEW l, NEW p, p = <<Put(Intent, {}), Sync("journal")>>, NEW s, s = FinishDeletion(Commit),
           NEW u, Onto(u, p, s)
    PROVE  IsProgram(u) /\ Orderly(d, u, l) /\ Cleared(d, u, Len(u) + 1, Commit)
<1>1. /\ IsProgram(s) /\ Len(s) = 6
      /\ Adds(s[1]) = {} /\ Removes(s[1]) = {Commit}
      /\ Adds(s[2]) = {} /\ Removes(s[2]) = {} /\ Syncs(s[2], "commits")
      /\ Adds(s[3]) = {Done} /\ Removes(s[3]) = {Intent}
      /\ Adds(s[4]) = {} /\ Removes(s[4]) = {}
      /\ Adds(s[5]) = {} /\ Removes(s[5]) = {Done}
      /\ Adds(s[6]) = {} /\ Removes(s[6]) = {}
  BY FinishIs
<1>2. PICK g : g = {}
  OBVIOUS
<1>3. PICK b : b = Put(Intent, g)
  OBVIOUS
<1>4. PICK c : c = Sync("journal")
  OBVIOUS
<1>5. /\ Adds(b) = {Intent} /\ Removes(b) = {} /\ Adds(c) = {} /\ Removes(c) = {} /\ Syncs(c, "journal")
  <2>1. Adds(b) = {Intent} /\ Removes(b) = g \ {Intent}
    BY <1>3, PutIs
  <2> QED BY <2>1, <1>2, <1>4, SyncIs
<1>6. IsProgram(p) /\ Len(p) = 2 /\ p[1] = b /\ p[2] = c
  <2>1. p = <<b, c>>
    BY <1>2, <1>3, <1>4
  <2>2. PICK q : q = <<b, c>>
    OBVIOUS
  <2>3. IsProgram(q) /\ Len(q) = 2 /\ q[1] = b /\ q[2] = c
    BY <2>2, PairIs
  <2> QED BY <2>1, <2>2, <2>3
<1>7. /\ IsProgram(u) /\ Len(u) = 8 /\ DOMAIN u = 1..8 /\ u[1] = b /\ u[2] = c
      /\ \A i \in 1..6 : u[2 + i] = s[i]
  <2>1. IsProgram(p) /\ IsProgram(s) /\ u = p \o s
    BY <1>1, <1>6 DEF Onto
  <2>2. /\ IsProgram(u) /\ Len(u) = Len(p) + Len(s)
        /\ \A i \in 1..Len(p) : u[i] = p[i]
        /\ \A i \in 1..Len(s) : u[Len(p) + i] = s[i]
    BY <2>1, JoinedIs
  <2> HIDE <2>1
  <2>3. Len(u) = 8 /\ u[1] = p[1] /\ u[2] = p[2]
    BY <2>2, <1>1, <1>6
  <2>4. DOMAIN u = 1..8
    BY <2>2, <2>3, ProgramIs
  <2> QED BY <2>2, <2>3, <2>4, <1>1, <1>6
<1>8. /\ u[3] = s[1] /\ u[4] = s[2] /\ u[5] = s[3] /\ u[6] = s[4] /\ u[7] = s[5] /\ u[8] = s[6]
  <2>1. /\ u[2 + 1] = s[1] /\ u[2 + 2] = s[2] /\ u[2 + 3] = s[3] /\ u[2 + 4] = s[4] /\ u[2 + 5] = s[5]
        /\ u[2 + 6] = s[6]
    BY <1>7
  <2> QED BY <2>1
<1>9. \A i \in 1..8 : i = 1 \/ i = 2 \/ i = 3 \/ i = 4 \/ i = 5 \/ i = 6 \/ i = 7 \/ i = 8
  OBVIOUS
<1>10. \A i \in Nat : i >= 5 => Cleared(d, u, i, Commit)
  <2> SUFFICES ASSUME NEW i \in Nat, i >= 5
               PROVE  Cleared(d, u, i, Commit)
    OBVIOUS
  <2>1. 4 \in 1..(i - 1) /\ 3 \in 1..(4 - 1)
    OBVIOUS
  <2> QED BY <2>1, <1>1, <1>8, AroundIs DEF Cleared
<1>11. \A i \in DOMAIN u : ({Payload, Record} \cup Intents) \cap (Adds(u[i]) \cup Removes(u[i])) = {}
  <2>1. \A i \in 1..8 : Adds(u[i]) \cup Removes(u[i]) \subseteq Around
    BY <1>1, <1>5, <1>7, <1>8, <1>9 DEF Around
  <2> QED BY <2>1, <1>7, AroundIs DEF Around
<1>12. \A i \in DOMAIN u : /\ Commit \in Removes(u[i]) => i = 3
                           /\ Intent \in Removes(u[i]) => i = 5
                           /\ Intent \in Adds(u[i]) => i = 1
                           /\ Done \in Adds(u[i]) => i = 5
  BY <1>1, <1>5, <1>7, <1>8, <1>9, AroundIs
<1>13. Announced(d, u, 3, l)
  <2>1. 2 \in 1..(3 - 1) /\ 1 \in 1..(2 - 1)
    OBVIOUS
  <2>2. Intent \in Adds(u[1]) /\ Syncs(u[2], Dir(Intent))
    BY <1>5, <1>7, AroundIs
  <2> QED BY <2>1, <2>2 DEF Announced, Ensured
<1>14. Orderly(d, u, l)
  <2>1. Touches(u, {Payload, Record} \cup Intents) = {}
    BY <1>11 DEF Touches
  <2>2. \A i \in DOMAIN u : Commit \in Removes(u[i]) =>
          /\ i + 1 \in DOMAIN u /\ Syncs(u[i + 1], "commits")
          /\ Commit \in Either(d) => Announced(d, u, i, l)
    <3> SUFFICES ASSUME NEW i \in DOMAIN u, Commit \in Removes(u[i])
                 PROVE  /\ i + 1 \in DOMAIN u /\ Syncs(u[i + 1], "commits")
                        /\ Commit \in Either(d) => Announced(d, u, i, l)
      OBVIOUS
    <3>1. i = 3 /\ i + 1 = 4 /\ 4 \in 1..8
      BY <1>12
    <3> QED BY <3>1, <1>1, <1>7, <1>8, <1>13
  <2>3. \A i \in DOMAIN u : Intent \in Removes(u[i]) =>
          Cleared(d, u, i, Commit) /\ \A j \in DOMAIN u : Commit \in Removes(u[j]) => j < i
    BY <1>10, <1>12
  <2>4. \A f \in {Intent, Done} : \A i \in DOMAIN u : f \in Adds(u[i]) => \E k \in DOMAIN u : k > i /\ f \in Removes(u[k])
    <3>1. 5 \in 1..8 /\ 7 \in 1..8
      OBVIOUS
    <3>2. Intent \in Removes(u[5]) /\ Done \in Removes(u[7])
      BY <1>1, <1>8
    <3> QED BY <3>1, <3>2, <1>7, <1>12
  <2> QED BY <2>1, <2>2, <2>3, <2>4 DEF Orderly
<1>15. Len(u) + 1 \in Nat /\ Len(u) + 1 >= 5
  BY <1>7
<1> QED BY <1>7, <1>10, <1>14, <1>15

LEMMA SourceNames ==
    ASSUME NEW f \in SourceFiles
    PROVE  /\ f \notin JournalFiles /\ JournalOf(f) \subseteq JournalFiles
           /\ f # Commit => Around \cap (JournalOf(f) \cup {f}) = {}
           /\ f \notin Triplet => Taken \cap (JournalOf(f) \cup {f}) = {} /\ Done \notin JournalOf(f)
<1>1. f \notin JournalFiles
  BY DirsDiffer
<1>2. JournalOf(f) \subseteq JournalFiles
  BY DEF JournalOf, JournalFiles
<1>3. {Commit} \cap JournalFiles = {} /\ Triplet \cap JournalFiles = {}
  BY DirsDiffer, AroundIs DEF Triplet, SourceFiles
<1>4. \A g : g # f => \A s : Journal(g, s) \notin JournalOf(f)
  BY DEF JournalOf, Journal
<1>5. f # Commit => Intent \notin JournalOf(f) /\ Done \notin JournalOf(f)
  BY <1>4 DEF Intent, Done
<1>6. f # Commit => Around \cap (JournalOf(f) \cup {f}) = {}
  BY <1>1, <1>2, <1>3, <1>5, TakenIs DEF Around
<1>7. f \notin Triplet => \A g \in Triplet : Journal(g, "intent") \notin JournalOf(f)
  BY <1>4
<1>8. \A g \in Triplet : Journal(g, "intent") \in JournalFiles
  BY DEF JournalFiles, SourceFiles
<1>9. f \notin Triplet => Taken \cap (JournalOf(f) \cup {f}) = {}
  BY <1>1, <1>2, <1>3, <1>7, <1>8 DEF Taken
<1> QED BY <1>1, <1>2, <1>5, <1>6, <1>9 DEF Triplet

\* A deletion of another file says nothing of the marker.
LEMMA DeletionShuns ==
    ASSUME NEW f \in SourceFiles \ {Commit}
    PROVE  /\ IsProgram(FinishDeletion(f)) /\ Shuns(FinishDeletion(f))
           /\ IsProgram(RecoveryUnlink(f)) /\ Shuns(RecoveryUnlink(f))
<1>1. Around \cap (JournalOf(f) \cup {f}) = {}
  BY SourceNames
<1>2. /\ Makes(FinishDeletion(f), JournalOf(f), JournalOf(f) \cup {f})
      /\ Makes(RecoveryUnlink(f), JournalOf(f), JournalOf(f) \cup {f})
  BY DeletionTouches
<1>3. \A s : Makes(s, JournalOf(f), JournalOf(f) \cup {f}) => IsProgram(s) /\ Shuns(s)
  BY <1>1 DEF Makes, Within, Shuns
<1> QED BY <1>2, <1>3

\* Where no other deletion of it is under way.
LEMMA MarkerDeleted ==
    ASSUME ~Here(Intent), ~Here(Done), Commit \in fs.disk => Here(Commit), NEW l,
           NEW s, s = RecoveryUnlink(Commit)
    PROVE  IsProgram(s) /\ Orderly(fs, s, l) /\ Cleared(fs, s, Len(s) + 1, Commit)
<1>1. CASE ~Here(Commit)
  <2>1. s = <<>>
    BY <1>1 DEF RecoveryUnlink
  <2>2. Commit \notin Either(fs)
    BY <1>1 DEF Here, Either
  <2>3. Orderly(fs, s, l)
    BY <2>1, OrderlyNone
  <2>4. IsProgram(s)
    BY <2>1, MakesNothing DEF Makes
  <2> QED BY <2>2, <2>3, <2>4 DEF Cleared
<1>2. CASE Here(Commit)
  <2>1. PICK p : p = <<Put(Intent, {}), Sync("journal")>>
    OBVIOUS
  <2>2. PICK t : t = FinishDeletion(Commit)
    OBVIOUS
  <2>3. Onto(s, p, t)
    BY <1>2, <2>1, <2>2 DEF RecoveryUnlink, Intent, Done, Onto
  <2> QED BY <2>1, <2>2, <2>3, OrderlyCommit
<1> QED BY <1>1, <1>2

LEMMA TripletOrderly ==
    ASSUME ~Here(Intent), ~Here(Done), Commit \in fs.disk => Here(Commit), NEW l
    PROVE  Orderly(fs, DeleteTriplet, l)
<1>1. PICK s : s = RecoveryUnlink(Commit)
  OBVIOUS
<1>2. PICK t : t = RecoveryUnlink(Payload)
  OBVIOUS
<1>3. PICK u : u = RecoveryUnlink(Record)
  OBVIOUS
<1>4. IsProgram(s) /\ Orderly(fs, s, l) /\ Cleared(fs, s, Len(s) + 1, Commit)
  BY <1>1, MarkerDeleted
<1>5. Payload \in SourceFiles \ {Commit} /\ Record \in SourceFiles \ {Commit}
  BY AroundIs DEF SourceFiles, Triplet
<1>6. IsProgram(t) /\ Shuns(t) /\ IsProgram(u) /\ Shuns(u)
  BY <1>2, <1>3, <1>5, DeletionShuns
<1>7. PICK v : v = s \o t
  OBVIOUS
<1>8. IsProgram(v) /\ Orderly(fs, v, l) /\ Cleared(fs, v, Len(v) + 1, Commit)
  BY <1>4, <1>6, <1>7, OrderlyMore
<1>9. PICK w : w = v \o u
  OBVIOUS
<1>10. Orderly(fs, w, l)
  BY <1>6, <1>8, <1>9, OrderlyMore
<1>11. DeleteTriplet = w
  BY <1>1, <1>2, <1>3, <1>7, <1>9 DEF DeleteTriplet
<1> QED BY <1>10, <1>11

\* A program that takes nothing of the source nor of its journal.
Quiet(s) == \A i \in DOMAIN s : Taken \cap (Adds(s[i]) \cup Removes(s[i])) = {} /\ Done \notin Adds(s[i])

LEMMA QuietIs ==
    ASSUME NEW s, Quiet(s), NEW d, NEW l
    PROVE  Orderly(d, s, l) /\ Touches(s, Taken) = {} /\ ~Ends(s, Intent)
<1>1. \A i \in DOMAIN s : \A f \in Taken : f \notin Adds(s[i]) /\ f \notin Removes(s[i])
  BY DEF Quiet
<1>2. {Payload, Record} \cup Intents \subseteq Taken /\ Commit \in Taken /\ Intent \in Taken
  BY TakenIs DEF Taken, Triplet
<1>3. Touches(s, {Payload, Record} \cup Intents) = {} /\ Touches(s, Taken) = {}
  BY <1>1, <1>2 DEF Touches
<1>4. Orderly(d, s, l)
  BY <1>1, <1>2, <1>3 DEF Orderly, Quiet
<1> QED BY <1>1, <1>2, <1>3, <1>4 DEF Ends

LEMMA QuietMakes ==
    ASSUME NEW s, NEW A, NEW R, Makes(s, A, R), Taken \cap (A \cup R) = {}, Done \notin A
    PROVE  Quiet(s)
BY DEF Makes, Within, Quiet

\* What is resumed, and that only the deletion of the marker says anything of the marker.
LEMMA JournalSwept ==
    ASSUME Shapes, phase = "journals", NEW f \in left, NEW p \in Swept(f)
    PROVE  /\ f = Done => Ends(p, Done)
           /\ \/ f = Intent /\ p = FinishDeletion(Commit)
              \/ f \in Intents /\ Shuns(p)
              \/ f \notin {Intent} \cup Intents /\ Quiet(p)
<1>1. f \in JournalFiles
  BY DEF Shapes, LeftShape
<1>2. PICK g \in SourceFiles, s \in {"intent", "done"} : f = Journal(g, s)
  BY <1>1 DEF JournalFiles
<1>3. f[2] = s /\ f[3] = g
  BY <1>2 DEF Journal
<1>4. p = IF s = "intent" THEN FinishDeletion(g) ELSE Erase(f)
  BY <1>3 DEF Swept
<1>5. CASE s = "intent"
  <2>1. p = FinishDeletion(g)
    BY <1>4, <1>5
  <2>2. f # Done
    BY <1>3, <1>5 DEF Done, Journal
  <2>3. CASE g = Commit
    BY <2>1, <2>2, <2>3, <1>2, <1>5 DEF Intent
  <2>4. CASE g \in {Payload, Record}
    <3>1. g \in SourceFiles \ {Commit}
      BY <2>4, AroundIs
    <3>2. Shuns(p)
      BY <2>1, <3>1, DeletionShuns
    <3>3. f \in Intents
      BY <2>4, <1>2, <1>5 DEF Intents
    <3> QED BY <2>2, <3>2, <3>3
  <2>5. CASE g \notin Triplet
    <3>1. Makes(p, JournalOf(g), JournalOf(g) \cup {g})
      BY <2>1, DeletionTouches
    <3>2. Taken \cap (JournalOf(g) \cup (JournalOf(g) \cup {g})) = {} /\ Done \notin JournalOf(g)
      BY <2>5, SourceNames
    <3>3. Quiet(p)
      BY <3>1, <3>2, QuietMakes
    <3>4. f \notin {Intent} \cup Intents
      BY <1>3, <2>5 DEF Intent, Intents, Journal, Triplet
    <3> QED BY <2>2, <3>3, <3>4
  <2> QED BY <2>3, <2>4, <2>5 DEF Triplet
<1>6. CASE s = "done"
  <2>1. p = Erase(f)
    BY <1>4, <1>6
  <2>2. \A g1 : f # Journal(g1, "intent")
    BY <1>3, <1>6 DEF Journal
  <2>3. f \notin Taken /\ f \notin {Intent} \cup Intents
    BY <2>2, <1>1, SourceNames DEF Taken, Intent, Intents, SourceFiles
  <2>4. PICK R : R = {f}
    OBVIOUS
  <2>5. PICK A : A = {}
    OBVIOUS
  <2>6. Makes(p, A, R)
    BY <2>1, <2>4, MakesErase
  <2>7. Quiet(p)
    BY <2>3, <2>4, <2>5, <2>6, QuietMakes
  <2>8. Ends(p, f)
    <3>1. PICK b : b = Unlink(f)
      OBVIOUS
    <3>2. PICK c : c = [Sync(Dir(f)) EXCEPT !.to = f]
      OBVIOUS
    <3>3. p = <<b, c>>
      BY <2>1, <3>1, <3>2 DEF Erase
    <3>4. PICK q : q = <<b, c>>
      OBVIOUS
    <3>5. IsProgram(q) /\ Len(q) = 2 /\ q[1] = b
      BY <3>4, PairIs
    <3>6. 1 \in DOMAIN q /\ f \in Removes(b)
      BY <3>1, <3>5, ProgramIs, UnlinkIs
    <3> QED BY <3>3, <3>4, <3>5, <3>6 DEF Ends
  <2> QED BY <2>3, <2>7, <2>8
<1> QED BY <1>5, <1>6

\* Between two deletions, but for those that are to be resumed, no entry is left.
LEMMA Between ==
    ASSUME ResumeInv, failures = 0, calls = <<>>, phase # "rest", phase # "journals"
    PROVE  ~Here(Intent) /\ ~Here(Done) /\ (Commit \in fs.disk => Here(Commit))
<1>1. Resumed = {} /\ \A f \in {Intent, Done} : ~Ends(calls, f)
  BY OrderlyNone DEF Resumed
<1>2. ~Here(Intent) /\ ~Here(Done)
  BY <1>1 DEF ResumeInv, Here
<1> QED BY <1>2 DEF ResumeInv, Here

LEMMA SweptOrderly ==
    ASSUME Shapes, CommitInv, ResumeInv, CalmInv, failures = 0, Answered, calls = <<>>,
           NEW f \in left, NEW p \in Swept(f)
    PROVE  /\ Orderly(fs, p, Late)
           /\ time # "over" /\ Touches(p, Taken) # {} => Commit \notin Either(fs)
<1> DEFINE Fair(q) == /\ Orderly(fs, q, Late)
                      /\ time # "over" /\ Touches(q, Taken) # {} => Commit \notin Either(fs)
<1>1. \A q : Quiet(q) => Fair(q)
  BY QuietIs
<1>2. Commit \notin Either(fs) => \A q : Shuns(q) => Fair(q)
  BY OrderlyGone
<1>3. Fair(<<>>)
  BY OrderlyNone
<1>4. ~(Payload \in fs.now /\ Record \in fs.now) => Commit \notin Either(fs)
  BY DEF CommitInv, Firm
<1>5. phase \in Phases /\ phase # "rest"
  BY DEF Shapes, TypeOK, LeftShape
<1>6. phase # "journals" => ~Here(Intent) /\ ~Here(Done) /\ (Commit \in fs.disk => Here(Commit))
  BY <1>5, Between
<1>7. phase # "journals" /\ time = "over" => Fair(DeleteTriplet)
  BY <1>6, TripletOrderly
<1>8. Payload \in SourceFiles \ {Commit} /\ Record \in SourceFiles \ {Commit}
  BY AroundIs DEF SourceFiles, Triplet
<1>9. Shuns(RecoveryUnlink(Payload)) /\ Shuns(RecoveryUnlink(Record))
  BY <1>8, DeletionShuns
<1> HIDE DEF Fair
<1>10. Fair(p)
  <2>1. CASE phase = "journals"
    <3>1. Resumed = left
      BY <2>1 DEF Resumed
    <3>2. CASE f = Intent /\ p = FinishDeletion(Commit)
      <4>1. Intent \in fs.now /\ (Commit \in Either(fs) => Intent \in fs.disk \/ Late)
        BY <3>1, <3>2 DEF ResumeInv
      <4>2. Commit \in Either(fs) => Intent \in Firm(fs) \/ (Late /\ Intent \in fs.now)
        BY <4>1 DEF Firm
      <4>3. Orderly(fs, p, Late)
        BY <3>2, <4>2, OrderlyFinish
      <4>4. time # "over" => Commit \notin Either(fs)
        BY <3>1, <3>2, TakenIs DEF CalmInv
      <4> QED BY <4>3, <4>4 DEF Fair
    <3>3. CASE f \in Intents /\ Shuns(p)
      <4>1. Commit \notin Either(fs)
        BY <3>1, <3>3 DEF CommitInv
      <4> QED BY <4>1, <3>3, <1>2
    <3>4. CASE Quiet(p)
      BY <3>4, <1>1
    <3> QED BY <2>1, <3>2, <3>3, <3>4, JournalSwept
  <2>2. CASE phase = "parts"
    <3>1. p = <<>> \/ p = RecoveryUnlink(f)
      BY <2>2 DEF Swept
    <3>2. f \in Parts
      BY <2>2 DEF Shapes, LeftShape
    <3>3. f \in SourceFiles /\ f \notin Triplet
      <4>1. CASE f \in SourceParts
        BY <4>1 DEF SourceParts, SourceFiles, Triplet, PayloadPart, RecordPart, CommitPart, Payload, Record, Commit
      <4>2. CASE f \in {SpoolPart(a) : a \in Tries}
        BY <4>2, StoresAssumption DEF Tries, SpoolFiles, SourceFiles, Triplet, SpoolPart, Payload, Record, Commit
      <4> QED BY <3>2, <4>1, <4>2 DEF Parts, SourceParts
    <3>4. Taken \cap (JournalOf(f) \cup (JournalOf(f) \cup {f})) = {} /\ Done \notin JournalOf(f)
      BY <3>3, SourceNames
    <3>5. Makes(RecoveryUnlink(f), JournalOf(f), JournalOf(f) \cup {f})
      BY DeletionTouches
    <3>6. Quiet(RecoveryUnlink(f))
      BY <3>4, <3>5, QuietMakes
    <3> QED BY <3>1, <3>6, <1>1, <1>3
  <2>3. CASE phase = "commits"
    <3>1. p = <<>> \/ (p = DeleteTriplet /\ Here(Commit) /\ ~Whole)
      BY <2>3 DEF Swept, SweepCommit, Old
    <3>2. Here(Commit) => Whole
      BY <1>4 DEF Here, Whole, Triplet, Either
    <3> QED BY <3>1, <3>2, <1>3
  <2>4. CASE phase = "records"
    <3>1. PICK answer \in ReservationActive : p = SweepRecord(answer)
      BY <2>4 DEF Swept
    <3>2. answer = IF time = "over" THEN "no" ELSE "yes"
      BY <3>1 DEF ReservationActive, Ask, Answered
    <3>3. \/ p = <<>>
          \/ p = RecoveryUnlink(Record) /\ ~Here(Payload)
          \/ p = DeleteTriplet /\ time = "over"
      BY <3>1, <3>2 DEF SweepRecord
    <3>4. ~Here(Payload) => Commit \notin Either(fs)
      BY <1>4 DEF Here
    <3> QED BY <2>4, <3>3, <3>4, <1>2, <1>3, <1>7, <1>9
  <2>5. CASE phase = "payloads"
    <3>1. p = <<>> \/ (p = RecoveryUnlink(Payload) /\ ~Here(Record))
      BY <2>5 DEF Swept, SweepPayload
    <3>2. ~Here(Record) => Commit \notin Either(fs)
      BY <1>4 DEF Here
    <3> QED BY <3>1, <3>2, <1>2, <1>3, <1>9
  <2>6. CASE phase = "expired"
    <3>1. p = <<>> \/ (p = DeleteTriplet /\ time = "over")
      BY <2>6 DEF Swept, SweepExpired
    <3> QED BY <2>6, <3>1, <1>3, <1>7
  <2>7. CASE phase = "objects"
    <3>1. (row # 0 /\ Makes(p, {Reference(row)}, MarkedFiles(row))) \/ Makes(p, {}, Sweepable)
      BY <2>7, SweptFits
    <3>2. Far(p)
      BY <3>1, ProgramFar
    <3> QED BY <3>2, OrderlyFar DEF Fair
  <2>8. CASE phase = "pending"
    <3>1. p = Discard(f) /\ f \in SpoolFiles
      BY <2>8 DEF Swept, Shapes, LeftShape
    <3>2. CASE ~Expired
      BY <3>1, <3>2, <1>3 DEF Discard
    <3>3. CASE Expired
      <4>1. Commit \notin Either(fs)
        BY <3>3, <2>8, <1>6 DEF Expired, CommitInv, Firm, Here
      <4>2. PICK R : R = {f, Record, Payload}
        OBVIOUS
      <4>3. PICK A : A = {}
        OBVIOUS
      <4>4. PICK t : t = Rolled(Commit)
        OBVIOUS
      <4>5. Makes(t, A, R)
        BY <4>1, <4>4, MakesNothing DEF Rolled, Here, Either
      <4>6. PICK q : q = Rolled(f)
        OBVIOUS
      <4>7. PICK r : r = Rolled(Record)
        OBVIOUS
      <4>8. PICK s : s = Rolled(Payload)
        OBVIOUS
      <4>9. Makes(q, A, R) /\ Makes(r, A, R) /\ Makes(s, A, R)
        BY <4>2, <4>6, <4>7, <4>8, MakesRolled
      <4>10. p = ((q \o t) \o r) \o s
        BY <3>1, <3>3, <4>4, <4>6, <4>7, <4>8 DEF Discard
      <4>11. Makes(q \o t, A, R)
        BY <4>5, <4>9, MakesJoined
      <4>12. Makes((q \o t) \o r, A, R)
        BY <4>11, <4>9, MakesJoined
      <4>13. Makes(((q \o t) \o r) \o s, A, R)
        BY <4>12, <4>9, MakesJoined
      <4>14. Makes(p, A, R)
        BY <4>10, <4>13
      <4>15. Around \cap (A \cup R) = {}
        <5>1. f \in SourceFiles \ {Commit}
          BY <3>1 DEF SpoolFiles, SourceFiles, SpoolPart, Spool, Commit
        <5> QED BY <5>1, <1>8, <4>2, <4>3, SourceNames
      <4>16. Shuns(p)
        BY <4>14, <4>15 DEF Makes, Within, Shuns
      <4> QED BY <4>1, <4>16, <1>2
    <3> QED BY <3>2, <3>3
  <2> QED BY <1>5, <2>1, <2>2, <2>3, <2>4, <2>5, <2>6, <2>7, <2>8 DEF Phases
<1> QED BY <1>10 DEF Fair

-----------------------------------------------------------------------------
(* The marker and its source, step by step *)

\* While a source is published there is no journal, and nothing is swept.
LEMMA PublishMarks ==
    ASSUME Shapes, ReceiptInv, PubInv', EarlyInv', IsProgram(todo'), failures' = 0,
           at = "publishing", UNCHANGED <<at, rows>>
    PROVE  CommitInv' /\ ResumeInv' /\ CalmInv'
<1>1. PICK k \in Nat : PubFiles(fs', k, Spool(receipt'.spool))
  <2>1. Len(todo') \in Nat
    BY ProgramIs
  <2>2. PubFiles(fs', Len(todo'), Spool(receipt'.spool))
    BY DEF PubInv
  <2> QED BY <2>1, <2>2
<1>2. Commit \in Either(fs') => Commit \in fs'.now /\ {Payload, Record} \subseteq Firm(fs')
  BY <1>1 DEF PubFiles, Either, Firm
<1>3. Either(fs') \cap JournalFiles = {} /\ calls' = <<>> /\ Resumed' = {}
  BY DEF EarlyInv, Early, Resumed
<1>4. Orderly(fs', calls', Late') /\ Touches(calls', Taken) = {}
  BY <1>3, OrderlyNone
<1>5. receipt'.status = "publishing"
  BY DEF ReceiptInv, rows
<1>6. \A f \in JournalFiles : f \notin Either(fs') /\ f \notin fs'.now /\ f \notin Resumed'
  BY <1>3 DEF Either
<1>7. {Intent, Done} \subseteq JournalFiles /\ Intents \subseteq JournalFiles
  <2>1. Intents \subseteq Taken /\ Intents \cap SourceFiles = {}
    BY TakenIs, DirsDiffer, DirsAre DEF Intents
  <2>2. Taken \subseteq SourceFiles \cup JournalFiles
    BY TakenIs DEF SourceFiles, Taken, FormalFiles, JournalFiles
  <2> QED BY <2>1, <2>2, TakenIs
<1>8. CommitInv'
  <2>1. Intents \cap (Either(fs') \cup Resumed') = {}
    BY <1>6, <1>7
  <2> QED BY <1>2, <1>4, <1>5, <2>1 DEF CommitInv
<1>9. ResumeInv'
  <2>1. Commit \notin fs'.disk \ fs'.now
    BY <1>2 DEF Either
  <2>2. \A f \in {Intent, Done} : f \notin fs'.now
    BY <1>6, <1>7
  <2>3. Intent \notin Resumed' /\ Intent \notin fs'.now
    BY <1>6, <1>7
  <2> QED BY <2>1, <2>2, <2>3 DEF ResumeInv
<1>10. CalmInv'
  <2>1. Taken \cap JournalFiles \cap (Either(fs') \cup Resumed') = {}
    BY <1>6
  <2> QED BY <1>2, <1>4, <2>1 DEF CalmInv
<1> QED BY <1>8, <1>9, <1>10

\* A call of a deletion: its program says in which order the marker and its source go.
LEMMA DeleteMarks ==
    ASSUME Shapes, CommitInv, ResumeInv, CalmInv, failures = 0, failures' = 0, phase # "objects", calls # <<>>,
           fs' = After(fs, Head(calls)), calls' = Tail(calls), UNCHANGED <<upload, phase, left, rows>>
    PROVE  CommitInv' /\ ResumeInv' /\ CalmInv'
<1>1. PICK c : c = Head(calls)
  OBVIOUS
<1>2. IsProgram(calls) /\ c.do \in Dos /\ Commit \notin Adds(c) /\ Adds(c) \subseteq JournalFiles
  BY <1>1, DeletesGo DEF IsCall, Triplet
<1>3. /\ Len(calls) \in Nat \ {0} /\ DOMAIN calls = 1..Len(calls) /\ c = calls[1]
      /\ Len(calls') = Len(calls) - 1 /\ DOMAIN calls' = 1..(Len(calls) - 1)
      /\ \A i \in 1..(Len(calls) - 1) : calls'[i] = calls[i + 1]
  BY <1>1, <1>2, TailIs
<1>4. fs' = After(fs, c)
  BY <1>1
<1>5. Orderly(fs, calls, Late)
  BY DEF CommitInv
<1>6. Commit \in Either(fs') => Commit \in Either(fs)
  BY <1>2, <1>4, EitherAfter
<1>7. 1 \in DOMAIN calls
  BY <1>3
<1>8. Commit \in Either(fs) =>
        /\ \A f \in {Payload, Record} \cup Intents : f \notin Adds(c) /\ f \notin Removes(c)
        /\ Intent \notin Removes(c)
  <2>1. Cleared(fs, calls, 1, Commit) => Commit \notin Either(fs)
    BY FirstIs
  <2>2. 1 \in Touches(calls, {Payload, Record} \cup Intents) => Cleared(fs, calls, 1, Commit)
    BY <1>5 DEF Orderly
  <2>3. Intent \in Removes(calls[1]) => Cleared(fs, calls, 1, Commit)
    BY <1>5, <1>7 DEF Orderly
  <2> QED BY <2>1, <2>2, <2>3, <1>3, <1>7 DEF Touches
<1>9. Commit \in Removes(c) =>
        /\ 2 \in DOMAIN calls /\ Syncs(calls[2], "commits")
        /\ Commit \in Either(fs) => Intent \in Firm(fs) \/ (Late /\ Intent \in fs.now)
  <2> SUFFICES ASSUME Commit \in Removes(c)
               PROVE  /\ 2 \in DOMAIN calls /\ Syncs(calls[2], "commits")
                      /\ Commit \in Either(fs) => Intent \in Firm(fs) \/ (Late /\ Intent \in fs.now)
    OBVIOUS
  <2>1. /\ 1 + 1 \in DOMAIN calls /\ Syncs(calls[1 + 1], "commits")
        /\ Commit \in Either(fs) => Announced(fs, calls, 1, Late)
    BY <1>3, <1>5, <1>7 DEF Orderly
  <2>2. Announced(fs, calls, 1, Late) => Intent \in Firm(fs) \/ (Late /\ Intent \in fs.now)
    BY FirstIs DEF Announced
  <2> QED BY <2>1, <2>2
<1>10. (Late' <=> Late) /\ Resumed' = Resumed /\ phase' = phase /\ receipt' = receipt /\ clean' = clean /\ time' = time
  BY DEF Late, Resumed, rows, upload
<1>11. ASSUME NEW f, f \in Firm(fs), f \notin Removes(c)
       PROVE  f \in Firm(fs')
  BY <1>2, <1>4, <1>11, AfterIs DEF Firm
<1>12. \A f : f \in fs.now /\ f \notin Removes(c) => f \in fs'.now
  BY <1>2, <1>4, AfterIs
<1>13. \A f : f \in Either(fs') => f \in Either(fs) \/ f \in Adds(c)
  BY <1>2, <1>4, EitherAfter
<1>14. CommitInv'
  <2>1. Commit \in Either(fs') => {Payload, Record} \subseteq Firm(fs')
    BY <1>6, <1>8, <1>11 DEF CommitInv
  <2>2. Commit \in Either(fs') => clean' \/ receipt'.status = "publishing" \/ Intent \in Firm(fs')
    BY <1>6, <1>8, <1>10, <1>11 DEF CommitInv
  <2>3. Intents \cap (Either(fs') \cup Resumed') # {} => Commit \notin Either(fs')
    <3> SUFFICES ASSUME Commit \in Either(fs'), NEW f \in Intents, f \in Either(fs') \cup Resumed'
                 PROVE  FALSE
      OBVIOUS
    <3>1. f \notin Adds(c)
      BY <1>6, <1>8
    <3>2. f \in Either(fs) \cup Resumed
      BY <3>1, <1>10, <1>13
    <3> QED BY <3>2, <1>6 DEF CommitInv
  <2>4. Orderly(fs', calls', Late')
    <3>1. Orderly(fs', calls', Late)
      BY <1>1, <1>2, <1>5, OrderlyOnward
    <3>2. CASE Late
      BY <3>1, <3>2, <1>10 DEF Orderly, Announced
    <3>3. CASE ~Late
      BY <3>1, <3>3, <1>10 DEF Orderly, Announced
    <3> QED BY <3>2, <3>3
  <2> QED BY <2>1, <2>2, <2>3, <2>4 DEF CommitInv
<1>15. Cleared(fs, calls, Len(calls) + 1, Commit) => Cleared(fs', calls', Len(calls') + 1, Commit)
  <2>1. Len(calls) \in 1..Len(calls) /\ Len(calls') + 1 = Len(calls)
    BY <1>3
  <2>2. Cleared(fs, calls, Len(calls) + 1, Commit) => Cleared(fs', calls', Len(calls), Commit)
    BY <2>1, <1>1, <1>2, ClearedOnward
  <2> QED BY <2>1, <2>2
<1>16. ResumeInv'
  <2>1. Commit \in fs'.disk \ fs'.now =>
          /\ Intent \in fs'.now /\ phase' # "objects" /\ (Intent \in fs'.disk \/ Late')
          /\ phase' = "rest" \/ Intent \in Resumed' \/ Cleared(fs', calls', Len(calls') + 1, Commit)
    <3> SUFFICES ASSUME Commit \in fs'.disk, Commit \notin fs'.now
                 PROVE  /\ Intent \in fs'.now /\ (Intent \in fs'.disk \/ Late')
                        /\ phase' = "rest" \/ Intent \in Resumed' \/ Cleared(fs', calls', Len(calls') + 1, Commit)
      BY <1>10
    <3>1. Commit \in Either(fs)
      BY <1>6 DEF Either
    <3>2. Intent \notin Removes(c)
      BY <3>1, <1>8
    <3>3. CASE Commit \in fs.now
      <4>1. Commit \in Removes(c)
        BY <3>3, <1>12
      <4>2. /\ 2 \in DOMAIN calls /\ Syncs(calls[2], "commits")
            /\ Intent \in Firm(fs) \/ (Late /\ Intent \in fs.now)
        BY <4>1, <3>1, <1>9
      <4>3. Cleared(fs, calls, Len(calls) + 1, Commit)
        <5>1. 2 \in 1..((Len(calls) + 1) - 1) /\ 1 \in 1..(2 - 1)
          BY <4>2, <1>3
        <5>2. Commit \in Removes(calls[1]) /\ Syncs(calls[2], Dir(Commit))
          BY <4>1, <4>2, <1>3, AroundIs
        <5> QED BY <5>1, <5>2 DEF Cleared
      <4>4. Intent \in fs'.now /\ (Intent \in fs'.disk \/ Late')
        BY <4>2, <3>2, <1>10, <1>11, <1>12 DEF Firm
      <4> QED BY <4>3, <4>4, <1>15
    <3>4. CASE Commit \notin fs.now
      <4>1. Commit \in fs.disk \ fs.now
        BY <3>1, <3>4 DEF Either
      <4>2. /\ Intent \in fs.now /\ (Intent \in fs.disk \/ Late)
            /\ phase = "rest" \/ Intent \in Resumed \/ Cleared(fs, calls, Len(calls) + 1, Commit)
        BY <4>1 DEF ResumeInv
      <4>3. Intent \in fs'.now
        BY <4>2, <3>2, <1>12
      <4>4. Intent \in fs'.disk \/ Late'
        BY <4>2, <3>2, <1>10, <1>11 DEF Firm
      <4> QED BY <4>2, <4>3, <4>4, <1>10, <1>15
    <3> QED BY <3>3, <3>4
  <2>2. ASSUME NEW f \in {Intent, Done}, f \in fs'.now
        PROVE  phase' = "rest" \/ f \in Resumed' \/ Ends(calls', f)
    <3>1. CASE f \in Adds(c)
      <4>1. PICK k \in DOMAIN calls : k > 1 /\ f \in Removes(calls[k])
        BY <3>1, <1>3, <1>5, <1>7 DEF Orderly
      <4>2. k - 1 \in DOMAIN calls' /\ calls'[k - 1] = calls[k]
        BY <4>1, <1>3
      <4> QED BY <4>1, <4>2 DEF Ends
    <3>2. CASE f \notin Adds(c)
      <4>1. f \in fs.now /\ f \notin Removes(c)
        BY <2>2, <3>2, <1>2, <1>4, AfterIs
      <4>2. phase = "rest" \/ f \in Resumed \/ Ends(calls, f)
        BY <4>1 DEF ResumeInv
      <4>3. ASSUME Ends(calls, f)
            PROVE  Ends(calls', f)
        <5>1. PICK k \in DOMAIN calls : f \in Removes(calls[k])
          BY <4>3 DEF Ends
        <5>2. k - 1 \in DOMAIN calls' /\ calls'[k - 1] = calls[k]
          BY <5>1, <4>1, <1>3
        <5> QED BY <5>1, <5>2 DEF Ends
      <4> QED BY <4>2, <4>3, <1>10
    <3> QED BY <3>1, <3>2
  <2>3. Intent \in Resumed' => Intent \in fs'.now /\ ~Ends(calls', Intent) /\ Intent \notin Removes(c)
    <3> SUFFICES ASSUME Intent \in Resumed
                 PROVE  Intent \in fs'.now /\ ~Ends(calls', Intent) /\ Intent \notin Removes(c)
      BY <1>10
    <3>1. Intent \in fs.now /\ ~Ends(calls, Intent)
      BY DEF ResumeInv
    <3>2. \A k \in DOMAIN calls : Intent \notin Removes(calls[k])
      BY <3>1 DEF Ends
    <3>3. \A k \in DOMAIN calls' : Intent \notin Removes(calls'[k])
      BY <3>2, <1>3
    <3> QED BY <3>1, <3>2, <3>3, <1>3, <1>7, <1>12 DEF Ends
  <2>4. (phase' = "rest" \/ Intent \in Resumed') /\ Intent \in fs'.now /\ Commit \in Either(fs') =>
          Intent \in fs'.disk \/ Late'
    <3> SUFFICES ASSUME phase' = "rest" \/ Intent \in Resumed', Commit \in Either(fs')
                 PROVE  Intent \in fs'.disk \/ Late'
      OBVIOUS
    <3>1. phase # "rest"
      BY DEF Shapes, LeftShape
    <3>2. Intent \in Resumed /\ Intent \notin Removes(c)
      BY <3>1, <2>3, <1>10
    <3>3. Intent \in fs.now /\ (Intent \in fs.disk \/ Late)
      BY <3>2, <1>6 DEF ResumeInv
    <3> QED BY <3>2, <3>3, <1>10, <1>11 DEF Firm
  <2> QED BY <2>1, <2>2, <2>3, <2>4 DEF ResumeInv
<1>17. CalmInv'
  <2> SUFFICES ASSUME time' # "over"
               PROVE  /\ Commit \in Either(fs') => Commit \in fs'.now
                      /\ Touches(calls', Taken) # {} => Commit \notin Either(fs')
                      /\ Taken \cap JournalFiles \cap (Either(fs') \cup Resumed') # {} => Commit \notin Either(fs')
    BY DEF CalmInv
  <2>1. /\ Commit \in Either(fs) => Commit \in fs.now
        /\ Touches(calls, Taken) # {} => Commit \notin Either(fs)
        /\ Taken \cap JournalFiles \cap (Either(fs) \cup Resumed) # {} => Commit \notin Either(fs)
    BY <1>10 DEF CalmInv
  <2>2. Taken \cap (Adds(c) \cup Removes(c)) # {} => Commit \notin Either(fs)
    <3>1. Taken \cap (Adds(c) \cup Removes(c)) # {} => 1 \in Touches(calls, Taken)
      BY <1>3, <1>7 DEF Touches
    <3> QED BY <3>1, <2>1
  <2>3. Commit \in Taken
    BY DEF Taken, Triplet
  <2>4. Commit \in Either(fs') => Commit \in fs'.now
    BY <2>1, <2>2, <2>3, <1>6, <1>12
  <2>5. Touches(calls', Taken) # {} => Touches(calls, Taken) # {}
    <3> SUFFICES ASSUME NEW i \in DOMAIN calls', Taken \cap (Adds(calls'[i]) \cup Removes(calls'[i])) # {}
                 PROVE  Touches(calls, Taken) # {}
      BY DEF Touches
    <3>1. i + 1 \in DOMAIN calls /\ calls'[i] = calls[i + 1]
      BY <1>3
    <3>2. i + 1 \in Touches(calls, Taken)
      BY <3>1 DEF Touches
    <3> QED BY <3>2
  <2>6. Taken \cap JournalFiles \cap (Either(fs') \cup Resumed') # {} => Commit \notin Either(fs)
    BY <2>1, <2>2, <1>10, <1>13
  <2> QED BY <2>1, <2>4, <2>5, <2>6, <1>6
<1> QED BY <1>14, <1>16, <1>17

\* The process ends, and with the power what was not synced may go: the rest of the
\* deletion is for the journal to resume.
LEMMA CrashMarks ==
    ASSUME Shapes, CommitInv, ResumeInv, CalmInv, failures = 0, Crash
    PROVE  CommitInv' /\ ResumeInv' /\ CalmInv'
<1>1. /\ phase' = "rest" /\ calls' = <<>> /\ Resumed' = {} /\ at' = "idle" /\ UNCHANGED rows
      /\ fs' = fs \/ fs' \in Remains(fs)
  BY DEF Crash, Ended, Doing, Resumed
<1>2. fs' \in Remains(fs) => fs'.now = fs'.disk /\ Firm(fs) \subseteq fs'.now /\ fs'.now \subseteq Either(fs)
  BY FilesType
<1>3. /\ Either(fs') \subseteq Either(fs)
      /\ \A f : f \in Firm(fs) => f \in Firm(fs')
      /\ \A f : fs' \in Remains(fs) => (f \in Either(fs') <=> f \in fs'.now) /\ (f \in fs'.disk <=> f \in fs'.now)
  BY <1>1, <1>2 DEF Either, Firm
<1>4. clean' = clean /\ receipt' = receipt /\ time' = time
  BY <1>1 DEF rows
<1>5. Late => Late'
  BY <1>1, <1>4 DEF Late
<1>6. /\ Orderly(fs', calls', Late') /\ Touches(calls', Taken) = {} /\ ~Ends(calls', Intent)
  BY <1>1, OrderlyNone
<1>7. CommitInv'
  <2>1. Commit \in Either(fs') => {Payload, Record} \subseteq Firm(fs')
    BY <1>3 DEF CommitInv
  <2>2. Commit \in Either(fs') => clean' \/ receipt'.status = "publishing" \/ Intent \in Firm(fs')
    BY <1>3, <1>4 DEF CommitInv
  <2>3. Intents \cap (Either(fs') \cup Resumed') # {} => Commit \notin Either(fs')
    BY <1>1, <1>3 DEF CommitInv
  <2> QED BY <1>6, <2>1, <2>2, <2>3 DEF CommitInv
<1>8. ResumeInv'
  <2>1. Commit \in fs'.disk \ fs'.now => Intent \in fs'.now /\ (Intent \in fs'.disk \/ Late')
    <3>1. Commit \in fs'.disk \ fs'.now => fs' = fs
      BY <1>1, <1>3
    <3> QED BY <3>1, <1>5 DEF ResumeInv
  <2>2. Intent \in fs'.now /\ Commit \in Either(fs') => Intent \in fs'.disk \/ Late'
    <3> SUFFICES ASSUME Intent \in fs'.now, Commit \in Either(fs'), fs' = fs
                 PROVE  Intent \in fs'.disk \/ Late'
      BY <1>1, <1>3
    <3>1. Intent \in Taken \cap JournalFiles \cap Either(fs)
      BY TakenIs DEF Either
    <3>2. time = "over"
      BY <3>1, <1>3 DEF CalmInv
    <3> QED BY <3>2, <1>1, <1>4 DEF Late
  <2>3. Intent \notin Resumed'
    BY <1>1
  <2>4. phase' = "rest" /\ phase' # "objects"
    BY <1>1
  <2> QED BY <2>1, <2>2, <2>3, <2>4 DEF ResumeInv
<1>9. CalmInv'
  <2> SUFFICES ASSUME time' # "over"
               PROVE  /\ Commit \in Either(fs') => Commit \in fs'.now
                      /\ Taken \cap JournalFiles \cap (Either(fs') \cup Resumed') # {} => Commit \notin Either(fs')
    BY <1>6 DEF CalmInv
  <2>1. /\ Commit \in Either(fs) => Commit \in fs.now
        /\ Taken \cap JournalFiles \cap (Either(fs) \cup Resumed) # {} => Commit \notin Either(fs)
    BY <1>4 DEF CalmInv
  <2>2. Commit \in Either(fs') => Commit \in fs'.now
    BY <2>1, <1>1, <1>3
  <2> QED BY <2>1, <2>2, <1>1, <1>3
<1> QED BY <1>7, <1>8, <1>9

\* What no attempt runs any more for stays so.
LEMMA LateStays ==
    ASSUME Shapes, ReceiptInv, [Next]_vars
    PROVE  Late => Late'
<1> SUFFICES ASSUME at = "idle", time = "over", ~clean
             PROVE  at' = "idle" /\ time' = "over"
  BY EarlyBefore DEF Late, Shapes
<1>1. row = 0 /\ todo = <<>>
  BY DEF ReceiptInv, Shapes, UploadShape, Fits
<1>2. CASE Begin \/ Scan \/ Open \/ Activate \/ Use \/ Finalize \/ Over \/ Call
  BY <1>1, <1>2 DEF Begin, Scan, Open, Activate, Use, Finalize, Over, Call
<1>3. CASE (\E f \in left : Sweep(f)) \/ NextPhase \/ JanitorCall \/ Grow \/ Pass \/ UNCHANGED vars
  BY <1>3 DEF Sweep, NextPhase, JanitorCall, Grow, Pass, vars, upload, rows
<1>4. CASE Crash
  BY <1>4 DEF Crash, Ended, Doing, rows
<1> QED BY <1>2, <1>3, <1>4 DEF Next, UploadStep, SweepStep

\* The receipt says that it is published while the marker of its source is there, or the
\* source is in the journal: an attempt that finds half of it finds the entry.
LEMMA ReceiptHeld ==
    ASSUME Shapes, ReceiptInv, PubInv, CommitInv, ResumeInv, failures = 0, failures' = 0, [Next]_vars,
           receipt.status = "publishing", Commit \in Either(fs)
    PROVE  clean' \/ receipt'.status = "publishing" \/ Intent \in Firm(fs)
<1> USE DEF Shapes
<1>1. receipt' = [receipt EXCEPT !.status = "publishing"] => receipt'.status = "publishing"
  BY DEF TypeOK
<1>2. CASE Scan
  BY <1>2 DEF Scan, ReceiptInv
<1>3. CASE Open
  <2>1. CASE Claimed
    BY <2>1, <1>1 DEF Claimed
  <2>2. CASE ~Whole /\ Triplet \cap fs.now # {}
    <3>1. Payload \in fs.now /\ Record \in fs.now
      BY DEF CommitInv, Firm
    <3>2. Commit \in fs.disk \ fs.now
      BY <2>2, <3>1 DEF Whole, Triplet, Either
    <3>3. Intent \in fs.now /\ (Intent \in fs.disk \/ Late)
      BY <3>2 DEF ResumeInv
    <3>4. at = "open" /\ clean' = clean
      BY <1>3 DEF Open
    <3> QED BY <3>3, <3>4 DEF Late, Firm
  <2>3. CASE Triplet \cap fs.now = {}
    BY <2>3 DEF CommitInv, Firm, Triplet
  <2> QED BY <1>3, <2>1, <2>2, <2>3 DEF Open
<1>4. CASE Call
  <2>1. todo # <<>> /\ clean' = clean
    BY <1>4 DEF Call
  <2>2. at \notin {"idle", "open", "using"} /\ at \in Activities
    BY <2>1 DEF TypeOK, UploadShape, Fits
  <2>3. CASE at = "publishing"
    <3>1. Possible(fs, Head(todo)) /\ ~Unvalidated
      BY <2>1, <2>3, PubSound
    <3>2. receipt' = receipt
      BY <1>4, <3>1 DEF Call
    <3> QED BY <3>2
  <2>4. CASE at \in {"spooling", "rolling"}
    BY <2>4 DEF ReceiptInv
  <2>5. CASE at \in {"clean", "staging", "unstaging", "marking", "aborting"}
    BY <2>1, <2>5 DEF ReceiptInv
  <2> QED BY <2>2, <2>3, <2>4, <2>5 DEF Activities
<1>5. CASE NextPhase
  <2>1. ~Forgettable
    BY DEF Forgettable, Expired
  <2> QED BY <1>5, <2>1 DEF NextPhase
<1>6. CASE Activate
  BY <1>6 DEF Activate
<1>7. CASE Begin \/ Use \/ Finalize \/ Over \/ (\E f \in left : Sweep(f)) \/ JanitorCall \/ Grow \/ Pass \/ Crash \/ UNCHANGED vars
  <2>1. receipt' = receipt
    BY <1>7 DEF Begin, Use, Finalize, Over, Sweep, JanitorCall, Grow, Pass, Crash, vars, rows
  <2> QED BY <2>1
<1> QED BY <1>2, <1>3, <1>4, <1>5, <1>6, <1>7 DEF Next, UploadStep, SweepStep

\* The other steps leave the files of the source as they are: what the sweep starts then.
LEMMA AlikeMarks ==
    ASSUME Shapes, ReceiptInv, PubInv, CommitInv, ResumeInv, CalmInv, failures = 0, failures' = 0, Answered,
           [Next]_vars, Alike(fs, fs'),
           \/ UNCHANGED <<phase, calls, left>>
           \/ phase = "objects" /\ phase' = "objects" /\ UNCHANGED <<left, upload, rows>>
           \/ NextPhase /\ fs' = fs
           \/ (\E f \in left : Sweep(f)) /\ fs' = fs
    PROVE  CommitInv' /\ ResumeInv' /\ CalmInv'
<1>1. /\ \A f \in Triplet \cup Taken \cup {Intent, Done} :
           /\ f \in fs'.now <=> f \in fs.now
           /\ f \in Either(fs') => f \in Either(fs)
           /\ f \in Firm(fs) => f \in Firm(fs')
  <2>1. Triplet \cup Taken \cup {Intent, Done} \subseteq FormalFiles
    BY TakenIs DEF FormalFiles
  <2> QED BY <2>1 DEF Alike, Either
<1>2. Late => Late'
  BY LateStays
<1>3. clean => clean'
  BY EarlyBefore DEF Shapes
<1>4. {Payload, Record, Commit} = Triplet /\ Intents \subseteq Taken /\ {Intent, Done} \subseteq JournalFiles
  BY TakenIs
<1>5. (\E f \in left : Sweep(f)) => phase # "rest" /\ calls = <<>>
  BY DEF Sweep, Shapes, LeftShape
<1>6. \A f \in {Intent, Done} : f \in fs.now => f \in Journals
  BY AroundIs DEF Journals
<1>7. \A f \in {Intent, Done} : ~Ends(<<>>, f) /\ Touches(<<>>, Taken) = {}
  BY OrderlyNone
<1>8. Commit \in fs.disk \ fs.now => ~Cleared(fs, <<>>, 1, Commit)
  BY FirstIs DEF Either
\* The step of a phase, and what it lists.
<1>9. ASSUME NextPhase, fs' = fs
      PROVE  /\ calls = <<>> /\ calls' = <<>> /\ left = {} /\ Resumed = {} /\ Resumed' \subseteq fs.now
             /\ \A f \in {Intent, Done} : f \in fs.now => phase = "rest" /\ phase' = "journals" /\ f \in Resumed'
  <2>1. /\ calls = <<>> /\ calls' = <<>> /\ left = {} /\ Resumed = {}
        /\ phase' = Follows(phase) /\ left' = Listed(phase')
    BY <1>9 DEF NextPhase, Resumed
  <2>2. phase' = "journals" => left' = Journals
    BY <2>1 DEF Listed
  <2>3. Resumed' \subseteq fs.now
    BY <2>2 DEF Resumed, Journals
  <2>4. ASSUME NEW f \in {Intent, Done}, f \in fs.now
        PROVE  phase = "rest" /\ phase' = "journals" /\ f \in Resumed'
    <3>1. phase = "rest"
      BY <2>1, <2>4, <1>7 DEF ResumeInv
    <3>2. ~trouble /\ Journals # {} /\ phase \in Phases
      BY <2>4, <3>1, <1>6 DEF Shapes, LeftShape, TypeOK
    <3>3. phase' = "journals"
      BY <2>1, <3>1, <3>2, FollowsIs
    <3> QED BY <2>2, <2>4, <3>1, <3>3, <1>6 DEF Resumed
  <2> QED BY <2>1, <2>3, <2>4
\* A sweep of the objects stays away from the source.
<1>10. ASSUME phase = "objects", phase' = "objects", UNCHANGED <<left, upload, rows>>
       PROVE  Far(calls) /\ Far(calls') /\ Resumed = {} /\ Resumed' = {}
  <2>1. Far(calls)
    BY <1>10, ObjectsFar
  <2>2. SweepShape'
    BY NextSweepShape
  <2>3. Sweepable' = Sweepable /\ row' = row
    BY <1>10 DEF Sweepable, Past, upload, rows
  <2>4. Makes(calls', {Reference(row)}, MarkedFiles(row)) \/ Makes(calls', {}, Sweepable)
    BY <1>10, <2>2, <2>3 DEF SweepShape, Marks, Aborts
  <2>5. Far(calls')
    BY <2>4, ProgramFar
  <2> QED BY <1>10, <2>1, <2>5 DEF Resumed
\* A deletion that starts, or that is resumed.
<1>11. ASSUME NEW f \in left, Sweep(f)
       PROVE  /\ calls = <<>> /\ phase' = phase /\ calls' \in Swept(f) /\ (Late' <=> Late) /\ Resumed' = Resumed \ {f}
              /\ time' = time
              /\ f \in {Intent, Done} /\ phase = "journals" => Ends(calls', f)
              /\ f = Intent /\ phase = "journals" => Cleared(fs, calls', Len(calls') + 1, Commit)
              /\ f # Intent /\ phase = "journals" => ~Ends(calls', Intent)
  <2>1. /\ calls = <<>> /\ phase' = phase /\ calls' \in Swept(f) /\ Resumed' = Resumed \ {f}
        /\ UNCHANGED <<upload, rows>>
    BY <1>11 DEF Sweep, Resumed
  <2>2. (Late' <=> Late) /\ time' = time
    BY <2>1 DEF Late, upload, rows
  <2>3. ASSUME f = Intent, phase = "journals"
        PROVE  Ends(calls', f) /\ Cleared(fs, calls', Len(calls') + 1, Commit)
    <3>1. calls' = FinishDeletion(Commit)
      BY <2>1, <2>3, JournalSwept, AroundIs
    <3>2. Intent \in Resumed
      BY <2>3 DEF Resumed
    <3>3. Commit \in Either(fs) => Intent \in Firm(fs) \/ (Late /\ Intent \in fs.now)
      BY <3>2 DEF ResumeInv, Firm
    <3> QED BY <2>3, <3>1, <3>3, OrderlyFinish
  <2>4. ASSUME f # Intent, phase = "journals"
        PROVE  ~Ends(calls', Intent)
    <3>1. Shuns(calls') \/ Quiet(calls')
      BY <2>1, <2>4, JournalSwept
    <3> QED BY <3>1, QuietIs DEF Shuns, Around, Ends
  <2>5. f = Done /\ phase = "journals" => Ends(calls', f)
    BY <2>1, JournalSwept
  <2> QED BY <2>1, <2>2, <2>3, <2>4, <2>5
<1>12. CommitInv'
  <2>1. Commit \in Either(fs') => {Payload, Record} \subseteq Firm(fs')
    BY <1>1, <1>4 DEF CommitInv
  <2>2. Commit \in Either(fs') => clean' \/ receipt'.status = "publishing" \/ Intent \in Firm(fs')
    BY <1>1, <1>3, <1>4, ReceiptHeld DEF CommitInv
  <2>3. Intents \cap (Either(fs') \cup Resumed') # {} => Commit \notin Either(fs')
    <3> SUFFICES ASSUME NEW f \in Intents, f \in Either(fs') \cup Resumed', Commit \in Either(fs')
                 PROVE  FALSE
      OBVIOUS
    <3>1. f \in Either(fs) \cup Resumed \cup Resumed'
      BY <1>1, <1>4
    <3>2. f \in Either(fs) \cup Resumed
      BY <3>1, <1>9, <1>10, <1>11 DEF Resumed, Either
    <3> QED BY <3>2, <1>1, <1>4 DEF CommitInv
  <2>4. Orderly(fs', calls', Late')
    <3>1. CASE UNCHANGED <<phase, calls, left>>
      <4>1. IsProgram(calls)
        BY DEF Shapes, SweepShape, Marks, Aborts, Deletes, Makes
      <4>2. Orderly(fs, calls, Late)
        BY DEF CommitInv
      <4>3. Orderly(fs', calls, Late')
        <5> HIDE DEF Late
        <5> QED BY <4>1, <4>2, <1>2, OrderlyStays
      <4> QED BY <3>1, <4>3
    <3>2. CASE phase = "objects" /\ phase' = "objects" /\ UNCHANGED <<left, upload, rows>>
      BY <3>2, <1>10, OrderlyFar
    <3>3. CASE NextPhase /\ fs' = fs
      BY <3>3, <1>9, OrderlyNone
    <3>4. CASE (\E f \in left : Sweep(f)) /\ fs' = fs
      <4>1. PICK f \in left : Sweep(f)
        BY <3>4
      <4>2. calls = <<>> /\ calls' \in Swept(f) /\ (Late' <=> Late)
        BY <4>1, <1>11
      <4>3. Orderly(fs, calls', Late)
        BY <4>2, SweptOrderly
      <4>4. Orderly(fs, calls', Late')
        BY <4>2, <4>3 DEF Orderly, Announced
      <4> QED BY <3>4, <4>4
    <3> QED BY <3>1, <3>2, <3>3, <3>4
  <2> QED BY <2>1, <2>2, <2>3, <2>4 DEF CommitInv
<1>13. ResumeInv'
  <2>1. Commit \in fs'.disk \ fs'.now =>
          /\ Intent \in fs'.now /\ phase' # "objects" /\ (Intent \in fs'.disk \/ Late')
          /\ phase' = "rest" \/ Intent \in Resumed' \/ Cleared(fs', calls', Len(calls') + 1, Commit)
    <3> SUFFICES ASSUME Commit \in fs'.disk, Commit \notin fs'.now
                 PROVE  /\ Intent \in fs'.now /\ phase' # "objects" /\ (Intent \in fs'.disk \/ Late')
                        /\ phase' = "rest" \/ Intent \in Resumed' \/ Cleared(fs', calls', Len(calls') + 1, Commit)
      OBVIOUS
    <3>1. Commit \in fs.disk \ fs.now
      BY <1>1, <1>4 DEF Either
    <3>2. /\ Intent \in fs.now /\ phase # "objects" /\ (Intent \in fs.disk \/ Late)
          /\ phase = "rest" \/ Intent \in Resumed \/ Cleared(fs, calls, Len(calls) + 1, Commit)
      BY <3>1 DEF ResumeInv
    <3>3. Intent \in fs'.now /\ (Intent \in fs'.disk \/ Late')
      BY <3>2, <1>1, <1>2 DEF Firm
    <3>4. CASE UNCHANGED <<phase, calls, left>>
      <4>1. Resumed' = Resumed /\ phase' = phase /\ calls' = calls
        BY <3>4 DEF Resumed
      <4>2. Cleared(fs, calls, Len(calls) + 1, Commit) => Cleared(fs', calls, Len(calls) + 1, Commit)
        BY <1>1, <1>4 DEF Cleared
      <4> QED BY <3>2, <3>3, <4>1, <4>2
    <3>5. CASE NextPhase /\ fs' = fs
      BY <3>2, <3>3, <3>5, <1>9
    <3>6. CASE (\E f \in left : Sweep(f)) /\ fs' = fs
      <4>1. PICK f \in left : Sweep(f)
        BY <3>6
      <4>2. calls = <<>> /\ phase' = phase /\ Resumed' = Resumed \ {f}
        BY <4>1, <1>11
      <4>3. Intent \in Resumed
        <5>1. Len(calls) + 1 = 1
          BY <4>2
        <5>2. ~Cleared(fs, calls, Len(calls) + 1, Commit)
          BY <3>1, <4>2, <5>1, <1>8
        <5> QED BY <3>2, <5>2, <3>6, <1>5
      <4>4. phase = "journals"
        BY <4>3 DEF Resumed
      <4>5. f = Intent => Cleared(fs, calls', Len(calls') + 1, Commit)
        BY <4>1, <4>4, <1>11
      <4> QED BY <3>2, <3>3, <3>6, <4>2, <4>3, <4>5
    <3> QED BY <3>2, <3>4, <3>5, <3>6
  <2>2. ASSUME NEW g \in {Intent, Done}, g \in fs'.now
        PROVE  phase' = "rest" \/ g \in Resumed' \/ Ends(calls', g)
    <3>1. g \in fs.now
      BY <2>2, <1>1
    <3>2. phase = "rest" \/ g \in Resumed \/ Ends(calls, g)
      BY <3>1 DEF ResumeInv
    <3>3. CASE UNCHANGED <<phase, calls, left>>
      BY <3>2, <3>3 DEF Resumed
    <3>4. CASE phase = "objects" /\ phase' = "objects" /\ UNCHANGED <<left, upload, rows>>
      BY <3>2, <3>4, <1>10, OrderlyFar
    <3>5. CASE NextPhase /\ fs' = fs
      BY <3>1, <3>5, <1>9
    <3>6. CASE (\E f \in left : Sweep(f)) /\ fs' = fs
      <4>1. PICK f \in left : Sweep(f)
        BY <3>6
      <4>2. calls = <<>> /\ phase' = phase /\ Resumed' = Resumed \ {f}
        BY <4>1, <1>11
      <4>3. g \in Resumed
        BY <3>2, <3>6, <4>2, <1>5, <1>7
      <4>4. phase = "journals"
        BY <4>3 DEF Resumed
      <4>5. f = g => Ends(calls', g)
        BY <4>1, <4>4, <1>11
      <4> QED BY <4>2, <4>3, <4>5
    <3> QED BY <3>3, <3>4, <3>5, <3>6
  <2>3. Intent \in Resumed' => Intent \in fs'.now /\ ~Ends(calls', Intent)
    <3> SUFFICES ASSUME Intent \in Resumed'
                 PROVE  Intent \in fs'.now /\ ~Ends(calls', Intent)
      OBVIOUS
    <3>1. CASE UNCHANGED <<phase, calls, left>>
      <4>1. Intent \in Resumed /\ calls' = calls
        BY <3>1 DEF Resumed
      <4>2. Intent \in fs.now /\ ~Ends(calls, Intent)
        BY <4>1 DEF ResumeInv
      <4> QED BY <4>1, <4>2, <1>1
    <3>2. CASE NextPhase /\ fs' = fs
      BY <3>2, <1>7, <1>9
    <3>3. CASE (\E f \in left : Sweep(f)) /\ fs' = fs
      <4>1. PICK f \in left : Sweep(f)
        BY <3>3
      <4>2. Intent \in Resumed /\ f # Intent
        BY <4>1, <1>11
      <4>3. phase = "journals"
        BY <4>2 DEF Resumed
      <4>4. ~Ends(calls', Intent)
        BY <4>1, <4>2, <4>3, <1>11
      <4> QED BY <4>2, <4>4, <3>3 DEF ResumeInv
    <3> QED BY <3>1, <3>2, <3>3, <1>10
  <2>4. (phase' = "rest" \/ Intent \in Resumed') /\ Intent \in fs'.now /\ Commit \in Either(fs') =>
          Intent \in fs'.disk \/ Late'
    <3> SUFFICES ASSUME phase' = "rest" \/ Intent \in Resumed', Intent \in fs'.now, Commit \in Either(fs')
                 PROVE  Intent \in fs'.disk \/ Late'
      OBVIOUS
    <3>1. Intent \in fs.now /\ Commit \in Either(fs)
      BY <1>1, <1>4
    <3>2. phase = "rest" \/ Intent \in Resumed
      <4>1. CASE UNCHANGED <<phase, calls, left>>
        BY <4>1 DEF Resumed
      <4>2. CASE phase = "objects" /\ phase' = "objects" /\ UNCHANGED <<left, upload, rows>>
        BY <4>2, <1>10
      <4>3. CASE NextPhase /\ fs' = fs
        BY <4>3, <3>1, <1>9
      <4>4. CASE (\E f \in left : Sweep(f)) /\ fs' = fs
        <5>1. PICK f \in left : Sweep(f)
          BY <4>4
        <5> QED BY <4>4, <5>1, <1>5, <1>11
      <4> QED BY <4>1, <4>2, <4>3, <4>4
    <3>3. Intent \in fs.disk \/ Late
      BY <3>1, <3>2 DEF ResumeInv
    <3> QED BY <3>1, <3>3, <1>1, <1>2 DEF Firm
  <2> QED BY <2>1, <2>2, <2>3, <2>4 DEF ResumeInv
<1>14. CalmInv'
  <2> SUFFICES ASSUME time' # "over"
               PROVE  /\ Commit \in Either(fs') => Commit \in fs'.now
                      /\ Touches(calls', Taken) # {} => Commit \notin Either(fs')
                      /\ Taken \cap JournalFiles \cap (Either(fs') \cup Resumed') # {} => Commit \notin Either(fs')
    BY DEF CalmInv
  <2>1. time # "over"
    BY EarlyBefore DEF Shapes
  <2>2. /\ Commit \in Either(fs) => Commit \in fs.now
        /\ Touches(calls, Taken) # {} => Commit \notin Either(fs)
        /\ Taken \cap JournalFiles \cap (Either(fs) \cup Resumed) # {} => Commit \notin Either(fs)
    BY <2>1 DEF CalmInv
  <2>3. Commit \in Either(fs') => Commit \in Either(fs)
    BY <1>1, <1>4
  <2>4. Commit \in Either(fs') => Commit \in fs'.now
    BY <2>2, <1>1, <1>4
  <2>5. Touches(calls', Taken) # {} => Commit \notin Either(fs)
    <3>1. CASE UNCHANGED <<phase, calls, left>>
      BY <2>2, <3>1
    <3>2. CASE phase = "objects" /\ phase' = "objects" /\ UNCHANGED <<left, upload, rows>>
      BY <3>2, <1>10, OrderlyFar
    <3>3. CASE NextPhase /\ fs' = fs
      BY <3>3, <1>7, <1>9
    <3>4. CASE (\E f \in left : Sweep(f)) /\ fs' = fs
      <4>1. PICK f \in left : Sweep(f)
        BY <3>4
      <4>2. calls = <<>> /\ calls' \in Swept(f)
        BY <4>1, <1>11
      <4> QED BY <4>2, <2>1, SweptOrderly
    <3> QED BY <3>1, <3>2, <3>3, <3>4
  <2>6. Taken \cap JournalFiles \cap (Either(fs') \cup Resumed') # {} => Commit \notin Either(fs)
    <3> SUFFICES ASSUME NEW f \in Taken \cap JournalFiles, f \in Either(fs') \cup Resumed'
                 PROVE  Commit \notin Either(fs)
      OBVIOUS
    <3>1. f \in Either(fs) \cup Resumed \cup Resumed'
      BY <1>1
    <3>2. f \in Either(fs) \cup Resumed
      BY <3>1, <1>9, <1>10, <1>11 DEF Resumed, Either
    <3> QED BY <3>2, <2>2
  <2> QED BY <2>3, <2>4, <2>5, <2>6
<1> QED BY <1>12, <1>13, <1>14

LEMMA NextMarks ==
    ASSUME Shapes, SourceInv, Answered, [Next]_vars, EarlyInv', PubInv'
    PROVE  CommitInv' /\ ResumeInv' /\ CalmInv'
<1> USE DEF SourceInv
<1>1. CASE failures' # 0
  BY <1>1 DEF CommitInv, ResumeInv, CalmInv
<1>2. CASE failures' = 0
  <2>1. failures = 0
    BY <1>2, EarlyBefore DEF Shapes
  <2>2. CASE at = "publishing" /\ UNCHANGED <<at, rows>>
    <3>1. UploadShape'
      BY NextShapes DEF Shapes
    <3>2. IsProgram(todo')
      BY <2>2, <3>1 DEF UploadShape, Fits, Makes
    <3> QED BY <1>2, <2>2, <3>2, PublishMarks
  <2>3. CASE /\ phase # "objects" /\ calls # <<>> /\ fs' = After(fs, Head(calls)) /\ calls' = Tail(calls)
             /\ UNCHANGED <<upload, phase, left, rows>>
    BY <1>2, <2>1, <2>3, DeleteMarks
  <2>4. CASE Crash
    BY <2>1, <2>4, CrashMarks
  <2>5. CASE /\ Alike(fs, fs')
             /\ \/ UNCHANGED <<phase, calls, left>>
                \/ phase = "objects" /\ phase' = "objects" /\ UNCHANGED <<left, upload, rows>>
                \/ NextPhase /\ fs' = fs
                \/ (\E f \in left : Sweep(f)) /\ fs' = fs
    BY <1>2, <2>1, <2>5, AlikeMarks
  <2> QED BY <1>2, <2>1, <2>2, <2>3, <2>4, <2>5, SourceMove
<1> QED BY <1>1, <1>2
-----------------------------------------------------------------------------
(* The theorems about the source *)

LEMMA InitSource ==
    ASSUME Init
    PROVE  SourceInv
<1>1. /\ fs = Empty /\ at = "idle" /\ todo = <<>> /\ phase = "rest" /\ calls = <<>> /\ left = {} /\ row = 0
      /\ time = "fresh" /\ receipt = NoReceipt
  BY DEF Init
<1>2. Either(fs) = {} /\ Firm(fs) = {} /\ fs.now = {} /\ fs.disk = {} /\ Resumed = {}
  BY <1>1 DEF Empty, Either, Firm, Resumed
<1>3. Orderly(fs, calls, Late) /\ Touches(calls, Taken) = {}
  BY <1>1, OrderlyNone
<1>4. EarlyInv /\ ReceiptInv /\ PubInv /\ EarlyFiles /\ RollInv
  BY <1>1, <1>2 DEF EarlyInv, ReceiptInv, PubInv, EarlyFiles, RollInv
<1>5. HalfInv
  BY <1>1 DEF HalfInv
<1>6. CommitInv /\ ResumeInv /\ CalmInv
  BY <1>1, <1>2, <1>3 DEF CommitInv, ResumeInv, CalmInv
<1> QED BY <1>4, <1>5, <1>6 DEF SourceInv

LEMMA NextSource ==
    ASSUME Shapes, SourceInv, Answered, [Next]_vars
    PROVE  Shapes' /\ SourceInv'
<1>1. Shapes'
  BY NextShapes
<1>2. EarlyInv' /\ ReceiptInv'
  BY NextEarly, NextReceipt DEF SourceInv
<1>3. PubInv' /\ RollInv' /\ HalfInv'
  <2>1. EarlyInv /\ ReceiptInv /\ HalfInv /\ PubInv /\ EarlyFiles /\ RollInv
    BY DEF SourceInv
  <2>2. HalfInv'
    BY <2>1, NextHalf
  <2>3. PubInv' /\ RollInv'
    BY <2>1, NextPub, NextRoll
  <2> QED BY <2>2, <2>3
<1>4. EarlyFiles'
  BY <1>3, NextEarlyFiles DEF SourceInv
<1>5. CommitInv' /\ ResumeInv' /\ CalmInv'
  BY <1>2, <1>3, NextMarks
<1> QED BY <1>1, <1>2, <1>3, <1>4, <1>5 DEF SourceInv

\* Where the database answers: what a publication, a deletion that is resumed, and a sweep
\* leave of the source and of its journal, after every call and at the end of the process.
THEOREM SourceInvariant ==
    ASSUME Outages = FALSE
    PROVE  Spec => [](Shapes /\ SourceInv)
<1>1. Init => Shapes /\ SourceInv
  BY InitShapes, InitSource
<1>2. Answered
  BY DEF Answered
<1>3. Shapes /\ SourceInv /\ [Next]_vars => (Shapes /\ SourceInv)'
  BY <1>2, NextSource
<1> QED BY <1>1, <1>3, PTL DEF Spec

\* promote_pending writes the marker after the payload and the record are synced, and the
\* recovery takes the marker first, with an entry in the journal that is resumed before
\* anything else is swept: a marker that is seen or that a power loss leaves has its
\* source, unless a call failed, and no staged object is left without a manifest or a row.
THEOREM NamesKept ==
    ASSUME Outages = FALSE
    PROVE  Spec => []NamesAreKept
<1>1. SourceInv => CommitIsWhole
  BY DEF SourceInv, CommitInv, CommitIsWhole, Either, Firm, Triplet
<1>2. CommitIsWhole /\ ObjectIsNamed => NamesAreKept
  BY DEF NamesAreKept
<1> QED BY <1>1, <1>2, SourceInvariant, ObjectsNamed, PTL

LEMMA CallKeepsSource ==
    ASSUME Shapes, SourceInv, SweepStep, Whole, time # "over", phase # "pending",
           phase = "journals" => failures = 0
    PROVE  Whole'
<1>1. fs' = fs => Whole'
  BY DEF Whole, Triplet, Payload, Record, Commit
<1>2. CASE (\E f \in left : Sweep(f)) \/ NextPhase
  BY <1>1, <1>2 DEF Sweep, NextPhase
<1>3. CASE JanitorCall
  <2>1. calls # <<>> /\ (fs' = fs \/ fs' = After(fs, Head(calls)))
    BY <1>3 DEF JanitorCall
  <2>2. IsProgram(calls) /\ IsCall(Head(calls))
    BY <2>1, SweepOnward DEF Shapes
  <2>3. 1 \in DOMAIN calls /\ Head(calls) = calls[1]
    BY <2>1, <2>2, TailIs
  <2>4. Triplet \cap Removes(Head(calls)) = {}
    <3>1. CASE phase = "journals"
      <4>1. Touches(calls, Taken) = {}
        BY <3>1 DEF SourceInv, CalmInv, Whole, Triplet, Either
      <4> QED BY <4>1, <2>3 DEF Touches, Taken
    <3>2. CASE phase # "journals"
      BY <3>2, <2>3 DEF SourceInv, HalfInv
    <3> QED BY <3>1, <3>2
  <2>5. \A f \in Triplet : f \in fs.now => f \in After(fs, Head(calls)).now
    BY <2>2, <2>4, AfterIs DEF IsCall
  <2> QED BY <1>1, <2>1, <2>5 DEF Whole, Triplet, Payload, Record, Commit
<1> QED BY <1>2, <1>3 DEF SweepStep

\* reconcile asks the database before it deletes a source that is whole: until its
\* reservation is over for good no call of a sweep takes a file of it, but for the discard
\* of an expired receipt, and for a deletion resumed after a call had failed.
THEOREM SourceKept ==
    ASSUME Outages = FALSE
    PROVE  Spec => SourceIsKept
<1>1. Shapes /\ SourceInv /\ [Next]_vars =>
        [/\ SweepStep /\ Whole /\ time # "over" /\ phase # "pending"
         /\ phase = "journals" => failures = 0
         => Whole']_vars
  BY CallKeepsSource
<1> QED BY <1>1, SourceInvariant, PTL DEF SourceIsKept, Spec
=============================================================================
