---------------------------- MODULE DurableFiles ----------------------------
(*************************************************************************)
(* Directories as the media stores use them: a change of an entry is seen *)
(* at once and is on disk when its directory was synced. A file is        *)
(* <<directory, name, what it is of>>. A file system is a record of the   *)
(* entries a process sees, those on disk, and those too young to be swept *)
(* (a name that is moved or linked keeps the age of its file).            *)
(*************************************************************************)
EXTENDS Sequences

Dir(f) == f[1]
In(files, d) == {f \in files : Dir(f) = d}
Empty == [now |-> {}, disk |-> {}, young |-> {}]

\* Calls of an operation. Whatever is over has the name that to takes: it is replaced.
Create(f) == [do |-> "create", of |-> f, to |-> f, over |-> {}]
Put(f, over) == [do |-> "put", of |-> f, to |-> f, over |-> over]
Move(f, g, over) == [do |-> "move", of |-> f, to |-> g, over |-> over]
Link(f, g) == [do |-> "link", of |-> f, to |-> g, over |-> {}]
Unlink(f) == [do |-> "unlink", of |-> f, to |-> f, over |-> {}]
Sync(d) == [do |-> "sync", of |-> <<d>>, to |-> <<d>>, over |-> {}]

Publish(f, g, over) == <<Move(f, g, over), Sync(Dir(g))>>
Erase(f) == <<Unlink(f), [Sync(Dir(f)) EXCEPT !.to = f]>>

Possible(fs, c) ==
    /\ c.do \in {"move", "link"} => c.of \in fs.now
    /\ c.do \in {"create", "link"} => c.to \notin fs.now

Aged(fs, c) == IF c.do \in {"create", "put"} \/ c.of \in fs.young THEN {c.to} ELSE {}
Seen(fs, c) ==
    CASE c.do \in {"create", "put", "link"} -> (fs.now \ c.over) \cup {c.to}
      [] c.do = "move" -> (fs.now \ (c.over \cup {c.of})) \cup {c.to}
      [] c.do = "unlink" -> fs.now \ {c.of}
      [] OTHER -> fs.now

Renewed(fs, c) == IF c.do = "sync" THEN fs.young ELSE (fs.young \ {c.to}) \cup Aged(fs, c)
Synced(fs, c) ==
    IF c.do = "sync" THEN (fs.disk \ In(fs.disk, c.of[1])) \cup In(fs.now, c.of[1]) ELSE fs.disk

After(fs, c) ==
    [now |-> Seen(fs, c), disk |-> Synced(fs, c),
     young |-> Renewed(fs, c) \cap (Seen(fs, c) \cup Synced(fs, c))]

\* What a power loss may leave: each directory as it was seen or as it was last synced.
Remains(fs) ==
    LET torn == {Dir(f) : f \in (fs.now \ fs.disk) \cup (fs.disk \ fs.now)}
    IN  {[now |-> kept, disk |-> kept, young |-> fs.young \cap kept] :
          kept \in {{f \in fs.now : Dir(f) \notin gone} \cup {f \in fs.disk : Dir(f) \in gone} :
                     gone \in SUBSET torn}}
=============================================================================
