------------------------ MODULE MCHFSHighLevelVolume ------------------------
(* Model checking of HFSHighLevelVolume: a volume with folders, odd names    *)
(* and hard links, one whose names differ by case and whose private folder   *)
(* is missing, the same one with names that do not, so that two are equal,   *)
(* and one of compressed files.                                              *)
EXTENDS HFSHighLevelVolume

Name(text) == [text |-> text, case |-> "small", sep |-> "", tail |-> 0]
Capital    == [Name("a") EXCEPT !.case = "capital"]
Parted(sep) == [Name("a") EXCEPT !.sep = sep]

Record(parent, name, kind, id) ==
  [parent |-> parent, name |-> name, kind |-> kind, id |-> id, link |-> 0, compressed |-> FALSE,
   data |-> 0, rsrc |-> 0, finder |-> FALSE, resource |-> "none"]
PlainFile(parent, name, id) == [Record(parent, name, "file", id) EXCEPT !.data = 3]
HardLink(parent, name, id, n) == [Record(parent, name, "file", id) EXCEPT !.link = n]
Packed(text, id, resource) ==
  [Record(2, Name(text), "file", id) EXCEPT !.compressed = TRUE, !.resource = resource,
                                            !.rsrc = IF resource = "none" THEN 0 ELSE 2]
Root(name) == { Record(1, name, "folder", 2), Record(2, EmptyName, "thread", 2) }

Attribute(file, name, inline) ==
  [file |-> file, name |-> name, inline |-> inline, valid |-> FALSE, type |-> 0, size |-> 0]
DecmpfsHeader(file, type) ==
  [Attribute(file, DECMPFS_XATTR_NAME, TRUE) EXCEPT !.valid = TRUE, !.type = type, !.size = 5]

Linked ==
  [ binary     |-> FALSE,
    records    |-> Root(Name("Disk")) \cup
      { Record(2, Name("d"), "folder", 20), Record(20, EmptyName, "thread", 20),
        [PlainFile(2, Name("a"), 21) EXCEPT !.rsrc = 2, !.finder = TRUE], Record(21, EmptyName, "thread", 21),
        PlainFile(2, Parted("/"), 22), PlainFile(2, Name(".journal"), 23),
        PlainFile(20, Capital, 24), HardLink(2, Name("h"), 25, 9), HardLink(20, Name("h"), 26, 9),
        HardLink(20, Name("i"), 27, 8),
        Record(2, PrivateData, "folder", 30), [PlainFile(30, Name("iNode9"), 9) EXCEPT !.data = 4, !.rsrc = 1] },
    attributes |-> { Attribute(21, "note", TRUE), Attribute(21, "big", FALSE), Attribute(9, "note", TRUE) } ]

Binary ==
  [ binary     |-> TRUE,
    records    |-> Root(Capital) \cup
      { PlainFile(2, Name("a"), 21), [PlainFile(2, Capital, 22) EXCEPT !.data = 4], HardLink(2, Name("h"), 25, 9) },
    attributes |-> {} ]

Compressed ==
  [ binary     |-> FALSE,
    records    |-> Root(Name("Disk")) \cup
      { Packed("memory", 21, "none"), Packed("zlib", 22, "none"), Packed("fork", 23, "there"),
        Packed("missing", 24, "missing"), Packed("damaged", 25, "damaged"),
        Packed("new", 26, "none"), Packed("headless", 27, "none"), Packed("invalid", 28, "none") },
    attributes |->
      { DecmpfsHeader(21, 1), DecmpfsHeader(22, 3), DecmpfsHeader(23, 4), DecmpfsHeader(24, 4),
        DecmpfsHeader(25, 4), DecmpfsHeader(26, 9), Attribute(28, DECMPFS_XATTR_NAME, TRUE),
        Attribute(23, "note", TRUE) } ]

\* It should be binary.
Damaged == [Binary EXCEPT !.binary = FALSE]

MCVolumes == {Linked, Binary, Compressed, Damaged}

\* The paths to the records of a volume, and others.
Paths(v) ==
  CASE v = Linked ->
         { <<>>, <<Name("a")>>, <<Capital>>, <<Parted(":")>>, <<Name("d")>>, <<Name("d"), Name("a")>>,
           <<Name("h")>>, <<Name("d"), Name("h")>>, <<Name("d"), Name("i")>>, <<Name("a"), Name("a")>> }
    [] v \in {Binary, Damaged} -> { <<>>, <<Name("a")>>, <<Capital>>, <<Name("h")>>, <<Parted(":")>> }
    [] OTHER      -> { <<r.name>> : r \in {r \in v.records : r.compressed} }

Suffixed(path) == [path EXCEPT ![Len(path)].tail = SuffixLength]

Calls(ops, paths) == {[op |-> op, path |-> p, attr |-> ""] : op \in ops, p \in paths}

\* Files are opened where they differ in how they are opened, attributes asked
\* for where they differ in attributes.
OpenedIn(v) == IF v = Linked THEN {<<Name("a")>>, <<Name("d")>>, <<Name("h")>>, <<Name("d"), Name("h")>>} ELSE Paths(v)
AskedIn(v)   == IF v = Compressed THEN {<<Name("fork")>>, <<Name("invalid")>>} ELSE Paths(v)

MCRequests(v) ==
  LET attrs    == {XATTR_RESOURCE_FORK, "note"} \cup IF v = Linked THEN {XATTR_FINDER_INFO, "big"} ELSE {}
      suffixed == {Suffixed(p) : p \in {p \in AskedIn(v) : Len(p) = 1}}
  IN  Calls({"getattr", "readdir"}, Paths(v)) \cup Calls({"listxattr"}, AskedIn(v))
      \cup Calls({"open", "readlink", "read", "release"}, OpenedIn(v))
      \cup {[op |-> "getxattr", path |-> p, attr |-> a] : p \in AskedIn(v), a \in attrs}
      \cup {[op |-> "getxattr", path |-> p, attr |-> XATTR_RESOURCE_FORK] : p \in suffixed}

\* Calls under the name that README.md gives the resource fork.
NamedForkRequests(v) ==
  Calls({"getattr", "open", "read", "release"}, Paths(v) \cup {Suffixed(p) : p \in Paths(v) \ {<<>>}})
=============================================================================
