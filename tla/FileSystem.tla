----------------------------- MODULE FileSystem -----------------------------
(***************************************************************************)
(* What the mounted file system promises the kernel (src/main-fuse.h):     *)
(* every call is answered, with what the volume holds under the path, and  *)
(* EIO only if something below has failed.  (Then the value of a resource  *)
(* fork may also have other bytes.)                                        *)
(*                                                                         *)
(* A name is a record [text, case, sep, tail]: its letters, whether they   *)
(* are capitals, the separator it contains ("/" only on disk, ":" only in  *)
(* paths, or ""), and how many characters of "#..namedfork#rsrc" it ends   *)
(* with.  A path is a sequence of names, the root <<>>.                    *)
(*                                                                         *)
(* A volume is a record [binary, records, attributes]: whether its names   *)
(* differ by case, the records of its catalog, its extended attributes.    *)
(* A record has the fields parent, name, kind, id, link (the number of the *)
(* inode if it is a hard link, or 0), compressed, data and rsrc (lengths   *)
(* of its forks), finder, and resource (of a compressed file's, in its     *)
(* resource fork).  An attribute has file, name, inline, and, if it is a   *)
(* decmpfs header, valid, type and size.                                   *)
(***************************************************************************)
EXTENDS Integers, SequencesExt

CONSTANTS
  Volumes,       \* the volumes
  Requests(_)    \* the calls the kernel may make: records [op, path, attr]

RootParent   == 1
PrivateName  == [text |-> "HFS+ Private Data", case |-> "small", sep |-> "", tail |-> 0]
INode(n)     == [text |-> "iNode" \o ToString(n), case |-> "small", sep |-> "", tail |-> 0]
ResourceFork == "com.apple.ResourceFork"
FinderInfo   == "com.apple.FinderInfo"
Decmpfs      == "com.apple.decmpfs"

----------------------------------------------------------------------------
(* What a volume holds.                                                    *)

Entries(v) == {r \in v.records : r.kind # "thread"}

Same(v, a, b) == IF v.binary THEN a = b ELSE [a EXCEPT !.case = b.case] = b

\* A name as paths have it.
Shown(n) == IF n.sep = "/" THEN [n EXCEPT !.sep = ":"] ELSE n

Children(v, folder) == {r \in Entries(v) : r.parent = folder.id}

\* The records that the first n elements of a path name.
Along(v, path) ==
  LET named[n \in 0 .. Len(path)] ==
        IF n = 0 THEN {r \in Entries(v) : r.parent = RootParent}
        ELSE {r \in UNION {Children(v, f) : f \in named[n - 1]} : Same(v, Shown(r.name), path[n])}
  IN  named

\* The record that a path names, as a set.
Named(v, path) == Along(v, path)[Len(path)]

\* A damaged volume: somewhere along the path two records have one name.
Ambiguous(v, path) == \E n \in 0 .. Len(path) : \E a, b \in Along(v, path)[n] : a # b

\* Extended attributes can also be had under the name of the resource fork.
Plain(path) ==
  IF path # <<>> /\ Last(path).tail = 17 THEN [path EXCEPT ![Len(path)].tail = 0] ELSE path

\* Where the files behind the hard links are.
Private(v) == {r \in Entries(v) : Same(v, r.name, PrivateName) /\ \E root \in Named(v, <<>>) : r.parent = root.id}

\* The file behind a record: hard links share one.
Behind(v, r) ==
  LET inodes == {i \in UNION {Children(v, d) : d \in Private(v)} : Same(v, i.name, INode(r.link))}
  IN  IF r.link # 0 /\ inodes # {} THEN CHOOSE i \in inodes : TRUE ELSE r

\* Names of the root folder that are not shown.
Hidden == {"HFS+ Private Data", ".HFS+ Private Directory Data", ".journal", ".journal_info_block"}

Listing(v, folder) ==
  {<<Shown(r.name), r.id>> : r \in {c \in Children(v, folder) : folder.parent = RootParent => c.name.text \notin Hidden}}

Header(v, r) == {a \in v.attributes : a.file = r.id /\ a.name = Decmpfs /\ a.inline /\ a.valid}

\* A compressed file that can be unpacked.
Unpackable(v, r) ==
  \E a \in Header(v, r) : a.type \in {1, 3} \/ (a.type = 4 /\ r.resource = "there")

Size(v, r) ==
  IF r.compressed /\ r.data = 0 /\ Header(v, r) # {} THEN (CHOOSE a \in Header(v, r) : TRUE).size ELSE r.data

\* The bytes of a file.
Contents(v, r) == IF r.compressed THEN <<r.id, "unpacked">> ELSE <<r.id, "data">>

Attributes(v, r) == {a.name : a \in {a \in v.attributes : a.file = r.id /\ a.inline}}

AttributeNames(v, r) ==
  {n \in Attributes(v, r) : r.compressed => n # Decmpfs}
  \cup {n \in {FinderInfo} : r.finder}
  \cup {n \in {ResourceFork} : r.kind = "file" /\ r.rsrc # 0 /\ ~ r.compressed}

----------------------------------------------------------------------------
VARIABLES volume, request, answer, handles, broken

vars == <<volume, request, answer, handles, broken>>

\* An answer is an error or, if that is "", a set with what was asked for.
Error(e)  == [error |-> e, what |-> {}]
Value(s)  == [error |-> "", what |-> s]
NoAnswer  == Error("none")

\* What a call on the file system may be answered with, other than EIO.
Answers(v, r) ==
  LET path  == IF r.op = "getxattr" THEN Plain(r.path) ELSE r.path
      found == Named(v, path)
      file  == Behind(v, CHOOSE n \in found : TRUE)
  IN  IF Ambiguous(v, path) THEN {Error("EIO")}
      ELSE IF found = {} THEN {Error("ENOENT")}
      ELSE CASE r.op = "getattr" -> {Value({<<file.id, Size(v, file)>>})}
             [] r.op = "readdir" ->
                  {IF file.kind = "folder" THEN Value(Listing(v, file)) ELSE Error("ENOENT")}
             [] r.op = "readlink" /\ (file.compressed => Unpackable(v, file)) ->
                  {IF file.kind = "file" THEN Value({Contents(v, file)}) ELSE Error("ENOENT")}
             [] r.op = "open" /\ (file.compressed => Unpackable(v, file)) ->
                  {IF file.kind = "file" THEN Value({}) ELSE Error("ENOENT")}
             [] r.op = "listxattr" -> {Value(AttributeNames(v, file))}
             [] r.op = "getxattr" /\ r.attr = ResourceFork ->
                  {IF file.kind = "folder" THEN Error("EPERM")
                   ELSE IF file.rsrc = 0 THEN Error("ENODATA") ELSE Value({<<file.id, "rsrc">>})}
             [] r.op = "getxattr" /\ r.attr = FinderInfo ->
                  {IF file.finder THEN Value({<<file.id, FinderInfo>>}) ELSE Value({})}
             [] r.op = "getxattr" /\ r.attr \notin {FinderInfo, ResourceFork} ->
                  {IF r.attr \in Attributes(v, file) THEN Value({<<file.id, r.attr>>}) ELSE Error("ENODATA")}
             [] OTHER -> {Error(e) : e \in {"ENOENT", "ENOSYS", "EIO"}}

Init ==
  volume \in Volumes /\ request = {} /\ answer = NoAnswer /\ handles = {} /\ broken = FALSE

\* What is read and released is open, and a path is opened once at a time.
Callable(r) ==
  /\ r.op \in {"read", "release"} => \E h \in handles : h.path = r.path
  /\ r.op = "open" => \A h \in handles : h.path # r.path

Ask(r) ==
  /\ request = {} /\ Callable(r)
  /\ request' = {r} /\ UNCHANGED <<volume, answer, handles, broken>>

Reply ==
  /\ answer = NoAnswer
  /\ \E r \in request :
       CASE r.op = "read" ->
              /\ answer' = Value({h.contents : h \in {h \in handles : h.path = r.path}})
              /\ UNCHANGED handles
         [] r.op = "release" ->
              /\ answer' = Value({}) /\ handles' = {h \in handles : h.path # r.path}
         [] OTHER ->
              /\ answer' \in Answers(volume, r)
              /\ handles' = IF r.op = "open" /\ answer'.error = ""
                            THEN handles \cup {[path |-> r.path,
                                   contents |-> Contents(volume, Behind(volume, CHOOSE n \in Named(volume, r.path) : TRUE))]}
                            ELSE handles
  /\ UNCHANGED <<volume, request, broken>>

\* Something below has failed.
ReplyEIO ==
  /\ request # {} /\ answer = NoAnswer /\ answer' = Error("EIO") /\ broken' = TRUE
  /\ UNCHANGED <<volume, request, handles>>

\* Something below has failed, and the value of a resource fork is as long as
\* the fork, but has other bytes.
ReplyUnread ==
  /\ answer = NoAnswer
  /\ \E r \in request : \E a \in Answers(volume, r) :
       /\ r.op = "getxattr" /\ r.attr = ResourceFork /\ a.error = ""
       /\ answer' = Value({<<fork[1], "unread">> : fork \in a.what})
  /\ broken' = TRUE /\ UNCHANGED <<volume, request, handles>>

Return ==
  /\ answer # NoAnswer /\ request' = {} /\ answer' = NoAnswer /\ broken' = FALSE
  /\ UNCHANGED <<volume, handles>>

Progress == Reply \/ ReplyEIO \/ ReplyUnread \/ Return

Next == Progress \/ \E r \in Requests(volume) : Ask(r)

SafeSpec == Init /\ [][Next]_vars

Spec == SafeSpec /\ WF_vars(Progress)
=============================================================================
