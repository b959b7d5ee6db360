--------------------------- MODULE HFSCatalogBTree ---------------------------
(***************************************************************************)
(* HFSCatalogBTree (src/HFSCatalogBTree.h, src/HFSCatalogBTree.cpp):       *)
(* stat() walks from the root through the elements of a path, one search   *)
(* of the tree for each, and goes to the file behind a hard link.          *)
(*                                                                         *)
(* A search is as RecordSearch has it: it fails, or finds all records of a *)
(* folder.  For names, paths and volumes see FileSystem.                   *)
(***************************************************************************)
EXTENDS Integers, SequencesExt

CONSTANT Volumes    \* the volumes

kHFSRootParentID == 1
kHFSRootFolderID == 2

EmptyName   == [text |-> "", case |-> "small", sep |-> "", tail |-> 0]
PrivateData == [text |-> "HFS+ Private Data", case |-> "small", sep |-> "", tail |-> 0]

DiskNames == [text : STRING, case : {"small", "capital"}, sep : {"", "/"}, tail : Nat]
Records ==
  [parent : Nat, name : DiskNames, kind : {"folder", "file", "thread"}, id : Nat, link : Nat, compressed : BOOLEAN,
   data : Nat, rsrc : Nat, finder : BOOLEAN, resource : {"none", "there", "missing", "damaged"}]

INodePath(n) == [text |-> "iNode" \o ToString(n), case |-> "small", sep |-> "", tail |-> 0]

\* The format of a catalog: the parent and the name are a key of it, the
\* number of a file or folder, which is not 0, is another, that of the root
\* is fixed; a folder has no forks, is not compressed and not a hard link.
ASSUME CatalogAssumption ==
  \A v \in Volumes :
    LET entries == {r \in v.records : r.kind # "thread"} IN
    /\ v.binary \in BOOLEAN /\ v.records \subseteq Records
    /\ \A a, b \in entries : a.id = b.id \/ (a.parent = b.parent /\ a.name = b.name) => a = b
    /\ \A r \in entries : r.id # 0 /\ (r.parent = kHFSRootParentID <=> r.id = kHFSRootFolderID)
    /\ \A r \in entries : r.kind = "folder" => r.data = 0 /\ ~ r.compressed /\ r.link = 0
    /\ \A r \in entries : INodePath(r.link) # EmptyName

VARIABLES
  volume,        \* what the catalog and the attributes tree hold
  hardLinkDir,   \* m_hardLinkDirID
  walk,          \* of stat(): "none", "walking", "found", or how it has ended:
                 \* "ENOENT", "several" (records of one name), "failed" (a search)
  elems,         \* the elements of the path that are left
  last           \* the record that the last one was, as a set

catalogVars == <<volume, hardLinkDir, walk, elems, last>>

----------------------------------------------------------------------------
(* Names.                                                                  *)

\* replaceChars() on the way to the disk, and from it.
ToDisk(name) == IF name.sep = ":" THEN [name EXCEPT !.sep = "/"] ELSE name

\* Bug: names are listed as they are on disk.
ToPath_AsIs(name) == name

ToPath(name) == IF name.sep = "/" THEN [name EXCEPT !.sep = ":"] ELSE name

EqualCase(a, b)   == a = b
EqualNoCase(a, b) == [a EXCEPT !.case = b.case] = b

\* Bug: the case rule of HFSX volumes is forgotten.
Equal_NoCase(v, a, b) == EqualNoCase(a, b)

Equal(v, a, b) == IF v.binary THEN EqualCase(a, b) ELSE EqualNoCase(a, b)

\* The records of a folder that are called elem, or all of them if it is
\* empty.
InFolder(v, parentID, elem) ==
  {r \in v.records : /\ r.kind \in {"folder", "file"} /\ r.parent = parentID
                     /\ elem = EmptyName \/ Equal(v, r.name, elem)}

\* Not shown in the root folder.
FilteredOut ==
  {"HFS+ Private Data", ".HFS+ Private Directory Data", ".journal", ".journal_info_block"}

----------------------------------------------------------------------------
\* The folders that may have the files behind hard links.
PrivateFolders(v) ==
  UNION {InFolder(v, r.id, PrivateData) : r \in InFolder(v, kHFSRootParentID, EmptyName)}

\* There is one at most, with nothing but files, one for a name.
ASSUME LinksAssumption ==
  \A v \in Volumes :
    /\ \A d, e \in PrivateFolders(v) : d = e
    /\ \A d \in PrivateFolders(v) : \A a, b \in InFolder(v, d.id, EmptyName) :
         a.kind = "file" /\ (Equal(v, a.name, b.name) => a = b)

\* The constructor looks for it.
Init ==
  /\ volume \in Volumes /\ walk = "none" /\ elems = <<>> /\ last = {}
  /\ LET private == PrivateFolders(volume)
     IN  hardLinkDir = IF private = {} THEN 0 ELSE (CHOOSE r \in private : TRUE).id

\* stat() is called.
BeginStat(path) ==
  /\ walk' = "walking" /\ elems' = <<EmptyName>> \o path /\ last' = {}
  /\ UNCHANGED <<volume, hardLinkDir>>

\* What findHFSPlusCatalogFileOrFolderForParentIdAndName() makes of the
\* records that match: a map by names, of which there may be one.
Several(found) == \E a, b \in found : a.name # b.name

ParentID == IF last = {} THEN kHFSRootParentID ELSE (CHOOSE r \in last : TRUE).id

\* Lines 216-229.
NextElement ==
  /\ walk = "walking" /\ elems # <<>>
  /\ LET found == InFolder(volume, ParentID, ToDisk(Head(elems))) IN
       IF found = {} \/ Several(found)
       THEN walk' = (IF found = {} THEN "ENOENT" ELSE "several") /\ UNCHANGED <<elems, last>>
       ELSE last' = {CHOOSE r \in found : TRUE} /\ elems' = Tail(elems) /\ UNCHANGED walk
  /\ UNCHANGED <<volume, hardLinkDir>>

\* Lines 254-261: to the file behind the record.
ResolveLink ==
  /\ walk = "walking" /\ elems = <<>>
  /\ \E r \in last :
       LET found == InFolder(volume, hardLinkDir, INodePath(r.link)) IN
            IF r.link # 0 /\ hardLinkDir # 0 /\ found # {}
           THEN IF Several(found) THEN walk' = "several" /\ UNCHANGED last
                ELSE walk' = "found" /\ last' = {CHOOSE i \in found : TRUE}
           ELSE walk' = "found" /\ UNCHANGED last
  /\ UNCHANGED <<volume, hardLinkDir, elems>>

\* A search of the tree throws.
SearchFails ==
  /\ walk = "walking" /\ walk' = "failed" /\ UNCHANGED <<volume, hardLinkDir, elems, last>>

WalkStep == NextElement \/ ResolveLink \/ SearchFails
=============================================================================
