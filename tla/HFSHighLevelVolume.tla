------------------------- MODULE HFSHighLevelVolume -------------------------
(***************************************************************************)
(* HFSHighLevelVolume (src/HFSHighLevelVolume.h and .cpp) under the FUSE   *)
(* callbacks (src/main-fuse.cpp): a call of the kernel looks a path up in  *)
(* the catalog, once or several times, and tells what it finds, lists it,  *)
(* or puts a reader over it that stays with the handle.                    *)
(*                                                                         *)
(* A volume without attributes tree is one without attributes.  Lengths    *)
(* are compared, never counted with.                                       *)
(***************************************************************************)
EXTENDS HFSCatalogBTree

CONSTANTS
  Requests(_),   \* the calls the kernel makes: records [op, path, attr]
  MaxHandles     \* how many files it has open

XATTR_RESOURCE_FORK == "com.apple.ResourceFork"
XATTR_FINDER_INFO   == "com.apple.FinderInfo"
DECMPFS_XATTR_NAME  == "com.apple.decmpfs"
SuffixLength        == 17   \* strlen(RESOURCE_FORK_SUFFIX)
PointerSize         == 8    \* sizeof(RESOURCE_FORK_SUFFIX)

\* The kernel passes no empty path elements, and none that is the suffix alone.
PathNames  ==
  {n \in [text : STRING, case : {"small", "capital"}, sep : {"", ":"}, tail : 0 .. SuffixLength] : n.text # ""}
Operations == {"getattr", "readdir", "readlink", "open", "read", "release", "listxattr", "getxattr"}

ASSUME RequestsAssumption ==
  \A v \in Volumes : Requests(v) \subseteq [op : Operations, path : Seq(PathNames), attr : STRING]

Attributes ==
  [file : Nat, name : STRING, inline : BOOLEAN, valid : BOOLEAN, type : Nat, size : Nat]

\* A file has one attribute of a name.  The resource fork and the Finder's
\* information are attributes for the kernel only, they are stored elsewhere.
ASSUME AttributesAssumption ==
  \A v \in Volumes :
    /\ v.attributes \subseteq Attributes
    /\ \A a, b \in v.attributes : a.file = b.file /\ a.name = b.name => a = b
    /\ \A a \in v.attributes : a.name \notin {XATTR_RESOURCE_FORK, XATTR_FINDER_INFO}

VARIABLES
  request,   \* the call that runs, as a set
  stage,     \* what the walk is for: "stat", "openFile", "resource", or "handle"
  answer,    \* what the callback has returned
  handles,   \* the files that are open: records [path, reader]
  broken,    \* whether something below failed while the call was answered
  told       \* the last attributes or listing that were told, with the call

vars == <<catalogVars, request, stage, answer, handles, broken, told>>

Error(e) == [error |-> e, what |-> {}]
Value(s) == [error |-> "", what |-> s]
NoAnswer == Error("none")

Call == CHOOSE r \in request : TRUE
File == CHOOSE r \in last : TRUE

Answer(a) ==
  /\ answer' = a /\ broken' = FALSE /\ UNCHANGED <<catalogVars, request, stage, handles, told>>

----------------------------------------------------------------------------
(* Paths.                                                                  *)

EndsWithSuffix(path) == path # <<>> /\ Last(path).tail = SuffixLength

Resized(path, n) == [path EXCEPT ![Len(path)].tail = @ - n]

\* spath: only getXattr() takes off the length of the suffix; listDirectory()
\* and listXattr() take off nothing.
SPath(r) ==
  IF ~ EndsWithSuffix(r.path) \/ r.op \in {"readdir", "listxattr"} THEN r.path
  ELSE Resized(r.path, IF r.op = "getxattr" THEN SuffixLength ELSE PointerSize - 1)

\* A resource fork is opened without a stat() before.
FirstStage(r) ==
  IF \/ r.op \in {"open", "readlink"} /\ EndsWithSuffix(r.path)
     \/ r.op = "getxattr" /\ r.attr = XATTR_RESOURCE_FORK
  THEN "openFile" ELSE "stat"

----------------------------------------------------------------------------
(* What files have.                                                        *)

\* HFSAttributeBTree::getattr(): only inline attributes.
AttributesOf(f) == {a \in volume.attributes : a.file = f.id /\ a.inline}

\* get_decmpfs(), as a set.
Decmpfs(f) == {a \in AttributesOf(f) : a.name = DECMPFS_XATTR_NAME /\ a.valid}

ForkLength(f, resourceFork) ==
  IF f.kind = "folder" THEN 0 ELSE IF resourceFork THEN f.rsrc ELSE f.data

\* Bug: the size is that of the fork.
StatSize_Fork(f, resourceFork) == ForkLength(f, resourceFork)

\* hfs_nativeToStat_decmpfs(): st_size.
StatSize(f, resourceFork) ==
  LET length == ForkLength(f, resourceFork) IN
  IF f.compressed /\ length = 0 /\ Decmpfs(f) # {}
  THEN (CHOOSE h \in Decmpfs(f) : TRUE).size ELSE length

\* Bug: a fork is listed where there may be none.
ListsFork_Any(f) == f.kind = "file" /\ ~ f.compressed

\* Line 234.
ListsFork(f) == f.kind = "file" /\ f.rsrc # 0 /\ ~ f.compressed

\* What the readers of openFile() are over, and what they read.
Fork(f, resourceFork) ==
  [over |-> IF resourceFork THEN "rsrc" ELSE "data", file |-> f.id, length |-> ForkLength(f, resourceFork)]
Unpacking(how, f, h) == [over |-> how, file |-> f.id, length |-> h.size]
Null == [over |-> "null", file |-> 0, length |-> 0]

\* The readers that unpack, with the type of decmpfs header they are for.
Unpacks == {<<"memory", 1>>, <<"zlib memory", 3>>, <<"zlib resource", 4>>}

\* What comes out of a reader.
Serves(reader) ==
  IF \A u \in Unpacks : u[1] # reader.over THEN <<reader.file, reader.over>>
  ELSE IF \E h \in volume.attributes : /\ h.file = reader.file /\ h.name = DECMPFS_XATTR_NAME
                                       /\ <<reader.over, h.type>> \in Unpacks
       THEN <<reader.file, "unpacked">> ELSE <<reader.file, "packed">>

----------------------------------------------------------------------------
VolumeInit ==
  /\ Init /\ request = {} /\ stage = "none" /\ answer = NoAnswer /\ handles = {}
  /\ broken = FALSE /\ told = {}

\* The kernel calls.  It reads and releases what it has open.
Ask(r) ==
  /\ request = {}
  /\ r.op \in {"read", "release"} => \E h \in handles : h.path = r.path
  /\ r.op = "open" => Cardinality(handles) < MaxHandles /\ \A h \in handles : h.path # r.path
  /\ request' = {r}
  /\ IF r.op \in {"read", "release"} THEN stage' = "handle" /\ UNCHANGED catalogVars
     ELSE BeginStat(SPath(r)) /\ stage' = FirstStage(r)
  /\ UNCHANGED <<answer, handles, broken, told>>

\* The catalog walks along the path.
Walk == WalkStep /\ UNCHANGED <<request, stage, answer, handles, broken, told>>

\* The walk has ended with a record, for one of these callbacks and stages.
Found(ops, s) == answer = NoAnswer /\ walk = "found" /\ stage = s /\ Call.op \in ops

\* handle_exceptions(): file_not_found_error, and io_error.
NotFound == answer = NoAnswer /\ walk = "ENOENT" /\ stage # "handle" /\ Answer(Error("ENOENT"))
TooMany  == answer = NoAnswer /\ walk = "several" /\ stage # "handle" /\ Answer(Error("EIO"))

GetAttr ==
  /\ Found({"getattr"}, "stat")
  /\ Answer(Value({<<File.id, StatSize(File, EndsWithSuffix(Call.path))>>}))

ListDirectory ==
  /\ Found({"readdir"}, "stat")
  /\ LET shown == {r \in InFolder(volume, File.id, EmptyName) :
                     File.id = kHFSRootFolderID => r.name.text \notin FilteredOut}
     IN  Answer(IF File.kind = "folder" THEN Value({<<ToPath(r.name), r.id>> : r \in shown})
                ELSE Error("ENOENT"))

\* hfs_open() keeps the reader, hfs_readlink() reads it at once.
Opened(reader) ==
  /\ IF Call.op = "open"
     THEN handles' = handles \cup {[path |-> Call.path, reader |-> reader]} /\ answer' = Value({})
     ELSE answer' = Value({Serves(reader)}) /\ UNCHANGED handles
  /\ broken' = FALSE /\ UNCHANGED <<catalogVars, request, stage, told>>

StatAgain(s) ==
  /\ BeginStat(SPath(Call)) /\ stage' = s /\ UNCHANGED <<request, answer, handles, broken, told>>

\* Line 128: HFSCatalogBTree::openFile() looks the path up again.
OpenPlain == Found({"open", "readlink"}, "stat") /\ ~ File.compressed /\ StatAgain("openFile")

OpenFork ==
  /\ Found({"open", "readlink"}, "openFile")
  /\ IF File.kind = "file" THEN Opened(Fork(File, EndsWithSuffix(Call.path))) ELSE Answer(Error("ENOENT"))

\* Lines 138-173.
OpenCompressed ==
  /\ Found({"open", "readlink"}, "stat") /\ File.compressed
  /\ IF Decmpfs(File) = {} THEN Answer(Error("ENOENT"))
     ELSE \E h \in Decmpfs(File) :
            CASE h.type = 1 -> Opened(Unpacking("memory", File, h))
              [] h.type = 3 -> Opened(Unpacking("zlib memory", File, h))
              [] h.type = 4 -> StatAgain("resource")
              [] OTHER      -> Answer(Error("ENOSYS"))

\* Lines 158-168.  The reader stays null if the record is not a file.
OpenResource ==
  /\ Found({"open", "readlink"}, "resource")
  /\ IF File.kind = "folder" THEN Opened(Null)
     ELSE IF File.resource = "there" THEN \E h \in Decmpfs(File) : Opened(Unpacking("zlib resource", File, h))
     ELSE Answer(Error(IF File.resource = "damaged" THEN "EIO" ELSE "ENOSYS"))

ListXattr ==
  /\ Found({"listxattr"}, "stat")
  /\ Answer(Value({n \in {XATTR_FINDER_INFO} : File.finder} \cup {n \in {XATTR_RESOURCE_FORK} : ListsFork(File)}
                  \cup {a.name : a \in {a \in AttributesOf(File) : File.compressed => a.name # DECMPFS_XATTR_NAME}}))

GetXattrFork ==
  /\ Found({"getxattr"}, "openFile")
  /\ Answer(IF File.kind = "folder" THEN Error("EPERM")
            ELSE IF File.rsrc = 0 THEN Error("ENODATA") ELSE Value({Serves(Fork(File, TRUE))}))

\* Line 274: what read() returns is not looked at.  The bytes that it did not
\* read are zeros.
GetXattrUnread ==
  /\ Found({"getxattr"}, "openFile") /\ File.kind # "folder" /\ File.rsrc # 0
  /\ answer' = Value({<<File.id, "unread">>}) /\ broken' = TRUE
  /\ UNCHANGED <<catalogVars, request, stage, handles, told>>

\* Without any information the value is empty.
GetXattrFinderInfo ==
  /\ Found({"getxattr"}, "stat") /\ Call.attr = XATTR_FINDER_INFO
  /\ Answer(Value({<<f.id, XATTR_FINDER_INFO>> : f \in {f \in last : f.finder}}))

GetXattrAttribute ==
  /\ Found({"getxattr"}, "stat") /\ Call.attr # XATTR_FINDER_INFO
  /\ LET values == {<<a.file, a.name>> : a \in {a \in AttributesOf(File) : a.name = Call.attr}}
     IN  Answer(IF values = {} THEN Error("ENODATA") ELSE Value(values))

\* hfs_read() and hfs_release().
Read ==
  /\ answer = NoAnswer /\ stage = "handle" /\ Call.op = "read"
  /\ Answer(Value({Serves(h.reader) : h \in {h \in handles : h.path = Call.path}}))

Release ==
  /\ answer = NoAnswer /\ stage = "handle" /\ Call.op = "release"
  /\ handles' = {h \in handles : h.path # Call.path} /\ answer' = Value({}) /\ broken' = FALSE
  /\ UNCHANGED <<catalogVars, request, stage, told>>

\* What is read once the record is there.
ReadsMore ==
  \/ stage = "handle" /\ Call.op = "read"
  \/ stage # "handle" /\ walk = "failed"
  \/ /\ stage # "handle" /\ walk = "found"
     /\ \/ Call.op \in {"readdir", "listxattr", "readlink"}
        \/ Call.op = "open" /\ stage # "openFile" /\ File.compressed
        \/ Call.op = "getxattr" /\ Call.attr # XATTR_FINDER_INFO
        \/ Call.op = "getattr" /\ File.compressed /\ ForkLength(File, EndsWithSuffix(Call.path)) = 0

\* A search or a read below has thrown.
Fails ==
  /\ request # {} /\ answer = NoAnswer /\ ReadsMore
  /\ answer' = Error("EIO") /\ broken' = TRUE /\ UNCHANGED <<catalogVars, request, stage, handles, told>>

Return ==
  /\ answer # NoAnswer
  /\ told' = IF answer.error = "" /\ Call.op \in {"getattr", "readdir", "listxattr"}
             THEN {[call |-> Call, what |-> answer.what]} ELSE told
  /\ request' = {} /\ stage' = "none" /\ answer' = NoAnswer /\ broken' = FALSE
  /\ walk' = "none" /\ elems' = <<>> /\ last' = {} /\ UNCHANGED <<volume, hardLinkDir, handles>>

Step ==
  \/ Walk \/ NotFound \/ TooMany \/ GetAttr \/ ListDirectory \/ OpenPlain \/ OpenFork
  \/ OpenCompressed \/ OpenResource \/ ListXattr \/ GetXattrFork \/ GetXattrUnread
  \/ GetXattrFinderInfo \/ GetXattrAttribute \/ Read \/ Release \/ Fails \/ Return

Next == Step \/ \E r \in Requests(volume) : Ask(r)

Spec == VolumeInit /\ [][Next]_vars /\ WF_vars(Step)

----------------------------------------------------------------------------
(* Properties.                                                             *)

FS == INSTANCE FileSystem WITH
        handles <- {[path |-> h.path, contents |-> Serves(h.reader)] : h \in handles}

\* The callbacks implement FileSystem: whatever the searches and stages in
\* between, a call is answered once, with what is under its path in the tree
\* of folders (behind a hard link: its file), reads give the contents of the
\* file that was opened, and EIO, or a resource fork's attribute with other
\* bytes, comes only from below.
FileSystemContract == FS!Spec

\* readdir() and getattr() agree: a name can be looked up if it has been
\* listed, and only then if it is not one that the root hides; it is that of
\* the file listed, or of the one behind it.  The characters that
\* listDirectory() replaces are those that stat() replaces back.
ListingAgrees ==
  \A t \in told, r \in request :
    ( /\ t.call.op = "readdir" /\ r.op = "getattr" /\ answer \notin {NoAnswer, Error("EIO")}
      /\ r.path # <<>> /\ Front(r.path) = t.call.path /\ Last(r.path).text \notin FS!Hidden ) =>
    LET listed == {f \in FS!Entries(volume) : \E e \in t.what : f.id = e[2] /\ FS!Same(volume, e[1], Last(r.path))}
    IN  {found[1] : found \in answer.what} = {FS!Behind(volume, f).id : f \in listed}

\* The size that getattr() tells of a file is that of the reader its handle
\* has, whatever the one is stored in and the other puts together.
SizesAgree ==
  \A t \in told, h \in handles :
    (t.call.op = "getattr" /\ t.call.path = h.path) => \A a \in t.what : a[2] = h.reader.length

\* An attribute that listxattr() has listed has a value.
ListedHaveValues ==
  \A t \in told, r \in request :
    ( /\ t.call.op = "listxattr" /\ r.op = "getxattr" /\ t.call.path = r.path
      /\ r.attr \in t.what /\ answer \notin {NoAnswer, Error("EIO")} ) => answer.what # {}

\* README.md:59: resource forks are available under the name of the file and
\* the suffix.
NamedForksThere ==
  \A r \in request :
    ( /\ r.op \in {"getattr", "open"} /\ EndsWithSuffix(r.path)
      /\ \E f \in FS!Named(volume, Resized(r.path, SuffixLength)) : f.kind = "file" )
    => answer.error # "ENOENT"
=============================================================================
