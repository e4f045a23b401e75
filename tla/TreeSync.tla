------------------------------- MODULE TreeSync -------------------------------
(***************************************************************************)
(* Directory trees kept alike: two clients scan, compare, serialize and    *)
(* apply them with the operations of FolderTree, and so does the tracker   *)
(* between them (client/client.c, tracker/tracker.c).  What module Client  *)
(* leaves out is here: folders in folders, files and folders that take     *)
(* each other's name, mkdir and remove in the order of the iterators, and  *)
(* the asserts.  Downloads are a step each; see module Client.             *)
(***************************************************************************)
EXTENDS FolderTree, FiniteSets

CONSTANTS
  Machines,     \* the clients
  Names,
  MaxDepth,     \* bound: names in a path
  Base,         \* paths and versions everybody has at the start
  MaxEdits      \* bound: edits in a behaviour

ASSUME TreeSyncAssumption ==
  /\ IsFiniteSet(Names) /\ MaxDepth \in Nat /\ MaxEdits \in Nat

VARIABLES
  disk,      \* disk[c]: paths in c's directory, with their versions
  image,     \* image[c]: cur_fs
  due,       \* due[c]: paths and versions of files being downloaded
  uplink,    \* uplink[c]: diffs on their way from c to the tracker
  downlink,  \* downlink[c]: diffs on their way to c
  master,    \* the tracker's fs
  editors,   \* who made each edit so far
  fallen     \* processes that failed an assert or wrote to no file

treeVars == <<disk, image, due, uplink, downlink, master, editors, fallen>>

TreePaths == UNION {[1 .. n -> Names] : n \in 1 .. MaxDepth}
Orders == {o \in [1 .. Cardinality(Names) -> Names] : ToSet(o) = Names}

At(path, ver) == [p \in {path} |-> ver]
Merged(d, e) == [p \in DOMAIN d \cup DOMAIN e |-> IF p \in DOMAIN e THEN e[p] ELSE d[p]]
Minus(d, P) == [p \in DOMAIN d \ P |-> d[p]]
Below(p) == {q \in TreePaths : Len(q) > Len(p) /\ SubSeq(q, 1, Len(p)) = p}
IsDir(d, p) == p = <<>> \/ (p \in DOMAIN d /\ d[p] = 0)
Scans(d) == {Scanned(d, o, <<>>, "") : o \in Orders}

(* The entries of trees as module FileSystem has them: a path is told      *)
(* from the same path as a directory.                                      *)
Sets == INSTANCE FileSystem WITH
  Paths <- TreePaths \X BOOLEAN, Dirs <- TreePaths \X {TRUE}, MaxVersion <- MaxEdits + 1,
  Inside <- UNION {{<<<<q, b>>, <<p, TRUE>>>> : q \in Below(p), b \in BOOLEAN} : p \in TreePaths}
AsSet(f) == {[path |-> <<e.path, e.ver = 0>>, ver |-> e.ver] : e \in EntriesOf(f)}

(* A diff as it is sent: two trees in one buffer.  adds and dels are not   *)
(* sent: what they should be, as sets.                                     *)
Diff(old, new) ==
  [buf |-> TreeSerialized(TreeAdditions(old, new)) \o TreeSerialized(TreeDeletions(old, new)),
   adds |-> Sets!Additions(AsSet(old), AsSet(new)),
   dels |-> Sets!Deletions(AsSet(old), AsSet(new))]
AddsOf(u) == TreeDeserialized(u.buf).folder
DelsOf(u) == TreeDeserialized(TreeDeserialized(u.buf).rest).folder
FilePaths(f) == {e.path : e \in {e \in EntriesOf(f) : e.ver # 0}}
FilesIn(f) == {e \in EntriesOf(f) : e.ver # 0}

Runs(c) == c \notin fallen

-----------------------------------------------------------------------------
TreeInit ==
  /\ disk = [c \in Machines |-> Base]
  /\ \E f \in Scans(Base) : image = [c \in Machines |-> f] /\ master = f
  /\ due = [c \in Machines |-> {}]
  /\ uplink = [c \in Machines |-> <<>>] /\ downlink = [c \in Machines |-> <<>>]
  /\ editors = <<>> /\ fallen = {}

(* A user writes a file, makes a directory, or removes what is at a path.  *)
Edit(c, d) ==
  /\ Runs(c) /\ Len(editors) < MaxEdits
  /\ disk' = [disk EXCEPT ![c] = d]
  /\ editors' = Append(editors, c)
  /\ UNCHANGED <<image, due, uplink, downlink, master, fallen>>
Writes(c, p) ==
  /\ IsDir(disk[c], Front(p)) /\ ~IsDir(disk[c], p)
  /\ Edit(c, Merged(disk[c], At(p, Len(editors) + 2)))
MakesDir(c, p) ==
  /\ IsDir(disk[c], Front(p)) /\ p \notin DOMAIN disk[c]
  /\ Edit(c, Merged(disk[c], At(p, 0)))
Deletes(c, p) ==
  /\ p \in DOMAIN disk[c]
  /\ Edit(c, Minus(disk[c], {p} \cup Below(p)))

(* CheckLocalFilesystem, once two scans agree; module Client has the wait. *)
Reports(c) ==
  /\ Runs(c)
  /\ \E new \in Scans(disk[c]) :
       LET u == Diff(image[c], new) IN
       /\ AsSet(image[c]) # AsSet(new)
       /\ uplink' = [uplink EXCEPT ![c] = Append(@, u)]
       /\ image' = [image EXCEPT ![c] = new]
       /\ due' = [due EXCEPT ![c] =
                    {e \in @ : e.path \notin FilePaths(AddsOf(u)) \cup FilePaths(DelsOf(u))}]
  /\ UNCHANGED <<disk, downlink, master, editors, fallen>>

(* updateNetwork, and filesystemUpdateBroadcast. *)
TrackerMerges(c) ==
  /\ "tracker" \notin fallen /\ uplink[c] # <<>>
  /\ uplink' = [uplink EXCEPT ![c] = Tail(@)]
  /\ LET u == Head(uplink[c])
         rest == MinusTree(master, DelsOf(u))
     IN  IF PlusAsserts(rest, AddsOf(u))
           THEN /\ master' = PlusTree(rest, AddsOf(u))
                /\ downlink' = [d \in Machines |->
                     IF d = c THEN downlink[d]
                     ELSE Append(downlink[d], [u EXCEPT !.buf =
                            TreeSerialized(AddsOf(u)) \o TreeSerialized(DelsOf(u))])]
                /\ UNCHANGED fallen
           ELSE /\ fallen' = fallen \cup {"tracker"}
                /\ UNCHANGED <<master, downlink>>
  /\ UNCHANGED <<disk, image, due, editors>>

(* remove and mkdir. *)
Unlinked(d, e) == IF \E q \in Below(e.path) : q \in DOMAIN d THEN d ELSE Minus(d, {e.path})
Made(d, e) ==
  IF e.ver = 0 /\ IsDir(d, Front(e.path)) /\ e.path \notin DOMAIN d
    THEN Merged(d, At(e.path, 0)) ELSE d

(* RemoveFileDeletions and GetFileAdditions.  Mutant: the files last.      *)
RemovedFolderFirst(d, dels) == FoldLeft(Unlinked, d, FolderFirst(dels, <<>>))
RemovedFrom(d, dels) == FoldLeft(Unlinked, d, FileFirst(dels, <<>>))
MadeIn(d, adds) == FoldLeft(Made, d, FolderFirst(adds, <<>>))

(* filetable_remove_filesystem, then filetable_add_filesystem.  Mutant:    *)
(* the first of them is left out.                                          *)
DueAdded(q, adds, dels) == {e \in q : e.path \notin FilePaths(adds)} \cup FilesIn(adds)
DueAfter(q, adds, dels) ==
  {e \in q : e.path \notin FilePaths(adds) \cup FilePaths(dels)} \cup FilesIn(adds)

(* recv_diff *)
ClientMerges(c) ==
  /\ Runs(c) /\ downlink[c] # <<>>
  /\ downlink' = [downlink EXCEPT ![c] = Tail(@)]
  /\ LET u == Head(downlink[c])
         left == RemovedFrom(disk[c], DelsOf(u))
         now == MadeIn(left, AddsOf(u))
     IN  \E seen \in Scans(left), new \in Scans(now) :
           IF PlusAsserts(MinusTree(seen, DelsOf(u)), AddsOf(u))
             THEN /\ disk' = [disk EXCEPT ![c] = now]
                  /\ image' = [image EXCEPT ![c] = new]
                  /\ due' = [due EXCEPT ![c] = DueAfter(@, AddsOf(u), DelsOf(u))]
                  /\ UNCHANGED fallen
             ELSE /\ disk' = [disk EXCEPT ![c] = left]
                  /\ fallen' = fallen \cup {c}
                  /\ UNCHANGED <<image, due>>
  /\ UNCHANGED <<uplink, master, editors>>

(* The last chunk of a file comes in: chunkyfile_write does not look       *)
(* whether fopen opened anything.                                          *)
Completes(c, e) ==
  /\ Runs(c) /\ e \in due[c]
  /\ due' = [due EXCEPT ![c] = @ \ {e}]
  /\ IF IsDir(disk[c], Front(e.path)) /\ ~IsDir(disk[c], e.path)
       THEN /\ disk' = [disk EXCEPT ![c] = Merged(@, At(e.path, e.ver))]
            /\ \E new \in Scans(disk'[c]) : image' = [image EXCEPT ![c] = new]
            /\ UNCHANGED fallen
       ELSE /\ fallen' = fallen \cup {c}
            /\ UNCHANGED <<disk, image>>
  /\ UNCHANGED <<uplink, downlink, master, editors>>

TreeNext ==
  \E c \in Machines :
    \/ \E p \in TreePaths : Writes(c, p) \/ MakesDir(c, p) \/ Deletes(c, p)
    \/ Reports(c) \/ TrackerMerges(c) \/ ClientMerges(c)
    \/ \E e \in due[c] : Completes(c, e)

TreeSpec == TreeInit /\ [][TreeNext]_treeVars

(***************************************************************************)
(* Properties                                                              *)
(***************************************************************************)

(* Every tree has a folder for each File struct of a folder, and           *)
(* conversely, and no entry twice: what the asserts of folder_add take for *)
(* granted of the tree that is added to.                                   *)
RECURSIVE WellFormed(_)
WellFormed(f) ==
  LET dirs == SelectSeq(f.files, IsFolder) IN
  /\ IsInjective(f.files)
  /\ Len(f.folders) = Len(dirs)
  /\ \A k \in DOMAIN dirs : HasFolder(f, dirs[k].name)
  /\ \A k \in DOMAIN f.folders : WellFormed(f.folders[k])
TreesWellFormed == WellFormed(master) /\ \A c \in Machines : WellFormed(image[c])

(* The tracker's tree changes as module FileSystem says of its entries,    *)
(* and its asserts fail just when PlusDefined is false: from scan to diff, *)
(* bytes, and the tree at the other end nothing else matters of a tree.    *)
ImagesAreSets ==
  [][\A c \in Machines : Len(uplink'[c]) < Len(uplink[c]) =>
       LET u == Head(uplink[c])
           left == Sets!MinusEquals(AsSet(master), u.dels)
       IN  IF Sets!PlusDefined(left, u.adds)
             THEN AsSet(master') = Sets!PlusEquals(left, u.adds)
             ELSE "tracker" \in fallen']_treeVars

(* Where one user edits, and everything is reported, merged and            *)
(* downloaded, both directories are the same, folders and all.             *)
Quiescent ==
  \A c \in Machines :
    /\ uplink[c] = <<>> /\ downlink[c] = <<>> /\ due[c] = {}
    /\ AsSet(image[c]) = AsSet(Scanned(disk[c], CHOOSE o \in Orders : TRUE, <<>>, ""))
OneEditor == Cardinality(ToSet(editors)) <= 1
MirrorsEditor == OneEditor /\ Quiescent => \A c, d \in Machines : disk[c] = disk[d]

(* Nobody fails an assert, or writes to a file that could not be opened,   *)
(* but where two users edited at once.                                     *)
FallsTakeTwo == OneEditor => fallen = {}
=============================================================================
