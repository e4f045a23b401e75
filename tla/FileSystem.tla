------------------------------ MODULE FileSystem ------------------------------
(***************************************************************************)
(* The directory image that tracker and clients exchange                   *)
(* (utility/FileSystem/FileSystem.c), as a set of entries.                 *)
(*                                                                         *)
(* The C structure is a tree of folders, each with a queue of File structs *)
(* and a queue of sub-folders; a sub-folder also has a File struct, whose  *)
(* size and mtime are always 0 (folder_new).  Here an entry is a path with *)
(* a version: for a regular file the version stands for the pair           *)
(* <<size, mtime>> that file_equals compares, for a directory it is 0.     *)
(* Inside relates a path to every directory above it, so the tree shape is *)
(* kept while names are opaque.                                            *)
(***************************************************************************)
EXTENDS Naturals

CONSTANTS
  Paths,       \* every path of the shared directory
  Dirs,        \* those that are directories
  Inside,      \* <<p, d>>: path p lies below directory d (transitively)
  MaxVersion   \* bound: the number of edits users make in a behaviour

ASSUME FileSystemAssumption ==
  /\ Dirs \subseteq Paths
  /\ Inside \subseteq Paths \X Dirs
  /\ \A p \in Paths : <<p, p>> \notin Inside
  /\ \A p \in Paths, c, d \in Dirs :
       <<p, c>> \in Inside /\ <<c, d>> \in Inside => <<p, d>> \in Inside
  /\ MaxVersion \in Nat

Files == Paths \ Dirs
Versions == 1 .. MaxVersion

(* What _File holds, up to file_equals. *)
Entries == [path : Files, ver : Versions] \cup [path : Dirs, ver : {0}]

PathsOf(F) == {e.path : e \in F}
FilesOf(F) == {e \in F : e.path \in Files}
Above(p) == {d \in Dirs : <<p, d>> \in Inside}

-----------------------------------------------------------------------------
(* filesystem_diff: what new has and old has not, and conversely.  The     *)
(* folder structs the two results keep are the parents of the entries.     *)
Additions(old, new) == new \ old
Deletions(old, new) == old \ new

(* filesystem_minus_equals: an entry leaves when an equal one is deleted,  *)
(* and a deleted directory takes its whole subtree along, whatever the     *)
(* deletions say of it (folder_destroy).                                   *)
MinusEquals(F, dels) ==
  {e \in F : e \notin dels /\ \A d \in F \cap dels : <<e.path, d.path>> \notin Inside}

(* filesystem_plus_equals: equal entries are not doubled; a file of the    *)
(* same name and another version is kept beside the old one.               *)
PlusEquals(F, adds) == F \cup adds

(* assert(found) of folder_add: the folder an addition lies in is there.   *)
PlusDefined(F, adds) ==
  \A e \in adds : Above(e.path) \subseteq PathsOf(F \cup adds)

(* filesystem_remove_file_at_path for every path of P: one entry of each   *)
(* name goes.  queue_remove takes the first of that name; which of two     *)
(* versions is the first is left open.                                     *)
RemoveDefined(F, P) == P \subseteq PathsOf(F)
RemovedAtPaths(F, P) ==
  LET Named(p) == {e \in F : e.path = p}
  IN  {F \ R : R \in {R \in SUBSET UNION {Named(p) : p \in P} :
                        \A p \in P : \E e \in R : R \cap Named(p) = {e}}}
=============================================================================
