------------------------------ MODULE FolderTree ------------------------------
(***************************************************************************)
(* utility/FileSystem/FileSystem.c, on the trees it is written for: a      *)
(* folder has a queue of File structs and a queue of sub-folders, and a    *)
(* sub-folder also has a File struct in its parent's queue.  Module        *)
(* FileSystem is what these operations do to the set of entries; module    *)
(* TreeSync checks that it is.                                             *)
(*                                                                         *)
(* A File is a name and a version, which stands for size and time of last  *)
(* change; version 0 is a folder's.  A path is a sequence of names.        *)
(***************************************************************************)
EXTENDS Naturals, Sequences, SequencesExt

NewFolder(name) == [name |-> name, files |-> <<>>, folders |-> <<>>]
File(name, ver) == [name |-> name, ver |-> ver]
IsFolder(file) == file.ver = 0
Hollow(f) == f.files = <<>> /\ f.folders = <<>>

(* queue_search on a queue of folders; 0 if there is none of that name.    *)
Index(folders, name) == SelectInSeq(folders, LAMBDA g : g.name = name)
HasFolder(f, name) == Index(f.folders, name) # 0

(* folder_new, for a directory read in order `order': dir maps the paths   *)
(* that exist to versions.                                                 *)
RECURSIVE Scanned(_, _, _, _)
Scanned(dir, order, path, name) ==
  LET there == SelectSeq(order, LAMBDA n : Append(path, n) \in DOMAIN dir)
      subs == SelectSeq(there, LAMBDA n : dir[Append(path, n)] = 0)
  IN  [name |-> name,
       files |-> [k \in DOMAIN there |-> File(there[k], dir[Append(path, there[k])])],
       folders |-> [k \in DOMAIN subs |-> Scanned(dir, order, Append(path, subs[k]), subs[k])]]

(* folder_subtract with file_equals: a folder goes when nothing is left in *)
(* it.  Mutant: it stays.                                                  *)
NeverHollow(f) == FALSE
Spent(f) == Hollow(f)

RECURSIVE Subtracted(_, _)
Subtracted(f, s) ==
  LET WithoutFolder(folders, g) ==
        LET k == Index(folders, g.name) IN
        IF k = 0 THEN folders
        ELSE LET left == Subtracted(folders[k], g) IN
             IF Spent(left) THEN RemoveAt(folders, k) ELSE [folders EXCEPT ![k] = left]
  IN  [f EXCEPT !.files = FoldLeft(RemoveFirst, @, s.files),
                !.folders = FoldLeft(WithoutFolder, @, s.folders)]

(* filesystem_diff *)
TreeAdditions(old, new) == Subtracted(new, old)
TreeDeletions(old, new) == Subtracted(old, new)

(* folder_remove: with the File struct of a folder goes the folder.        *)
(* Mutant: it does not.                                                    *)
FolderKept(f, e) == [f EXCEPT !.files = RemoveFirst(@, e)]
EntryRemoved(f, e) ==
  IF ~Contains(f.files, e) THEN f
  ELSE [f EXCEPT !.files = RemoveFirst(@, e),
                 !.folders = IF IsFolder(e) /\ HasFolder(f, e.name)
                               THEN RemoveAt(@, Index(@, e.name)) ELSE @]

RECURSIVE MinusTree(_, _)
MinusTree(f, s) ==
  LET WithoutFolder(folders, g) ==
        LET k == Index(folders, g.name) IN
        IF k = 0 THEN folders ELSE [folders EXCEPT ![k] = MinusTree(@, g)]
      rest == FoldLeft(EntryRemoved, f, s.files)
  IN  [rest EXCEPT !.folders = FoldLeft(WithoutFolder, @, s.folders)]

(* folder_add, and whether all its asserts hold.                           *)
EntryAdded(f, e) ==
  IF Contains(f.files, e) THEN f
  ELSE [f EXCEPT !.files = Append(@, e),
                 !.folders = IF IsFolder(e) THEN Append(@, NewFolder(e.name)) ELSE @]

RECURSIVE PlusTree(_, _)
PlusTree(f, a) ==
  LET WithFolder(folders, g) == [folders EXCEPT ![Index(folders, g.name)] = PlusTree(@, g)]
      more == FoldLeft(EntryAdded, f, a.files)
  IN  [more EXCEPT !.folders = FoldLeft(WithFolder, @, a.folders)]

RECURSIVE PlusAsserts(_, _)
PlusAsserts(f, a) ==
  LET more == FoldLeft(EntryAdded, f, a.files)
      dirs == {e \in ToSet(a.files) : IsFolder(e)}
  IN  /\ \A e \in dirs : HasFolder(a, e.name) /\ (Contains(f.files, e) <=> HasFolder(f, e.name))
      /\ \A g \in ToSet(a.folders) :
           /\ HasFolder(more, g.name)
           /\ PlusAsserts(more.folders[Index(more.folders, g.name)], g)

(* filesystem_serialize, a token for a marker and what follows it, and     *)
(* filesystem_deserialize, which also gives what it has not read.          *)
Token(tag, name, ver) == [tag |-> tag, name |-> name, ver |-> ver]

RECURSIVE TreeSerialized(_)
TreeSerialized(f) ==
  <<Token("folder", f.name, 0)>>
    \o [k \in DOMAIN f.files |-> Token("file", f.files[k].name, f.files[k].ver)]
    \o FoldLeft(LAMBDA s, g : s \o TreeSerialized(g), <<>>, f.folders)
    \o <<Token("end", f.name, 0)>>

RECURSIVE ReadInto(_, _)
ReadInto(f, s) ==
  LET t == Head(s) IN
  CASE t.tag = "end" -> [folder |-> f, rest |-> Tail(s)]
    [] t.tag = "file" -> ReadInto([f EXCEPT !.files = Append(@, File(t.name, t.ver))], Tail(s))
    [] t.tag = "folder" ->
         LET sub == ReadInto(NewFolder(t.name), Tail(s))
         IN  ReadInto([f EXCEPT !.folders = Append(@, sub.folder)], sub.rest)
TreeDeserialized(s) == ReadInto(NewFolder(Head(s).name), Tail(s))

(* The two orders of an iterator: the folders of a folder before or after  *)
(* all that is in them.                                                    *)
Listed(f, path, sort) ==
  LET sorted == SelectSeq(f.files, LAMBDA e : IsFolder(e) = (sort = "folder"))
  IN  [k \in DOMAIN sorted |-> [path |-> Append(path, sorted[k].name), ver |-> sorted[k].ver]]

RECURSIVE FolderFirst(_, _), FileFirst(_, _)
FolderFirst(f, path) ==
  Listed(f, path, "folder")
    \o FoldLeft(LAMBDA s, g : s \o FolderFirst(g, Append(path, g.name)), <<>>, f.folders)
    \o Listed(f, path, "file")
FileFirst(f, path) ==
  Listed(f, path, "file")
    \o FoldLeft(LAMBDA s, g : s \o FileFirst(g, Append(path, g.name)), <<>>, f.folders)
    \o Listed(f, path, "folder")

EntriesOf(f) == ToSet(FolderFirst(f, <<>>))
=============================================================================
