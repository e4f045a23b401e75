----------------------------- MODULE FileTableStore -----------------------------
(***************************************************************************)
(* utility/FileTable/FileTable.c as it is written: entries in a hash table *)
(* that keeps whatever is added to it, a queue of chunks in each entry, a  *)
(* queue of peers for each chunk, and the bytes a table is sent as.        *)
(* Module FileTable is what these calls do to a function from paths to     *)
(* chunks to sets of peers, and what the other modules use.                *)
(***************************************************************************)
EXTENDS HashTable, FiniteSets

CONSTANTS
  ChunkCounts,   \* ChunkCounts[v]: chunks of version v of a file
  PeerIds,
  MaxEntries     \* bound: entries of a table, or of an image

ASSUME FileTableStoreAssumption ==
  ChunkCounts \in Seq(Nat) /\ MaxEntries \in Nat

VARIABLES
  store       \* the hash table of a file table

StoredPaths == DOMAIN Hash

(* The images given to the calls: an entry is a path and a version, 0 for  *)
(* a folder, for which the iterator gives length -1.                       *)
Images ==
  UNION {[P -> 0 .. Len(ChunkCounts)] :
           P \in {P \in SUBSET StoredPaths : Cardinality(P) <= MaxEntries}}
Iterations(image) ==
  {s \in [1 .. Cardinality(DOMAIN image) -> DOMAIN image] : ToSet(s) = DOMAIN image}
IsFile(image, p) == image[p] # 0

-----------------------------------------------------------------------------
(* filetable_add_filesystem, for one file.  Mutant: what there was of it   *)
(* is kept.                                                                *)
NewEntry(p, ver, peer) == [path |-> p, chunks |-> [i \in 1 .. ChunkCounts[ver] |-> <<peer>>]]
AddedBeside(t, e) == AddElement(t, e)
AddedInstead(t, e) == AddElement(RemoveElement(t, e.path), e)

AddsImage(t, image, order, peer) ==
  FoldLeft(LAMBDA u, p : AddedInstead(u, NewEntry(p, image[p], peer)), t,
           SelectSeq(order, LAMBDA p : IsFile(image, p)))

RemovesImage(t, image, order) ==
  FoldLeft(RemoveElement, t, SelectSeq(order, LAMBDA p : IsFile(image, p)))

(* filetable_set_that_peer_has_file_chunk, of a chunk there is. *)
SetsOwner(t, p, i, peer) ==
  [t EXCEPT ![SlotOfPath(p)][PlaceIn(t, p)].chunks[i + 1] =
     IF Contains(@, peer) THEN @ ELSE Append(@, peer)]

(* filetable_remove_peer *)
Forgets(e, peer) ==
  [e EXCEPT !.chunks = [i \in DOMAIN @ |-> SelectSeq(@[i], LAMBDA x : x # peer)]]
RemovesPeerFrom(t, peer) ==
  [b \in HashSlots |->
     [k \in DOMAIN t[b] |->
        IF Contains(Visited(t), t[b][k]) THEN Forgets(t[b][k], peer) ELSE t[b][k]]]

(* filetable_serialize: markers, each with what follows it.                *)
Mark(tag, x) == [tag |-> tag, x |-> x]
ChunkBytes(chunk) ==
  <<Mark("start_chunk", 0)>> \o [j \in DOMAIN chunk |-> Mark("id", chunk[j])]
    \o <<Mark("end_chunk", 0)>>
EntryBytes(e) ==
  <<Mark("start_entry", e.path)>>
    \o FoldLeft(LAMBDA s, chunk : s \o ChunkBytes(chunk), <<>>, e.chunks)
    \o <<Mark("end_entry", 0)>>
TableBytes(t) == FoldLeft(LAMBDA s, e : s \o EntryBytes(e), <<>>, Visited(t))

(* filetable_deserialize: what each marker does to the table, the entry    *)
(* and the chunk that are being read.                                      *)
ReadMark(at, m) ==
  CASE m.tag = "start_entry" -> [at EXCEPT !.entry = [path |-> m.x, chunks |-> <<>>]]
    [] m.tag = "start_chunk" -> [at EXCEPT !.chunk = <<>>]
    [] m.tag = "id" -> [at EXCEPT !.chunk = Append(@, m.x)]
    [] m.tag = "end_chunk" -> [at EXCEPT !.entry.chunks = Append(@, at.chunk)]
    [] m.tag = "end_entry" -> [at EXCEPT !.table = AddElement(@, at.entry)]
TableRead(bytes) ==
  FoldLeft(ReadMark,
           [table |-> NewHashTable, entry |-> [path |-> 0, chunks |-> <<>>], chunk |-> <<>>],
           bytes).table

-----------------------------------------------------------------------------
StoreInit == store = NewHashTable

Adds(image, order, peer) == store' = AddsImage(store, image, order, peer)
RemovesAll(image, order) == store' = RemovesImage(store, image, order)
RemovesFile(p) == store' = RemoveElement(store, p)
GetsOwner(p, i, peer) ==
  /\ HasElement(store, p) /\ i < Len(GetElement(store, p).chunks)
  /\ store' = SetsOwner(store, p, i, peer)
RemovesPeer(peer) == store' = RemovesPeerFrom(store, peer)
Travels == store' = TableRead(TableBytes(store))

ChunkNumbers == 0 .. Len(ChunkCounts)

StoreNext ==
  /\ \/ \E image \in Images : \E order \in Iterations(image) :
          RemovesAll(image, order) \/ \E peer \in PeerIds : Adds(image, order, peer)
     \/ \E p \in StoredPaths :
          RemovesFile(p) \/ \E i \in ChunkNumbers, peer \in PeerIds : GetsOwner(p, i, peer)
     \/ \E peer \in PeerIds : RemovesPeer(peer)
     \/ Travels
  /\ Len(Visited(store')) <= MaxEntries

StoreSpec == StoreInit /\ [][StoreNext]_store

(***************************************************************************)
(* Properties                                                              *)
(***************************************************************************)

(* A file has one entry, where its hash says, though hashtable_add never   *)
(* looks; a chunk has each owner once, on which the random choice of one   *)
(* and the removal of a peer rely.                                         *)
OneEntryEach ==
  /\ \A b \in HashSlots : \A k \in DOMAIN store[b] :
       LET e == store[b][k] IN
       /\ SlotOfPath(e.path) = b /\ PlaceIn(store, e.path) = k
       /\ \A i \in DOMAIN e.chunks : IsInjective(e.chunks[i])

(* A table as module FileTable has it. *)
Table == INSTANCE FileTable WITH
  Paths <- StoredPaths, Dirs <- {}, Inside <- {}, MaxVersion <- Len(ChunkCounts),
  Peers <- PeerIds, ChunksOf <- ChunkCounts
Owned(chunks) == [i \in 0 .. (Len(chunks) - 1) |-> ToSet(chunks[i + 1])]
View(t) ==
  [p \in {p \in StoredPaths : HasElement(t, p)} |-> Owned(GetElement(t, p).chunks)]
FileEntries(image) == {[path |-> p, ver |-> image[p]] : p \in {p \in DOMAIN image : IsFile(image, p)}}

(* In whatever state the table is, each call does to it what module        *)
(* FileTable says, in whatever order an image is walked and whatever       *)
(* hashes collide; a table that was sent is the table there was.           *)
StoreIsTable ==
  LET now == View(store) IN
  /\ \A image \in Images : \A order \in Iterations(image) :
       /\ \A peer \in PeerIds :
            View(AddsImage(store, image, order, peer))
              = Table!AddFileSystem(now, FileEntries(image), peer)
       /\ View(RemovesImage(store, image, order))
            = Table!RemoveFileSystem(now, FileEntries(image))
  /\ \A p \in StoredPaths :
       /\ View(RemoveElement(store, p)) = Table!RemovePaths(now, {p})
       /\ HasElement(store, p) =>
            \A i \in 0 .. (Len(GetElement(store, p).chunks) - 1), peer \in PeerIds :
              View(SetsOwner(store, p, i, peer)) = Table!SetOwner(now, p, i, peer)
  /\ \A peer \in PeerIds : View(RemovesPeerFrom(store, peer)) = Table!RemovePeer(now, peer)
  /\ View(TableRead(TableBytes(store))) = now
=============================================================================
