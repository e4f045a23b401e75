------------------------------- MODULE FileTable -------------------------------
(***************************************************************************)
(* The file table (utility/FileTable/FileTable.c): for every file path, the *)
(* peers known to hold each of its chunks.  A table is a function from the *)
(* paths it has an entry for to the entry's `chunks' queue, itself a       *)
(* function from chunk numbers 0..n-1 to the set of owners (the owner      *)
(* queue has no duplicates, and its order is only used to draw one).       *)
(* The hash table underneath is abstracted to the function.                *)
(***************************************************************************)
EXTENDS FileSystem

CONSTANTS
  Peers,       \* ids a peer can have
  ChunksOf     \* ChunksOf[v]: num_chunks_for_size of the content v

ASSUME FileTableAssumption ==
  ChunksOf \in [Versions -> Nat]

NumChunks(e) == ChunksOf[e.ver]

ChunkTables ==
  UNION {[0 .. (n - 1) -> SUBSET Peers] : n \in {ChunksOf[v] : v \in Versions}}

FileTables == UNION {[P -> ChunkTables] : P \in SUBSET Files}

EmptyTable == [p \in {} |-> <<>>]

(* filetable_add_filesystem(ft, adds, peer, ..): an entry that was there   *)
(* is destroyed; peer is the only owner of every chunk of the new one.     *)
AddFileSystem(ft, adds, peer) ==
  [p \in DOMAIN ft \cup PathsOf(FilesOf(adds)) |->
     IF p \in PathsOf(FilesOf(adds))
       THEN LET e == CHOOSE e \in FilesOf(adds) : e.path = p
            IN  [c \in 0 .. (NumChunks(e) - 1) |-> {peer}]
       ELSE ft[p]]

(* filetable_remove_filesystem and filetable_remove_file: by path alone.   *)
RemovePaths(ft, P) == [p \in DOMAIN ft \ P |-> ft[p]]
RemovedFromFsOnly(ft, dels) == ft   \* mutant: the file table is forgotten
RemoveFileSystem(ft, dels) == RemovePaths(ft, PathsOf(FilesOf(dels)))

(* filetable_set_that_peer_has_file_chunk, when the chunk exists. *)
SetOwner(ft, p, chunk, peer) ==
  [ft EXCEPT ![p][chunk] = @ \cup {peer}]

HasChunk(ft, p, chunk) == p \in DOMAIN ft /\ chunk \in DOMAIN ft[p]

(* The `>=' of filetable_get_peers_who_have_file_chunk lets one chunk      *)
(* number past the end through to queue_get.                               *)
OnePastEnd(ft, p, chunk) ==
  /\ p \in DOMAIN ft
  /\ chunk \notin DOMAIN ft[p]
  /\ chunk = 0 \/ chunk - 1 \in DOMAIN ft[p]

(* filetable_remove_peer.  Mutant: the loop over the chunks starts at 1. *)
RemovePeerFromRest(ft, peer) ==
  [p \in DOMAIN ft |-> [c \in DOMAIN ft[p] |-> IF c = 0 THEN ft[p][c] ELSE ft[p][c] \ {peer}]]
RemovePeer(ft, peer) ==
  [p \in DOMAIN ft |-> [c \in DOMAIN ft[p] |-> ft[p][c] \ {peer}]]

(* The files prune_filesystem collects: some chunk has no owner left.      *)
(* Mutant: only the first chunk is looked at.                              *)
FirstChunkOwnerless(ft) == {p \in DOMAIN ft : 0 \in DOMAIN ft[p] /\ ft[p][0] = {}}
Ownerless(ft) == {p \in DOMAIN ft : \E c \in DOMAIN ft[p] : ft[p][c] = {}}

Owners(ft) == UNION {UNION {ft[p][c] : c \in DOMAIN ft[p]} : p \in DOMAIN ft}
=============================================================================
