----------------------------- MODULE ChunkTransfer -----------------------------
(***************************************************************************)
(* utility/ChunkyFile/ChunkyFile.c: one file cut into chunks by the client *)
(* that has it and put together by one that fetches it, byte by byte and   *)
(* with the arithmetic of C.  Module Client has the queues between the two *)
(* and takes chunks as whole values.                                       *)
(*                                                                         *)
(* A byte is <<ver, k>>: the k-th of what the file held first (ver 1) or   *)
(* after it was rewritten (ver 2).                                         *)
(***************************************************************************)
EXTENDS Integers

CONSTANTS
  CHUNK,     \* CHUNKYFILE_CHUNK_SIZE
  MaxInt,    \* INT_MAX
  MaxSize    \* bound: bytes of a file

ASSUME ChunkTransferAssumption ==
  CHUNK \in Nat \ {0} /\ MaxInt \in Nat /\ MaxSize \in Nat

VARIABLES
  file,     \* what is on the source's disk: version and size (st_size)
  reader,   \* the source's ChunkyFile once it is open, else NoReader
  announced, \* the length the image has, NotOpen before the scan
  copy,     \* at the replica: bytes of its ChunkyFile, by place
  written,  \* chunks_written
  replica,  \* "nothing", "directory", "open" or "saved"
  strayed   \* bytes were read or written outside of an array

chunkVars == <<file, reader, announced, copy, written, replica, strayed>>

(* int, and the quotient and remainder of C, which round towards 0.        *)
AsInt(n) ==
  LET low == n % (2 * MaxInt + 2) IN IF low > MaxInt THEN low - (2 * MaxInt + 2) ELSE low
Quot(a, b) == IF a >= 0 THEN a \div b ELSE -((-a) \div b)
Rem(a, b) == a - b * Quot(a, b)

num_chunks_for_size(size) ==
  Quot(size, CHUNK) + IF Rem(size, CHUNK) = 0 THEN 0 ELSE 1

(* chunkSize of chunkyfile_get_chunk.  Mutant: the last is not told apart. *)
AlwaysFull(size, i) == CHUNK
ChunkLength(size, i) ==
  IF i = num_chunks_for_size(size) - 1 THEN Rem(size, CHUNK) ELSE CHUNK

NotOpen == -(MaxInt + 2)         \* no value of an int
NoReader == [ver |-> 0, size |-> NotOpen]
Filler == <<0, 0>>              \* DEADBEEF
Stray == <<-1, 0>>              \* beyond an array, or unset in it
Bytes(f) == [k \in 0 .. (f.size - 1) |-> <<f.ver, k>>]

-----------------------------------------------------------------------------
ChunkInit ==
  /\ file \in [ver : {1}, size : 0 .. MaxSize]
  /\ reader = NoReader /\ announced = NotOpen
  /\ copy = [k \in {} |-> Filler] /\ written = {}
  /\ replica = "nothing" /\ strayed = FALSE

(* folder_new gives the image an int; GetFileAdditions, at the replica,    *)
(* makes a directory of length -1 and saves at once what has no chunks.    *)
(* filetable_add_filesystem leaves out what is negative, so that nothing   *)
(* of it is ever asked for.                                                *)
Announces ==
  /\ announced = NotOpen
  /\ announced' = AsInt(file.size)
  /\ copy' = [k \in 0 .. (announced' - 1) |-> Filler]
  /\ replica' = IF announced' = -1 THEN "directory"
                ELSE IF num_chunks_for_size(announced') < 1 THEN "saved"
                ELSE IF announced' < 0 THEN "nothing"
                ELSE "open"
  /\ UNCHANGED <<file, reader, written, strayed>>

(* The user rewrites the file, which is noticed at the next scan.          *)
Rewrites(n) ==
  /\ announced # NotOpen /\ file.ver = 1
  /\ file' = [ver |-> 2, size |-> n]
  /\ UNCHANGED <<reader, announced, copy, written, replica, strayed>>

(* chunkyfile_new_for_reading_from_path, kept in the file table from the   *)
(* first request to the next diff of the file.                             *)
Opened == IF reader = NoReader THEN [ver |-> file.ver, size |-> AsInt(file.size)] ELSE reader

(* chunkyfile_get_chunk and send_chunk: nothing checks that there is such  *)
(* a chunk.                                                                *)
Place(i, k) == i * CHUNK + k
ReadChunk(f, i) ==
  [k \in 0 .. (ChunkLength(f.size, i) - 1) |->
     IF Place(i, k) \in 0 .. (f.size - 1) THEN <<f.ver, Place(i, k)>> ELSE Stray]
ReadsOutside(f, i) ==
  \/ ChunkLength(f.size, i) < 0
  \/ \E k \in DOMAIN ReadChunk(f, i) : ReadChunk(f, i)[k] = Stray

(* chunkyfile_set_chunk: a length that is not right is reported on the     *)
(* terminal, and taken.  Mutant: the chunk is put where its number says.   *)
PlacedByNumber(data, i, chunk) ==
  [p \in DOMAIN data |-> IF p - i \in DOMAIN chunk THEN chunk[p - i] ELSE data[p]]
Placed(data, i, chunk) ==
  [p \in DOMAIN data |->
     IF p - i * CHUNK \in DOMAIN chunk THEN chunk[p - i * CHUNK] ELSE data[p]]
WritesOutside(i, chunk) == \E k \in DOMAIN chunk : Place(i, k) \notin DOMAIN copy

(* A chunk is asked for, read, sent and set; the last one saves the file.  *)
(* The requests are shuffled.                                              *)
Fetches(i) ==
  /\ replica = "open" /\ i \notin written
  /\ i < num_chunks_for_size(announced)
  /\ reader' = Opened
  /\ LET chunk == ReadChunk(Opened, i) IN
       /\ strayed' = (strayed \/ ReadsOutside(Opened, i) \/ WritesOutside(i, chunk))
       /\ copy' = Placed(copy, i, chunk)
  /\ written' = written \cup {i}
  /\ replica' = IF 0 .. (num_chunks_for_size(announced) - 1) \subseteq written'
                  THEN "saved" ELSE "open"
  /\ UNCHANGED <<file, announced>>

ChunkNext ==
  \/ Announces
  \/ \E n \in 0 .. MaxSize : Rewrites(n)
  \/ \E i \in 0 .. MaxSize : Fetches(i)

ChunkSpec == ChunkInit /\ [][ChunkNext]_chunkVars

(***************************************************************************)
(* Properties                                                              *)
(***************************************************************************)
Untouched == file.ver = 1
FitsInt == file.size <= MaxInt

(* A file shorter than an int can say, not rewritten meanwhile, arrives in *)
(* whatever order its chunks come, but for the last chunk of one whose     *)
(* size is a multiple of CHUNK: its length is taken for 0, and the replica *)
(* is left with filler.                                                    *)
ArrivesButLastChunk ==
  Untouched /\ FitsInt /\ replica = "saved" =>
    copy = [k \in 0 .. (file.size - 1) |->
              IF file.size % CHUNK = 0 /\ k >= file.size - CHUNK THEN Filler ELSE <<1, k>>]

(* Nothing is read beyond the source's array, or written beyond the        *)
(* replica's, but where the file was rewritten between scan and request.   *)
StraysTakeRewrite == strayed => ~Untouched

(* README.md: "it's shared directory should be identical to the shared     *)
(* directories of all the other clients."                                  *)
ArrivesWhole ==
  Untouched /\ FitsInt /\ replica = "saved" => copy = Bytes(file)
=============================================================================
