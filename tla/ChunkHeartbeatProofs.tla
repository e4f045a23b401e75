------------------------ MODULE ChunkHeartbeatProofs -------------------------
(***************************************************************************)
(* Theorems about the two protocols that keep no peer table: the chunks a  *)
(* file is sent in, and the heartbeats of the clients.                     *)
(***************************************************************************)
EXTENDS ChunkTransfer, Heartbeat, TLAPS

-----------------------------------------------------------------------------
(***************************************************************************)
(* What becomes of a file that is sent in chunks, for every chunk size,    *)
(* every width of an int and every size of the file.                       *)
(***************************************************************************)

(* Arithmetic.  For a length that is not negative the quotient and the     *)
(* remainder of C are the ones of arithmetic.                              *)
LEMMA DivMod ==
  ASSUME NEW s \in Nat, NEW c \in Nat \ {0}
  PROVE  /\ s \div c \in Nat /\ s % c \in 0 .. (c - 1)
         /\ s = c * (s \div c) + (s % c)
OBVIOUS

LEMMA TimesMonotone ==
  ASSUME NEW a \in Nat, NEW b \in Nat, NEW c \in Nat, a <= b
  PROVE  a * c <= b * c
<1>1. PICK d \in Nat : b = a + d
    <2>1. b - a \in Nat /\ b = a + (b - a)
        OBVIOUS
    <2> QED
        BY <2>1
<1>2. b * c = a * c + d * c
    BY <1>1
<1>3. d * c \in Nat /\ a * c \in Nat
    OBVIOUS
<1> QED
    BY <1>2, <1>3

LEMMA RemIsMod ==
  ASSUME NEW s \in Nat
  PROVE  Quot(s, CHUNK) = s \div CHUNK /\ Rem(s, CHUNK) = s % CHUNK
<1>1. s = CHUNK * (s \div CHUNK) + (s % CHUNK) /\ s \div CHUNK \in Nat /\ s % CHUNK \in Nat
    BY DivMod, ChunkTransferAssumption
<1>2. Quot(s, CHUNK) = s \div CHUNK
    BY DEF Quot
<1>3. CHUNK * (s \div CHUNK) \in Nat
    BY <1>1, ChunkTransferAssumption
<1>4. CHUNK * (s \div CHUNK) = Quot(s, CHUNK) * CHUNK /\ s \in Nat /\ CHUNK \in Nat
    BY <1>1, <1>2, ChunkTransferAssumption
<1> QED
    BY <1>1, <1>2, <1>3, <1>4 DEF Rem

(* The number of chunks, and the length of each. *)
LEMMA ChunksOfSize ==
  ASSUME NEW s \in Nat
  PROVE  /\ num_chunks_for_size(s) = (s \div CHUNK) + IF s % CHUNK = 0 THEN 0 ELSE 1
         /\ num_chunks_for_size(s) \in Nat
         /\ \A i \in Nat : ChunkLength(s, i) \in 0 .. CHUNK
         /\ \A i \in Nat : ChunkLength(s, i) =
              IF i = num_chunks_for_size(s) - 1 THEN s % CHUNK ELSE CHUNK
<1>1. Quot(s, CHUNK) = s \div CHUNK /\ Rem(s, CHUNK) = s % CHUNK
    BY RemIsMod
<1>2. s % CHUNK \in 0 .. (CHUNK - 1) /\ s \div CHUNK \in Nat
    BY DivMod, ChunkTransferAssumption
<1> QED
    BY <1>1, <1>2, ChunkTransferAssumption DEF num_chunks_for_size, ChunkLength

(* Every chunk lies within the file. *)
LEMMA ChunkInside ==
  ASSUME NEW s \in Nat, NEW i \in Nat, i < num_chunks_for_size(s)
  PROVE  i * CHUNK + ChunkLength(s, i) <= s
<1> DEFINE q == s \div CHUNK
           r == s % CHUNK
           n == num_chunks_for_size(s)
<1>1. /\ n = q + IF r = 0 THEN 0 ELSE 1
      /\ ChunkLength(s, i) = IF i = n - 1 THEN r ELSE CHUNK
    BY ChunksOfSize
<1>2. q \in Nat /\ r \in 0 .. (CHUNK - 1) /\ s = CHUNK * q + r
    BY DivMod, ChunkTransferAssumption
<1>3. CHUNK \in Nat \ {0}
    BY ChunkTransferAssumption
<1>4. CHUNK * q = q * CHUNK /\ q * CHUNK \in Nat /\ i * CHUNK \in Nat
    BY <1>2, <1>3
<1> HIDE DEF q, r, n
<1>5. CASE i <= q - 1
    <2>1. (i + 1) * CHUNK <= q * CHUNK
        BY <1>2, <1>3, <1>5, TimesMonotone
    <2>2. (i + 1) * CHUNK = i * CHUNK + CHUNK
        BY <1>3
    <2>3. ChunkLength(s, i) \in Int /\ ChunkLength(s, i) <= CHUNK
        BY ChunksOfSize, <1>3
    <2> QED
        BY <1>2, <1>3, <1>4, <2>1, <2>2, <2>3
<1>6. CASE i = q /\ r # 0
    BY <1>1, <1>2, <1>4, <1>6
<1> QED
    BY <1>1, <1>2, <1>5, <1>6 DEF n

(* A place is in the chunk its quotient says, and in no other.             *)
LEMMA PlaceHasChunk ==
  ASSUME NEW p \in Nat, NEW i \in Nat
  PROVE  /\ p \div CHUNK \in Nat
         /\ p - (p \div CHUNK) * CHUNK \in 0 .. (CHUNK - 1)
         /\ p - i * CHUNK \in 0 .. (CHUNK - 1) => i = p \div CHUNK
<1> DEFINE q == p \div CHUNK
<1>1. CHUNK \in Nat \ {0}
    BY ChunkTransferAssumption
<1>2. q \in Nat /\ p % CHUNK \in 0 .. (CHUNK - 1) /\ p = CHUNK * q + (p % CHUNK)
    BY <1>1, DivMod
<1>3. CHUNK * q = q * CHUNK /\ q * CHUNK \in Nat /\ i * CHUNK \in Nat
    BY <1>1, <1>2
<1> HIDE DEF q
<1>4. ASSUME i < q, p - i * CHUNK \in 0 .. (CHUNK - 1) PROVE FALSE
    <2>1. (i + 1) * CHUNK <= q * CHUNK
        BY <1>1, <1>2, <1>4, TimesMonotone
    <2>2. (i + 1) * CHUNK = i * CHUNK + CHUNK
        BY <1>1
    <2> QED
        BY <1>1, <1>2, <1>3, <1>4, <2>1, <2>2
<1>5. ASSUME q < i, p - i * CHUNK \in 0 .. (CHUNK - 1) PROVE FALSE
    <2>1. (q + 1) * CHUNK <= i * CHUNK
        BY <1>1, <1>2, <1>5, TimesMonotone
    <2>2. (q + 1) * CHUNK = q * CHUNK + CHUNK
        BY <1>1, <1>2
    <2> QED
        BY <1>1, <1>2, <1>3, <1>5, <2>1, <2>2
<1>6. p - q * CHUNK \in 0 .. (CHUNK - 1)
    BY <1>1, <1>2, <1>3
<1> QED
    BY <1>2, <1>4, <1>5, <1>6 DEF q

(* A place within the file is in a chunk there is. *)
LEMMA PlaceInChunks ==
  ASSUME NEW s \in Nat, NEW p \in 0 .. (s - 1)
  PROVE  p \div CHUNK < num_chunks_for_size(s)
<1> DEFINE q == s \div CHUNK
           r == s % CHUNK
           n == num_chunks_for_size(s)
           k == p \div CHUNK
<1>1. CHUNK \in Nat \ {0}
    BY ChunkTransferAssumption
<1>2. n = q + (IF r = 0 THEN 0 ELSE 1)
    BY ChunksOfSize
<1>3. q \in Nat /\ r \in 0 .. (CHUNK - 1) /\ s = CHUNK * q + r
    BY <1>1, DivMod
<1> p \in Nat
    OBVIOUS
<1>4. k \in Nat /\ p % CHUNK \in 0 .. (CHUNK - 1) /\ p = CHUNK * k + (p % CHUNK)
    BY <1>1, DivMod
<1>5. CHUNK * k = k * CHUNK /\ CHUNK * q = q * CHUNK /\ k * CHUNK \in Nat /\ q * CHUNK \in Nat
    BY <1>1, <1>3, <1>4
<1> HIDE DEF q, r, n, k
<1>6. ASSUME k >= n PROVE FALSE
    <2>1. CASE r = 0
        <3>1. q * CHUNK <= k * CHUNK
            BY <1>1, <1>2, <1>3, <1>4, <1>6, <2>1, TimesMonotone
        <3> QED
            BY <1>3, <1>4, <1>5, <2>1, <3>1
    <2>2. CASE r # 0
        <3>1. (q + 1) * CHUNK <= k * CHUNK
            BY <1>1, <1>2, <1>3, <1>4, <1>6, <2>2, TimesMonotone
        <3>2. (q + 1) * CHUNK = q * CHUNK + CHUNK
            BY <1>1, <1>3
        <3> QED
            BY <1>1, <1>3, <1>4, <1>5, <3>1, <3>2
    <2> QED
        BY <2>1, <2>2
<1> QED
    BY <1>2, <1>3, <1>4, <1>6 DEF n, k

(* The chunk of a place reaches it, but for the last of a file whose size  *)
(* is a multiple of CHUNK.                                                 *)
LEMMA ChunkReaches ==
  ASSUME NEW s \in Nat, NEW p \in 0 .. (s - 1)
  PROVE  p - (p \div CHUNK) * CHUNK < ChunkLength(s, p \div CHUNK)
           <=> ~ (s % CHUNK = 0 /\ p >= s - CHUNK)
<1> DEFINE q == s \div CHUNK
           r == s % CHUNK
           n == num_chunks_for_size(s)
           i == p \div CHUNK
           length == ChunkLength(s, i)
<1>1. CHUNK \in Nat \ {0} /\ p \in Nat /\ p < s
    BY ChunkTransferAssumption
<1>2. i \in Nat /\ p - i * CHUNK \in 0 .. (CHUNK - 1) /\ i * CHUNK \in Nat
    BY <1>1, PlaceHasChunk
<1>3. i < n
    BY PlaceInChunks
<1>4. n = q + (IF r = 0 THEN 0 ELSE 1) /\ length = IF i = n - 1 THEN r ELSE CHUNK
    BY <1>2, ChunksOfSize
<1>5. q \in Nat /\ r \in 0 .. (CHUNK - 1) /\ s = CHUNK * q + r
    BY <1>1, DivMod
<1>6. CHUNK * q = q * CHUNK /\ q * CHUNK \in Nat
    BY <1>1, <1>5
<1> HIDE DEF q, r, n, i, length
<1>7. (i + 1) * CHUNK = i * CHUNK + CHUNK /\ (i + 2) * CHUNK = i * CHUNK + 2 * CHUNK
    BY <1>1, <1>2
<1>8. ASSUME i # n - 1
      PROVE  (p - i * CHUNK < length) <=> ~ (r = 0 /\ p >= s - CHUNK)
    <2>1. r = 0 => (i + 2) * CHUNK <= q * CHUNK
        BY <1>1, <1>2, <1>3, <1>4, <1>5, <1>8, TimesMonotone
    <2> QED
        BY <1>1, <1>2, <1>4, <1>5, <1>6, <1>7, <1>8, <2>1
<1>9. ASSUME i = n - 1 /\ r = 0
      PROVE  (p - i * CHUNK < length) <=> ~ (r = 0 /\ p >= s - CHUNK)
    <2>1. i + 1 = q
        BY <1>2, <1>4, <1>5, <1>9
    <2>2. s = i * CHUNK + CHUNK
        BY <1>1, <1>5, <1>6, <1>7, <1>9, <2>1
    <2> QED
        BY <1>1, <1>2, <1>4, <1>9, <2>2
<1>10. ASSUME i = n - 1 /\ r # 0
      PROVE  (p - i * CHUNK < length) <=> ~ (r = 0 /\ p >= s - CHUNK)
    <2>1. i = q
        BY <1>2, <1>4, <1>5, <1>10
    <2>2. s = i * CHUNK + r
        BY <1>5, <1>6, <2>1
    <2> QED
        BY <1>1, <1>2, <1>4, <1>5, <1>10, <2>2
<1>11. (p - i * CHUNK < length) <=> ~ (r = 0 /\ p >= s - CHUNK)
    BY <1>8, <1>9, <1>10
<1> QED
    BY <1>11 DEF length, i, r

(* Only what is empty has no chunk. *)
LEMMA SomethingHasChunks ==
  ASSUME NEW s \in Nat
  PROVE  s > 0 <=> num_chunks_for_size(s) >= 1
<1>1. CHUNK \in Nat \ {0}
    BY ChunkTransferAssumption
<1>2. 0 \div CHUNK = 0 /\ 0 % CHUNK = 0
    BY <1>1
<1>3. num_chunks_for_size(0) = 0
    BY <1>2, ChunksOfSize
<1>4. num_chunks_for_size(s) \in Nat
    BY ChunksOfSize
<1>5. ASSUME s > 0 PROVE num_chunks_for_size(s) >= 1
    <2>1. 0 \in 0 .. (s - 1)
        BY <1>5
    <2>2. 0 \div CHUNK < num_chunks_for_size(s)
        BY <2>1, PlaceInChunks
    <2> QED
        BY <1>2, <1>4, <2>2
<1> QED
    BY <1>3, <1>4, <1>5

(* An int is an int, and a length that fits is itself. *)
LEMMA AsIntFacts ==
  ASSUME NEW n \in Nat
  PROVE  /\ AsInt(n) \in Int /\ AsInt(n) > NotOpen
         /\ n <= MaxInt => AsInt(n) = n
<1>1. MaxInt \in Nat /\ 2 * MaxInt + 2 \in Nat \ {0}
    BY ChunkTransferAssumption
<1>2. n % (2 * MaxInt + 2) \in 0 .. (2 * MaxInt + 1)
    BY <1>1, DivMod
<1>3. n <= MaxInt => n % (2 * MaxInt + 2) = n
    BY <1>1
<1> QED
    BY <1>1, <1>2, <1>3 DEF AsInt, NotOpen

-----------------------------------------------------------------------------
(* The inductive invariant.  Until the file is rewritten the two sides     *)
(* agree on its length, and every place of the copy has its byte just when *)
(* its chunk has come and reaches that far.                                *)
Shape ==
  /\ file \in [ver : {1, 2}, size : Nat]
  /\ announced \in Int
  /\ written \subseteq Nat
  /\ strayed \in BOOLEAN
  /\ copy = [p \in 0 .. (announced - 1) |-> copy[p]]

Agreed ==
  /\ announced # NotOpen => announced = AsInt(file.size)
  /\ announced = NotOpen => replica = "nothing" /\ reader = NoReader /\ written = {}
  /\ reader \in {NoReader, [ver |-> 1, size |-> announced]}

Reached(p) ==
  LET i == p \div CHUNK IN i \in written /\ p - i * CHUNK < ChunkLength(announced, i)
Filled == \A p \in 0 .. (announced - 1) : copy[p] = IF Reached(p) THEN <<1, p>> ELSE Filler

Complete ==
  /\ replica = "open" => announced > 0
  /\ replica = "saved" /\ announced > 0 =>
       0 .. (num_chunks_for_size(announced) - 1) \subseteq written

ChunkInv ==
  /\ Shape
  /\ Untouched => Agreed /\ Filled /\ Complete /\ ~strayed

LEMMA ChunkInit_Inv == ChunkInit => ChunkInv
<1> SUFFICES ASSUME ChunkInit PROVE ChunkInv
    OBVIOUS
<1>1. announced = NotOpen /\ 0 .. (announced - 1) = {}
    BY ChunkTransferAssumption DEF ChunkInit, NotOpen
<1>2. Shape
    <2>1. copy = [p \in {} |-> copy[p]]
        BY DEF ChunkInit
    <2>2. copy = [p \in 0 .. (announced - 1) |-> copy[p]]
        BY <1>1, <2>1
    <2>3. announced \in Int /\ file \in [ver : {1, 2}, size : Nat]
        BY <1>1, ChunkTransferAssumption DEF ChunkInit, NotOpen
    <2> QED
        BY <2>2, <2>3 DEF ChunkInit, Shape
<1> QED
    BY <1>1, <1>2 DEF ChunkInit, ChunkInv, Agreed, Filled, Complete

(* The scan: lengths are as they were told, and nothing has come yet.      *)
LEMMA Announces_Inv == ChunkInv /\ Announces => ChunkInv'
<1> SUFFICES ASSUME ChunkInv, Announces PROVE ChunkInv'
    OBVIOUS
<1>1. file \in [ver : {1, 2}, size : Nat] /\ file.size \in Nat
    BY DEF ChunkInv, Shape
<1>2. announced' \in Int /\ announced' > NotOpen /\ announced' = AsInt(file.size)
    BY <1>1, AsIntFacts DEF Announces
<1>3. Shape'
    BY <1>1, <1>2 DEF Announces, ChunkInv, Shape
<1>4. ASSUME Untouched' PROVE Agreed' /\ Filled' /\ Complete' /\ ~strayed'
    <2>1. /\ Untouched
          /\ written' = written /\ reader' = reader /\ file' = file /\ strayed' = strayed
          /\ announced = NotOpen
        BY <1>4 DEF Announces, Untouched
    <2>2. reader = NoReader /\ ~strayed /\ written = {}
        BY <2>1 DEF ChunkInv, Agreed
    <2>3. announced' # NotOpen
        BY <1>2, ChunkTransferAssumption DEF NotOpen
    <2>4. Agreed'
        BY <1>2, <2>1, <2>2, <2>3 DEF Agreed
    <2>5. Filled'
        BY <2>1, <2>2 DEF Filled, Reached, Announces
    <2>6. ASSUME announced' >= 0
          PROVE  announced' > 0 <=> num_chunks_for_size(announced') >= 1
        BY <1>2, <2>6, SomethingHasChunks
    <2>7. Complete'
        <3>1. CASE announced' >= 0
            <4>1. num_chunks_for_size(announced') \in Nat
                BY <1>2, <3>1, ChunksOfSize
            <4> QED
                BY <1>2, <2>6, <3>1, <4>1 DEF Complete, Announces
        <3>2. CASE announced' < 0
            BY <1>2, <3>2 DEF Complete, Announces
        <3> QED
            BY <1>2, <3>1, <3>2
    <2> QED
        BY <2>1, <2>2, <2>4, <2>5, <2>7
<1> QED
    BY <1>3, <1>4 DEF ChunkInv

LEMMA Rewrites_Inv ==
  ASSUME NEW n \in 0 .. MaxSize, ChunkInv, Rewrites(n)
  PROVE  ChunkInv'
BY ChunkTransferAssumption DEF ChunkInv, Shape, Untouched, Rewrites

(* A chunk of a file that was not rewritten: what is read, and where it    *)
(* goes.                                                                   *)
LEMMA ChunkOfUntouched ==
  ASSUME ChunkInv, Untouched, NEW i \in Nat, Fetches(i)
  PROVE  /\ announced \in Nat \ {0}
         /\ Opened = [ver |-> 1, size |-> announced]
         /\ ChunkLength(announced, i) \in 0 .. CHUNK
         /\ ReadChunk(Opened, i)
              = [k \in 0 .. (ChunkLength(announced, i) - 1) |-> <<1, Place(i, k)>>]
         /\ \A k \in 0 .. (ChunkLength(announced, i) - 1) : Place(i, k) \in 0 .. (announced - 1)
<1> DEFINE length == ChunkLength(announced, i)
<1>1. announced \in Nat \ {0} /\ announced # NotOpen
    BY ChunkTransferAssumption DEF ChunkInv, Shape, Agreed, Complete, Fetches, NotOpen
<1>2. Opened = [ver |-> 1, size |-> announced]
    BY <1>1 DEF ChunkInv, Agreed, Opened, Untouched, NoReader
<1>3. length \in 0 .. CHUNK /\ i * CHUNK + length <= announced /\ i * CHUNK \in Nat
    BY <1>1, ChunksOfSize, ChunkInside, ChunkTransferAssumption DEF Fetches
<1>4. \A k \in 0 .. (length - 1) : Place(i, k) \in 0 .. (announced - 1)
    BY <1>1, <1>3, ChunkTransferAssumption DEF Place
<1>5. ReadChunk(Opened, i) = [k \in 0 .. (length - 1) |-> <<1, Place(i, k)>>]
    BY <1>2, <1>4 DEF ReadChunk
<1> QED
    BY <1>1, <1>2, <1>3, <1>4, <1>5

LEMMA Fetches_Inv ==
  ASSUME NEW i \in Nat, ChunkInv, Fetches(i)
  PROVE  ChunkInv'
<1>1. Shape'
    <2>1. DOMAIN copy = 0 .. (announced - 1)
        BY DEF ChunkInv, Shape
    <2>2. copy' = [p \in 0 .. (announced - 1) |-> copy'[p]]
        BY <2>1 DEF Fetches, Placed
    <2> QED
        BY <2>2 DEF ChunkInv, Shape, Fetches
<1>2. ASSUME Untouched' PROVE Agreed' /\ Filled' /\ Complete' /\ ~strayed'
    <2> DEFINE length == ChunkLength(announced, i)
               chunk == ReadChunk(Opened, i)
    <2>1. Untouched /\ file' = file /\ announced' = announced
        BY <1>2 DEF Untouched, Fetches
    <2>2. /\ announced \in Nat \ {0}
          /\ Opened = [ver |-> 1, size |-> announced]
          /\ length \in 0 .. CHUNK
          /\ chunk = [k \in 0 .. (length - 1) |-> <<1, Place(i, k)>>]
          /\ \A k \in 0 .. (length - 1) : Place(i, k) \in 0 .. (announced - 1)
        BY <2>1, ChunkOfUntouched
    <2>3. DOMAIN copy = 0 .. (announced - 1) /\ DOMAIN chunk = 0 .. (length - 1)
        BY <2>2 DEF ChunkInv, Shape
    <2>4. ~strayed'
        <3>1. ~ReadsOutside(Opened, i)
            BY <2>2, ChunkTransferAssumption DEF ReadsOutside, Stray
        <3>2. ~WritesOutside(i, chunk)
            BY <2>2, <2>3 DEF WritesOutside
        <3> QED
            BY <2>1, <3>1, <3>2 DEF Fetches, ChunkInv
    <2>5. Agreed'
        BY <2>1, <2>2, ChunkTransferAssumption DEF ChunkInv, Agreed, Fetches, NotOpen
    <2>6. Complete'
        BY <2>1, <2>2 DEF ChunkInv, Complete, Fetches
    <2>7. ASSUME NEW p \in 0 .. (announced - 1)
          PROVE  copy'[p] = IF Reached(p)' THEN <<1, p>> ELSE Filler
        <3>1. p \in Nat /\ i * CHUNK \in Nat
            BY <2>2, ChunkTransferAssumption
        <3>2. /\ p - (p \div CHUNK) * CHUNK \in 0 .. (CHUNK - 1)
              /\ p - i * CHUNK \in 0 .. (CHUNK - 1) => i = p \div CHUNK
            BY <3>1, PlaceHasChunk
        <3>3. copy'[p] = IF p - i * CHUNK \in 0 .. (length - 1)
                           THEN chunk[p - i * CHUNK] ELSE copy[p]
            BY <2>3 DEF Fetches, Placed
        <3>4. p - i * CHUNK \in 0 .. (length - 1) => chunk[p - i * CHUNK] = <<1, p>>
            BY <2>2, <3>1 DEF Place
        <3>5. copy[p] = IF Reached(p) THEN <<1, p>> ELSE Filler
            BY <2>1 DEF ChunkInv, Filled
        <3>6. CASE i = p \div CHUNK
            <4>1. ~Reached(p)
                BY <3>6 DEF Reached, Fetches
            <4>2. Reached(p)' <=> p - i * CHUNK < length
                BY <2>1, <3>6 DEF Reached, Fetches
            <4>3. p - i * CHUNK \in 0 .. (length - 1) <=> p - i * CHUNK < length
                BY <2>2, <3>1, <3>2, <3>6
            <4> QED
                BY <3>3, <3>4, <3>5, <4>1, <4>2, <4>3
        <3>7. CASE i # p \div CHUNK
            <4>1. p - i * CHUNK \notin 0 .. (length - 1)
                BY <2>2, <3>1, <3>2, <3>7, ChunkTransferAssumption
            <4>2. Reached(p)' <=> Reached(p)
                BY <2>1, <3>7 DEF Reached, Fetches
            <4> QED
                BY <3>3, <3>5, <4>1, <4>2
        <3> QED
            BY <3>6, <3>7
    <2>8. Filled'
        BY <2>1, <2>7 DEF Filled
    <2> QED
        BY <2>4, <2>5, <2>6, <2>8
<1> QED
    BY <1>1, <1>2 DEF ChunkInv

LEMMA ChunkNext_Inv == ChunkInv /\ [ChunkNext]_chunkVars => ChunkInv'
<1> SUFFICES ASSUME ChunkInv, [ChunkNext]_chunkVars PROVE ChunkInv'
    OBVIOUS
<1>1. CASE UNCHANGED chunkVars
    BY <1>1 DEF chunkVars, ChunkInv, Shape, Untouched, Agreed, Filled, Reached, Complete
<1>2. CASE ChunkNext
    <2>1. 0 .. MaxSize \subseteq Nat
        BY ChunkTransferAssumption
    <2> QED
        BY <1>2, <2>1, Announces_Inv, Rewrites_Inv, Fetches_Inv DEF ChunkNext
<1> QED
    BY <1>1, <1>2

THEOREM ChunkInvariant == ChunkSpec => []ChunkInv
<1>1. QED
    BY ChunkInit_Inv, ChunkNext_Inv, PTL DEF ChunkSpec

-----------------------------------------------------------------------------
(* A rewrite between scan and request is the only way to leave an array:   *)
(* the chunks of chunkyfile_get_chunk and chunkyfile_set_chunk lie within  *)
(* the file, whatever its size.                                            *)
THEOREM StraysOnlyByRewrite == ChunkSpec => []StraysTakeRewrite
<1>1. ChunkInv => StraysTakeRewrite
    BY DEF ChunkInv, StraysTakeRewrite
<1> QED
    BY <1>1, ChunkInvariant, PTL

(* A saved file is the one that was sent, but for the last chunk of one    *)
(* whose size is a multiple of the chunk size.                             *)
THEOREM AllButLastChunkArrives == ChunkSpec => []ArrivesButLastChunk
<1>1. ChunkInv => ArrivesButLastChunk
    <2> SUFFICES ASSUME ChunkInv, Untouched, FitsInt, replica = "saved"
                 PROVE  copy = [k \in 0 .. (file.size - 1) |->
                                  IF file.size % CHUNK = 0 /\ k >= file.size - CHUNK
                                    THEN Filler ELSE <<1, k>>]
        BY DEF ArrivesButLastChunk
    <2> DEFINE s == file.size
               n == num_chunks_for_size(s)
    <2>1. s \in Nat /\ announced = s
        BY AsIntFacts DEF ChunkInv, Shape, Agreed, FitsInt
    <2>2. copy = [k \in 0 .. (s - 1) |-> copy[k]]
        BY <2>1 DEF ChunkInv, Shape
    <2>3. ASSUME NEW k \in 0 .. (s - 1)
          PROVE  copy[k] = IF s % CHUNK = 0 /\ k >= s - CHUNK THEN Filler ELSE <<1, k>>
        <3> DEFINE i == k \div CHUNK
        <3>1. k \in Nat /\ CHUNK \in Nat \ {0} /\ s > 0
            BY <2>1, ChunkTransferAssumption
        <3>2. i \in Nat /\ k - i * CHUNK \in 0 .. (CHUNK - 1) /\ i * CHUNK \in Nat
            BY <3>1, PlaceHasChunk
        <3>3. i < n
            BY <2>1, PlaceInChunks
        <3>4. i \in written
            <4>1. n \in Nat
                BY <2>1, ChunksOfSize
            <4>2. 0 .. (n - 1) \subseteq written
                BY <2>1, <3>1 DEF ChunkInv, Complete
            <4> QED
                BY <3>2, <3>3, <4>1, <4>2
        <3>5. copy[k] = IF k - i * CHUNK < ChunkLength(s, i) THEN <<1, k>> ELSE Filler
            BY <2>1, <3>4 DEF ChunkInv, Filled, Reached
        <3> QED
            BY <2>1, <3>5, ChunkReaches
    <2> QED
        BY <2>1, <2>2, <2>3
<1> QED
    BY <1>1, ChunkInvariant, PTL

-----------------------------------------------------------------------------
(***************************************************************************)
(* The tracker forgets no heartbeat, for any number of clients, any        *)
(* DIASTOLE and any length of time.                                        *)
(***************************************************************************)

(* With the types the stamps are inductive: a heartbeat is never later     *)
(* than the clock, and reading one or accepting its client stamps it now.  *)
HeartbeatInv == HeartbeatTypeOK /\ StampsCoverBeats

LEMMA HeartbeatInit_Inv == HeartbeatInit => HeartbeatInv
BY HeartbeatAssumption DEF HeartbeatInit, HeartbeatInv, HeartbeatTypeOK, StampsCoverBeats, Start

(* A step of the clock keeps every stamp in the past. *)
LEMMA Tick_Inv == HeartbeatInv /\ Tick => HeartbeatInv'
<1> SUFFICES ASSUME HeartbeatInv, Tick PROVE HeartbeatInv'
    OBVIOUS
<1> USE HeartbeatAssumption DEF HeartbeatInv, HeartbeatTypeOK, Tick, clientVars, trackerVars, Start
<1>1. now' \in Start .. (Start + MaxTime) /\ 0 .. now \subseteq 0 .. now'
    OBVIOUS
<1>2. last_heartbeat' \in [Clients -> 0 .. now'] /\ time_last_alive' \in [Clients -> 0 .. now']
    BY <1>1
<1> QED
    BY <1>1, <1>2 DEF StampsCoverBeats

(* A client that beats has one heartbeat more to be read. *)
LEMMA Client_Inv ==
  ASSUME NEW c \in Clients, HeartbeatInv, Connect(c) \/ Beat(c) \/ FallSilent(c)
  PROVE  HeartbeatInv'
<1> USE HeartbeatAssumption DEF HeartbeatInv, HeartbeatTypeOK, clientVars, trackerVars, Start
<1>1. CASE Connect(c)
    BY <1>1 DEF Connect, StampsCoverBeats
<1>2. CASE Beat(c)
    <2>1. \A d \in Clients : beats'[d] = 0 => beats[d] = 0 /\ last_heartbeat'[d] = last_heartbeat[d]
        BY <1>2 DEF Beat
    <2>2. StampsCoverBeats'
        BY <1>2, <2>1 DEF Beat, StampsCoverBeats
    <2> QED
        BY <1>2, <2>2 DEF Beat
<1>3. CASE FallSilent(c)
    BY <1>3 DEF FallSilent, StampsCoverBeats
<1> QED
    BY <1>1, <1>2, <1>3

(* Whoever is accepted, or has a heartbeat read, is stamped now; of the    *)
(* others nothing changed.                                                 *)
LEMMA Serve_Inv == HeartbeatInv /\ Serve => HeartbeatInv'
<1> SUFFICES ASSUME HeartbeatInv, Serve PROVE HeartbeatInv'
    OBVIOUS
<1> USE HeartbeatAssumption DEF HeartbeatInv, HeartbeatTypeOK, clientVars, Start
<1>1. PICK new \in SUBSET knocking :
        /\ beats' = [c \in Clients |-> IF c \in {d \in listed : beats[d] > 0}
                                         THEN beats[c] - 1 ELSE beats[c]]
        /\ time_last_alive' = Stamped(new, {d \in listed : beats[d] > 0})
        /\ listed' = listed \cup new
        /\ knocking' = knocking \ new
    BY DEF Serve
<1>2. time_last_alive' \in [Clients -> 0 .. now]
    BY <1>1 DEF Stamped
<1>3. beats' \in [Clients -> 0 .. MaxBeats]
    BY <1>1
<1>4. ASSUME NEW c \in listed', beats'[c] = 0
      PROVE  last_heartbeat'[c] <= time_last_alive'[c]
    <2>1. c \in Clients /\ last_heartbeat' = last_heartbeat /\ last_heartbeat[c] <= now
        BY <1>1 DEF Serve
    <2>2. CASE c \in new \/ beats[c] > 0
        BY <1>1, <2>1, <2>2 DEF Stamped
    <2>3. CASE c \notin new /\ ~(beats[c] > 0)
        BY <1>1, <2>1, <2>3 DEF Stamped, StampsCoverBeats
    <2> QED
        BY <2>2, <2>3
<1> QED
    BY <1>1, <1>2, <1>3, <1>4 DEF Serve, StampsCoverBeats

(* check_liveliness takes clients off the list, and stamps none. *)
LEMMA Check_Inv == HeartbeatInv /\ check_liveliness => HeartbeatInv'
BY DEF HeartbeatInv, HeartbeatTypeOK, StampsCoverBeats, check_liveliness, clientVars

LEMMA HeartbeatNext_Inv == HeartbeatInv /\ [HeartbeatNext]_heartbeatVars => HeartbeatInv'
<1> SUFFICES ASSUME HeartbeatInv, [HeartbeatNext]_heartbeatVars PROVE HeartbeatInv'
    OBVIOUS
<1>1. CASE UNCHANGED heartbeatVars
    BY <1>1 DEF HeartbeatInv, HeartbeatTypeOK, StampsCoverBeats, heartbeatVars
<1>2. CASE HeartbeatNext
    BY <1>2, Tick_Inv, Client_Inv, Serve_Inv, Check_Inv DEF HeartbeatNext
<1> QED
    BY <1>1, <1>2

THEOREM HeartbeatInvariant == HeartbeatSpec => []HeartbeatInv
<1>1. QED
    BY HeartbeatInit_Inv, HeartbeatNext_Inv, PTL DEF HeartbeatSpec

(* Type correctness: stamps, beats and lists stay within their bounds.     *)
THEOREM HeartbeatTypes == HeartbeatSpec => []HeartbeatTypeOK
<1>1. HeartbeatInv => HeartbeatTypeOK
    BY DEF HeartbeatInv
<1> QED
    BY <1>1, HeartbeatInvariant, PTL

(* However many heartbeats come at once and however long a round takes,    *)
(* the stamp of a listed client with none unread is as late as its last    *)
(* heartbeat: what check_liveliness must be able to rely on.               *)
THEOREM BeatsAreStamped == HeartbeatSpec => []StampsCoverBeats
<1>1. HeartbeatInv => StampsCoverBeats
    BY DEF HeartbeatInv
<1> QED
    BY <1>1, HeartbeatInvariant, PTL
=============================================================================
