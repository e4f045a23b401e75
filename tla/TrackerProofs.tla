----------------------------- MODULE TrackerProofs -----------------------------
(***************************************************************************)
(* Theorems about Tracker, for every number of clients, every directory    *)
(* and every bound.  Whenever the clients act: first that variables keep   *)
(* their types, by Inv; then, each from an invariant inductive relative to *)
(* Inv, that files keep owners, the file table lists nothing that is not   *)
(* in the file system, and ids identify peers.  At the end, what the       *)
(* tracker brings about when the clients are patient.                      *)
(***************************************************************************)
EXTENDS Tracker, Induction, SequenceTheorems, FiniteSetTheorems, TLAPS

-----------------------------------------------------------------------------
(* Lemmas about the operators of the file table: they keep its shape.      *)

(* What AddFileSystem adds has the chunks of some version. *)
LEMMA ChunksOfEntries ==
  ASSUME NEW e \in FilesOf(Entries), NEW S \in SUBSET Peers
  PROVE  /\ e.path \in Files
         /\ [c \in 0 .. (NumChunks(e) - 1) |-> S] \in ChunkTables
<1>1. e \in [path : Files, ver : Versions]
  BY DEF FilesOf, Entries, Files
<1> QED
  BY <1>1 DEF ChunkTables, NumChunks

(* A function from file paths to chunk tables is a file table. *)
LEMMA FileTableIntro ==
  ASSUME NEW P \in SUBSET Files, NEW f \in [P -> ChunkTables]
  PROVE  f \in FileTables
BY DEF FileTables

LEMMA FileTableElim ==
  ASSUME NEW f \in FileTables
  PROVE  /\ DOMAIN f \in SUBSET Files
         /\ f \in [DOMAIN f -> ChunkTables]
BY DEF FileTables

(* Replacing the owners of chunks keeps a chunk table a chunk table. *)
LEMMA ChunkTableMap ==
  ASSUME NEW t \in ChunkTables, NEW u \in [DOMAIN t -> SUBSET Peers]
  PROVE  u \in ChunkTables
BY DEF ChunkTables

LEMMA ChunkTableElim ==
  ASSUME NEW t \in ChunkTables
  PROVE  t \in [DOMAIN t -> SUBSET Peers]
BY DEF ChunkTables

(* filetable_add_filesystem *)
LEMMA AddFileSystemType ==
  ASSUME NEW f \in FileTables, NEW adds \in SUBSET Entries, NEW peer \in Peers
  PROVE  /\ AddFileSystem(f, adds, peer) \in FileTables
         /\ DOMAIN AddFileSystem(f, adds, peer) = DOMAIN f \cup PathsOf(FilesOf(adds))
<1> DEFINE P == DOMAIN f \cup PathsOf(FilesOf(adds))
           g == AddFileSystem(f, adds, peer)
<1>1. DOMAIN g = P
  BY DEF AddFileSystem
<1>2. P \in SUBSET Files
  BY FileTableElim DEF PathsOf, FilesOf
<1>3. ASSUME NEW p \in P
      PROVE  g[p] \in ChunkTables
  <2>1. CASE p \in PathsOf(FilesOf(adds))
    <3> DEFINE e == CHOOSE e \in FilesOf(adds) : e.path = p
    <3>1. e \in FilesOf(adds)
      BY <2>1 DEF PathsOf
    <3>2. e \in FilesOf(Entries)
      BY <3>1 DEF FilesOf
    <3>3. g[p] = [c \in 0 .. (NumChunks(e) - 1) |-> {peer}]
      BY <2>1 DEF AddFileSystem
    <3>4. {peer} \in SUBSET Peers
      OBVIOUS
    <3> HIDE DEF e
    <3>5. [c \in 0 .. (NumChunks(e) - 1) |-> {peer}] \in ChunkTables
      BY <3>2, <3>4, ChunksOfEntries
    <3> HIDE DEF g
    <3> QED
      BY <3>3, <3>5
  <2>2. CASE p \notin PathsOf(FilesOf(adds))
    <3>1. p \in DOMAIN f /\ g[p] = f[p]
      BY <2>2 DEF AddFileSystem
    <3> QED
      BY <3>1, FileTableElim
  <2> QED
    BY <2>1, <2>2
<1>4. g = [p \in P |-> g[p]]
  BY DEF AddFileSystem
<1> HIDE DEF P, g
<1>5. g \in [P -> ChunkTables]
  BY <1>1, <1>3, <1>4
<1> QED
  BY <1>1, <1>2, <1>5, FileTableIntro DEF P, g

(* filetable_remove_file and filetable_remove_filesystem *)
LEMMA RemovePathsType ==
  ASSUME NEW f \in FileTables, NEW P
  PROVE  /\ RemovePaths(f, P) \in FileTables
         /\ DOMAIN RemovePaths(f, P) = DOMAIN f \ P
         /\ \A p \in DOMAIN f \ P : RemovePaths(f, P)[p] = f[p]
<1>1. RemovePaths(f, P) \in [DOMAIN f \ P -> ChunkTables]
  BY FileTableElim DEF RemovePaths
<1> QED
  BY <1>1, FileTableElim, FileTableIntro DEF RemovePaths

(* filetable_remove_peer *)
LEMMA RemovePeerType ==
  ASSUME NEW f \in FileTables, NEW peer
  PROVE  /\ RemovePeer(f, peer) \in FileTables
         /\ DOMAIN RemovePeer(f, peer) = DOMAIN f
<1>1. ASSUME NEW p \in DOMAIN f
      PROVE  [c \in DOMAIN f[p] |-> f[p][c] \ {peer}] \in ChunkTables
  <2>1. f[p] \in ChunkTables
    BY FileTableElim
  <2>2. [c \in DOMAIN f[p] |-> f[p][c] \ {peer}] \in [DOMAIN f[p] -> SUBSET Peers]
    BY <2>1, ChunkTableElim
  <2> QED
    BY <2>1, <2>2, ChunkTableMap
<1>2. RemovePeer(f, peer) \in [DOMAIN f -> ChunkTables]
  BY <1>1 DEF RemovePeer
<1> QED
  BY <1>2, FileTableElim, FileTableIntro

(* filetable_set_that_peer_has_file_chunk *)
LEMMA SetOwnerType ==
  ASSUME NEW f \in FileTables, NEW p \in DOMAIN f, NEW chunk \in DOMAIN f[p],
         NEW peer \in Peers
  PROVE  /\ SetOwner(f, p, chunk, peer) \in FileTables
         /\ DOMAIN SetOwner(f, p, chunk, peer) = DOMAIN f
<1> DEFINE t == [f[p] EXCEPT ![chunk] = f[p][chunk] \cup {peer}]
           g == SetOwner(f, p, chunk, peer)
<1>1. f[p] \in ChunkTables
  BY FileTableElim
<1>2. t \in [DOMAIN f[p] -> SUBSET Peers]
  BY <1>1, ChunkTableElim
<1>3. t \in ChunkTables
  BY <1>1, <1>2, ChunkTableMap
<1>4. DOMAIN g = DOMAIN f /\ g = [q \in DOMAIN f |-> g[q]]
  BY DEF SetOwner
<1>5. ASSUME NEW q \in DOMAIN f
      PROVE  g[q] = IF q = p THEN t ELSE f[q]
  BY FileTableElim DEF SetOwner
<1> HIDE DEF t, g
<1>6. \A q \in DOMAIN f : g[q] \in ChunkTables
  BY <1>3, <1>5, FileTableElim
<1>7. g \in [DOMAIN f -> ChunkTables]
  BY <1>4, <1>6
<1> QED
  BY <1>4, <1>7, FileTableElim, FileTableIntro DEF g

-----------------------------------------------------------------------------
(* The operators of the file table and the chunks that nobody owns. *)

(* Removing files uncovers no ownerless chunk; removing the files that     *)
(* have one leaves none.                                                   *)
LEMMA RemovePathsOwned ==
  ASSUME NEW f \in FileTables, NEW P, Ownerless(f) \subseteq P
  PROVE  Ownerless(RemovePaths(f, P)) = {}
<1>1. DOMAIN RemovePaths(f, P) = DOMAIN f \ P
  BY DEF RemovePaths
<1>2. ASSUME NEW p \in DOMAIN f \ P
      PROVE  RemovePaths(f, P)[p] = f[p] /\ p \notin Ownerless(f)
  BY DEF RemovePaths
<1> QED
  BY <1>1, <1>2 DEF Ownerless

(* The peer that adds a file owns each chunk of it. *)
LEMMA AddFileSystemOwned ==
  ASSUME NEW f \in FileTables, NEW adds \in SUBSET Entries, NEW peer \in Peers,
         Ownerless(f) = {}
  PROVE  Ownerless(AddFileSystem(f, adds, peer)) = {}
<1> DEFINE g == AddFileSystem(f, adds, peer)
<1> SUFFICES ASSUME NEW p \in DOMAIN g, NEW c \in DOMAIN g[p], g[p][c] = {}
             PROVE  FALSE
  BY DEF Ownerless
<1>1. DOMAIN g = DOMAIN f \cup PathsOf(FilesOf(adds))
  BY AddFileSystemType
<1>2. CASE p \in PathsOf(FilesOf(adds))
  <2> DEFINE e == CHOOSE e \in FilesOf(adds) : e.path = p
  <2>1. g[p] = [k \in 0 .. (NumChunks(e) - 1) |-> {peer}]
    BY <1>2 DEF AddFileSystem
  <2> HIDE DEF e
  <2> QED
    BY <2>1
<1>3. CASE p \notin PathsOf(FilesOf(adds))
  <2>1. p \in DOMAIN f /\ g[p] = f[p]
    BY <1>1, <1>3 DEF AddFileSystem
  <2> HIDE DEF g
  <2> QED
    BY <2>1 DEF Ownerless
<1> QED
  BY <1>2, <1>3

(* A new owner takes no chunk from another. *)
LEMMA SetOwnerOwned ==
  ASSUME NEW f \in FileTables, NEW p \in DOMAIN f, NEW chunk \in DOMAIN f[p],
         NEW peer \in Peers, Ownerless(f) = {}
  PROVE  Ownerless(SetOwner(f, p, chunk, peer)) = {}
<1> DEFINE g == SetOwner(f, p, chunk, peer)
<1>1. DOMAIN g = DOMAIN f
  BY DEF SetOwner
<1>2. ASSUME NEW q \in DOMAIN f
      PROVE  g[q] = IF q = p THEN [f[p] EXCEPT ![chunk] = f[p][chunk] \cup {peer}] ELSE f[q]
  BY FileTableElim DEF SetOwner
<1> HIDE DEF g
<1>3. ASSUME NEW q \in DOMAIN g, NEW c \in DOMAIN g[q]
      PROVE  g[q][c] # {}
  <2>1. q \in DOMAIN f
    BY <1>1
  <2>2. CASE q = p
    <3>1. c \in DOMAIN f[p]
      BY <1>2, <2>1, <2>2
    <3>2. g[q][c] = IF c = chunk THEN f[p][chunk] \cup {peer} ELSE f[p][c]
      BY <1>2, <2>1, <2>2, <3>1
    <3> QED
      BY <3>1, <3>2 DEF Ownerless
  <2>3. CASE q # p
    BY <1>2, <2>1, <2>3 DEF Ownerless
  <2> QED
    BY <2>2, <2>3
<1> QED
  BY <1>3 DEF Ownerless, g

-----------------------------------------------------------------------------
(* The inductive invariant behind the type invariant.  The network thread  *)
(* reads the message of a ready slot without looking whether there is one: *)
(* that the inbox is not empty rests on no two slots sharing a socket, and *)
(* on a connection having its first message when it is accepted.           *)

SlotsDistinct ==
  \A i, j \in Occupied : i # j => table[i].id # table[j].id /\ table[i].sock # table[j].sock

SlotsAccepted == \A i \in Occupied : table[i].id <= accepted /\ table[i].sock <= accepted

ReadyHasMessage == \A i \in ready : inbox[table[i].sock] # <<>>

UnacceptedHasMessage == \A s \in Sockets : accepted < s /\ s <= arrived => inbox[s] # <<>>

Inv == TypeOK /\ SlotsDistinct /\ SlotsAccepted /\ ReadyHasMessage /\ UnacceptedHasMessage

-----------------------------------------------------------------------------
LEMMA PeersAreNumbers ==
  /\ Cardinality(Peers) \in Nat
  /\ \A n \in Int : n \in Peers <=> 1 <= n /\ n <= Cardinality(Peers)
  /\ Peers \subseteq Nat /\ 0 \notin Peers /\ -1 \notin Peers
BY TrackerAssumption

(* Queue items keep their type. *)
LEMMA PushType ==
  ASSUME NEW S, NEW q \in Seq(S), NEW item \in S
  PROVE  Push(q, item) \in Seq(S)
BY DEF Push

LEMMA TailType ==
  ASSUME NEW S, NEW q \in Seq(S), q # <<>>
  PROVE  /\ Head(q) \in S /\ Tail(q) \in Seq(S)
         /\ 1 \in DOMAIN q /\ q[1] = Head(q)
OBVIOUS

LEMMA Replaced ==
  ASSUME NEW S, NEW q \in Seq(S), NEW x \in S, NEW k
  PROVE  [q EXCEPT ![k] = x] \in Seq(S)
<1>1. \A i \in 1 .. Len(q) : q[i] \in S
  OBVIOUS
<1>2. [q EXCEPT ![k] = x] = [i \in 1 .. Len(q) |-> IF i = k THEN x ELSE q[i]]
  OBVIOUS
<1>3. [i \in 1 .. Len(q) |-> IF i = k THEN x ELSE q[i]] \in Seq(S)
  BY <1>1
<1> QED
  BY <1>2, <1>3

(* One destination of a broadcast is served. *)
LEMMA PoppedType ==
  ASSUME toNet \in NetQueues, NEW q \in DOMAIN toNet, toNet[q] # <<>>, NEW d
  PROVE  [toNet EXCEPT ![q] = Popped(q, d)] \in NetQueues
<1> DEFINE rest == Head(toNet[q]).to \ {d}
           cut == [Head(toNet[q]) EXCEPT !.to = rest]
<1>1. ASSUME NEW S, toNet[q] \in Seq(S), cut \in S
      PROVE  Popped(q, d) \in Seq(S)
  <2>1. Tail(toNet[q]) \in Seq(S) /\ toNet[q][1] = Head(toNet[q])
    BY <1>1, TailType
  <2>2. [toNet[q] EXCEPT ![1] = cut] \in Seq(S)
    BY <1>1, Replaced
  <2>3. [toNet[q] EXCEPT ![1].to = rest] = [toNet[q] EXCEPT ![1] = cut]
    BY <2>1
  <2> QED
    BY <2>1, <2>2, <2>3 DEF Popped
<1>2. DOMAIN toNet = {"acq", "fsu", "add", "rem", "mst", "mft"}
  BY DEF NetQueues
<1>3. CASE q = "acq"
  <2> DEFINE S == [to : SUBSET Peers, from : Peers, path : Files, chunk : Nat]
  <2>1. toNet[q] \in Seq(S)
    BY <1>3 DEF NetQueues
  <2>2. Head(toNet[q]) \in S
    BY <2>1, TailType
  <2>3. cut \in S
    BY <2>2
  <2> HIDE DEF S, cut
  <2>4. Popped(q, d) \in Seq(S)
    BY <1>1, <2>1, <2>3
  <2> QED
    BY <1>3, <2>4 DEF NetQueues, S
<1>4. CASE q = "fsu"
  <2> DEFINE S == [to : SUBSET Peers, from : Peers, upd : Update]
  <2>1. toNet[q] \in Seq(S)
    BY <1>4 DEF NetQueues
  <2>2. Head(toNet[q]) \in S
    BY <2>1, TailType
  <2>3. cut \in S
    BY <2>2
  <2> HIDE DEF S, cut
  <2>4. Popped(q, d) \in Seq(S)
    BY <1>1, <2>1, <2>3
  <2> QED
    BY <1>4, <2>4 DEF NetQueues, S
<1>5. CASE q = "add"
  <2> DEFINE S == [to : SUBSET Peers]
  <2>1. toNet[q] \in Seq(S)
    BY <1>5 DEF NetQueues
  <2>2. Head(toNet[q]) \in S
    BY <2>1, TailType
  <2>3. cut \in S
    BY <2>2
  <2> HIDE DEF S, cut
  <2>4. Popped(q, d) \in Seq(S)
    BY <1>1, <2>1, <2>3
  <2> QED
    BY <1>5, <2>4 DEF NetQueues, S
<1>6. CASE q = "rem"
  <2> DEFINE S == [to : SUBSET Peers]
  <2>1. toNet[q] \in Seq(S)
    BY <1>6 DEF NetQueues
  <2>2. Head(toNet[q]) \in S
    BY <2>1, TailType
  <2>3. cut \in S
    BY <2>2
  <2> HIDE DEF S, cut
  <2>4. Popped(q, d) \in Seq(S)
    BY <1>1, <2>1, <2>3
  <2> QED
    BY <1>6, <2>4 DEF NetQueues, S
<1>7. CASE q = "mst"
  <2> DEFINE S == [to : SUBSET Peers, fs : SUBSET Entries]
  <2>1. toNet[q] \in Seq(S)
    BY <1>7 DEF NetQueues
  <2>2. Head(toNet[q]) \in S
    BY <2>1, TailType
  <2>3. cut \in S
    BY <2>2
  <2> HIDE DEF S, cut
  <2>4. Popped(q, d) \in Seq(S)
    BY <1>1, <2>1, <2>3
  <2> QED
    BY <1>7, <2>4 DEF NetQueues, S
<1>8. CASE q = "mft"
  <2> DEFINE S == [to : SUBSET Peers]
  <2>1. toNet[q] \in Seq(S)
    BY <1>8 DEF NetQueues
  <2>2. Head(toNet[q]) \in S
    BY <2>1, TailType
  <2>3. cut \in S
    BY <2>2
  <2> HIDE DEF S, cut
  <2>4. Popped(q, d) \in Seq(S)
    BY <1>1, <2>1, <2>3
  <2> QED
    BY <1>8, <2>4 DEF NetQueues, S
<1> QED
  BY <1>2, <1>3, <1>4, <1>5, <1>6, <1>7, <1>8

-----------------------------------------------------------------------------
(* The logic thread. *)

(* It leaves clients and the network thread's table alone. *)
LEMMA LogicFrame ==
  ASSUME Inv, UNCHANGED <<clientVars, netVars>>
  PROVE  /\ ClientsOK' /\ NetworkOK'
         /\ SlotsDistinct' /\ SlotsAccepted' /\ ReadyHasMessage' /\ UnacceptedHasMessage'
<1>1. ClientsOK'
  BY DEF Inv, TypeOK, ClientsOK, clientVars
<1>2. UNCHANGED <<inbox, arrived, accepted, idCounter, table, ready, nphase>> /\ Occupied' = Occupied
  BY DEF clientVars, netVars, Occupied
<1>3. NetworkOK'
  BY <1>2 DEF Inv, TypeOK, NetworkOK
<1>4. SlotsDistinct' /\ SlotsAccepted'
  BY <1>2 DEF Inv, SlotsDistinct, SlotsAccepted
<1> QED
  BY <1>1, <1>2, <1>3, <1>4 DEF Inv, ReadyHasMessage, UnacceptedHasMessage

(* What the logic thread takes from a queue. *)
LEMMA LogicTakesType ==
  ASSUME Inv, NEW q \in {"new", "mreq", "lost", "got", "upd"}, LogicTakes(q)
  PROVE  /\ toLogic' \in LogicQueues
         /\ q \in {"new", "mreq", "lost"} => Head(toLogic[q]) \in Peers
         /\ q = "got" => Head(toLogic[q]) \in [id : Peers, path : Files, chunk : Nat]
         /\ q = "upd" => Head(toLogic[q]) \in [id : Peers, upd : Update]
         /\ UNCHANGED <<clientVars, netVars, lphase>>
<1>1. /\ toLogic \in LogicQueues /\ toLogic[q] # <<>>
      /\ toLogic' = [toLogic EXCEPT ![q] = Tail(@)]
      /\ UNCHANGED <<clientVars, netVars, lphase>>
  BY DEF Inv, TypeOK, LogicTakes
<1>2. CASE q \in {"new", "mreq", "lost"}
  <2>1. toLogic[q] \in Seq(Peers)
    BY <1>1, <1>2 DEF LogicQueues
  <2>2. Head(toLogic[q]) \in Peers /\ Tail(toLogic[q]) \in Seq(Peers)
    BY <1>1, <2>1, TailType
  <2> QED
    BY <1>1, <1>2, <2>2 DEF LogicQueues
<1>3. CASE q = "got"
  <2>1. toLogic[q] \in Seq([id : Peers, path : Files, chunk : Nat])
    BY <1>1, <1>3 DEF LogicQueues
  <2>2. /\ Head(toLogic[q]) \in [id : Peers, path : Files, chunk : Nat]
        /\ Tail(toLogic[q]) \in Seq([id : Peers, path : Files, chunk : Nat])
    BY <1>1, <2>1, TailType
  <2> QED
    BY <1>1, <1>3, <2>2 DEF LogicQueues
<1>4. CASE q = "upd"
  <2>1. toLogic[q] \in Seq([id : Peers, upd : Update])
    BY <1>1, <1>4 DEF LogicQueues
  <2>2. /\ Head(toLogic[q]) \in [id : Peers, upd : Update]
        /\ Tail(toLogic[q]) \in Seq([id : Peers, upd : Update])
    BY <1>1, <2>1, TailType
  <2> QED
    BY <1>1, <1>4, <2>2 DEF LogicQueues
<1> QED
  BY <1>2, <1>3, <1>4

(* A broadcast is pushed, whatever the item. *)
LEMMA PushesType ==
  ASSUME NEW n \in NetQueues, NEW D \in SUBSET Peers
  PROVE  /\ [n EXCEPT !.add = Push(@, [to |-> D])] \in NetQueues
         /\ [n EXCEPT !.rem = Push(@, [to |-> D])] \in NetQueues
         /\ [n EXCEPT !.mft = Push(@, [to |-> D])] \in NetQueues
         /\ \A F \in SUBSET Entries :
              [n EXCEPT !.mst = Push(@, [to |-> D, fs |-> F])] \in NetQueues
         /\ \A id \in Peers, u \in Update :
              [n EXCEPT !.fsu = Push(@, [to |-> D, from |-> id, upd |-> u])] \in NetQueues
         /\ \A id \in Peers, p \in Files, c \in Nat :
              [n EXCEPT !.acq = Push(@, [to |-> D, from |-> id, path |-> p, chunk |-> c])]
                \in NetQueues
<1>1. \A q \in {"add", "rem", "mft"} : Push(n[q], [to |-> D]) \in Seq([to : SUBSET Peers])
  BY PushType DEF NetQueues
<1>2. ASSUME NEW F \in SUBSET Entries
      PROVE  [n EXCEPT !.mst = Push(@, [to |-> D, fs |-> F])] \in NetQueues
  <2>1. Push(n.mst, [to |-> D, fs |-> F]) \in Seq([to : SUBSET Peers, fs : SUBSET Entries])
    BY PushType DEF NetQueues
  <2> QED
    BY <2>1 DEF NetQueues
<1>3. ASSUME NEW id \in Peers, NEW u \in Update
      PROVE  [n EXCEPT !.fsu = Push(@, [to |-> D, from |-> id, upd |-> u])] \in NetQueues
  <2>1. Push(n.fsu, [to |-> D, from |-> id, upd |-> u])
          \in Seq([to : SUBSET Peers, from : Peers, upd : Update])
    BY PushType DEF NetQueues
  <2> QED
    BY <2>1 DEF NetQueues
<1>4. ASSUME NEW id \in Peers, NEW p \in Files, NEW c \in Nat
      PROVE  [n EXCEPT !.acq = Push(@, [to |-> D, from |-> id, path |-> p, chunk |-> c])]
               \in NetQueues
  <2>1. Push(n.acq, [to |-> D, from |-> id, path |-> p, chunk |-> c])
          \in Seq([to : SUBSET Peers, from : Peers, path : Files, chunk : Nat])
    BY PushType DEF NetQueues
  <2> QED
    BY <2>1 DEF NetQueues
<1> QED
  BY <1>1, <1>2, <1>3, <1>4 DEF NetQueues

LEMMA RosterType ==
  ASSUME NEW ids \in Seq(Peers \cup {-1})
  PROVE  Roster(ids) \in SUBSET Peers
BY DEF Roster

LEMMA AddedPeerType ==
  ASSUME LogicOK, NEW id \in Peers
  PROVE  AddedPeer(id) \in Seq(Peers \cup {-1})
<1> DEFINE Fit == {i \in DOMAIN peerIDs : peerIDs[i] \in {-1, id}}
           S == Peers \cup {-1}
<1>1. peerIDs \in Seq(S) /\ id \in S /\ -1 \in S
  BY DEF LogicOK
<1> HIDE DEF S
<1>2. \A k : [peerIDs EXCEPT ![k] = id] \in Seq(S)
  BY <1>1, Replaced
<1>3. [i \in 1 .. Len(peerIDs) |-> IF i = 1 THEN id ELSE -1] \in Seq(S)
  BY <1>1
<1>4. peerIDs \o [i \in 1 .. Len(peerIDs) |-> IF i = 1 THEN id ELSE -1] \in Seq(S)
  BY <1>1, <1>3
<1> QED
  BY <1>2, <1>4 DEF AddedPeer, S

LEMMA LogicNextInv ==
  ASSUME Inv, LogicNext
  PROVE  Inv'
<1>1. UNCHANGED <<clientVars, netVars, toLogic, toNet, peerIDs, numberOfEntries, fs, ft, crash>>
  BY DEF LogicNext
<1>2. lphase' \in {"new", "mreq", "lost", "got", "upd"}
  BY DEF LogicNext, After, LogicPhases, Inv, TypeOK, LogicOK
<1>3. LogicOK' /\ toLogic' \in LogicQueues /\ toNet' \in NetQueues
  BY <1>1, <1>2 DEF Inv, TypeOK, LogicOK
<1> QED
  BY <1>1, <1>3, LogicFrame DEF Inv, TypeOK

LEMMA LogicNewClientInv ==
  ASSUME Inv, LogicNewClient
  PROVE  Inv'
<1> DEFINE id == Head(toLogic.new)
<1>1. LogicTakes("new") /\ LogicOK /\ toNet \in NetQueues
  BY DEF LogicNewClient, Inv, TypeOK
<1>2. id \in Peers /\ toLogic' \in LogicQueues /\ UNCHANGED <<clientVars, netVars, lphase>>
  BY <1>1, LogicTakesType
<1>3. peerIDs' = AddedPeer(id)
  BY DEF LogicNewClient
<1>4. peerIDs' \in Seq(Peers \cup {-1})
  BY <1>1, <1>2, <1>3, AddedPeerType
<1>5. LogicOK'
  BY <1>1, <1>2, <1>4 DEF LogicOK, LogicNewClient
<1>6. Registered' \ {id} \in SUBSET Peers
  BY <1>4, RosterType DEF Registered
<1>7. toNet' \in NetQueues
  BY <1>1, <1>6, PushesType DEF LogicNewClient
<1> QED
  BY <1>2, <1>5, <1>7, LogicFrame DEF Inv, TypeOK

LEMMA LogicMasterRequestInv ==
  ASSUME Inv, LogicMasterRequest
  PROVE  Inv'
<1> DEFINE id == Head(toLogic.mreq)
           withMaster == [toNet EXCEPT !.mst = Push(@, [to |-> {id}, fs |-> fs])]
<1>1. LogicTakes("mreq") /\ LogicOK /\ toNet \in NetQueues
  BY DEF LogicMasterRequest, Inv, TypeOK
<1>2. id \in Peers /\ toLogic' \in LogicQueues /\ UNCHANGED <<clientVars, netVars, lphase>>
  BY <1>1, LogicTakesType
<1>3. LogicOK'
  BY <1>1, <1>2 DEF LogicOK, LogicMasterRequest
<1>4. withMaster \in NetQueues
  BY <1>1, <1>2, PushesType DEF LogicOK
<1>5. toNet' = [withMaster EXCEPT !.mft = Push(@, [to |-> {id} \cap Connected])]
  BY <1>1 DEF LogicMasterRequest, NetQueues
<1> HIDE DEF withMaster
<1>6. toNet' \in NetQueues
  BY <1>2, <1>4, <1>5, PushesType
<1> QED
  BY <1>2, <1>3, <1>6, LogicFrame DEF Inv, TypeOK

LEMMA LogicIgnoresGotInv ==
  ASSUME Inv, LogicIgnoresGot
  PROVE  Inv'
<1>1. LogicTakes("got") /\ LogicOK /\ toNet \in NetQueues
  BY DEF LogicIgnoresGot, Inv, TypeOK
<1>2. toLogic' \in LogicQueues /\ UNCHANGED <<clientVars, netVars, lphase>>
  BY <1>1, LogicTakesType
<1>3. LogicOK' /\ toNet' \in NetQueues
  BY <1>1, <1>2 DEF LogicOK, LogicIgnoresGot
<1> QED
  BY <1>2, <1>3, LogicFrame DEF Inv, TypeOK

LEMMA LogicClientGotInv ==
  ASSUME Inv, LogicClientGot
  PROVE  Inv'
<1> DEFINE g == Head(toLogic.got)
<1>1. LogicTakes("got") /\ LogicOK /\ toNet \in NetQueues
  BY DEF LogicClientGot, Inv, TypeOK
<1>2. /\ g \in [id : Peers, path : Files, chunk : Nat]
      /\ toLogic' \in LogicQueues /\ UNCHANGED <<clientVars, netVars, lphase>>
  BY <1>1, LogicTakesType
<1>3. ft' \in FileTables /\ crash' \in {"none", "stray_owner", "got_assert", crash}
  <2>1. CASE HasChunk(ft, g.path, g.chunk)
    <3>1. ft' = SetOwner(ft, g.path, g.chunk, g.id) /\ crash' = crash
      BY <2>1 DEF LogicClientGot
    <3> QED
      BY <1>1, <1>2, <2>1, <3>1, SetOwnerType DEF HasChunk, LogicOK
  <2>2. CASE ~HasChunk(ft, g.path, g.chunk)
    BY <1>1, <2>2 DEF LogicClientGot, LogicOK
  <2> QED
    BY <2>1, <2>2
<1>4. LogicOK'
  BY <1>1, <1>2, <1>3 DEF LogicOK, LogicClientGot
<1>5. Reachable(g.id) \in SUBSET Peers
  BY <1>1, RosterType DEF Reachable, Registered, LogicOK
<1>6. toNet' \in NetQueues
  <2>1. toNet' = [toNet EXCEPT !.acq = Push(@,
          [to |-> Reachable(g.id), from |-> g.id, path |-> g.path, chunk |-> g.chunk])]
    BY DEF LogicClientGot
  <2>2. g.id \in Peers /\ g.path \in Files /\ g.chunk \in Nat
    BY <1>2
  <2> HIDE DEF g
  <2> QED
    BY <1>1, <1>5, <2>1, <2>2, PushesType
<1> QED
  BY <1>2, <1>4, <1>6, LogicFrame DEF Inv, TypeOK

(* An update of the file system and of the file table. *)
LEMMA UpdateType ==
  ASSUME LogicOK, NEW id \in Peers, NEW u \in Update
  PROVE  /\ PlusEquals(MinusEquals(fs, u.dels), u.adds) \in SUBSET Entries
         /\ RemoveFileSystem(ft, u.dels) \in FileTables
         /\ AddFileSystem(RemoveFileSystem(ft, u.dels), u.adds, id) \in FileTables
<1>1. u.adds \in SUBSET Entries
  BY DEF Update
<1>2. RemoveFileSystem(ft, u.dels) \in FileTables
  BY RemovePathsType DEF RemoveFileSystem, LogicOK
<1> QED
  BY <1>1, <1>2, AddFileSystemType DEF PlusEquals, MinusEquals, LogicOK

LEMMA LogicClientUpdateInv ==
  ASSUME Inv, LogicClientUpdate
  PROVE  Inv'
<1> DEFINE id == Head(toLogic.upd).id
           u == Head(toLogic.upd).upd
           rest == MinusEquals(fs, u.dels)
<1>1. LogicTakes("upd") /\ LogicOK /\ toNet \in NetQueues
  BY DEF LogicClientUpdate, Inv, TypeOK
<1>2. /\ id \in Peers /\ u \in Update
      /\ toLogic' \in LogicQueues /\ UNCHANGED <<clientVars, netVars, lphase>>
  BY <1>1, LogicTakesType
<1>3. CASE PlusDefined(rest, u.adds)
  <2>1. /\ fs' = PlusEquals(rest, u.adds)
        /\ ft' = AddFileSystem(RemoveFileSystem(ft, u.dels), u.adds, id)
        /\ toNet' = [toNet EXCEPT !.fsu = Push(@,
                       [to |-> Reachable(id), from |-> id, upd |-> u])]
        /\ UNCHANGED <<crash, peerIDs, numberOfEntries>>
    BY <1>3 DEF LogicClientUpdate
  <2>2. LogicOK'
    BY <1>1, <1>2, <2>1, UpdateType DEF LogicOK
  <2>3. Reachable(id) \in SUBSET Peers
    BY <1>1, RosterType DEF Reachable, Registered, LogicOK
  <2> HIDE DEF id, u
  <2>4. toNet' \in NetQueues
    BY <1>1, <1>2, <2>1, <2>3, PushesType
  <2> QED
    BY <1>2, <2>2, <2>4, LogicFrame DEF Inv, TypeOK
<1>4. CASE ~PlusDefined(rest, u.adds)
  <2>1. LogicOK' /\ toNet' \in NetQueues
    BY <1>1, <1>2, <1>4 DEF LogicClientUpdate, LogicOK
  <2> QED
    BY <1>2, <2>1, LogicFrame DEF Inv, TypeOK
<1> QED
  BY <1>3, <1>4

(* removePeerFromTable *)
LEMMA RemovesPeerType ==
  ASSUME LogicOK, NEW id \in Peers, RemovesPeer(id)
  PROVE  peerIDs' \in Seq(Peers \cup {-1}) /\ numberOfEntries' \in Int
<1> DEFINE S == Peers \cup {-1}
           At == {i \in DOMAIN peerIDs : peerIDs[i] = id}
<1>1. peerIDs \in Seq(S) /\ -1 \in S /\ numberOfEntries \in Int
  BY DEF LogicOK
<1> HIDE DEF S
<1>2. \A k : [peerIDs EXCEPT ![k] = -1] \in Seq(S)
  BY <1>1, Replaced
<1>3. peerIDs' \in Seq(S)
  BY <1>1, <1>2 DEF RemovesPeer
<1>4. numberOfEntries' \in {numberOfEntries, numberOfEntries - 1}
  BY DEF RemovesPeer
<1> QED
  BY <1>1, <1>3, <1>4 DEF S

(* prune_filesystem *)
LEMMA PrunesType ==
  ASSUME LogicOK, NEW owned \in FileTables, NEW n \in NetQueues, toNet \in NetQueues,
         Prunes(owned, n), Registered' \in SUBSET Peers
  PROVE  /\ fs' \in SUBSET Entries /\ ft' \in FileTables /\ toNet' \in NetQueues
         /\ crash' \in {crash, "prune_assert"}
<1> DEFINE gone == Ownerless(owned)
<1>1. CASE RemoveDefined(fs, gone)
  <2>1. /\ fs' \in RemovedAtPaths(fs, gone)
        /\ ft' = Pruned(owned, gone)
        /\ toNet' = IF gone = {} THEN n
                    ELSE [n EXCEPT !.mst = Push(@, [to |-> Registered', fs |-> fs'])]
        /\ crash' = crash
    BY <1>1 DEF Prunes
  <2>2. fs' \in SUBSET Entries
    BY <2>1 DEF RemovedAtPaths, LogicOK
  <2>3. ft' \in FileTables
    BY <2>1, RemovePathsType DEF Pruned
  <2> HIDE DEF gone
  <2>4. toNet' \in NetQueues
    BY <2>1, <2>2, PushesType
  <2> QED
    BY <2>1, <2>2, <2>3, <2>4
<1>2. CASE ~RemoveDefined(fs, gone)
  BY <1>2 DEF Prunes, LogicOK
<1> QED
  BY <1>1, <1>2

LEMMA LogicLostClientInv ==
  ASSUME Inv, LogicLostClient
  PROVE  Inv'
<1> DEFINE id == Head(toLogic.lost)
           n == [toNet EXCEPT !.rem = Push(@, [to |-> Registered' \ {id}])]
<1>1. LogicTakes("lost") /\ LogicOK /\ toNet \in NetQueues
  BY DEF LogicLostClient, Inv, TypeOK
<1>2. /\ id \in Peers
      /\ toLogic' \in LogicQueues /\ UNCHANGED <<clientVars, netVars, lphase>>
  BY <1>1, LogicTakesType
<1>3. RemovesPeer(id) /\ Prunes(RemovePeer(ft, id), n)
  BY DEF LogicLostClient
<1>4. peerIDs' \in Seq(Peers \cup {-1}) /\ numberOfEntries' \in Int
  BY <1>1, <1>2, <1>3, RemovesPeerType
<1>5. Registered' \in SUBSET Peers
  BY <1>4, RosterType DEF Registered
<1>6. n \in NetQueues
  BY <1>1, <1>5, PushesType
<1>7. RemovePeer(ft, id) \in FileTables
  BY <1>1, RemovePeerType DEF LogicOK
<1> HIDE DEF n
<1>8. /\ fs' \in SUBSET Entries /\ ft' \in FileTables /\ toNet' \in NetQueues
      /\ crash' \in {crash, "prune_assert"}
  BY <1>1, <1>3, <1>5, <1>6, <1>7, PrunesType
<1>9. LogicOK'
  BY <1>1, <1>2, <1>4, <1>8 DEF LogicOK
<1> QED
  BY <1>2, <1>8, <1>9, LogicFrame DEF Inv, TypeOK

LEMMA LogicInv ==
  ASSUME Inv, Logic
  PROVE  Inv'
BY LogicNextInv, LogicNewClientInv, LogicMasterRequestInv, LogicLostClientInv,
   LogicIgnoresGotInv, LogicClientGotInv, LogicClientUpdateInv DEF Logic

-----------------------------------------------------------------------------
(* The network thread. *)

LEMMA ConnectedType ==
  ASSUME NetworkOK
  PROVE  Connected \in SUBSET Peers
BY DEF NetworkOK, Connected, Occupied

(* A step that serves queue items leaves the table and the sockets alone. *)
LEMMA SendFrame ==
  ASSUME Inv, UNCHANGED <<arrived, open, inbox, synced, replica, heard, edits, gots>>,
         UNCHANGED <<accepted, idCounter, table, ready, toLogic, logicVars>>,
         diffs' \in [Sockets -> Seq(Update)], masters' \in [Sockets -> Seq(SUBSET Entries)],
         told' \in [Sockets -> SUBSET Peers],
         nphase' \in {"select", "acq", "fsu", "add", "rem", "mst", "mft"},
         crash' \in {crash, "null_client"}, toNet' \in NetQueues
  PROVE  Inv'
<1>1. Occupied' = Occupied /\ UNCHANGED <<peerIDs, numberOfEntries, fs, ft, lphase>>
  BY DEF Occupied, logicVars
<1>2. ClientsOK' /\ NetworkOK' /\ LogicOK'
  BY <1>1 DEF Inv, TypeOK, ClientsOK, NetworkOK, LogicOK
<1>3. SlotsDistinct' /\ SlotsAccepted'
  BY <1>1 DEF Inv, SlotsDistinct, SlotsAccepted
<1>4. ReadyHasMessage' /\ UnacceptedHasMessage'
  BY DEF Inv, ReadyHasMessage, UnacceptedHasMessage
<1> QED
  BY <1>2, <1>3, <1>4 DEF Inv, TypeOK

LEMMA NetPopsType ==
  ASSUME Inv, NEW q \in {"acq", "fsu", "add", "rem", "mst", "mft"}, NEW d, NetPops(q, d)
  PROVE  /\ toNet' \in NetQueues /\ nphase = q
         /\ UNCHANGED <<arrived, open, inbox, synced, replica, heard, edits, gots>>
         /\ UNCHANGED <<accepted, idCounter, table, ready, toLogic, logicVars>>
<1>1. toNet \in NetQueues /\ q \in DOMAIN toNet
  BY DEF Inv, TypeOK, NetQueues
<1> QED
  BY <1>1, PoppedType DEF NetPops

LEMMA NetNextInv ==
  ASSUME Inv, NetNext
  PROVE  Inv'
<1>1. nphase \in {"acq", "fsu", "add", "rem", "mst", "mft"}
  BY DEF NetNext, Inv, TypeOK, NetQueues
<1>2. nphase' \in {"select", "fsu", "add", "rem", "mst", "mft"}
  BY <1>1 DEF NetNext, After, NetPhases
<1> QED
  BY <1>2, SendFrame DEF NetNext, clientVars, Inv, TypeOK, ClientsOK

LEMMA NetSendsNothingInv ==
  ASSUME Inv, NEW d \in Peers, NetSendsAcq(d) \/ NetSendsMasterFT(d)
  PROVE  Inv'
BY NetPopsType, SendFrame DEF NetSendsAcq, NetSendsMasterFT, Inv, TypeOK, ClientsOK

LEMMA NetSendsFSUpdateInv ==
  ASSUME Inv, NEW d \in Peers, NetSendsFSUpdate(d)
  PROVE  Inv'
<1>1. NetPops("fsu", d) /\ toNet \in NetQueues /\ toNet.fsu # <<>>
  BY DEF NetSendsFSUpdate, NetPops, Inv, TypeOK
<1>2. Head(toNet.fsu).upd \in Update
  <2>1. toNet.fsu \in Seq([to : SUBSET Peers, from : Peers, upd : Update])
    BY <1>1 DEF NetQueues
  <2>2. Head(toNet.fsu) \in [to : SUBSET Peers, from : Peers, upd : Update]
    BY <1>1, <2>1, TailType
  <2> QED
    BY <2>2
<1>3. \A s \in Sockets : Append(diffs[s], Head(toNet.fsu).upd) \in Seq(Update)
  BY <1>2 DEF Inv, TypeOK, ClientsOK
<1>4. diffs' \in [Sockets -> Seq(Update)]
  BY <1>3 DEF NetSendsFSUpdate, Inv, TypeOK, ClientsOK
<1>5. nphase' \in {"fsu", "add"}
  BY <1>1, NetPopsType DEF NetSendsFSUpdate
<1> QED
  BY <1>1, <1>4, <1>5, NetPopsType, SendFrame DEF NetSendsFSUpdate, Inv, TypeOK, ClientsOK

LEMMA NetSendsPeerTableInv ==
  ASSUME Inv, NEW d \in Peers, NEW q \in {"add", "rem"}, NetSendsPeerTable(q, d)
  PROVE  Inv'
<1>1. NetPops(q, d) /\ UNCHANGED <<diffs, masters, crash>>
  BY DEF NetSendsPeerTable
<1>2. told' \in [Sockets -> SUBSET Peers]
  BY ConnectedType DEF NetSendsPeerTable, ToldPeers, Inv, TypeOK, ClientsOK
<1>3. nphase' \in {"add", "rem", "mst"}
  BY <1>1, NetPopsType DEF NetSendsPeerTable, After, NetPhases
<1> QED
  BY <1>1, <1>2, <1>3, NetPopsType, SendFrame DEF Inv, TypeOK, ClientsOK

LEMMA AppendedType ==
  ASSUME NEW S, NEW D, NEW m \in [D -> Seq(S)], NEW k, NEW e \in S
  PROVE  [m EXCEPT ![k] = Append(@, e)] \in [D -> Seq(S)]
<1>1. \A x \in D : Append(m[x], e) \in Seq(S)
  BY AppendProperties
<1> QED
  BY <1>1

LEMMA NetSendsMasterInv ==
  ASSUME Inv, NEW d \in Peers, NetSendsMaster(d)
  PROVE  Inv'
<1>1. /\ NetPops("mst", d) /\ toNet \in NetQueues /\ toNet.mst # <<>>
      /\ UNCHANGED <<nphase, diffs, told>>
  BY DEF NetSendsMaster, NetPops, Inv, TypeOK
<1>2. Head(toNet.mst).fs \in SUBSET Entries
  <2>1. toNet.mst \in Seq([to : SUBSET Peers, fs : SUBSET Entries])
    BY <1>1 DEF NetQueues
  <2>2. Head(toNet.mst) \in [to : SUBSET Peers, fs : SUBSET Entries]
    BY <1>1, <2>1, TailType
  <2> QED
    BY <2>2
<1>3. masters' \in [Sockets -> Seq(SUBSET Entries)]
  <2> DEFINE sent == Head(toNet.mst).fs
             k == SockOf(d)
  <2>1. \/ masters' = [masters EXCEPT ![k] = Append(@, sent)]
        \/ masters' = masters
    BY DEF NetSendsMaster
  <2>2. sent \in SUBSET Entries /\ masters \in [Sockets -> Seq(SUBSET Entries)]
    BY <1>2 DEF Inv, TypeOK, ClientsOK
  <2> HIDE DEF sent, k
  <2>3. [masters EXCEPT ![k] = Append(@, sent)] \in [Sockets -> Seq(SUBSET Entries)]
    BY ONLY <2>2, AppendedType, Zenon
  <2> QED
    BY <2>1, <2>2, <2>3, Zenon
<1>4. crash' \in {crash, "null_client"}
  BY DEF NetSendsMaster
<1> QED
  BY <1>1, <1>3, <1>4, NetPopsType, SendFrame DEF Inv, TypeOK, ClientsOK

LEMMA NetSelectInv ==
  ASSUME Inv, NetSelect
  PROVE  Inv'
<1>1. /\ ready' = {i \in Occupied : inbox[table[i].sock] # <<>>}
      /\ nphase' = IF ready' = {} THEN "acq" ELSE "peers"
      /\ UNCHANGED <<arrived, open, inbox, synced, replica, diffs, masters, heard, edits, gots>>
      /\ UNCHANGED <<toNet, peerIDs, numberOfEntries, fs, ft, lphase, crash>>
  BY DEF NetSelect, logicVars
<1>2. LogicOK' /\ toNet' \in NetQueues
  BY <1>1 DEF Inv, TypeOK, LogicOK
<1>3. CASE accepted < arrived
  <2> DEFINE i == CHOOSE i \in Slots \ Occupied : \A j \in Slots \ Occupied : i <= j
             s == accepted + 1
  <2>1. /\ accepted' = s /\ idCounter' = idCounter + 1
        /\ table' = [table EXCEPT ![i] = [id |-> idCounter, sock |-> s]]
        /\ toLogic' = [toLogic EXCEPT !.new = Append(@, idCounter)]
        /\ told' = ToldPeers(s, Connected')
    BY <1>3 DEF NetSelect, NewId
  <2> HIDE DEF i
  <2>2. s \in Peers /\ idCounter = s /\ accepted \in Nat /\ arrived \in Nat
    BY <1>3, PeersAreNumbers DEF Inv, TypeOK, ClientsOK, NetworkOK
  <2>3. table' \in [Slots -> [id : Peers, sock : Sockets] \cup {NoPeer}]
    BY <2>1, <2>2 DEF Inv, TypeOK, NetworkOK, Sockets
  <2>4. /\ \A j \in Slots : table'[j] = IF j = i THEN [id |-> s, sock |-> s] ELSE table[j]
        /\ Occupied' = Occupied \cup (Slots \cap {i})
    <3>1. \A j \in Slots : table'[j] = IF j = i THEN [id |-> s, sock |-> s] ELSE table[j]
      BY <2>1, <2>2 DEF Inv, TypeOK, NetworkOK
    <3>2. [id |-> s, sock |-> s] # NoPeer
      BY <2>2, PeersAreNumbers DEF NoPeer
    <3> QED
      BY <3>1, <3>2 DEF Occupied
  <2>5. NetworkOK'
    <3>1. accepted' \in 0 .. arrived' /\ idCounter' = accepted' + 1
      BY <1>1, <1>3, <2>1, <2>2
    <3>2. ready' \subseteq Occupied'
      BY <1>1, <2>4
    <3> QED
      BY <1>1, <2>3, <3>1, <3>2 DEF NetworkOK
  <2>6. ClientsOK'
    <3>1. told' \in [Sockets -> SUBSET Peers]
      <4>1. Connected' \in SUBSET Peers
        BY <2>3 DEF Connected, Occupied
      <4> QED
        BY <2>1, <4>1 DEF ToldPeers, Inv, TypeOK, ClientsOK
    <3> QED
      BY <1>1, <3>1 DEF Inv, TypeOK, ClientsOK
  <2>7. toLogic' \in LogicQueues
    <3>1. Append(toLogic.new, idCounter) \in Seq(Peers)
      BY <2>2 DEF Inv, TypeOK, LogicQueues
    <3> QED
      BY <2>1, <3>1 DEF Inv, TypeOK, LogicQueues
  <2>8. \A j \in Occupied : table[j].id < s /\ table[j].sock < s
    BY <2>2, PeersAreNumbers DEF Inv, SlotsAccepted, TypeOK, NetworkOK, Occupied, Sockets
  <2>9. SlotsDistinct' /\ SlotsAccepted'
    <3>1. ASSUME NEW j \in Occupied'
          PROVE  \/ j = i /\ table'[j] = [id |-> s, sock |-> s]
                 \/ j # i /\ j \in Occupied /\ table'[j] = table[j]
      BY <2>4 DEF Occupied
    <3>2. \A j \in Occupied : table[j].id \in Nat /\ table[j].sock \in Nat
      BY PeersAreNumbers DEF Inv, TypeOK, NetworkOK, Occupied, Sockets
    <3>3. SlotsAccepted'
      BY <2>1, <2>2, <2>8, <3>1, <3>2 DEF SlotsAccepted
    <3>4. SlotsDistinct'
      BY <2>2, <2>8, <3>1, <3>2 DEF Inv, SlotsDistinct
    <3> QED
      BY <3>3, <3>4
  <2>10. ReadyHasMessage'
    <3>1. inbox[s] # <<>>
      BY <1>3, <2>2 DEF Inv, UnacceptedHasMessage, Sockets
    <3> QED
      BY <1>1, <2>4, <3>1 DEF ReadyHasMessage, Occupied
  <2>11. UnacceptedHasMessage'
    BY <1>1, <2>1, <2>2, PeersAreNumbers DEF Inv, UnacceptedHasMessage, Sockets
  <2> QED
    BY <1>2, <2>5, <2>6, <2>7, <2>9, <2>10, <2>11 DEF Inv, TypeOK
<1>4. CASE ~(accepted < arrived)
  <2>1. UNCHANGED <<accepted, table, idCounter, toLogic, told>> /\ Occupied' = Occupied
    BY <1>4 DEF NetSelect, Occupied
  <2>2. ClientsOK' /\ NetworkOK' /\ toLogic' \in LogicQueues
    BY <1>1, <2>1 DEF Inv, TypeOK, ClientsOK, NetworkOK
  <2>3. SlotsDistinct' /\ SlotsAccepted'
    BY <2>1 DEF Inv, SlotsDistinct, SlotsAccepted
  <2>4. ReadyHasMessage' /\ UnacceptedHasMessage'
    BY <1>1, <2>1 DEF Inv, ReadyHasMessage, UnacceptedHasMessage
  <2> QED
    BY <1>2, <2>2, <2>3, <2>4 DEF Inv, TypeOK
<1> QED
  BY <1>3, <1>4

(* What the logic thread is notified of keeps the type of its queues. *)
LEMMA NotifiedType ==
  ASSUME toLogic \in LogicQueues, NEW id \in Peers, NEW m \in Message
  PROVE  Notified(id, m) \in LogicQueues
<1>1. CASE m.type \in {"REQUEST_MASTER", "EOF"}
  <2>1. Append(toLogic.mreq, id) \in Seq(Peers) /\ Append(toLogic.lost, id) \in Seq(Peers)
    BY DEF LogicQueues
  <2> QED
    BY <1>1, <2>1 DEF LogicQueues, Notified
<1>2. CASE m.type = "CHUNK_GOT"
  <2>1. [id |-> id, path |-> m.path, chunk |-> m.chunk] \in [id : Peers, path : Files, chunk : Nat]
    BY <1>2 DEF Message
  <2>2. Append(toLogic.got, [id |-> id, path |-> m.path, chunk |-> m.chunk])
          \in Seq([id : Peers, path : Files, chunk : Nat])
    BY <2>1 DEF LogicQueues
  <2> QED
    BY <1>2, <2>2 DEF LogicQueues, Notified
<1>3. CASE m.type = "CLIENT_UPDATE"
  <2>1. [id |-> id, upd |-> m.upd] \in [id : Peers, upd : Update]
    BY <1>3 DEF Message
  <2>2. Append(toLogic.upd, [id |-> id, upd |-> m.upd]) \in Seq([id : Peers, upd : Update])
    BY <2>1 DEF LogicQueues
  <2> QED
    BY <1>3, <2>2 DEF LogicQueues, Notified
<1>4. m.type \in {"REQUEST_MASTER", "EOF", "CHUNK_GOT", "CLIENT_UPDATE"}
  BY DEF Message
<1> QED
  BY <1>1, <1>2, <1>3, <1>4

LEMMA NetHandlePeerInv ==
  ASSUME Inv, NetHandlePeer
  PROVE  Inv'
<1>1. /\ nphase' = IF ready' = {} THEN "acq" ELSE "peers"
      /\ UNCHANGED <<arrived, open, synced, replica, diffs, masters, heard, told, edits, gots>>
      /\ UNCHANGED <<accepted, idCounter, toNet, peerIDs, numberOfEntries, fs, ft, lphase, crash>>
  BY DEF NetHandlePeer, logicVars
<1>2. PICK i \in ready :
        LET s == table[i].sock
            m == Head(inbox[s])
        IN  /\ toLogic' = Notified(table[i].id, m)
            /\ inbox' = [inbox EXCEPT ![s] = Tail(@)]
            /\ table' = IF m.type = "EOF" THEN Freed(i) ELSE table
            /\ ready' = ready \ {i}
  BY DEF NetHandlePeer
<1> DEFINE s == table[i].sock
           m == Head(inbox[s])
<1>3. /\ i \in Occupied /\ table[i] \in [id : Peers, sock : Sockets]
      /\ s \in Sockets /\ inbox[s] \in Seq(Message) /\ inbox[s] # <<>>
  <2>1. i \in Occupied /\ table[i] \in [id : Peers, sock : Sockets]
    BY DEF Inv, TypeOK, NetworkOK, Occupied
  <2>2. s \in Sockets
    BY <2>1
  <2> QED
    BY <2>1, <2>2 DEF Inv, TypeOK, ClientsOK, ReadyHasMessage
<1>4. m \in Message /\ Tail(inbox[s]) \in Seq(Message)
  BY <1>3, TailType
<1>5. toLogic' \in LogicQueues
  <2>1. table[i].id \in Peers
    BY <1>3
  <2> QED
    BY <1>2, <1>4, <2>1, NotifiedType DEF Inv, TypeOK
<1>6. ClientsOK'
  <2>1. inbox' \in [Sockets -> Seq(Message)]
    BY <1>2, <1>4 DEF Inv, TypeOK, ClientsOK
  <2> QED
    BY <1>1, <2>1 DEF Inv, TypeOK, ClientsOK
<1>7. /\ \A j \in Slots : table'[j] \in {table[j], NoPeer} /\ (j # i => table'[j] = table[j])
      /\ table' \in [Slots -> [id : Peers, sock : Sockets] \cup {NoPeer}]
  BY <1>2 DEF Freed, Inv, TypeOK, NetworkOK
<1>8. Occupied' \subseteq Occupied /\ ready \ {i} \subseteq Occupied'
      /\ \A j \in Occupied' : table'[j] = table[j]
  BY <1>7 DEF Occupied, Inv, TypeOK, NetworkOK
<1>9. NetworkOK'
  BY <1>1, <1>2, <1>7, <1>8 DEF Inv, TypeOK, NetworkOK
<1>10. SlotsDistinct' /\ SlotsAccepted'
  BY <1>1, <1>8 DEF Inv, SlotsDistinct, SlotsAccepted
<1>11. ReadyHasMessage'
  <2> SUFFICES ASSUME NEW j \in ready'
               PROVE  inbox'[table'[j].sock] # <<>>
    BY DEF ReadyHasMessage
  <2>1. j \in ready /\ j # i /\ j \in Occupied /\ table'[j] = table[j]
    BY <1>2, <1>8 DEF Inv, TypeOK, NetworkOK
  <2>2. table[j].sock # s
    BY <1>3, <2>1 DEF Inv, SlotsDistinct
  <2>3. table[j].sock \in Sockets
    BY <2>1 DEF Inv, TypeOK, NetworkOK, Occupied
  <2>4. inbox'[table[j].sock] = inbox[table[j].sock]
    BY <1>2, <2>2, <2>3 DEF Inv, TypeOK, ClientsOK
  <2> QED
    BY <2>1, <2>4 DEF Inv, ReadyHasMessage
<1>12. UnacceptedHasMessage'
  <2>1. s <= accepted
    BY <1>3 DEF Inv, SlotsAccepted
  <2>2. \A t \in Sockets : accepted < t => t # s
    <3>1. s \in Nat /\ Sockets \subseteq Nat
      BY <1>3, PeersAreNumbers DEF Sockets
    <3>2. accepted \in Int
      BY PeersAreNumbers DEF Inv, TypeOK, NetworkOK, ClientsOK
    <3> HIDE DEF s
    <3> QED
      BY <2>1, <3>1, <3>2
  <2>3. \A t \in Sockets : accepted < t => inbox'[t] = inbox[t]
    BY <1>2, <2>2 DEF Inv, TypeOK, ClientsOK
  <2> QED
    BY <1>1, <2>3 DEF Inv, UnacceptedHasMessage
<1>13. LogicOK' /\ toNet' \in NetQueues
  BY <1>1 DEF Inv, TypeOK, LogicOK
<1> QED
  BY <1>5, <1>6, <1>9, <1>10, <1>11, <1>12, <1>13 DEF Inv, TypeOK

LEMMA NetworkInv ==
  ASSUME Inv, Network
  PROVE  Inv'
BY NetSelectInv, NetHandlePeerInv, NetNextInv, NetSendsNothingInv, NetSendsFSUpdateInv,
   NetSendsPeerTableInv, NetSendsMasterInv DEF Network

-----------------------------------------------------------------------------
(* The clients. *)

(* A client's step takes no message out of an inbox. *)
LEMMA ClientFrame ==
  ASSUME Inv, ClientStep, ClientsOK', arrived <= arrived',
         \A s \in Sockets : inbox[s] # <<>> \/ (arrived < s /\ s <= arrived') => inbox'[s] # <<>>
  PROVE  Inv'
<1>1. /\ UNCHANGED <<accepted, idCounter, table, ready, nphase>> /\ Occupied' = Occupied
      /\ UNCHANGED <<toLogic, toNet, peerIDs, numberOfEntries, fs, ft, lphase, crash>>
  BY DEF ClientStep, netVars, logicVars, Occupied
<1>2. arrived \in Nat /\ arrived' \in Nat /\ accepted \in 0 .. arrived
  BY PeersAreNumbers DEF Inv, TypeOK, ClientsOK, NetworkOK
<1>3. NetworkOK' /\ LogicOK' /\ toLogic' \in LogicQueues /\ toNet' \in NetQueues
  BY <1>1, <1>2 DEF Inv, TypeOK, NetworkOK, LogicOK
<1>4. SlotsDistinct' /\ SlotsAccepted'
  BY <1>1 DEF Inv, SlotsDistinct, SlotsAccepted
<1>5. ReadyHasMessage'
  <2>1. \A i \in ready : table[i].sock \in Sockets
    BY DEF Inv, TypeOK, NetworkOK, Occupied
  <2> QED
    BY <1>1, <2>1 DEF Inv, ReadyHasMessage
<1>6. UnacceptedHasMessage'
  <2> SUFFICES ASSUME NEW s \in Sockets, accepted < s, s <= arrived'
               PROVE  inbox'[s] # <<>>
    BY <1>1 DEF UnacceptedHasMessage
  <2>1. s \in Nat
    BY PeersAreNumbers DEF Sockets
  <2>2. s <= arrived \/ arrived < s
    BY <1>2, <2>1
  <2> QED
    BY <2>2 DEF Inv, UnacceptedHasMessage
<1> QED
  BY <1>3, <1>4, <1>5, <1>6 DEF Inv, TypeOK

(* A message is appended to an inbox. *)
LEMMA InboxAppend ==
  ASSUME inbox \in [Sockets -> Seq(Message)], NEW s \in Sockets, NEW m \in Message,
         inbox' = [inbox EXCEPT ![s] = Append(@, m)]
  PROVE  /\ inbox' \in [Sockets -> Seq(Message)]
         /\ \A t \in Sockets : inbox[t] # <<>> => inbox'[t] # <<>>
<1>1. Append(inbox[s], m) \in Seq(Message) /\ Append(inbox[s], m) # <<>>
  OBVIOUS
<1> QED
  BY <1>1

LEMMA ClientConnectsInv ==
  ASSUME Inv, ClientConnects
  PROVE  Inv'
<1> DEFINE m == [type |-> "REQUEST_MASTER"]
<1>1. /\ ClientStep /\ arrived' = arrived + 1 /\ arrived < Cardinality(Peers)
      /\ open' = open \cup {arrived'}
      /\ inbox' = [inbox EXCEPT ![arrived'] = <<m>>]
      /\ UNCHANGED <<synced, replica, diffs, masters, heard, told, edits, gots>>
  BY DEF ClientConnects
<1>2. m \in Message
  BY DEF Message
<1> HIDE DEF m
<1>3. arrived \in Nat /\ arrived' \in 0 .. Cardinality(Peers) /\ arrived' \in Sockets
  BY <1>1, PeersAreNumbers DEF Inv, TypeOK, ClientsOK, Sockets
<1>4. <<m>> \in Seq(Message) /\ <<m>> # <<>>
  BY <1>2
<1>5. ClientsOK'
  <2>1. inbox' \in [Sockets -> Seq(Message)]
    BY <1>1, <1>4 DEF Inv, TypeOK, ClientsOK
  <2> QED
    BY <1>1, <1>3, <2>1 DEF Inv, TypeOK, ClientsOK
<1>6. \A s \in Sockets : inbox[s] # <<>> \/ (arrived < s /\ s <= arrived') => inbox'[s] # <<>>
  <2>1. \A s \in Sockets : arrived < s /\ s <= arrived' => s = arrived'
    BY <1>1, <1>3, PeersAreNumbers DEF Sockets
  <2> QED
    BY <1>1, <1>3, <1>4, <2>1 DEF Inv, TypeOK, ClientsOK
<1> QED
  BY <1>1, <1>3, <1>5, <1>6, ClientFrame

LEMMA SendsUpdateInv ==
  ASSUME Inv, NEW s \in Sockets, NEW new \in SUBSET Entries, SendsUpdate(s, new)
  PROVE  Inv'
<1> DEFINE m == [type |-> "CLIENT_UPDATE",
                 upd |-> [adds |-> Additions(replica[s], new),
                          dels |-> Deletions(replica[s], new)]]
<1>1. /\ ClientStep /\ edits < MaxVersion
      /\ inbox' = [inbox EXCEPT ![s] = Append(@, m)]
      /\ replica' = [replica EXCEPT ![s] = new]
      /\ edits' = edits + 1
      /\ UNCHANGED <<arrived, open, synced, diffs, masters, heard, told, gots>>
  BY DEF SendsUpdate
<1>2. m \in Message
  <2>1. replica[s] \in SUBSET Entries
    BY DEF Inv, TypeOK, ClientsOK
  <2>2. m.upd \in Update
    BY <2>1 DEF Update, Additions, Deletions
  <2> QED
    BY <2>2 DEF Message
<1> HIDE DEF m
<1>3. /\ inbox' \in [Sockets -> Seq(Message)]
      /\ \A t \in Sockets : inbox[t] # <<>> => inbox'[t] # <<>>
  BY <1>1, <1>2, InboxAppend DEF Inv, TypeOK, ClientsOK
<1>4. edits' \in 0 .. MaxVersion
  BY <1>1, FileSystemAssumption DEF Inv, TypeOK, ClientsOK
<1>5. ClientsOK'
  BY <1>1, <1>3, <1>4 DEF Inv, TypeOK, ClientsOK
<1>6. arrived \in Nat /\ arrived' = arrived /\ Sockets \subseteq Nat
  BY <1>1, PeersAreNumbers DEF Inv, TypeOK, ClientsOK, Sockets
<1>7. arrived <= arrived' /\ \A t \in Sockets : ~(arrived < t /\ t <= arrived')
  BY <1>6
<1> QED
  BY <1>1, <1>3, <1>5, <1>7, ClientFrame

LEMMA ClientWritesInv ==
  ASSUME Inv, NEW s \in Sockets, NEW p \in Files, ClientWrites(s, p)
  PROVE  Inv'
<1> DEFINE new == {e \in replica[s] : e.path # p}
                    \cup {[path |-> p, ver |-> edits + 1]}
<1>1. SendsUpdate(s, new)
  BY DEF ClientWrites
<1>2. edits + 1 \in Versions
  BY <1>1, FileSystemAssumption DEF SendsUpdate, Versions, Inv, TypeOK, ClientsOK
<1>3. [path |-> p, ver |-> edits + 1] \in Entries
  BY <1>2 DEF Entries
<1>4. new \in SUBSET Entries
  BY <1>3 DEF Inv, TypeOK, ClientsOK
<1> QED
  BY <1>1, <1>4, SendsUpdateInv

LEMMA ClientMakesDirInv ==
  ASSUME Inv, NEW s \in Sockets, NEW d \in Dirs, ClientMakesDir(s, d)
  PROVE  Inv'
<1>1. [path |-> d, ver |-> 0] \in Entries
  BY DEF Entries
<1>2. replica[s] \cup {[path |-> d, ver |-> 0]} \in SUBSET Entries
  BY <1>1 DEF Inv, TypeOK, ClientsOK
<1> QED
  BY <1>2, SendsUpdateInv DEF ClientMakesDir

LEMMA ClientRemovesInv ==
  ASSUME Inv, NEW s \in Sockets, NEW p \in Paths, ClientRemoves(s, p)
  PROVE  Inv'
<1>1. {e \in replica[s] : e.path # p /\ <<e.path, p>> \notin Inside} \in SUBSET Entries
  BY DEF Inv, TypeOK, ClientsOK
<1> QED
  BY <1>1, SendsUpdateInv DEF ClientRemoves

LEMMA ClientGotInv ==
  ASSUME Inv, NEW s \in Sockets, NEW e \in Entries, e.path \in Files,
         NEW chunk \in 0 .. (NumChunks(e) - 1), ClientGot(s, e, chunk)
  PROVE  Inv'
<1> DEFINE m == [type |-> "CHUNK_GOT", path |-> e.path, chunk |-> chunk]
<1>1. /\ ClientStep /\ gots < MaxGots /\ gots' = gots + 1
      /\ inbox' = [inbox EXCEPT ![s] = Append(@, m)]
      /\ UNCHANGED <<arrived, open, synced, replica, diffs, masters, heard, told, edits>>
  BY DEF ClientGot
<1>2. m \in Message
  BY DEF Message
<1> HIDE DEF m
<1>3. /\ inbox' \in [Sockets -> Seq(Message)]
      /\ \A t \in Sockets : inbox[t] # <<>> => inbox'[t] # <<>>
  BY <1>1, <1>2, InboxAppend DEF Inv, TypeOK, ClientsOK
<1>4. ClientsOK'
  BY <1>1, <1>3, TrackerAssumption DEF Inv, TypeOK, ClientsOK
<1>5. arrived \in Nat /\ arrived' = arrived /\ Sockets \subseteq Nat
  BY <1>1, PeersAreNumbers DEF Inv, TypeOK, ClientsOK, Sockets
<1>6. arrived <= arrived' /\ \A t \in Sockets : ~(arrived < t /\ t <= arrived')
  BY <1>5
<1> QED
  BY <1>1, <1>3, <1>4, <1>6, ClientFrame

LEMMA ClientClosesInv ==
  ASSUME Inv, NEW s \in Sockets, ClientCloses(s)
  PROVE  Inv'
<1> DEFINE m == [type |-> "EOF"]
<1>1. /\ ClientStep /\ open' = open \ {s} /\ synced' = synced \ {s}
      /\ inbox' = [inbox EXCEPT ![s] = Append(@, m)]
      /\ replica' = [replica EXCEPT ![s] = {}] /\ told' = [told EXCEPT ![s] = {}]
      /\ diffs' = [diffs EXCEPT ![s] = <<>>] /\ masters' = [masters EXCEPT ![s] = <<>>]
      /\ heard' = [heard EXCEPT ![s] = {}]
      /\ UNCHANGED <<arrived, edits, gots>>
  BY DEF ClientCloses
<1>2. m \in Message
  BY DEF Message
<1> HIDE DEF m
<1>3. /\ inbox' \in [Sockets -> Seq(Message)]
      /\ \A t \in Sockets : inbox[t] # <<>> => inbox'[t] # <<>>
  BY <1>1, <1>2, InboxAppend DEF Inv, TypeOK, ClientsOK
<1>4. ClientsOK'
  BY <1>1, <1>3 DEF Inv, TypeOK, ClientsOK
<1>5. arrived \in Nat /\ arrived' = arrived /\ Sockets \subseteq Nat
  BY <1>1, PeersAreNumbers DEF Inv, TypeOK, ClientsOK, Sockets
<1>6. arrived <= arrived' /\ \A t \in Sockets : ~(arrived < t /\ t <= arrived')
  BY <1>5
<1> QED
  BY <1>1, <1>3, <1>4, <1>6, ClientFrame

(* A client takes something it was sent: inboxes stay as they are. *)
LEMMA ReceiveFrame ==
  ASSUME Inv, UNCHANGED <<arrived, open, inbox, netVars, toLogic, toNet, logicVars, crash>>,
         ClientsOK'
  PROVE  Inv'
<1>1. /\ UNCHANGED <<accepted, idCounter, table, ready, nphase>> /\ Occupied' = Occupied
      /\ UNCHANGED <<toLogic, toNet, peerIDs, numberOfEntries, fs, ft, lphase, crash>>
  BY DEF netVars, logicVars, Occupied
<1>2. NetworkOK' /\ LogicOK' /\ toLogic' \in LogicQueues /\ toNet' \in NetQueues
  BY <1>1 DEF Inv, TypeOK, NetworkOK, LogicOK
<1>3. SlotsDistinct' /\ SlotsAccepted' /\ ReadyHasMessage' /\ UnacceptedHasMessage'
  BY <1>1 DEF Inv, SlotsDistinct, SlotsAccepted, ReadyHasMessage, UnacceptedHasMessage
<1> QED
  BY <1>2, <1>3 DEF Inv, TypeOK

LEMMA ClientTakesMasterInv ==
  ASSUME Inv, NEW s \in Sockets, ClientTakesMaster(s)
  PROVE  Inv'
<1>1. /\ s \in open /\ masters[s] # <<>>
      /\ replica' = [replica EXCEPT ![s] = Head(masters[s])]
      /\ synced' = synced \cup {s}
      /\ masters' = [masters EXCEPT ![s] = Tail(@)]
      /\ heard' = [heard EXCEPT ![s] = Head(masters[s])]
      /\ UNCHANGED <<arrived, open, inbox, diffs, told, edits, gots>>
      /\ UNCHANGED <<netVars, toLogic, toNet, logicVars, crash>>
  BY DEF ClientTakesMaster
<1>2. masters[s] \in Seq(SUBSET Entries)
  BY DEF Inv, TypeOK, ClientsOK
<1>3. Head(masters[s]) \in SUBSET Entries /\ Tail(masters[s]) \in Seq(SUBSET Entries)
  BY <1>1, <1>2, TailType
<1>4. ClientsOK'
  BY <1>1, <1>3 DEF Inv, TypeOK, ClientsOK
<1> QED
  BY <1>1, <1>4, ReceiveFrame

LEMMA AppliedType ==
  ASSUME NEW F \in SUBSET Entries, NEW u \in Update
  PROVE  Applied(F, u) \in SUBSET Entries
BY DEF Applied, Update

LEMMA ClientTakesDiffInv ==
  ASSUME Inv, NEW s \in Sockets, ClientTakesDiff(s)
  PROVE  Inv'
<1>1. /\ diffs[s] # <<>>
      /\ replica' = [replica EXCEPT ![s] = Applied(@, Head(diffs[s]))]
      /\ diffs' = [diffs EXCEPT ![s] = Tail(@)]
      /\ heard' = [heard EXCEPT ![s] = @ \cup Head(diffs[s]).adds]
      /\ UNCHANGED <<arrived, open, inbox, synced, masters, told, edits, gots>>
      /\ UNCHANGED <<netVars, toLogic, toNet, logicVars, crash>>
  BY DEF ClientTakesDiff
<1>2. diffs[s] \in Seq(Update)
  BY DEF Inv, TypeOK, ClientsOK
<1>3. Head(diffs[s]) \in Update /\ Tail(diffs[s]) \in Seq(Update)
  BY <1>1, <1>2, TailType
<1>4. Head(diffs[s]).adds \in SUBSET Entries
  BY <1>3 DEF Update
<1>5. Applied(replica[s], Head(diffs[s])) \in SUBSET Entries
  BY <1>3, AppliedType DEF Inv, TypeOK, ClientsOK
<1>6. ClientsOK'
  BY <1>1, <1>3, <1>4, <1>5 DEF Inv, TypeOK, ClientsOK
<1> QED
  BY <1>1, <1>6, ReceiveFrame

LEMMA ClientInv ==
  ASSUME Inv, Client
  PROVE  Inv'
BY ClientConnectsInv, ClientWritesInv, ClientMakesDirInv, ClientRemovesInv,
   ClientGotInv, ClientClosesInv, ClientTakesMasterInv, ClientTakesDiffInv
   DEF Client, ClientReceives, Files

-----------------------------------------------------------------------------
LEMMA InvInit ==
  ASSUME Init
  PROVE  Inv
<1>1. /\ Cardinality(Peers) \in Nat /\ MaxGots \in Nat /\ MaxVersion \in Nat
      /\ PeerTableSize \in Nat
  BY TrackerAssumption, FileSystemAssumption
<1>2. ClientsOK
  BY <1>1 DEF Init, ClientsOK
<1>3. NetworkOK
  BY DEF Init, NetworkOK, Occupied
<1>4. LogicOK
  <2>1. ft \in FileTables
    <3>1. EmptyTable \in [{} -> ChunkTables]
      BY DEF EmptyTable
    <3> QED
      BY <3>1, FileTableIntro DEF Init
  <2>2. peerIDs \in Seq(Peers \cup {-1})
    BY <1>1 DEF Init
  <2> QED
    BY <2>1, <2>2 DEF Init, LogicOK
<1>5. toLogic \in LogicQueues /\ toNet \in NetQueues
  BY DEF Init, LogicQueues, NetQueues
<1>6. Occupied = {} /\ ready = {} /\ arrived = 0 /\ accepted = 0
  BY DEF Init, Occupied
<1>7. SlotsDistinct /\ SlotsAccepted /\ ReadyHasMessage
  BY <1>6 DEF SlotsDistinct, SlotsAccepted, ReadyHasMessage
<1>8. UnacceptedHasMessage
  BY <1>6, PeersAreNumbers DEF UnacceptedHasMessage, Sockets
<1> QED
  BY <1>2, <1>3, <1>4, <1>5, <1>7, <1>8 DEF Inv, TypeOK

LEMMA InvStutters ==
  ASSUME Inv, UNCHANGED vars
  PROVE  Inv'
<1>1. /\ UNCHANGED <<arrived, open, inbox, synced, replica, diffs, masters, heard, told, edits, gots>>
      /\ UNCHANGED <<accepted, idCounter, table, ready, nphase, toLogic, toNet>>
      /\ UNCHANGED <<peerIDs, numberOfEntries, fs, ft, lphase, crash>> /\ Occupied' = Occupied
  BY DEF vars, clientVars, netVars, logicVars, Occupied
<1>2. TypeOK'
  BY <1>1 DEF Inv, TypeOK, ClientsOK, NetworkOK, LogicOK
<1>3. SlotsDistinct' /\ SlotsAccepted' /\ ReadyHasMessage' /\ UnacceptedHasMessage'
  BY <1>1 DEF Inv, SlotsDistinct, SlotsAccepted, ReadyHasMessage, UnacceptedHasMessage
<1> QED
  BY <1>2, <1>3 DEF Inv

LEMMA InvNext ==
  ASSUME Inv, [Next]_vars
  PROVE  Inv'
BY ClientInv, NetworkInv, LogicInv, InvStutters DEF Next

(* The inductive invariant holds in every behaviour. *)
THEOREM TrackerInv == Spec => []Inv
<1>1. Init => Inv
  BY InvInit
<1>2. Inv /\ [Next]_vars => Inv'
  BY InvNext
<1> QED
  BY <1>1, <1>2, PTL DEF Spec

(* Every variable of the tracker keeps its type: ids stay within what      *)
(* add_peer hands out, no thread takes from an empty queue, and no handler *)
(* reads a message that is not there.                                      *)
THEOREM TrackerTypeOK == Spec => []TypeOK
<1>1. Inv => TypeOK
  BY DEF Inv
<1> QED
  BY <1>1, TrackerInv, PTL

-----------------------------------------------------------------------------
(* A client's step reaches the tracker through its socket only, and but    *)
(* for what it receives it is one a patient client takes at rest.          *)
LEMMA ClientTakesClientStep ==
  ASSUME Client
  PROVE  /\ ClientStep \/ \E s \in Sockets : ClientReceives(s)
         /\ UNCHANGED <<netVars, toLogic, toNet, logicVars, crash>>
<1>1. CASE ClientConnects
  BY <1>1 DEF ClientConnects, ClientStep
<1>2. ASSUME NEW s, NEW new, SendsUpdate(s, new)
      PROVE  ClientStep
  BY <1>2 DEF SendsUpdate
<1>3. ASSUME NEW s, NEW p, ClientWrites(s, p) \/ ClientMakesDir(s, p) \/ ClientRemoves(s, p)
      PROVE  ClientStep
  BY <1>2, <1>3 DEF ClientWrites, ClientMakesDir, ClientRemoves
<1>4. ASSUME NEW s, NEW e, NEW chunk, ClientGot(s, e, chunk) \/ ClientCloses(s)
      PROVE  ClientStep
  BY <1>4 DEF ClientGot, ClientCloses
<1>5. ASSUME NEW s \in Sockets, ClientReceives(s)
      PROVE  UNCHANGED <<netVars, toLogic, toNet, logicVars, crash>>
  BY <1>5 DEF ClientReceives, ClientTakesMaster, ClientTakesDiff
<1>6. ClientStep => UNCHANGED <<netVars, toLogic, toNet, logicVars, crash>>
  BY DEF ClientStep
<1> QED
  BY <1>1, <1>3, <1>4, <1>5, <1>6 DEF Client

(* Who writes the master file system and the file table: three handlers of *)
(* the logic thread.                                                       *)
LEMMA FilesFrame ==
  ASSUME [Next]_vars, ~LogicLostClient, ~LogicClientGot, ~LogicClientUpdate
  PROVE  UNCHANGED <<fs, ft>>
<1>1. CASE Client
  BY <1>1, ClientTakesClientStep DEF logicVars
<1>2. CASE Network
  BY <1>2 DEF Network, NetSelect, NetHandlePeer, NetNext, NetSendsAcq, NetSendsFSUpdate,
     NetSendsPeerTable, NetSendsMaster, NetSendsMasterFT, NetPops, logicVars
<1>3. CASE Logic
  BY <1>3 DEF Logic, LogicNext, LogicNewClient, LogicMasterRequest, LogicIgnoresGot
<1>4. CASE UNCHANGED vars
  BY <1>4 DEF vars, logicVars
<1> QED
  BY <1>1, <1>2, <1>3, <1>4 DEF Next

(* AlwaysOwned, in the terms of prune_filesystem. *)
Owned == Ownerless(ft) = {}

LEMMA OwnedLost ==
  ASSUME Inv, Owned, LogicLostClient
  PROVE  Owned'
<1> DEFINE owned == RemovePeer(ft, Head(toLogic.lost))
           n == [toNet EXCEPT !.rem = Push(@, [to |-> Registered' \ {Head(toLogic.lost)}])]
<1>1. owned \in FileTables
  BY RemovePeerType DEF Inv, TypeOK, LogicOK
<1>2. Prunes(owned, n)
  BY DEF LogicLostClient
<1> HIDE DEF owned, n
<1>3. CASE RemoveDefined(fs, Ownerless(owned))
  <2>1. ft' = RemovePaths(owned, Ownerless(owned))
    BY <1>2, <1>3 DEF Prunes, Pruned
  <2> QED
    BY <1>1, <2>1, RemovePathsOwned DEF Owned
<1>4. CASE ~RemoveDefined(fs, Ownerless(owned))
  BY <1>2, <1>4 DEF Prunes, Owned
<1> QED
  BY <1>3, <1>4

LEMMA OwnedGot ==
  ASSUME Inv, Owned, LogicClientGot
  PROVE  Owned'
<1> DEFINE g == Head(toLogic.got)
<1>1. g \in [id : Peers, path : Files, chunk : Nat]
  BY LogicTakesType DEF LogicClientGot
<1>2. ft \in FileTables
  BY DEF Inv, TypeOK, LogicOK
<1>3. CASE HasChunk(ft, g.path, g.chunk)
  <2>1. ft' = SetOwner(ft, g.path, g.chunk, g.id)
    BY <1>3 DEF LogicClientGot
  <2> QED
    BY <1>1, <1>2, <1>3, <2>1, SetOwnerOwned DEF HasChunk, Owned
<1>4. CASE ~HasChunk(ft, g.path, g.chunk)
  BY <1>4 DEF LogicClientGot, Owned
<1> QED
  BY <1>3, <1>4

LEMMA OwnedUpdate ==
  ASSUME Inv, Owned, LogicClientUpdate
  PROVE  Owned'
<1> DEFINE id == Head(toLogic.upd).id
           u == Head(toLogic.upd).upd
           rest == RemoveFileSystem(ft, u.dels)
<1>1. id \in Peers /\ u \in Update /\ u.adds \in SUBSET Entries
  BY LogicTakesType DEF LogicClientUpdate, Update
<1>2. rest \in FileTables /\ Ownerless(rest) = {}
  BY RemovePathsType, RemovePathsOwned DEF RemoveFileSystem, Owned, Inv, TypeOK, LogicOK
<1>3. ft' \in {ft, AddFileSystem(rest, u.adds, id)}
  BY DEF LogicClientUpdate
<1> HIDE DEF rest
<1>4. Ownerless(AddFileSystem(rest, u.adds, id)) = {}
  BY <1>1, <1>2, AddFileSystemOwned
<1> QED
  BY <1>3, <1>4 DEF Owned

LEMMA OwnedNext ==
  ASSUME Inv, Owned, [Next]_vars
  PROVE  Owned'
BY OwnedLost, OwnedGot, OwnedUpdate, FilesFrame DEF Owned

(* In no order of departures, announcements, replacements and prunes does  *)
(* the tracker list a file one of whose chunks has no owner: what          *)
(* prune_filesystem is called for.                                         *)
THEOREM FilesKeepOwners == Spec => []AlwaysOwned
<1>1. Init => Owned
  BY DEF Init, Owned, Ownerless, EmptyTable
<1>2. Inv /\ Owned /\ [Next]_vars => Owned'
  BY OwnedNext
<1>3. Owned => AlwaysOwned
  BY DEF Owned, AlwaysOwned, Ownerless
<1> QED
  BY <1>1, <1>2, <1>3, TrackerInv, PTL DEF Spec

-----------------------------------------------------------------------------
(* The file table lists only files of the file system.  In a directory     *)
(* without sub-directories this holds; with them a deletion takes more     *)
(* from the file system than from the file table.                          *)

LEMMA WithinLost ==
  ASSUME FileTableWithinFs, Inv, LogicLostClient
  PROVE  FileTableWithinFs'
<1> DEFINE owned == RemovePeer(ft, Head(toLogic.lost))
           gone == Ownerless(owned)
           n == [toNet EXCEPT !.rem = Push(@, [to |-> Registered' \ {Head(toLogic.lost)}])]
<1>1. owned \in FileTables /\ DOMAIN owned = DOMAIN ft
  BY RemovePeerType DEF Inv, TypeOK, LogicOK
<1>2. Prunes(owned, n)
  BY DEF LogicLostClient
<1> HIDE DEF owned, n
<1>3. CASE RemoveDefined(fs, gone)
  <2>1. ft' = RemovePaths(owned, gone) /\ fs' \in RemovedAtPaths(fs, gone)
    BY <1>2, <1>3 DEF Prunes, Pruned
  <2>2. DOMAIN ft' = DOMAIN ft \ gone
    BY <1>1, <2>1, RemovePathsType
  <2>3. PICK R \in SUBSET UNION {{e \in fs : e.path = p} : p \in gone} : fs' = fs \ R
    BY <2>1 DEF RemovedAtPaths
  <2>4. \A e \in fs : e.path \notin gone => e \in fs'
    BY <2>3
  <2> QED
    BY <2>2, <2>4 DEF FileTableWithinFs, PathsOf
<1>4. CASE ~RemoveDefined(fs, gone)
  BY <1>2, <1>4 DEF Prunes, FileTableWithinFs
<1> QED
  BY <1>3, <1>4

LEMMA WithinGot ==
  ASSUME FileTableWithinFs, Inv, LogicClientGot
  PROVE  FileTableWithinFs'
<1> DEFINE g == Head(toLogic.got)
<1>1. DOMAIN ft' = DOMAIN ft /\ fs' = fs
  BY DEF LogicClientGot, SetOwner
<1> QED
  BY <1>1 DEF FileTableWithinFs

LEMMA WithinUpdate ==
  ASSUME FileTableWithinFs, Inv, LogicClientUpdate, Dirs = {}
  PROVE  FileTableWithinFs'
<1> DEFINE id == Head(toLogic.upd).id
           u == Head(toLogic.upd).upd
           rest == MinusEquals(fs, u.dels)
           left == RemoveFileSystem(ft, u.dels)
<1>1. /\ id \in Peers /\ u \in Update
      /\ u.adds \in SUBSET Entries /\ u.dels \in SUBSET Entries
  BY LogicTakesType DEF LogicClientUpdate, Update
<1>2. CASE PlusDefined(rest, u.adds)
  <2>1. fs' = rest \cup u.adds /\ ft' = AddFileSystem(left, u.adds, id)
    BY <1>2 DEF LogicClientUpdate, PlusEquals
  <2>2. left \in FileTables /\ DOMAIN left = DOMAIN ft \ PathsOf(FilesOf(u.dels))
    BY RemovePathsType DEF RemoveFileSystem, Inv, TypeOK, LogicOK
  <2>3. rest = fs \ u.dels
    BY FileSystemAssumption DEF MinusEquals
  <2> HIDE DEF id, u, rest, left
  <2>4. DOMAIN ft' = DOMAIN left \cup PathsOf(FilesOf(u.adds))
    BY <1>1, <2>1, <2>2, AddFileSystemType
  <2>5. ASSUME NEW p \in DOMAIN left
        PROVE  p \in PathsOf(rest)
    <3>1. p \in Files /\ p \in PathsOf(fs)
      BY <2>2, FileTableElim DEF FileTableWithinFs, Inv, TypeOK, LogicOK
    <3>2. PICK e \in fs : e.path = p
      BY <3>1 DEF PathsOf
    <3>3. e \notin u.dels
      BY <2>2, <3>1, <3>2 DEF PathsOf, FilesOf
    <3> QED
      BY <2>3, <3>2, <3>3 DEF PathsOf
  <2> QED
    BY <2>1, <2>4, <2>5 DEF FileTableWithinFs, PathsOf, FilesOf
<1>3. CASE ~PlusDefined(rest, u.adds)
  BY <1>3 DEF LogicClientUpdate, FileTableWithinFs
<1> QED
  BY <1>2, <1>3

(* The tracker never lists in the file table a file that is not in the     *)
(* master file system, when the shared directory has no sub-directories:   *)
(* what the assertion of folder_remove_file_at_path asks of                *)
(* prune_filesystem.                                                       *)
THEOREM FileTableStaysWithinFs ==
  ASSUME Dirs = {}
  PROVE  Spec => []FileTableWithinFs
<1>1. Init => FileTableWithinFs
  BY DEF Init, FileTableWithinFs, EmptyTable
<1>2. Inv /\ FileTableWithinFs /\ [Next]_vars => FileTableWithinFs'
  BY WithinLost, WithinGot, WithinUpdate, FilesFrame DEF FileTableWithinFs
<1> QED
  BY <1>1, <1>2, TrackerInv, PTL DEF Spec

-----------------------------------------------------------------------------
(* Ids.  That a new id is new and a lost one gone for good rests on the    *)
(* counter ids are drawn from: none in use is beyond it, and the one drawn *)
(* by add_peer is.                                                         *)

IdsDrawn ==
  /\ \A k \in DOMAIN toLogic.new : toLogic.new[k] <= accepted
  /\ \A k \in DOMAIN toLogic.lost : toLogic.lost[k] <= accepted
  /\ \A i \in DOMAIN peerIDs : peerIDs[i] <= accepted

IdsInv == IdsDrawn /\ NewPeersAreNew /\ LossIsFinal

LEMMA ElementType ==
  ASSUME NEW S, NEW q \in Seq(S)
  PROVE  \A k \in DOMAIN q : q[k] \in S
OBVIOUS

(* An injective sequence stays so when its head goes, and the head is not  *)
(* in the rest; or when an element it does not have comes in.              *)
LEMMA InjectiveTail ==
  ASSUME NEW S, NEW q \in Seq(S), q # <<>>,
         \A k, l \in DOMAIN q : q[k] = q[l] => k = l
  PROVE  /\ \A k, l \in DOMAIN Tail(q) : Tail(q)[k] = Tail(q)[l] => k = l
         /\ \A k \in DOMAIN Tail(q) : /\ Tail(q)[k] # Head(q)
                                      /\ \E l \in DOMAIN q : Tail(q)[k] = q[l]
         /\ 1 \in DOMAIN q /\ Head(q) = q[1]
<1>1. /\ \A k \in DOMAIN Tail(q) : k \in Nat /\ Tail(q)[k] = q[k + 1] /\ k + 1 \in DOMAIN q /\ k + 1 # 1
      /\ 1 \in DOMAIN q /\ Head(q) = q[1]
  OBVIOUS
<1>2. ASSUME NEW k \in DOMAIN Tail(q), NEW l \in DOMAIN Tail(q), Tail(q)[k] = Tail(q)[l]
      PROVE  k = l
  <2>1. k + 1 = l + 1
    BY <1>1, <1>2
  <2> QED
    BY <1>1, <2>1
<1> QED
  BY <1>1, <1>2

LEMMA InjectiveAppend ==
  ASSUME NEW S, NEW q \in Seq(S), NEW x \in S, \A k \in DOMAIN q : q[k] # x,
         \A k, l \in DOMAIN q : q[k] = q[l] => k = l
  PROVE  /\ \A k, l \in DOMAIN Append(q, x) : Append(q, x)[k] = Append(q, x)[l] => k = l
         /\ \A k \in DOMAIN Append(q, x) :
              Append(q, x)[k] = x \/ \E l \in DOMAIN q : Append(q, x)[k] = q[l]
<1>1. \A k \in DOMAIN Append(q, x) :
        \/ k \in DOMAIN q /\ Append(q, x)[k] = q[k]
        \/ k = Len(q) + 1 /\ Append(q, x)[k] = x
  OBVIOUS
<1> QED
  BY <1>1

(* addPeerToTable enters an id the table does not have in one slot. *)
LEMMA AddedPeerDistinct ==
  ASSUME LogicOK, NEW id \in Peers, \A i \in DOMAIN peerIDs : peerIDs[i] # id,
         \A i, j \in DOMAIN peerIDs : peerIDs[i] = peerIDs[j] /\ peerIDs[i] # -1 => i = j
  PROVE  /\ \A i \in DOMAIN AddedPeer(id) :
              \/ AddedPeer(id)[i] \in {-1, id}
              \/ i \in DOMAIN peerIDs /\ AddedPeer(id)[i] = peerIDs[i]
         /\ \A i, j \in DOMAIN AddedPeer(id) :
              AddedPeer(id)[i] = AddedPeer(id)[j] /\ AddedPeer(id)[i] # -1 => i = j
<1> DEFINE new == AddedPeer(id)
           Fit == {i \in DOMAIN peerIDs : peerIDs[i] \in {-1, id}}
           more == [i \in 1 .. Len(peerIDs) |-> IF i = 1 THEN id ELSE -1]
<1>1. peerIDs \in Seq(Peers \cup {-1})
  BY DEF LogicOK
<1>2. \E k : \A i \in DOMAIN new :
         \/ i = k /\ new[i] = id
         \/ new[i] = -1
         \/ i \in DOMAIN peerIDs /\ new[i] = peerIDs[i]
  <2>1. CASE Fit # {}
    <3> DEFINE k == CHOOSE i \in Fit : \A j \in Fit : i <= j
    <3>1. new = [peerIDs EXCEPT ![k] = id]
      BY <2>1 DEF AddedPeer
    <3> HIDE DEF k, new
    <3>2. \A i \in DOMAIN new :
            (i = k /\ new[i] = id) \/ (i \in DOMAIN peerIDs /\ new[i] = peerIDs[i])
      BY <1>1, <3>1
    <3> QED
      BY <3>2
  <2>2. CASE Fit = {}
    <3>1. new = peerIDs \o more
      BY <2>2 DEF AddedPeer
    <3>2. more \in Seq(Peers \cup {-1}) /\ Len(more) = Len(peerIDs)
      BY <1>1
    <3> HIDE DEF new
    <3>3. ASSUME NEW i \in DOMAIN new, i \notin DOMAIN peerIDs
          PROVE  i - Len(peerIDs) \in DOMAIN more /\ new[i] = more[i - Len(peerIDs)]
      <4> HIDE DEF more
      <4> QED
        BY <1>1, <3>1, <3>2, <3>3
    <3>4. \A i \in DOMAIN peerIDs : new[i] = peerIDs[i]
      <4> HIDE DEF more
      <4> QED
        BY <1>1, <3>1, <3>2
    <3>5. \A i \in DOMAIN new : i \in Nat
      <4> HIDE DEF more
      <4> QED
        BY <1>1, <3>1, <3>2
    <3>6. ASSUME NEW i \in DOMAIN new
          PROVE  \/ i = Len(peerIDs) + 1 /\ new[i] = id
                 \/ new[i] = -1
                 \/ i \in DOMAIN peerIDs /\ new[i] = peerIDs[i]
      <4>1. CASE i \in DOMAIN peerIDs
        BY <3>4, <4>1
      <4>2. CASE i \notin DOMAIN peerIDs
        <5>1. new[i] = IF i - Len(peerIDs) = 1 THEN id ELSE -1
          BY <3>3, <4>2
        <5>2. i - Len(peerIDs) = 1 => i = Len(peerIDs) + 1
          BY <1>1, <3>5
        <5> QED
          BY <5>1, <5>2
      <4> QED
        BY <4>1, <4>2
    <3> QED
      BY <3>6
  <2> QED
    BY <2>1, <2>2
<1> HIDE DEF new
<1>3. PICK k : \A i \in DOMAIN new :
         \/ i = k /\ new[i] = id
         \/ new[i] = -1
         \/ i \in DOMAIN peerIDs /\ new[i] = peerIDs[i]
  BY <1>2
<1>4. ASSUME NEW i \in DOMAIN new, NEW j \in DOMAIN new, new[i] = new[j], new[i] # -1
      PROVE  i = j
  BY <1>3, <1>4
<1>5. \A i \in DOMAIN new : new[i] \in {-1, id} \/ (i \in DOMAIN peerIDs /\ new[i] = peerIDs[i])
  BY <1>3
<1> QED
  BY <1>4, <1>5 DEF new

(* No other step touches what the ids are held in. *)
LEMMA IdsFrame ==
  ASSUME IdsInv, accepted' = accepted, table' = table, peerIDs' = peerIDs,
         toLogic'.new = toLogic.new, toLogic'.lost = toLogic.lost
  PROVE  IdsInv'
BY DEF IdsInv, IdsDrawn, NewPeersAreNew, LossIsFinal, Registered, Connected, Occupied

LEMMA IdsStep ==
  ASSUME Inv, IdsInv, [Next]_vars,
         ~NetSelect, ~NetHandlePeer, ~LogicNewClient, ~LogicLostClient
  PROVE  IdsInv'
<1> USE IdsFrame
<1>1. CASE Client
  <2>1. accepted' = accepted /\ table' = table /\ peerIDs' = peerIDs /\ toLogic' = toLogic
    BY <1>1, ClientTakesClientStep DEF logicVars, netVars
  <2> QED
    BY <2>1
<1>2. CASE Network
  <2>1. accepted' = accepted /\ table' = table /\ peerIDs' = peerIDs /\ toLogic' = toLogic
    BY <1>2 DEF Network, NetNext, NetSendsAcq, NetSendsFSUpdate,
       NetSendsPeerTable, NetSendsMaster, NetSendsMasterFT, NetPops, logicVars
  <2> QED
    BY <2>1
<1>3. CASE Logic
  <2>1. \A q \in {"mreq", "got", "upd"} : LogicTakes(q) =>
          /\ toLogic'.new = toLogic.new /\ toLogic'.lost = toLogic.lost
          /\ accepted' = accepted /\ table' = table
    BY DEF LogicTakes, netVars, Inv, TypeOK, LogicQueues
  <2>2. peerIDs' = peerIDs /\ (LogicNext \/ \E q \in {"mreq", "got", "upd"} : LogicTakes(q))
    BY <1>3 DEF Logic, LogicNext, LogicMasterRequest, LogicIgnoresGot,
       LogicClientGot, LogicClientUpdate
  <2> QED
    BY <2>1, <2>2 DEF LogicNext, netVars
<1>4. CASE UNCHANGED vars
  BY <1>4 DEF vars, logicVars, netVars
<1> QED
  BY <1>1, <1>2, <1>3, <1>4 DEF Next

LEMMA IdsNewClient ==
  ASSUME Inv, IdsInv, LogicNewClient
  PROVE  IdsInv'
<1> DEFINE q == toLogic.new
           id == Head(q)
<1>1. /\ q \in Seq(Peers) /\ q # <<>> /\ toLogic' = [toLogic EXCEPT !.new = Tail(q)]
      /\ accepted' = accepted /\ table' = table /\ peerIDs' = AddedPeer(id)
  BY DEF LogicNewClient, LogicTakes, netVars, Inv, TypeOK, LogicQueues
<1>2. toLogic'.new = Tail(q) /\ toLogic'.lost = toLogic.lost
  BY <1>1 DEF Inv, TypeOK, LogicQueues
<1>3. \A k, l \in DOMAIN q : q[k] = q[l] => k = l
  BY DEF IdsInv, NewPeersAreNew
<1>4. /\ \A k, l \in DOMAIN Tail(q) : Tail(q)[k] = Tail(q)[l] => k = l
      /\ \A k \in DOMAIN Tail(q) : Tail(q)[k] # id /\ \E l \in DOMAIN q : Tail(q)[k] = q[l]
      /\ 1 \in DOMAIN q /\ id = q[1]
  BY <1>1, <1>3, InjectiveTail
<1>5. id \in Peers /\ id \notin Registered /\ id <= accepted
  <2>1. id \in Peers
    BY <1>1, TailType
  <2> QED
    BY <1>4, <2>1 DEF IdsInv, IdsDrawn, NewPeersAreNew
<1>6. \A i \in DOMAIN peerIDs : peerIDs[i] # id
  <2>1. id # -1 /\ id # 0
    BY <1>5, PeersAreNumbers
  <2> QED
    BY <1>5, <2>1 DEF Registered, Roster
<1>7. LogicOK /\ accepted \in Nat
  BY PeersAreNumbers DEF Inv, TypeOK, NetworkOK, ClientsOK
<1> HIDE DEF id, q
<1>8. /\ \A i \in DOMAIN peerIDs' : \/ peerIDs'[i] \in {-1, id}
                                    \/ i \in DOMAIN peerIDs /\ peerIDs'[i] = peerIDs[i]
      /\ \A i, j \in DOMAIN peerIDs' : peerIDs'[i] = peerIDs'[j] /\ peerIDs'[i] # -1 => i = j
  BY <1>1, <1>5, <1>6, <1>7, AddedPeerDistinct DEF IdsInv, NewPeersAreNew
<1>9. Registered' \subseteq Registered \cup {id}
  BY <1>8 DEF Registered, Roster
<1>10. IdsDrawn'
  <2>1. \A i \in DOMAIN peerIDs' : peerIDs'[i] <= accepted'
    BY <1>1, <1>5, <1>7, <1>8 DEF IdsInv, IdsDrawn
  <2> QED
    BY <1>1, <1>2, <1>4, <2>1 DEF IdsInv, IdsDrawn, q
<1>11. NewPeersAreNew'
  <2>1. Occupied' = Occupied
    BY <1>1 DEF Occupied
  <2>2. \A k \in DOMAIN Tail(q) : Tail(q)[k] \notin Registered'
    BY <1>4, <1>9 DEF IdsInv, NewPeersAreNew, q
  <2> QED
    BY <1>1, <1>2, <1>4, <1>8, <2>1, <2>2 DEF IdsInv, NewPeersAreNew
<1>12. LossIsFinal'
  BY <1>1, <1>2 DEF IdsInv, LossIsFinal, Connected, Occupied
<1> QED
  BY <1>10, <1>11, <1>12 DEF IdsInv

LEMMA IdsLostClient ==
  ASSUME Inv, IdsInv, LogicLostClient
  PROVE  IdsInv'
<1> DEFINE q == toLogic.lost
           id == Head(q)
<1>1. /\ q \in Seq(Peers) /\ q # <<>> /\ toLogic' = [toLogic EXCEPT !.lost = Tail(q)]
      /\ accepted' = accepted /\ table' = table /\ RemovesPeer(id)
  BY DEF LogicLostClient, LogicTakes, netVars, Inv, TypeOK, LogicQueues
<1>2. toLogic'.lost = Tail(q) /\ toLogic'.new = toLogic.new
  BY <1>1 DEF Inv, TypeOK, LogicQueues
<1>3. \A k, l \in DOMAIN q : q[k] = q[l] => k = l
  BY DEF IdsInv, LossIsFinal
<1>4. /\ \A k, l \in DOMAIN Tail(q) : Tail(q)[k] = Tail(q)[l] => k = l
      /\ \A k \in DOMAIN Tail(q) : \E l \in DOMAIN q : Tail(q)[k] = q[l]
  BY <1>1, <1>3, InjectiveTail
<1>5. peerIDs \in Seq(Peers \cup {-1}) /\ accepted \in Nat
  BY PeersAreNumbers DEF Inv, TypeOK, NetworkOK, ClientsOK, LogicOK
<1>6. \E k : peerIDs' = [peerIDs EXCEPT ![k] = -1] \/ peerIDs' = peerIDs
  BY <1>1 DEF RemovesPeer
<1>7. \A i \in DOMAIN peerIDs' : i \in DOMAIN peerIDs /\ peerIDs'[i] \in {peerIDs[i], -1}
  BY <1>5, <1>6
<1>8. Registered' \subseteq Registered
  BY <1>7 DEF Registered, Roster
<1> HIDE DEF q
<1>9. IdsDrawn'
  <2>1. \A i \in DOMAIN peerIDs' : peerIDs'[i] <= accepted'
    <3>1. \A i \in DOMAIN peerIDs : peerIDs[i] <= accepted
      BY DEF IdsInv, IdsDrawn
    <3>2. -1 <= accepted
      BY <1>5
    <3> QED
      BY <1>1, <1>7, <3>1, <3>2
  <2> QED
    BY <1>1, <1>2, <1>4, <2>1 DEF IdsInv, IdsDrawn, q
<1>10. NewPeersAreNew'
  <2>1. Occupied' = Occupied
    BY <1>1 DEF Occupied
  <2>2. \A i, j \in DOMAIN peerIDs' : peerIDs'[i] = peerIDs'[j] /\ peerIDs'[i] # -1 => i = j
    BY <1>7 DEF IdsInv, NewPeersAreNew
  <2> QED
    BY <1>1, <1>2, <1>8, <2>1, <2>2 DEF IdsInv, NewPeersAreNew
<1>11. LossIsFinal'
  <2>1. Connected' = Connected
    BY <1>1 DEF Connected, Occupied
  <2>2. \A k \in DOMAIN Tail(q) : Tail(q)[k] \notin Connected
    BY <1>4 DEF IdsInv, LossIsFinal, q
  <2> QED
    BY <1>2, <1>4, <2>1, <2>2 DEF IdsInv, LossIsFinal
<1> QED
  BY <1>9, <1>10, <1>11 DEF IdsInv

LEMMA IdsSelect ==
  ASSUME Inv, IdsInv, NetSelect
  PROVE  IdsInv'
<1> DEFINE q == toLogic.new
           s == accepted + 1
<1>1. CASE accepted < arrived
  <2>1. PICK i : /\ table' = [table EXCEPT ![i] = [id |-> idCounter, sock |-> s]]
                 /\ accepted' = s
                 /\ toLogic' = [toLogic EXCEPT !.new = Append(q, idCounter)]
                 /\ peerIDs' = peerIDs
    BY <1>1 DEF NetSelect, NewId, logicVars
  <2>2. s \in Peers /\ idCounter = s /\ accepted \in Nat
    BY <1>1, PeersAreNumbers DEF Inv, TypeOK, ClientsOK, NetworkOK
  <2>3. q \in Seq(Peers) /\ toLogic'.new = Append(q, s) /\ toLogic'.lost = toLogic.lost
    BY <2>1, <2>2 DEF Inv, TypeOK, LogicQueues
  <2>4. toLogic.lost \in Seq(Peers) /\ peerIDs \in Seq(Peers \cup {-1})
    BY DEF Inv, TypeOK, LogicQueues, LogicOK
  <2>5. /\ \A k \in DOMAIN q : q[k] <= accepted /\ q[k] # s /\ q[k] \in Nat
        /\ \A k \in DOMAIN toLogic.lost : toLogic.lost[k] # s /\ toLogic.lost[k] <= s
        /\ \A k \in DOMAIN peerIDs : peerIDs[k] # s /\ peerIDs[k] <= s
    <3>1. \A k \in DOMAIN q : q[k] \in Nat
      BY <2>3, ElementType, PeersAreNumbers
    <3>2. \A k \in DOMAIN toLogic.lost : toLogic.lost[k] \in Nat
      BY <2>4, ElementType, PeersAreNumbers
    <3>3. \A k \in DOMAIN peerIDs : peerIDs[k] \in Int
      <4>1. \A k \in DOMAIN peerIDs : peerIDs[k] \in Peers \cup {-1}
        BY <2>4, ElementType
      <4>2. \A n \in Peers \cup {-1} : n \in Int
        BY PeersAreNumbers
      <4> QED
        BY <4>1, <4>2
    <3> QED
      BY <2>2, <3>1, <3>2, <3>3 DEF IdsInv, IdsDrawn
  <2>6. s \notin Registered
    BY <2>5 DEF Registered, Roster
  <2>7. /\ \A k, l \in DOMAIN Append(q, s) : Append(q, s)[k] = Append(q, s)[l] => k = l
        /\ \A k \in DOMAIN Append(q, s) :
             Append(q, s)[k] = s \/ \E l \in DOMAIN q : Append(q, s)[k] = q[l]
    <3>1. \A k, l \in DOMAIN q : q[k] = q[l] => k = l
      BY DEF IdsInv, NewPeersAreNew
    <3> HIDE DEF s, q
    <3> QED
      BY <2>2, <2>3, <2>5, <3>1, InjectiveAppend
  <2> HIDE DEF q
  <2>8. IdsDrawn'
    BY <2>1, <2>2, <2>3, <2>5, <2>7 DEF IdsDrawn
  <2>9. NewPeersAreNew'
    <3>1. SlotsDistinct'
      BY NetSelectInv DEF Inv
    <3>2. Registered' = Registered
      BY <2>1 DEF Registered
    <3>3. \A k \in DOMAIN Append(q, s) : Append(q, s)[k] \notin Registered
      BY <2>6, <2>7 DEF IdsInv, NewPeersAreNew, q
    <3>4. \A k, l \in DOMAIN peerIDs : peerIDs[k] = peerIDs[l] /\ peerIDs[k] # -1 => k = l
      BY DEF IdsInv, NewPeersAreNew
    <3> HIDE DEF s
    <3> QED
      BY <2>1, <2>3, <2>7, <3>1, <3>2, <3>3, <3>4 DEF NewPeersAreNew, SlotsDistinct
  <2>10. LossIsFinal'
    <3>1. ASSUME NEW j \in Occupied'
          PROVE  table'[j].id = s \/ (j \in Occupied /\ table'[j] = table[j])
      BY <2>1, <2>2 DEF Occupied, Inv, TypeOK, NetworkOK
    <3>2. Connected' \subseteq Connected \cup {s}
      BY <3>1 DEF Connected
    <3> HIDE DEF s
    <3> QED
      BY <2>3, <2>5, <3>2 DEF IdsInv, LossIsFinal
  <2> QED
    BY <2>8, <2>9, <2>10 DEF IdsInv
<1>2. CASE ~(accepted < arrived)
  BY <1>2, IdsFrame DEF NetSelect, logicVars
<1> QED
  BY <1>1, <1>2

LEMMA IdsHandlePeer ==
  ASSUME Inv, IdsInv, NetHandlePeer
  PROVE  IdsInv'
<1> DEFINE q == toLogic.lost
<1>1. /\ accepted' = accepted /\ peerIDs' = peerIDs /\ toLogic \in LogicQueues
      /\ q \in Seq(Peers)
  BY DEF NetHandlePeer, logicVars, Inv, TypeOK, LogicQueues
<1>2. PICK i \in ready :
        LET m == Head(inbox[table[i].sock])
        IN  /\ toLogic' = Notified(table[i].id, m)
            /\ table' = IF m.type = "EOF" THEN Freed(i) ELSE table
  BY DEF NetHandlePeer
<1> DEFINE m == Head(inbox[table[i].sock])
           id == table[i].id
<1>3. i \in Occupied /\ table[i] \in [id : Peers, sock : Sockets]
  BY DEF Inv, TypeOK, NetworkOK, Occupied
<1>4. m \in Message
  <2>1. table[i].sock \in Sockets
    BY <1>3
  <2>2. inbox[table[i].sock] \in Seq(Message) /\ inbox[table[i].sock] # <<>>
    BY <2>1 DEF Inv, TypeOK, ClientsOK, ReadyHasMessage
  <2> QED
    BY <2>2, TailType
<1>5. id \in Peers /\ id \in Connected /\ id <= accepted
  BY <1>3 DEF Connected, Inv, SlotsAccepted
<1>6. CASE m.type = "EOF"
  <2>1. toLogic'.lost = Append(q, id) /\ toLogic'.new = toLogic.new /\ table' = Freed(i)
    BY <1>1, <1>2, <1>6 DEF Notified, LogicQueues
  <2>2. /\ \A j \in Occupied' : j # i /\ j \in Occupied /\ table'[j] = table[j]
        /\ Occupied' \subseteq Occupied
    BY <1>3, <2>1 DEF Freed, Occupied, Inv, TypeOK, NetworkOK
  <2>3. Connected' \subseteq Connected /\ id \notin Connected'
    BY <1>3, <2>2 DEF Connected, Inv, SlotsDistinct
  <2>4. \A k \in DOMAIN q : q[k] # id
    BY <1>5 DEF IdsInv, LossIsFinal
  <2>5. /\ \A k, l \in DOMAIN Append(q, id) : Append(q, id)[k] = Append(q, id)[l] => k = l
        /\ \A k \in DOMAIN Append(q, id) :
             Append(q, id)[k] = id \/ \E l \in DOMAIN q : Append(q, id)[k] = q[l]
    <3>1. \A k, l \in DOMAIN q : q[k] = q[l] => k = l
      BY DEF IdsInv, LossIsFinal
    <3> HIDE DEF id, q
    <3> QED
      BY <1>1, <1>5, <2>4, <3>1, InjectiveAppend
  <2> HIDE DEF id, q
  <2>6. IdsDrawn'
    BY <1>1, <1>5, <2>1, <2>5 DEF IdsInv, IdsDrawn, q
  <2>7. NewPeersAreNew'
    BY <1>1, <2>1, <2>2 DEF IdsInv, NewPeersAreNew, Registered
  <2>8. LossIsFinal'
    BY <2>1, <2>3, <2>5 DEF IdsInv, LossIsFinal, q
  <2> QED
    BY <2>6, <2>7, <2>8 DEF IdsInv
<1>7. CASE m.type # "EOF"
  <2>1. m.type \in {"REQUEST_MASTER", "CHUNK_GOT", "CLIENT_UPDATE"}
    BY <1>4, <1>7 DEF Message
  <2>2. toLogic'.lost = toLogic.lost /\ toLogic'.new = toLogic.new /\ table' = table
    BY <1>1, <1>2, <2>1 DEF Notified, LogicQueues
  <2> QED
    BY <1>1, <2>2, IdsFrame
<1> QED
  BY <1>6, <1>7

LEMMA IdsInit ==
  ASSUME Init
  PROVE  IdsInv
<1>1. /\ Occupied = {} /\ toLogic.new = <<>> /\ toLogic.lost = <<>> /\ accepted = 0
      /\ peerIDs = [i \in 1 .. PeerTableSize |-> -1]
  BY DEF Init, Occupied
<1>2. DOMAIN toLogic.new = {} /\ DOMAIN toLogic.lost = {}
  BY <1>1
<1>3. \A i \in DOMAIN peerIDs : peerIDs[i] = -1
  BY <1>1
<1> QED
  BY <1>1, <1>2, <1>3 DEF IdsInv, IdsDrawn, NewPeersAreNew, LossIsFinal

(* The ids in the tables and the queues are those the counter has given    *)
(* out, each to one client.                                                *)
THEOREM IdsAlways == Spec => []IdsInv
<1>1. Init => IdsInv
  BY IdsInit
<1>2. Inv /\ IdsInv /\ [Next]_vars => IdsInv'
  BY IdsStep, IdsSelect, IdsHandlePeer, IdsNewClient, IdsLostClient
<1> QED
  BY <1>1, <1>2, TrackerInv, PTL DEF Spec

(* However slots are reused, a client the logic thread takes from its      *)
(* queue of new clients has an id that is in no slot of its peer table and *)
(* on no other connection.                                                 *)
THEOREM NewPeersStayNew == Spec => []NewPeersAreNew
<1>1. IdsInv => NewPeersAreNew
  BY DEF IdsInv
<1> QED
  BY <1>1, IdsAlways, PTL

(* A client that was reported lost is on the network thread's table no     *)
(* more, and is reported once: the slot it had may be taken, its id not.   *)
THEOREM LossStaysFinal == Spec => []LossIsFinal
<1>1. IdsInv => LossIsFinal
  BY DEF IdsInv
<1> QED
  BY <1>1, IdsAlways, PTL

-----------------------------------------------------------------------------
(***************************************************************************)
(* Patient clients: the tracker brings everybody to its own state, and     *)
(* nothing fails.                                                          *)
(*                                                                         *)
(* One thing happens at a time, and the invariant InTurn says which: stage *)
(* by stage, from a client's step to the next moment of rest, what is      *)
(* under way, and what everyone knows until then.                          *)
(*                                                                         *)
(*   Knocks -> Enters -> Tells          a client connects                  *)
(*   Sends -> Queued -> Spreads, Tells  a client has an edit or a chunk    *)
(*   Closes -> Departs -> Tells         a client leaves                    *)
(***************************************************************************)

MasterRequest == [type |-> "REQUEST_MASTER"]
LogicHas(Q) == \A q \in {"new", "mreq", "lost", "got", "upd"} \ Q : toLogic[q] = <<>>
NetHas(Q) == \A q \in {"acq", "fsu", "add", "rem", "mst", "mft"} \ Q : toNet[q] = <<>>
InboxOf(s) == \A t \in Sockets \ {s} : inbox[t] = <<>>
NoDiffs == \A t \in Sockets : diffs[t] = <<>>
NoMasters == \A t \in Sockets : masters[t] = <<>>
Taken == NoDiffs /\ NoMasters

Due(queue) == UNION {queue[k].to : k \in DOMAIN queue}

(* A directory: one entry under a name, in directories that are there. *)
Tree(F) ==
  /\ F \subseteq Entries
  /\ \A e, f \in F : e.path = f.path => e = f
  /\ \A e \in F : Above(e.path) \subseteq PathsOf(F)

(* The file table has the chunks of the files of F. *)
Tabled(owned, F) ==
  /\ DOMAIN owned = PathsOf(FilesOf(F))
  /\ \A e \in FilesOf(F) : DOMAIN owned[e.path] = 0 .. (NumChunks(e) - 1)

(* The handlers have been told of one change at a time, so none has failed. *)
IdIsSock == \A i \in Occupied : table[i].id = table[i].sock
Sane == crash = "none" /\ IdIsSock /\ peerIDs # <<>> /\ Tree(fs) /\ Tabled(ft, fs)

AllThere == arrived = accepted /\ Connected = open
AllKnown == AllThere /\ Registered = open
OwnersIn(S) == Owners(ft) \subseteq S
AllAlike(S) == \A e \in synced \cap S : replica[e] = fs

(* The messages of a join: the request for the master, and its answer. *)
Asks(S) ==
  /\ \A s \in Sockets : inbox[s] # <<>> => inbox[s] = <<MasterRequest>> /\ s \in S
  /\ toLogic.mreq \in Seq(S)
  /\ toNet.mst \in Seq([to : SUBSET S, fs : {fs}])
  /\ NoDiffs /\ \A e \in Sockets : masters[e] \in Seq({fs})
  /\ \A e \in synced : replica[e] = fs \/ e \in Due(toNet.mst) \/ masters[e] # <<>>

(* A client has connected and was not accepted. *)
Knocks(s) ==
  /\ arrived = s /\ accepted = s - 1 /\ s \in open
  /\ Connected = open \ {s} /\ Registered = Connected
  /\ OwnersIn(Connected)
  /\ InboxOf(s) /\ inbox[s] = <<MasterRequest>> /\ LogicHas({}) /\ NetHas({})
  /\ Taken /\ AllAlike(open)

(* Its id is on its way to the logic thread. *)
Enters(s) ==
  /\ AllThere /\ s \in open /\ Registered = open \ {s}
  /\ OwnersIn(open)
  /\ toLogic.new = <<s>> /\ LogicHas({"new", "mreq"}) /\ NetHas({"mst", "mft"})
  /\ Asks(open)
  /\ told[s] = open

(* What the logic thread made of the last step is being sent. *)
Tells ==
  /\ AllKnown /\ OwnersIn(open)
  /\ LogicHas({"mreq"}) /\ toNet.fsu = <<>>
  /\ Asks(open)
  /\ \A e \in open : told[e] = open \/ e \in Due(toNet.add) \cup Due(toNet.rem)

(* The clients of T are due for the update u and have it still to apply,   *)
(* as have those it was sent to who did not take it yet.                   *)
UpdateUnderWay(u, T) ==
  /\ \/ toNet.fsu = <<>> /\ T = {}
     \/ \E from \in Peers : toNet.fsu = <<[to |-> T, from |-> from, upd |-> u]>>
  /\ \A e \in Sockets : diffs[e] # <<>> => diffs[e] = <<u>> /\ e \notin T
  /\ \A e \in synced : IF e \in T \/ diffs[e] # <<>> THEN Applied(replica[e], u) = fs
                                                   ELSE replica[e] = fs

(* An update is being sent to those who do not have it. *)
Spreads ==
  /\ AllKnown /\ OwnersIn(open)
  /\ (\A s \in Sockets : inbox[s] = <<>>) /\ LogicHas({}) /\ NetHas({"fsu"})
  /\ NoMasters /\ \A e \in open : told[e] = open
  /\ \E u \in Update, T \in SUBSET open : UpdateUnderWay(u, T)

(* A client has left, and the network thread has yet to see it. *)
Closes(s) ==
  /\ arrived = accepted /\ s \in Sockets \ open
  /\ Connected = open \cup {s} /\ Registered = Connected
  /\ OwnersIn(Connected)
  /\ InboxOf(s) /\ inbox[s] = <<[type |-> "EOF"]>> /\ LogicHas({}) /\ NetHas({})
  /\ Taken /\ AllAlike(open)

(* Its loss is on its way to the logic thread. *)
Departs(s) ==
  /\ AllThere /\ s \in Sockets \ open /\ Registered = open \cup {s}
  /\ OwnersIn(open \cup {s})
  /\ (\A t \in Sockets : inbox[t] = <<>>) /\ toLogic.lost = <<s>> /\ LogicHas({"lost"}) /\ NetHas({})
  /\ Taken /\ AllAlike(open)

(* A client has sent the difference between its directory and the master,  *)
(* or a chunk number of a file it has.                                     *)
Differs(s, u) ==
  /\ Tree(replica[s])
  /\ u = [adds |-> Additions(fs, replica[s]), dels |-> Deletions(fs, replica[s])]
  /\ AllAlike(open \ {s})
Holds(p, chunk) == HasChunk(ft, p, chunk) /\ AllAlike(open)
Speaks(s) ==
  /\ AllKnown /\ OwnersIn(open) /\ s \in synced
  /\ InboxOf(s) /\ NetHas({})
  /\ Taken /\ \A e \in open : told[e] = open

Sends(s) ==
  /\ Speaks(s) /\ LogicHas({})
  /\ \/ \E u \in Update :
          inbox[s] = <<[type |-> "CLIENT_UPDATE", upd |-> u]>> /\ Differs(s, u)
     \/ \E p \in Files, chunk \in Nat :
          inbox[s] = <<[type |-> "CHUNK_GOT", path |-> p, chunk |-> chunk]>> /\ Holds(p, chunk)
Queued(s) ==
  /\ Speaks(s) /\ inbox[s] = <<>>
  /\ \/ \E u \in Update :
          toLogic.upd = <<[id |-> s, upd |-> u]>> /\ LogicHas({"upd"}) /\ Differs(s, u)
     \/ \E p \in Files, chunk \in Nat :
          toLogic.got = <<[id |-> s, path |-> p, chunk |-> chunk]>> /\ LogicHas({"got"}) /\ Holds(p, chunk)

InTurn ==
  /\ Sane
  /\ Tells \/ Spreads \/ \E s \in Sockets : Knocks(s) \/ Enters(s) \/ Closes(s) \/ Departs(s) \/ Sends(s) \/ Queued(s)

-----------------------------------------------------------------------------
(* Who is due for an item. *)

Served(queue, d) ==
  LET rest == Head(queue).to \ {d}
  IN  IF rest = {} THEN Tail(queue) ELSE [queue EXCEPT ![1].to = rest]

LEMMA ServedDue ==
  ASSUME NEW S, NEW queue \in Seq(S), queue # <<>>, NEW d,
         \A item \in S : \A T \in SUBSET item.to :
           [item EXCEPT !.to = T] \in S /\ [item EXCEPT !.to = T].to = T
  PROVE  /\ Served(queue, d) \in Seq(S) /\ Head(queue) \in S
         /\ Due(queue) \subseteq Due(Served(queue, d)) \cup {d}
<1> DEFINE rest == Head(queue).to \ {d}
           cut == [Head(queue) EXCEPT !.to = rest]
           new == Served(queue, d)
<1>1. /\ Head(queue) \in S /\ Tail(queue) \in Seq(S) /\ queue[1] = Head(queue) /\ Len(queue) \in Nat
      /\ DOMAIN queue = 1 .. Len(queue) /\ DOMAIN Tail(queue) = 1 .. (Len(queue) - 1)
      /\ \A k \in 1 .. (Len(queue) - 1) : Tail(queue)[k] = queue[k + 1]
  OBVIOUS
<1>2. cut \in S /\ cut.to = rest
  BY <1>1
<1>3. CASE rest = {}
  <2>1. new = Tail(queue)
    BY <1>3 DEF Served
  <2>2. ASSUME NEW k \in 1 .. Len(queue), k # 1
        PROVE  k - 1 \in DOMAIN Tail(queue) /\ Tail(queue)[k - 1] = queue[k]
    BY <1>1, <2>2
  <2>3. \A k \in DOMAIN queue : queue[k].to \subseteq Due(Tail(queue)) \cup {d}
    <3> TAKE k \in DOMAIN queue
    <3>1. CASE k = 1
      BY <1>1, <1>3, <3>1
    <3>2. CASE k # 1
      <4> DEFINE j == k - 1
      <4>1. j \in DOMAIN Tail(queue) /\ Tail(queue)[j] = queue[k]
        BY <1>1, <2>2, <3>2
      <4> HIDE DEF j
      <4> QED
        BY <4>1 DEF Due
    <3> QED
      BY <3>1, <3>2
  <2> QED
    BY <1>1, <2>1, <2>3 DEF Due
<1>4. CASE rest # {}
  <2>1. new = [queue EXCEPT ![1] = cut]
    BY <1>1, <1>4 DEF Served
  <2>2. \A k \in 1 .. Len(queue) : queue[k] \in S
    BY ElementOfSeq
  <2> HIDE DEF cut, rest
  <2>3. /\ new \in Seq(S) /\ DOMAIN new = DOMAIN queue
        /\ \A k \in DOMAIN queue : new[k] = IF k = 1 THEN cut ELSE queue[k]
    BY <1>2, <2>1, <2>2, Replaced
  <2>4. \A k \in DOMAIN queue : queue[k].to \subseteq Due(new) \cup {d}
    <3> TAKE k \in DOMAIN queue
    <3>1. new[k].to \subseteq Due(new)
      BY <2>3 DEF Due
    <3>2. CASE k = 1
      BY <1>1, <1>2, <2>3, <3>1, <3>2 DEF rest
    <3>3. CASE k # 1
      BY <2>3, <3>1, <3>3
    <3> QED
      BY <3>2, <3>3
  <2> QED
    BY <1>1, <2>3, <2>4 DEF Due
<1> QED
  BY <1>3, <1>4

LEMMA PushDue ==
  ASSUME NEW S, NEW queue \in Seq(S), NEW item \in S
  PROVE  Push(queue, item) \in Seq(S) /\ Due(Push(queue, item)) = Due(queue) \cup item.to
<1>1. CASE item.to = {}
  BY <1>1 DEF Push
<1>2. CASE item.to # {}
  <2> DEFINE new == Append(queue, item)
  <2>1. /\ new \in Seq(S) /\ DOMAIN queue = 1 .. Len(queue) /\ Len(queue) \in Nat
        /\ DOMAIN new = DOMAIN queue \cup {Len(queue) + 1}
        /\ new[Len(queue) + 1] = item /\ \A k \in DOMAIN queue : new[k] = queue[k]
    OBVIOUS
  <2> HIDE DEF new
  <2>2. Due(new) = Due(queue) \cup item.to
    BY <2>1 DEF Due
  <2> QED
    BY <1>2, <2>1, <2>2 DEF Push, new
<1> QED
  BY <1>1, <1>2

LEMMA DueEmpty == Due(<<>>) = {}
BY DEF Due

LEMMA EmptyIsSeq == \A S : <<>> \in Seq(S)
OBVIOUS

-----------------------------------------------------------------------------
(* Directories, and what a client does to its own. *)

LEMMA EntriesAre ==
  /\ \A e \in Entries : e.path \in Paths
  /\ \A e, f \in Entries : e.path = f.path /\ e.path \in Dirs => e = f
  /\ \A p \in Files, v \in Versions : [path |-> p, ver |-> v] \in Entries
  /\ \A d \in Dirs : [path |-> d, ver |-> 0] \in Entries
  /\ \A e \in Entries : e.path \in Files => e.ver \in Versions
BY FileSystemAssumption DEF Entries, Files

(* The difference of two directories, applied to the one by the tracker or *)
(* by a client, gives the other.                                           *)
LEMMA DifferenceApplies ==
  ASSUME NEW F, NEW G, Tree(F), Tree(G),
         NEW u, u = [adds |-> Additions(F, G), dels |-> Deletions(F, G)]
  PROVE  /\ MinusEquals(F, u.dels) = F \cap G
         /\ PlusDefined(MinusEquals(F, u.dels), u.adds)
         /\ PlusEquals(MinusEquals(F, u.dels), u.adds) = G
         /\ Applied(F, u) = G
<1>1. u.adds = G \ F /\ u.dels = F \ G
  BY DEF Additions, Deletions
<1>2. \A e \in F \cap G : \A d \in F \ G : <<e.path, d.path>> \notin Inside
  <2> SUFFICES ASSUME NEW e \in F \cap G, NEW d \in F \ G, <<e.path, d.path>> \in Inside
               PROVE  FALSE
    OBVIOUS
  <2>1. d.path \in Dirs /\ d.path \in Above(e.path)
    BY FileSystemAssumption DEF Above
  <2>2. PICK f \in G : f.path = d.path
    BY <2>1 DEF Tree, PathsOf
  <2> QED
    BY <2>1, <2>2, EntriesAre DEF Tree
<1>3. MinusEquals(F, u.dels) = F \cap G
  <2>1. F \cap (F \ G) = F \ G
    OBVIOUS
  <2> QED
    BY <1>1, <1>2, <2>1 DEF MinusEquals
<1>4. (F \cap G) \cup (G \ F) = G
  OBVIOUS
<1>5. PlusDefined(F \cap G, u.adds)
  BY <1>1, <1>4 DEF PlusDefined, Tree
<1>6. \A e \in F \cap G : e.path \notin PathsOf(F \ G) \cup PathsOf(G \ F)
  BY DEF Tree, PathsOf
<1>7. \A e \in F \ G : e.path \in PathsOf(F \ G)
  BY DEF PathsOf
<1>8. Applied(F, u) = (F \cap G) \cup (G \ F)
  <2>1. Applied(F, u) = {e \in F : /\ e.path \notin PathsOf(F \ G) \cup PathsOf(G \ F)
                                   /\ \A d \in F \ G : <<e.path, d.path>> \notin Inside} \cup (G \ F)
    BY <1>1 DEF Applied
  <2> QED
    BY <1>2, <1>6, <1>7, <2>1
<1> QED
  BY <1>1, <1>3, <1>4, <1>5, <1>8 DEF PlusEquals

LEMMA TreeWrites ==
  ASSUME NEW F, Tree(F), NEW p \in Files, NEW v \in Versions, Above(p) \subseteq PathsOf(F)
  PROVE  Tree({e \in F : e.path # p} \cup {[path |-> p, ver |-> v]})
<1> DEFINE x == [path |-> p, ver |-> v]
           G == {e \in F : e.path # p} \cup {x}
<1>1. x \in Entries /\ x.path = p /\ p \notin Dirs
  BY EntriesAre DEF Files
<1> HIDE DEF x
<1>2. G \subseteq Entries /\ \A e, f \in G : e.path = f.path => e = f
  BY <1>1 DEF Tree
<1>3. PathsOf(F) \subseteq PathsOf(G)
  BY <1>1 DEF PathsOf
<1>4. \A e \in G : Above(e.path) \subseteq PathsOf(G)
  BY <1>1, <1>3 DEF Tree
<1> QED
  BY <1>2, <1>4 DEF Tree, x

LEMMA TreeMakesDir ==
  ASSUME NEW F, Tree(F), NEW d \in Dirs, Above(d) \subseteq PathsOf(F)
  PROVE  Tree(F \cup {[path |-> d, ver |-> 0]})
<1> DEFINE x == [path |-> d, ver |-> 0]
           G == F \cup {x}
<1>1. x \in Entries /\ x.path = d
  BY EntriesAre
<1> HIDE DEF x
<1>2. G \subseteq Entries /\ \A e, f \in G : e.path = f.path => e = f
  BY <1>1, EntriesAre DEF Tree
<1>3. PathsOf(F) \subseteq PathsOf(G)
  BY DEF PathsOf
<1>4. \A e \in G : Above(e.path) \subseteq PathsOf(G)
  BY <1>1, <1>3 DEF Tree
<1> QED
  BY <1>2, <1>4 DEF Tree, x

LEMMA TreeRemoves ==
  ASSUME NEW F, Tree(F), NEW p \in Paths
  PROVE  Tree({e \in F : e.path # p /\ <<e.path, p>> \notin Inside})
<1> DEFINE G == {e \in F : e.path # p /\ <<e.path, p>> \notin Inside}
<1>1. G \subseteq Entries /\ \A e, f \in G : e.path = f.path => e = f
  BY DEF Tree
<1>2. ASSUME NEW e \in G, NEW d \in Above(e.path)
      PROVE  d \in PathsOf(G)
  <2>1. PICK f \in F : f.path = d
    BY <1>2 DEF Tree, PathsOf
  <2>2. e.path \in Paths /\ d \in Dirs /\ <<e.path, d>> \in Inside
    BY EntriesAre DEF Above, Tree
  <2>3. d # p
    BY <2>2
  <2>4. <<d, p>> \notin Inside
    BY <2>2, FileSystemAssumption
  <2> QED
    BY <2>1, <2>3, <2>4 DEF PathsOf
<1> QED
  BY <1>1, <1>2 DEF Tree

(* prune_filesystem on a directory: of each name it removes there is one.  *)
LEMMA TreePruned ==
  ASSUME NEW F, Tree(F), NEW P, P \subseteq Files, RemoveDefined(F, P), NEW G \in RemovedAtPaths(F, P)
  PROVE  G = {e \in F : e.path \notin P} /\ Tree(G)
<1> DEFINE Named(p) == {e \in F : e.path = p}
<1>1. PICK R \in SUBSET UNION {Named(p) : p \in P} :
        G = F \ R /\ \A p \in P : \E e \in R : R \cap Named(p) = {e}
  BY DEF RemovedAtPaths
<1>2. R = {e \in F : e.path \in P}
  <2>1. R \subseteq {e \in F : e.path \in P}
    BY <1>1
  <2>2. ASSUME NEW e \in F, e.path \in P
        PROVE  e \in R
    <3>1. PICK f \in R : R \cap Named(e.path) = {f}
      BY <1>1, <2>2
    <3>2. f \in Named(e.path)
      BY <3>1
    <3> QED
      BY <3>2 DEF Tree
  <2> QED
    BY <2>1, <2>2
<1>3. G = {e \in F : e.path \notin P}
  BY <1>1, <1>2
<1>4. \A e \in G : Above(e.path) \subseteq PathsOf(G)
  <2> SUFFICES ASSUME NEW e \in G, NEW d \in Above(e.path)
               PROVE  d \in PathsOf(G)
    OBVIOUS
  <2>1. PICK f \in F : f.path = d
    BY <1>3 DEF Tree, PathsOf
  <2>2. d \notin P
    BY DEF Above, Files
  <2> QED
    BY <1>3, <2>1, <2>2 DEF PathsOf
<1> QED
  BY <1>3, <1>4 DEF Tree

-----------------------------------------------------------------------------
(* The file table of a directory, and who owns what in it. *)

LEMMA OwnersAre ==
  ASSUME NEW f, NEW S
  PROVE  Owners(f) \subseteq S <=> \A p \in DOMAIN f : \A c \in DOMAIN f[p] : f[p][c] \subseteq S
BY DEF Owners

LEMMA TabledFiles ==
  ASSUME NEW f, NEW F, Tabled(f, F), F \subseteq Entries
  PROVE  /\ DOMAIN f \subseteq Files /\ DOMAIN f \subseteq PathsOf(F)
         /\ \A e \in FilesOf(F) : e \in F /\ e.path \in Files /\ NumChunks(e) \in Nat
                                  /\ e.ver \in Versions /\ e.path \in DOMAIN f
<1>1. \A e \in FilesOf(F) : e \in F /\ e.path \in Files /\ e.ver \in Versions
  BY EntriesAre DEF FilesOf
<1>2. \A e \in FilesOf(F) : NumChunks(e) \in Nat
  BY <1>1, FileTableAssumption DEF NumChunks
<1> QED
  BY <1>1, <1>2 DEF Tabled, PathsOf

(* filetable_remove_peer, and filetable_remove_file for what is pruned. *)
LEMMA TabledLost ==
  ASSUME NEW f \in FileTables, NEW F, Tabled(f, F), Tree(F), NEW id,
         NEW S, Owners(f) \subseteq S \cup {id}, NEW P, P \subseteq DOMAIN f,
         NEW G, G = {e \in F : e.path \notin P}
  PROVE  LET g == RemovePaths(RemovePeer(f, id), P) IN Tabled(g, G) /\ Owners(g) \subseteq S
<1> DEFINE g == RemovePaths(RemovePeer(f, id), P)
<1>1. /\ DOMAIN g = DOMAIN f \ P
      /\ \A p \in DOMAIN f \ P : g[p] = [c \in DOMAIN f[p] |-> f[p][c] \ {id}]
  BY DEF RemovePaths, RemovePeer
<1> HIDE DEF g
<1>2. FilesOf(G) = {e \in FilesOf(F) : e.path \notin P}
  BY DEF FilesOf
<1>3. PathsOf(FilesOf(G)) = PathsOf(FilesOf(F)) \ P
  BY <1>2 DEF PathsOf
<1>4. \A e \in FilesOf(G) : DOMAIN g[e.path] = DOMAIN f[e.path]
  BY <1>1, <1>2 DEF Tabled, PathsOf
<1>5. Tabled(g, G)
  BY <1>1, <1>2, <1>3, <1>4 DEF Tabled
<1>6. \A p \in DOMAIN g : \A c \in DOMAIN g[p] : g[p][c] \subseteq S
  <2> TAKE p \in DOMAIN g
  <2> TAKE c \in DOMAIN g[p]
  <2>1. p \in DOMAIN f /\ c \in DOMAIN f[p] /\ g[p][c] = f[p][c] \ {id}
    BY <1>1
  <2>2. f[p][c] \subseteq S \cup {id}
    BY <2>1, OwnersAre
  <2> QED
    BY <2>1, <2>2
<1>7. Owners(g) \subseteq S
  BY <1>6, OwnersAre
<1> QED
  BY <1>5, <1>7 DEF g

(* filetable_remove_filesystem, then filetable_add_filesystem. *)
LEMMA TabledUpdate ==
  ASSUME NEW f \in FileTables, NEW F, Tabled(f, F), Tree(F), NEW G, Tree(G), NEW id,
         NEW S, Owners(f) \subseteq S, id \in S
  PROVE  LET g == AddFileSystem(RemoveFileSystem(f, F \ G), G \ F, id)
         IN  Tabled(g, G) /\ Owners(g) \subseteq S
<1> DEFINE A == FilesOf(G \ F)
           D == FilesOf(F \ G)
           h == RemoveFileSystem(f, F \ G)
           g == AddFileSystem(h, G \ F, id)
           Newest(p) == CHOOSE e \in A : e.path = p
<1>1. /\ DOMAIN h = DOMAIN f \ PathsOf(D)
      /\ \A p \in DOMAIN f \ PathsOf(D) : h[p] = f[p]
  BY DEF RemoveFileSystem, RemovePaths
<1> HIDE DEF h
<1>2. /\ DOMAIN g = DOMAIN h \cup PathsOf(A)
      /\ \A p \in DOMAIN h \cup PathsOf(A) :
           g[p] = IF p \in PathsOf(A) THEN [c \in 0 .. (NumChunks(Newest(p)) - 1) |-> {id}] ELSE h[p]
  BY DEF AddFileSystem
<1> HIDE DEF g
<1>3. \A e \in A : Newest(e.path) = e
  <2> TAKE e \in A
  <2>1. Newest(e.path) \in A /\ Newest(e.path).path = e.path
    OBVIOUS
  <2> QED
    BY <2>1 DEF FilesOf, Tree
<1> HIDE DEF Newest
<1>4. /\ FilesOf(G) = A \cup (FilesOf(G) \cap FilesOf(F))
      /\ FilesOf(F) = D \cup (FilesOf(G) \cap FilesOf(F))
  BY DEF FilesOf
<1>5. \A e \in FilesOf(G) \cap FilesOf(F) : e.path \notin PathsOf(D) /\ e.path \notin PathsOf(A)
  BY DEF FilesOf, PathsOf, Tree
<1>6. PathsOf(FilesOf(G)) = PathsOf(A) \cup (PathsOf(FilesOf(F)) \ PathsOf(D))
  <2>1. PathsOf(FilesOf(G)) = PathsOf(A) \cup PathsOf(FilesOf(G) \cap FilesOf(F))
    BY <1>4 DEF PathsOf
  <2>2. PathsOf(FilesOf(F)) = PathsOf(D) \cup PathsOf(FilesOf(G) \cap FilesOf(F))
    BY <1>4 DEF PathsOf
  <2>3. PathsOf(FilesOf(G) \cap FilesOf(F)) \cap PathsOf(D) = {}
    BY <1>5 DEF PathsOf
  <2> QED
    BY <2>1, <2>2, <2>3
<1>7. DOMAIN g = PathsOf(FilesOf(G))
  BY <1>1, <1>2, <1>6 DEF Tabled
<1>8. \A e \in FilesOf(G) : DOMAIN g[e.path] = 0 .. (NumChunks(e) - 1)
  <2> TAKE e \in FilesOf(G)
  <2>1. CASE e \in A
    <3>1. e.path \in PathsOf(A)
      BY <2>1 DEF PathsOf
    <3> QED
      BY <1>2, <1>3, <2>1, <3>1
  <2>2. CASE e \in FilesOf(F)
    <3>1. e.path \notin PathsOf(D) /\ e.path \notin PathsOf(A) /\ e.path \in DOMAIN f
      BY <1>5, <2>2 DEF Tabled, PathsOf
    <3>2. e.path \in DOMAIN h /\ h[e.path] = f[e.path]
      BY <1>1, <3>1
    <3>3. g[e.path] = f[e.path]
      BY <1>2, <3>1, <3>2
    <3> QED
      BY <2>2, <3>3 DEF Tabled
  <2> QED
    BY <1>4, <2>1, <2>2
<1>9. \A p \in DOMAIN g : \A c \in DOMAIN g[p] : g[p][c] \subseteq S
  <2> TAKE p \in DOMAIN g
  <2> TAKE c \in DOMAIN g[p]
  <2>1. CASE p \in PathsOf(A)
    <3>1. g[p] = [k \in 0 .. (NumChunks(Newest(p)) - 1) |-> {id}]
      BY <1>2, <2>1
    <3>2. g[p][c] = {id}
      BY <3>1
    <3> QED
      BY <3>2
  <2>2. CASE p \notin PathsOf(A)
    <3>1. p \in DOMAIN f /\ g[p] = f[p]
      BY <1>1, <1>2, <2>2
    <3> QED
      BY <3>1, OwnersAre
  <2> QED
    BY <2>1, <2>2
<1>10. Owners(g) \subseteq S
  BY <1>9, OwnersAre
<1> QED
  BY <1>7, <1>8, <1>10 DEF Tabled, g, h

(* filetable_set_that_peer_has_file_chunk *)
LEMMA TabledGot ==
  ASSUME NEW f \in FileTables, NEW F, Tabled(f, F), NEW p \in DOMAIN f, NEW chunk \in DOMAIN f[p],
         NEW id, NEW S, Owners(f) \subseteq S, id \in S
  PROVE  Tabled(SetOwner(f, p, chunk, id), F) /\ Owners(SetOwner(f, p, chunk, id)) \subseteq S
<1> DEFINE g == SetOwner(f, p, chunk, id)
<1>1. DOMAIN g = DOMAIN f
  BY DEF SetOwner
<1>2. ASSUME NEW q \in DOMAIN f
      PROVE  g[q] = IF q = p THEN [f[p] EXCEPT ![chunk] = f[p][chunk] \cup {id}] ELSE f[q]
  BY FileTableElim DEF SetOwner
<1> HIDE DEF g
<1>3. \A q \in DOMAIN f : DOMAIN g[q] = DOMAIN f[q]
  BY <1>2
<1>4. Tabled(g, F)
  BY <1>1, <1>3 DEF Tabled, PathsOf
<1>5. \A q \in DOMAIN g : \A c \in DOMAIN g[q] : g[q][c] \subseteq S
  <2> TAKE q \in DOMAIN g
  <2> TAKE c \in DOMAIN g[q]
  <2>1. q \in DOMAIN f /\ c \in DOMAIN f[q] /\ f[q][c] \subseteq S
    BY <1>1, <1>3, OwnersAre
  <2>2. g[q][c] = f[q][c] \/ g[q][c] = f[q][c] \cup {id}
    <3>1. CASE q = p
      BY <1>2, <2>1, <3>1
    <3>2. CASE q # p
      BY <1>2, <2>1, <3>2
    <3> QED
      BY <3>1, <3>2
  <2> QED
    BY <2>1, <2>2
<1>6. Owners(g) \subseteq S
  BY <1>5, OwnersAre
<1> QED
  BY <1>4, <1>6 DEF g

-----------------------------------------------------------------------------
(* The two peer tables. *)

LEMMA RosterAre ==
  ASSUME NEW ids
  PROVE  \A x : x \in Roster(ids) <=> x \notin {-1, 0} /\ \E i \in DOMAIN ids : ids[i] = x
BY DEF Roster

(* addPeerToTable adds the peer, and no other goes. *)
LEMMA AddedPeerRoster ==
  ASSUME LogicOK, NEW id \in Peers, id \notin Registered, peerIDs # <<>>
  PROVE  Roster(AddedPeer(id)) = Registered \cup {id}
<1> DEFINE new == AddedPeer(id)
           Fit == {i \in DOMAIN peerIDs : peerIDs[i] \in {-1, id}}
           more == [i \in 1 .. Len(peerIDs) |-> IF i = 1 THEN id ELSE -1]
<1>1. peerIDs \in Seq(Peers \cup {-1}) /\ id # -1 /\ id # 0
  BY PeersAreNumbers DEF LogicOK
<1>2. \A i \in DOMAIN peerIDs : peerIDs[i] # id
  BY <1>1, RosterAre DEF Registered
<1>3. CASE Fit # {}
  <2> DEFINE k == CHOOSE i \in Fit : \A j \in Fit : i <= j
  <2>1. new = [peerIDs EXCEPT ![k] = id]
    BY <1>3 DEF AddedPeer
  <2>2. k \in Fit
    <3>1. Fit \subseteq Nat
      BY <1>1
    <3>2. \E i \in Fit : \A j \in Fit : i <= j
      BY <1>3, <3>1, LeastOf
    <3> QED
      BY <3>2
  <2> HIDE DEF k, new
  <2>3. DOMAIN new = DOMAIN peerIDs /\ k \in DOMAIN peerIDs /\ peerIDs[k] = -1
    BY <1>2, <2>1, <2>2
  <2>4. \A i \in DOMAIN peerIDs : new[i] = IF i = k THEN id ELSE peerIDs[i]
    BY <2>1
  <2>5. \A x : x \in Roster(new) <=> x = id \/ x \in Registered
    BY <1>1, <2>3, <2>4, RosterAre DEF Registered
  <2> QED
    BY <2>5 DEF new
<1>4. CASE Fit = {}
  <2>1. new = peerIDs \o more
    BY <1>4 DEF AddedPeer
  <2>2. more \in Seq(Peers \cup {-1}) /\ Len(more) = Len(peerIDs) /\ Len(peerIDs) \in Nat \ {0}
    BY <1>1
  <2>3. \A i \in 1 .. Len(peerIDs) : more[i] = IF i = 1 THEN id ELSE -1
    OBVIOUS
  <2> HIDE DEF more, new
  <2>4. \A i \in DOMAIN peerIDs : i \in DOMAIN new /\ new[i] = peerIDs[i]
    BY <1>1, <2>1, <2>2
  <2>5. Len(peerIDs) + 1 \in DOMAIN new /\ new[Len(peerIDs) + 1] = id
    <3>1. Len(peerIDs) + 1 \in DOMAIN new /\ new[Len(peerIDs) + 1] = more[1]
      BY <1>1, <2>1, <2>2
    <3>2. 1 \in 1 .. Len(peerIDs)
      BY <2>2
    <3> QED
      BY <2>3, <3>1, <3>2
  <2>6. \A i \in DOMAIN new : new[i] \in {-1, id} \/ (i \in DOMAIN peerIDs /\ new[i] = peerIDs[i])
    <3> TAKE i \in DOMAIN new
    <3>1. CASE i \in DOMAIN peerIDs
      BY <2>4, <3>1
    <3>2. CASE i \notin DOMAIN peerIDs
      <4>1. i - Len(peerIDs) \in 1 .. Len(peerIDs) /\ new[i] = more[i - Len(peerIDs)]
        BY <1>1, <2>1, <2>2, <3>2
      <4> QED
        BY <2>3, <4>1
    <3> QED
      BY <3>1, <3>2
  <2>7. \A x : x \in Roster(new) <=> x = id \/ x \in Registered
    BY <1>1, <2>4, <2>5, <2>6, RosterAre DEF Registered
  <2> QED
    BY <2>7 DEF new
<1> QED
  BY <1>3, <1>4

(* removePeerFromTable takes the peer out, and no other. *)
LEMMA RemovesPeerRoster ==
  ASSUME LogicOK, NEW id \in Peers, id \in Registered, RemovesPeer(id),
         \A i, j \in DOMAIN peerIDs : peerIDs[i] = peerIDs[j] /\ peerIDs[i] # -1 => i = j
  PROVE  Registered' = Registered \ {id} /\ peerIDs' # <<>>
<1> DEFINE At == {i \in DOMAIN peerIDs : peerIDs[i] = id}
<1>1. peerIDs \in Seq(Peers \cup {-1}) /\ id # -1 /\ id # 0
  BY PeersAreNumbers DEF LogicOK
<1>2. PICK k \in DOMAIN peerIDs : peerIDs[k] = id
  BY RosterAre DEF Registered
<1>3. At = {k}
  BY <1>1, <1>2
<1>4. peerIDs' = [peerIDs EXCEPT ![k] = -1]
  <2>1. k <= k
    BY <1>1
  <2> DEFINE first == CHOOSE i \in At : \A j \in At : i <= j
  <2>2. first \in At
    BY <1>3, <2>1
  <2>3. peerIDs' = [peerIDs EXCEPT ![first] = -1]
    BY <1>3 DEF RemovesPeer
  <2> HIDE DEF first
  <2>4. first = k
    BY <1>3, <2>2
  <2> QED
    BY <2>3, <2>4
<1>5. /\ DOMAIN peerIDs' = DOMAIN peerIDs
      /\ \A i \in DOMAIN peerIDs : peerIDs'[i] = IF i = k THEN -1 ELSE peerIDs[i]
  BY <1>4
<1>6. \A x : x \in Roster(peerIDs') <=> x \in Roster(peerIDs) /\ x # id
  BY <1>1, <1>2, <1>3, <1>5, RosterAre
<1>7. peerIDs' # <<>>
  BY <1>2, <1>5
<1> QED
  BY <1>6, <1>7 DEF Registered

(* Ids are drawn as sockets are accepted, so the two are the same number. *)
LEMMA SockOfId ==
  ASSUME IdIsSock, NEW d \in Connected
  PROVE  SockOf(d) = d
<1>1. \E i \in Occupied : table[i].id = d
  BY DEF Connected
<1> QED
  BY <1>1 DEF SockOf, IdIsSock

(* accept() puts the connection in a free slot, and there is one. *)
LEMMA SlotFree ==
  ASSUME Inv
  PROVE  \E i \in Slots \ Occupied : \A j \in Slots \ Occupied : i <= j
<1> DEFINE f == [i \in Slots |-> table[i].id]
<1>1. SUFFICES Slots \ Occupied # {}
  <2>1. Slots \ Occupied \subseteq Nat
    BY DEF Slots
  <2> QED
    BY <1>1, <2>1, LeastOf
<1>2. SUFFICES ASSUME Occupied = Slots PROVE FALSE
  BY DEF Occupied
<1>3. f \in [Slots -> Peers]
  BY <1>2 DEF Inv, TypeOK, NetworkOK, Occupied
<1>4. /\ IsFiniteSet(Slots) /\ Cardinality(Slots) = NetSlots
      /\ IsFiniteSet(Peers) /\ Cardinality(Peers) < Cardinality(Slots)
  <2>1. IsFiniteSet(1 .. NetSlots) /\ Cardinality(1 .. NetSlots) = NetSlots
    BY FS_Interval, TrackerAssumption
  <2>2. IsFiniteSet(1 .. Cardinality(Peers))
    BY FS_Interval, TrackerAssumption
  <2> QED
    BY <2>1, <2>2, TrackerAssumption DEF Slots
<1> HIDE DEF f
<1>5. \E i, j \in Slots : i # j /\ f[i] = f[j]
  BY <1>3, <1>4, FS_PigeonHole
<1> QED
  BY <1>2, <1>5 DEF f, Inv, SlotsDistinct

-----------------------------------------------------------------------------
(* Stages, and what tells them apart. *)

LogicNames == {"new", "mreq", "lost", "got", "upd"}
NetNames == {"acq", "fsu", "add", "rem", "mst", "mft"}

LEMMA QueueNames ==
  ASSUME Inv
  PROVE  DOMAIN toLogic = LogicNames /\ DOMAIN toNet = NetNames
BY DEF Inv, TypeOK, LogicQueues, NetQueues, LogicNames, NetNames

LEMMA RestIs ==
  ASSUME Inv, InTurn, Idle
  PROVE  /\ AllKnown /\ OwnersIn(open)
         /\ (\A s \in Sockets : inbox[s] = <<>>) /\ LogicHas({}) /\ NetHas({})
         /\ Taken /\ (\A e \in open : told[e] = open) /\ AllAlike(open)
<1>1. /\ arrived = accepted /\ (\A s \in Sockets : inbox[s] = <<>>) /\ Taken
      /\ \A q \in LogicNames : toLogic[q] = <<>>
      /\ \A q \in NetNames : toNet[q] = <<>>
  BY QueueNames DEF Idle, Taken, NoDiffs, NoMasters
<1>2. /\ toLogic.new = <<>> /\ toLogic.lost = <<>> /\ toLogic.upd = <<>> /\ toLogic.got = <<>>
      /\ toNet.fsu = <<>> /\ toNet.add = <<>> /\ toNet.rem = <<>> /\ toNet.mst = <<>>
  BY <1>1 DEF LogicNames, NetNames
<1>3. LogicHas({}) /\ NetHas({})
  BY <1>1 DEF LogicHas, NetHas, LogicNames, NetNames
<1>4. Spreads => (\A e \in open : told[e] = open) /\ AllAlike(open) /\ AllKnown /\ OwnersIn(open)
  <2> SUFFICES ASSUME Spreads
               PROVE  (\A e \in open : told[e] = open) /\ AllAlike(open) /\ AllKnown /\ OwnersIn(open)
    OBVIOUS
  <2>1. PICK u \in Update, T \in SUBSET open : UpdateUnderWay(u, T)
    BY DEF Spreads
  <2>2. T = {} /\ \A e \in Sockets : diffs[e] = <<>>
    BY <1>1, <1>2, <2>1 DEF UpdateUnderWay, Taken, NoDiffs
  <2> QED
    BY <2>1, <2>2 DEF Spreads, UpdateUnderWay, AllAlike, Inv, TypeOK, ClientsOK
<1>5. \A s \in Sockets : ~Knocks(s) /\ ~Closes(s) /\ ~Sends(s)
  <2> TAKE s \in Sockets
  <2>1. inbox[s] = <<>>
    BY <1>1
  <2> QED
    BY <2>1 DEF Knocks, Closes, Sends
<1>6. \A s \in Sockets : ~Enters(s) /\ ~Departs(s) /\ ~Queued(s)
  BY <1>2 DEF Enters, Departs, Queued
<1>7. Tells => (\A e \in open : told[e] = open) /\ AllAlike(open) /\ AllKnown /\ OwnersIn(open)
  BY <1>1, <1>2, DueEmpty DEF Tells, Asks, AllAlike, Taken, NoMasters, Inv, TypeOK, ClientsOK
<1>8. Tells \/ Spreads
  BY <1>5, <1>6 DEF InTurn
<1> QED
  BY <1>1, <1>3, <1>4, <1>7, <1>8

LEMMA NewStage ==
  ASSUME InTurn, toLogic.new # <<>>
  PROVE  \E s \in Sockets : Enters(s)
BY DEF InTurn, Tells, Spreads, Knocks, Closes, Departs, Sends, Queued, LogicHas

LEMMA LostStage ==
  ASSUME InTurn, toLogic.lost # <<>>
  PROVE  \E s \in Sockets : Departs(s)
BY DEF InTurn, Tells, Spreads, Knocks, Closes, Enters, Sends, Queued, LogicHas

LEMMA WorkStage ==
  ASSUME InTurn, toLogic.got # <<>> \/ toLogic.upd # <<>>
  PROVE  \E s \in Sockets : Queued(s)
BY DEF InTurn, Tells, Spreads, Knocks, Closes, Enters, Sends, Departs, LogicHas

LEMMA RequestStage ==
  ASSUME InTurn, toLogic.mreq # <<>>
  PROVE  Tells \/ \E s \in Sockets : Enters(s)
BY DEF InTurn, Spreads, Knocks, Closes, Departs, Sends, Queued, LogicHas

LEMMA KnockStage ==
  ASSUME InTurn, arrived # accepted
  PROVE  \E s \in Sockets : Knocks(s)
BY DEF InTurn, Tells, Spreads, Enters, Closes, Departs, Sends, Queued, Speaks, AllKnown, AllThere

LEMMA NetStage ==
  ASSUME InTurn, NEW q \in NetNames, toNet[q] # <<>>
  PROVE  \/ q = "fsu" /\ Spreads
         \/ q # "fsu" /\ Tells
         \/ q \in {"mst", "mft"} /\ \E s \in Sockets : Enters(s)
<1>1. \A s \in Sockets : ~Knocks(s) /\ ~Closes(s) /\ ~Departs(s) /\ ~Sends(s) /\ ~Queued(s)
  BY DEF Knocks, Closes, Departs, Sends, Queued, Speaks, NetHas, NetNames
<1>2. Spreads => q = "fsu"
  BY DEF Spreads, NetHas, NetNames
<1>3. Tells => q # "fsu"
  BY DEF Tells
<1>4. \A s \in Sockets : Enters(s) => q \in {"mst", "mft"}
  BY DEF Enters, NetHas, NetNames
<1> QED
  BY <1>1, <1>2, <1>3, <1>4 DEF InTurn

(* A step that leaves what the stages are told by leaves the stage. *)
turnVars == <<arrived, open, inbox, synced, replica, diffs, masters, told, accepted, table, toLogic, toNet,
              peerIDs, fs, ft, crash>>

LEMMA TurnFrame ==
  ASSUME InTurn, UNCHANGED turnVars
  PROVE  InTurn'
<1>1. /\ UNCHANGED <<arrived, open, inbox, synced, replica, diffs, masters, told, accepted, table>>
      /\ UNCHANGED <<toLogic, toNet, peerIDs, fs, ft, crash>>
  BY DEF turnVars
<1>2. Occupied' = Occupied /\ Connected' = Connected /\ Registered' = Registered
  BY <1>1 DEF Occupied, Connected, Registered
<1>3. Sane'
  BY <1>1, <1>2 DEF InTurn, Sane, IdIsSock
<1>4. AllThere' = AllThere /\ AllKnown' = AllKnown /\ \A S : OwnersIn(S)' = OwnersIn(S)
  BY <1>1, <1>2 DEF AllThere, AllKnown, OwnersIn
<1> USE DEF LogicHas, NetHas, InboxOf, AllAlike, Taken, NoDiffs, NoMasters
<1>5. Tells => Tells'
  BY <1>1, <1>2, <1>4 DEF Tells, Asks, OwnersIn
<1>6. Spreads => Spreads'
  <2>1. \A u, T : UpdateUnderWay(u, T) => UpdateUnderWay(u, T)'
    BY <1>1 DEF UpdateUnderWay
  <2> QED
    BY <1>1, <1>2, <1>4, <2>1 DEF Spreads, OwnersIn
<1>7. \A s \in Sockets : Knocks(s) => Knocks(s)'
  BY <1>1, <1>2 DEF Knocks, OwnersIn
<1>8. \A s \in Sockets : Enters(s) => Enters(s)'
  BY <1>1, <1>2, <1>4 DEF Enters, Asks, OwnersIn
<1>9. \A s \in Sockets : Closes(s) => Closes(s)'
  BY <1>1, <1>2 DEF Closes, OwnersIn
<1>10. \A s \in Sockets : Departs(s) => Departs(s)'
  BY <1>1, <1>2, <1>4 DEF Departs, OwnersIn
<1>11. \A s \in Sockets : Sends(s) => Sends(s)'
  BY <1>1, <1>2, <1>4 DEF Sends, Speaks, Differs, Holds, OwnersIn
<1>12. \A s \in Sockets : Queued(s) => Queued(s)'
  BY <1>1, <1>2, <1>4 DEF Queued, Speaks, Differs, Holds, OwnersIn
<1> QED
  BY <1>3, <1>5, <1>6, <1>7, <1>8, <1>9, <1>10, <1>11, <1>12 DEF InTurn

-----------------------------------------------------------------------------
(* The clients, who act at rest. *)

LEMMA TurnConnects ==
  ASSUME Patient = TRUE, Inv, InTurn, ClientConnects
  PROVE  InTurn'
<1> PICK s : s = arrived + 1
  OBVIOUS
<1>1. /\ Idle /\ arrived < Cardinality(Peers) /\ arrived' = s /\ open' = open \cup {s}
      /\ inbox' = [inbox EXCEPT ![s] = <<MasterRequest>>]
      /\ UNCHANGED <<synced, replica, diffs, masters, told>>
      /\ UNCHANGED <<accepted, table, toLogic, toNet, peerIDs, fs, ft, crash>>
  BY Zenon DEF ClientConnects, ClientStep, netVars, logicVars, MasterRequest
<1>2. /\ AllKnown /\ OwnersIn(open)
      /\ (\A t \in Sockets : inbox[t] = <<>>) /\ LogicHas({}) /\ NetHas({})
      /\ Taken /\ AllAlike(open)
  BY <1>1, RestIs
<1>3. s \in Sockets /\ arrived = s - 1 /\ inbox \in [Sockets -> Seq(Message)]
  BY <1>1, PeersAreNumbers DEF Inv, TypeOK, ClientsOK, Sockets
<1>4. s \notin open
  <2>1. s \notin Connected
    BY <1>1, PeersAreNumbers DEF Connected, Inv, SlotsAccepted, Idle, TypeOK, ClientsOK
  <2> QED
    BY <1>2, <2>1 DEF AllKnown, AllThere
<1>5. Connected' = Connected /\ Registered' = Registered /\ Occupied' = Occupied
  BY <1>1 DEF Connected, Occupied, Registered
<1>6. Knocks(s)'
  <2>1. arrived' = s /\ accepted' = s - 1 /\ s \in open'
    BY <1>1, <1>3 DEF Idle
  <2>2. Connected' = open' \ {s} /\ Registered' = Connected' /\ (OwnersIn(Connected))'
    BY <1>1, <1>2, <1>4, <1>5 DEF AllKnown, AllThere, OwnersIn
  <2>3. InboxOf(s)' /\ inbox'[s] = <<MasterRequest>>
    BY <1>1, <1>2, <1>3 DEF InboxOf
  <2>4. LogicHas({})' /\ NetHas({})'
    BY <1>1, <1>2 DEF LogicHas, NetHas
  <2>5. Taken' /\ AllAlike(open)'
    BY <1>1, <1>2 DEF Taken, NoDiffs, NoMasters, AllAlike, Inv, TypeOK, ClientsOK
  <2> QED
    BY <2>1, <2>2, <2>3, <2>4, <2>5 DEF Knocks
<1>7. Sane'
  BY <1>1, <1>5 DEF InTurn, Sane, IdIsSock
<1> QED
  BY <1>3, <1>6, <1>7 DEF InTurn

(* A client that closes is a stranger to the others only later. *)
LEMMA TurnCloses ==
  ASSUME Patient = TRUE, Inv, InTurn, NEW s \in Sockets, ClientCloses(s)
  PROVE  InTurn'
<1>1. /\ Idle /\ s \in open /\ open' = open \ {s} /\ synced' = synced \ {s}
      /\ inbox' = [inbox EXCEPT ![s] = Append(@, [type |-> "EOF"])]
      /\ replica' = [replica EXCEPT ![s] = {}]
      /\ diffs' = [diffs EXCEPT ![s] = <<>>] /\ masters' = [masters EXCEPT ![s] = <<>>]
      /\ UNCHANGED <<arrived, accepted, table, toLogic, toNet, peerIDs, fs, ft, crash>>
  BY DEF ClientCloses, ClientStep, netVars, logicVars
<1>2. /\ AllKnown /\ OwnersIn(open)
      /\ (\A t \in Sockets : inbox[t] = <<>>) /\ LogicHas({}) /\ NetHas({})
      /\ Taken /\ AllAlike(open)
  BY <1>1, RestIs
<1>3. inbox \in [Sockets -> Seq(Message)] /\ replica \in [Sockets -> SUBSET Entries] /\ synced \subseteq Sockets
  BY DEF Inv, TypeOK, ClientsOK
<1>4. Connected' = Connected /\ Registered' = Registered /\ Occupied' = Occupied
  BY <1>1 DEF Connected, Occupied, Registered
<1>5. Closes(s)'
  <2>1. arrived' = accepted' /\ s \in Sockets \ open'
    BY <1>1 DEF Idle
  <2>2. Connected' = open' \cup {s} /\ Registered' = Connected' /\ (OwnersIn(Connected))'
    BY <1>1, <1>2, <1>4 DEF AllKnown, AllThere, OwnersIn
  <2>3. InboxOf(s)' /\ inbox'[s] = <<[type |-> "EOF"]>>
    <3>1. Append(<<>>, [type |-> "EOF"]) = <<[type |-> "EOF"]>>
      OBVIOUS
    <3>2. inbox'[s] = Append(inbox[s], [type |-> "EOF"]) /\ \A t \in Sockets \ {s} : inbox'[t] = inbox[t]
      BY <1>1, <1>3
    <3> QED
      BY <1>2, <3>1, <3>2 DEF InboxOf
  <2>4. LogicHas({})' /\ NetHas({})'
    BY <1>1, <1>2 DEF LogicHas, NetHas
  <2>5. Taken' /\ AllAlike(open)'
    BY <1>1, <1>2, <1>3 DEF Taken, NoDiffs, NoMasters, AllAlike, Inv, TypeOK, ClientsOK
  <2> QED
    BY <2>1, <2>2, <2>3, <2>4, <2>5 DEF Closes
<1>6. Sane'
  BY <1>1, <1>4 DEF InTurn, Sane, IdIsSock
<1> QED
  BY <1>5, <1>6 DEF InTurn

LEMMA TurnSends ==
  ASSUME Patient = TRUE, Inv, InTurn, NEW s \in Sockets, NEW new, Tree(new), SendsUpdate(s, new)
  PROVE  InTurn'
<1> PICK u : u = [adds |-> Additions(replica[s], new), dels |-> Deletions(replica[s], new)]
  OBVIOUS
<1> DEFINE m == [type |-> "CLIENT_UPDATE", upd |-> u]
<1>1. /\ Idle /\ s \in open \cap synced
      /\ inbox' = [inbox EXCEPT ![s] = Append(@, m)]
      /\ replica' = [replica EXCEPT ![s] = new]
      /\ UNCHANGED <<arrived, open, synced, diffs, masters, told>>
      /\ UNCHANGED <<accepted, table, toLogic, toNet, peerIDs, fs, ft, crash>>
  BY DEF SendsUpdate, ClientStep, netVars, logicVars
<1>2. /\ AllKnown /\ OwnersIn(open)
      /\ (\A t \in Sockets : inbox[t] = <<>>) /\ LogicHas({}) /\ NetHas({})
      /\ Taken /\ (\A e \in open : told[e] = open) /\ AllAlike(open)
  BY <1>1, RestIs
<1>3. inbox \in [Sockets -> Seq(Message)] /\ replica \in [Sockets -> SUBSET Entries] /\ synced \subseteq Sockets
  BY DEF Inv, TypeOK, ClientsOK
<1>4. Connected' = Connected /\ Registered' = Registered /\ Occupied' = Occupied
  BY <1>1 DEF Connected, Occupied, Registered
<1>5. replica[s] = fs /\ replica'[s] = new /\ \A t \in Sockets \ {s} : replica'[t] = replica[t]
  BY <1>1, <1>2, <1>3 DEF AllAlike
<1>6. u \in Update
  BY <1>5 DEF InTurn, Sane, Tree, Update, Additions, Deletions
<1>7. Differs(s, u)'
  BY <1>1, <1>2, <1>3, <1>5 DEF Differs, AllAlike, Additions, Deletions
<1>8. Speaks(s)'
  <2>1. AllKnown' /\ OwnersIn(open)'
    BY <1>1, <1>2, <1>4 DEF AllKnown, AllThere, OwnersIn
  <2>2. InboxOf(s)' /\ NetHas({})' /\ Taken'
    BY <1>1, <1>2, <1>3 DEF InboxOf, NetHas, Taken, NoDiffs, NoMasters
  <2> QED
    BY <1>1, <1>2, <2>1, <2>2 DEF Speaks
<1>9. inbox'[s] = <<m>>
  <2> HIDE DEF m
  <2>1. Append(<<>>, m) = <<m>> /\ inbox'[s] = Append(inbox[s], m)
    BY <1>1, <1>3
  <2> QED
    BY <1>2, <2>1
<1>10. LogicHas({})'
  BY <1>1, <1>2 DEF LogicHas
<1>11. Sends(s)'
  BY <1>6, <1>7, <1>8, <1>9, <1>10 DEF Sends
<1>12. Sane'
  BY <1>1, <1>4 DEF InTurn, Sane, IdIsSock
<1> QED
  BY <1>11, <1>12 DEF InTurn

LEMMA TurnGot ==
  ASSUME Patient = TRUE, Inv, InTurn, NEW s \in Sockets, NEW e \in Entries, e.path \in Files,
         NEW chunk \in 0 .. (NumChunks(e) - 1), ClientGot(s, e, chunk)
  PROVE  InTurn'
<1> DEFINE m == [type |-> "CHUNK_GOT", path |-> e.path, chunk |-> chunk]
<1>1. /\ Idle /\ s \in open \cap synced /\ e \in FilesOf(replica[s])
      /\ inbox' = [inbox EXCEPT ![s] = Append(@, m)]
      /\ UNCHANGED <<arrived, open, synced, replica, diffs, masters, told>>
      /\ UNCHANGED <<accepted, table, toLogic, toNet, peerIDs, fs, ft, crash>>
  BY DEF ClientGot, ClientStep, netVars, logicVars
<1>2. /\ AllKnown /\ OwnersIn(open)
      /\ (\A t \in Sockets : inbox[t] = <<>>) /\ LogicHas({}) /\ NetHas({})
      /\ Taken /\ (\A d \in open : told[d] = open) /\ AllAlike(open)
  BY <1>1, RestIs
<1>3. inbox \in [Sockets -> Seq(Message)] /\ synced \subseteq Sockets
  BY DEF Inv, TypeOK, ClientsOK
<1>4. Connected' = Connected /\ Registered' = Registered /\ Occupied' = Occupied
  BY <1>1 DEF Connected, Occupied, Registered
<1>5. HasChunk(ft, e.path, chunk)
  BY <1>1, <1>2 DEF AllAlike, InTurn, Sane, Tabled, PathsOf, HasChunk
<1>6. Holds(e.path, chunk)'
  BY <1>1, <1>2, <1>5 DEF Holds, AllAlike
<1>7. Speaks(s)'
  <2>1. AllKnown' /\ OwnersIn(open)'
    BY <1>1, <1>2, <1>4 DEF AllKnown, AllThere, OwnersIn
  <2>2. InboxOf(s)' /\ NetHas({})' /\ Taken'
    BY <1>1, <1>2, <1>3 DEF InboxOf, NetHas, Taken, NoDiffs, NoMasters
  <2> QED
    BY <1>1, <1>2, <2>1, <2>2 DEF Speaks
<1>8. inbox'[s] = <<m>>
  <2> HIDE DEF m
  <2>1. Append(<<>>, m) = <<m>> /\ inbox'[s] = Append(inbox[s], m)
    BY <1>1, <1>3
  <2> QED
    BY <1>2, <2>1
<1>9. LogicHas({})' /\ chunk \in Nat
  <2>1. NumChunks(e) \in Int
    BY EntriesAre, FileTableAssumption DEF NumChunks
  <2> QED
    BY <1>1, <1>2, <2>1 DEF LogicHas
<1>10. Sends(s)'
  BY <1>6, <1>7, <1>8, <1>9 DEF Sends
<1>11. Sane'
  BY <1>1, <1>4 DEF InTurn, Sane, IdIsSock
<1> QED
  BY <1>10, <1>11 DEF InTurn

(* A client takes what it was sent at any moment: the master, or update, of *)
(* the stage.                                                              *)
LEMMA Receives ==
  ASSUME InTurn, NEW s \in Sockets, ClientReceives(s)
  PROVE  /\ Sane' /\ Connected' = Connected /\ Registered' = Registered
         /\ UNCHANGED <<arrived, open, inbox, told, accepted, toLogic, toNet, fs, ft>>
<1>1. /\ UNCHANGED <<arrived, open, inbox, told, accepted, table>>
      /\ UNCHANGED <<toLogic, toNet, peerIDs, fs, ft, crash>>
  BY DEF ClientReceives, ClientTakesMaster, ClientTakesDiff, netVars, logicVars
<1>2. Occupied' = Occupied /\ Connected' = Connected /\ Registered' = Registered
  BY <1>1 DEF Occupied, Connected, Registered
<1> QED
  BY <1>1, <1>2 DEF InTurn, Sane, IdIsSock

LEMMA TurnTakesMaster ==
  ASSUME Inv, InTurn, NEW s \in Sockets, ClientTakesMaster(s)
  PROVE  InTurn'
<1>1. /\ s \in open /\ masters[s] # <<>> /\ UNCHANGED diffs
      /\ replica' = [replica EXCEPT ![s] = Head(masters[s])]
      /\ synced' = synced \cup {s} /\ masters' = [masters EXCEPT ![s] = Tail(@)]
  BY DEF ClientTakesMaster
<1>2. /\ Sane' /\ Connected' = Connected /\ Registered' = Registered
      /\ UNCHANGED <<arrived, open, inbox, told, accepted, toLogic, toNet, fs, ft>>
  BY Receives DEF ClientReceives
<1>3. ~Spreads /\ \A t \in Sockets : ~Knocks(t) /\ ~Closes(t) /\ ~Departs(t) /\ ~Sends(t) /\ ~Queued(t)
  BY <1>1 DEF Spreads, Knocks, Closes, Departs, Sends, Queued, Speaks, Taken, NoMasters
<1>4. ASSUME Asks(open)
      PROVE  Asks(open)'
  <2>1. masters[s] \in Seq({fs})
    BY <1>4 DEF Asks
  <2>2. Head(masters[s]) = fs /\ Tail(masters[s]) \in Seq({fs})
    BY <1>1, <2>1
  <2>3. /\ \A e \in Sockets : masters'[e] = IF e = s THEN Tail(masters[s]) ELSE masters[e]
        /\ \A e \in Sockets : replica'[e] = IF e = s THEN fs ELSE replica[e]
        /\ synced \subseteq Sockets
    BY <1>1, <2>2 DEF Inv, TypeOK, ClientsOK
  <2>4. \A e \in Sockets : masters'[e] \in Seq({fs'})
    BY <1>2, <1>4, <2>2, <2>3 DEF Asks
  <2>5. \A e \in synced' : replica'[e] = fs' \/ e \in Due(toNet'.mst) \/ masters'[e] # <<>>
    BY <1>1, <1>2, <1>4, <2>3 DEF Asks
  <2> QED
    BY <1>1, <1>2, <1>4, <2>4, <2>5 DEF Asks, NoDiffs
<1>5. Tells => Tells'
  BY <1>2, <1>4 DEF Tells, AllKnown, AllThere, OwnersIn, LogicHas
<1>6. \A t \in Sockets : Enters(t) => Enters(t)'
  BY <1>2, <1>4 DEF Enters, AllThere, OwnersIn, LogicHas, NetHas
<1> QED
  BY <1>2, <1>3, <1>5, <1>6 DEF InTurn

LEMMA TurnTakesDiff ==
  ASSUME Inv, InTurn, NEW s \in Sockets, ClientTakesDiff(s)
  PROVE  InTurn'
<1>1. /\ s \in synced /\ diffs[s] # <<>> /\ UNCHANGED <<synced, masters>>
      /\ replica' = [replica EXCEPT ![s] = Applied(@, Head(diffs[s]))]
      /\ diffs' = [diffs EXCEPT ![s] = Tail(@)]
  BY DEF ClientTakesDiff
<1>2. /\ Sane' /\ Connected' = Connected /\ Registered' = Registered
      /\ UNCHANGED <<arrived, open, inbox, told, accepted, toLogic, toNet, fs, ft>>
  BY Receives DEF ClientReceives
<1>3. ~Tells /\ \A t \in Sockets : /\ ~Knocks(t) /\ ~Enters(t) /\ ~Closes(t) /\ ~Departs(t)
                                   /\ ~Sends(t) /\ ~Queued(t)
  BY <1>1 DEF Tells, Enters, Asks, Knocks, Closes, Departs, Sends, Queued, Speaks, Taken, NoDiffs
<1>4. Spreads
  BY <1>3 DEF InTurn
<1>5. PICK u \in Update, T \in SUBSET open : UpdateUnderWay(u, T)
  BY <1>4 DEF Spreads
<1>6. Head(diffs[s]) = u /\ Tail(diffs[s]) = <<>> /\ s \notin T
  <2>1. diffs[s] = <<u>> /\ s \notin T
    BY <1>1, <1>5 DEF UpdateUnderWay
  <2> QED
    BY <2>1
<1>7. /\ \A e \in Sockets : diffs'[e] = IF e = s THEN <<>> ELSE diffs[e]
      /\ \A e \in Sockets : replica'[e] = IF e = s THEN Applied(replica[s], u) ELSE replica[e]
      /\ synced \subseteq Sockets
  BY <1>1, <1>6 DEF Inv, TypeOK, ClientsOK
<1>8. UpdateUnderWay(u, T)'
  BY <1>1, <1>2, <1>5, <1>6, <1>7 DEF UpdateUnderWay
<1>9. Spreads'
  BY <1>1, <1>2, <1>4, <1>8 DEF Spreads, AllKnown, AllThere, OwnersIn, LogicHas, NetHas, NoMasters
<1> QED
  BY <1>2, <1>9 DEF InTurn

LEMMA TurnClient ==
  ASSUME Patient = TRUE, Inv, InTurn, Client
  PROVE  InTurn'
<1>1. CASE \E s \in Sockets : ClientReceives(s)
  BY <1>1, TurnTakesMaster, TurnTakesDiff DEF ClientReceives
<1> SUFFICES ASSUME ~\E s \in Sockets : ClientReceives(s)
             PROVE  InTurn'
  BY <1>1
<1>2. Idle
  BY ClientTakesClientStep DEF ClientStep
<1>3. \A s \in Sockets : s \in open \cap synced => Tree(replica[s])
  BY <1>2, RestIs DEF AllAlike, InTurn, Sane
<1>4. ASSUME NEW s \in Sockets, NEW p \in Files, ClientWrites(s, p)
      PROVE  InTurn'
  <2> DEFINE new == {e \in replica[s] : e.path # p} \cup {[path |-> p, ver |-> edits + 1]}
  <2>1. SendsUpdate(s, new) /\ Above(p) \subseteq PathsOf(replica[s])
    BY <1>4 DEF ClientWrites
  <2>2. Tree(replica[s]) /\ edits + 1 \in Versions
    BY <1>3, <2>1, FileSystemAssumption DEF SendsUpdate, Versions, Inv, TypeOK, ClientsOK
  <2>3. Tree(new)
    BY <2>1, <2>2, TreeWrites
  <2> QED
    BY <2>1, <2>3, TurnSends
<1>5. ASSUME NEW s \in Sockets, NEW d \in Dirs, ClientMakesDir(s, d)
      PROVE  InTurn'
  <2>1. /\ SendsUpdate(s, replica[s] \cup {[path |-> d, ver |-> 0]})
        /\ Above(d) \subseteq PathsOf(replica[s])
    BY <1>5 DEF ClientMakesDir
  <2>2. Tree(replica[s])
    BY <1>3, <2>1 DEF SendsUpdate
  <2> QED
    BY <2>1, <2>2, TreeMakesDir, TurnSends
<1>6. ASSUME NEW s \in Sockets, NEW p \in Paths, ClientRemoves(s, p)
      PROVE  InTurn'
  <2>1. SendsUpdate(s, {e \in replica[s] : e.path # p /\ <<e.path, p>> \notin Inside})
    BY <1>6 DEF ClientRemoves
  <2>2. Tree(replica[s])
    BY <1>3, <2>1 DEF SendsUpdate
  <2> QED
    BY <2>1, <2>2, TreeRemoves, TurnSends
<1> QED
  BY <1>4, <1>5, <1>6, TurnConnects, TurnCloses, TurnGot DEF Client

-----------------------------------------------------------------------------
(* The network thread accepts and reads. *)

LEMMA TurnSelect ==
  ASSUME Inv, InTurn, NetSelect
  PROVE  InTurn'
<1>1. CASE ~(accepted < arrived)
  BY <1>1, TurnFrame DEF NetSelect, logicVars, turnVars
<1>2. CASE accepted < arrived
  <2>1. PICK s \in Sockets : Knocks(s)
    <3>1. accepted \in Nat /\ arrived \in Nat
      BY PeersAreNumbers DEF Inv, TypeOK, ClientsOK, NetworkOK
    <3> QED
      BY <1>2, <3>1, KnockStage
  <2>2. s = accepted + 1 /\ s = idCounter /\ s # 0 /\ s = arrived
    <3>1. accepted \in Nat /\ s \in Nat \ {0} /\ idCounter = accepted + 1
      BY PeersAreNumbers DEF Inv, TypeOK, ClientsOK, NetworkOK, Sockets
    <3> QED
      BY <2>1, <3>1 DEF Knocks
  <2>3. PICK i \in Slots \ Occupied :
          table' = [table EXCEPT ![i] = [id |-> s, sock |-> s]]
    <3>1. LET i == CHOOSE i \in Slots \ Occupied : \A j \in Slots \ Occupied : i <= j
          IN  table' = [table EXCEPT ![i] = [id |-> s, sock |-> s]]
      BY <1>2, <2>2 DEF NetSelect, NewId
    <3> QED
      BY <3>1, SlotFree
  <2>4. /\ accepted' = s /\ toLogic' = [toLogic EXCEPT !.new = Append(@, s)]
        /\ told' = ToldPeers(s, Connected')
        /\ UNCHANGED <<arrived, open, inbox, synced, replica, diffs, masters, toNet, peerIDs, fs, ft, crash>>
    BY <1>2, <2>2 DEF NetSelect, NewId, logicVars
  <2>5. /\ \A j \in Slots : table'[j] = IF j = i THEN [id |-> s, sock |-> s] ELSE table[j]
        /\ Occupied' = Occupied \cup {i}
    <3>1. \A j \in Slots : table'[j] = IF j = i THEN [id |-> s, sock |-> s] ELSE table[j]
      BY <2>3 DEF Inv, TypeOK, NetworkOK
    <3>2. [id |-> s, sock |-> s] # NoPeer
      BY <2>2 DEF NoPeer
    <3> QED
      BY <3>1, <3>2 DEF Occupied
  <2>6. Connected' = Connected \cup {s} /\ IdIsSock'
    <3>1. \A j \in Occupied' : table'[j] = IF j = i THEN [id |-> s, sock |-> s] ELSE table[j]
      BY <2>5 DEF Occupied
    <3>2. \A j \in Occupied : j # i /\ j \in Occupied'
      BY <2>3, <2>5
    <3>3. i \in Occupied' /\ table'[i].id = s
      BY <2>5, <3>1
    <3>4. Connected' = Connected \cup {s}
      BY <2>5, <3>1, <3>2, <3>3 DEF Connected
    <3> QED
      BY <2>5, <3>1, <3>4 DEF InTurn, Sane, IdIsSock
  <2>7. Connected' = open /\ s \in open /\ Registered' = open \ {s} /\ Owners(ft) \subseteq open
    BY <2>1, <2>4, <2>6 DEF Knocks, Registered, OwnersIn
  <2>8. AllThere' /\ OwnersIn(open)'
    BY <2>2, <2>4, <2>7 DEF AllThere, OwnersIn
  <2>9. toLogic \in LogicQueues /\ (\A q \in LogicNames : toLogic[q] = <<>>) /\ (\A q \in NetNames : toNet[q] = <<>>)
    BY <2>1 DEF Knocks, LogicHas, NetHas, LogicNames, NetNames, Inv, TypeOK
  <2>10. toLogic'.new = <<s>> /\ \A q \in LogicNames \ {"new"} : toLogic'[q] = <<>>
    <3>1. Append(<<>>, s) = <<s>> /\ toLogic.new = <<>>
      BY <2>9 DEF LogicNames
    <3> QED
      BY <2>4, <2>9, <3>1 DEF LogicQueues, LogicNames
  <2>11. Asks(open)'
    <3>1. \A t \in Sockets : inbox'[t] # <<>> => inbox'[t] = <<MasterRequest>> /\ t \in open'
      BY <2>1, <2>4, <2>7 DEF Knocks, InboxOf
    <3>2. toLogic'.mreq = <<>> /\ toNet'.mst = <<>>
      BY <2>4, <2>9, <2>10 DEF LogicNames, NetNames
    <3>3. toLogic'.mreq \in Seq(open') /\ toNet'.mst \in Seq([to : SUBSET open', fs : {fs'}])
      BY <3>2
    <3>4. \A e \in synced' : replica'[e] = fs'
      BY <2>1, <2>4 DEF Knocks, AllAlike, Inv, TypeOK, ClientsOK
    <3>5. NoDiffs' /\ \A e \in Sockets : masters'[e] = <<>>
      BY <2>1, <2>4 DEF Knocks, Taken, NoDiffs, NoMasters
    <3>6. \A e \in Sockets : masters'[e] \in Seq({fs'})
      BY <3>5, EmptyIsSeq
    <3> QED
      BY <3>1, <3>3, <3>4, <3>5, <3>6 DEF Asks
  <2>12. told'[s] = open'
    BY <2>4, <2>7 DEF ToldPeers, Inv, TypeOK, ClientsOK
  <2>13. LogicHas({"new", "mreq"})' /\ NetHas({"mst", "mft"})'
    BY <2>4, <2>9, <2>10 DEF LogicHas, NetHas, LogicNames, NetNames
  <2>14. Enters(s)'
    BY <2>4, <2>7, <2>8, <2>10, <2>11, <2>12, <2>13 DEF Enters
  <2>15. Sane'
    BY <2>4, <2>6 DEF InTurn, Sane
  <2> QED
    BY <2>14, <2>15 DEF InTurn
<1> QED
  BY <1>1, <1>2

(* The message read is that of a client the network thread knows, and of   *)
(* the one whose turn it is.                                               *)
LEMMA Reads ==
  ASSUME Inv, InTurn, NetHandlePeer
  PROVE  \E s \in Sockets :
           /\ s \in Connected /\ inbox[s] # <<>>
           /\ toLogic' = Notified(s, Head(inbox[s])) /\ inbox' = [inbox EXCEPT ![s] = Tail(@)]
           /\ IdIsSock'
           /\ Head(inbox[s]).type = "EOF" => Connected' = Connected \ {s}
           /\ Head(inbox[s]).type # "EOF" => Connected' = Connected
           /\ UNCHANGED <<arrived, open, synced, replica, diffs, masters, told, accepted, toNet, peerIDs, fs, ft, crash>>
<1>1. UNCHANGED <<arrived, open, synced, replica, diffs, masters, told, accepted, toNet, peerIDs, fs, ft, crash>>
  BY DEF NetHandlePeer, logicVars
<1>2. PICK i \in ready :
        LET s == table[i].sock
            m == Head(inbox[s])
        IN  /\ toLogic' = Notified(table[i].id, m)
            /\ inbox' = [inbox EXCEPT ![s] = Tail(@)]
            /\ table' = IF m.type = "EOF" THEN Freed(i) ELSE table
  BY DEF NetHandlePeer
<1>3. PICK s : s = table[i].sock
  OBVIOUS
<1>4. i \in Occupied /\ s \in Sockets /\ s = table[i].id /\ s \in Connected /\ inbox[s] # <<>>
  BY <1>3 DEF Inv, TypeOK, NetworkOK, Occupied, ReadyHasMessage, Connected, InTurn, Sane, IdIsSock
<1>5. CASE Head(inbox[s]).type # "EOF"
  <2>1. table' = table
    BY <1>2, <1>3, <1>5
  <2>2. Occupied' = Occupied
    BY <2>1 DEF Occupied
  <2>3. Connected' = Connected /\ IdIsSock'
    BY <2>1, <2>2 DEF Connected, InTurn, Sane, IdIsSock
  <2> QED
    BY <1>1, <1>2, <1>3, <1>4, <1>5, <2>3
<1>6. CASE Head(inbox[s]).type = "EOF"
  <2>1. table' = [table EXCEPT ![i] = NoPeer]
    BY <1>2, <1>3, <1>6 DEF Freed
  <2>2. \A j \in Slots : table'[j] = IF j = i THEN NoPeer ELSE table[j]
    BY <2>1 DEF Inv, TypeOK, NetworkOK
  <2>3. Occupied' = Occupied \ {i} /\ \A j \in Occupied \ {i} : table'[j] = table[j]
    BY <2>2 DEF Occupied
  <2>4. \A j \in Occupied \ {i} : table[j].id # s
    BY <1>4 DEF Inv, SlotsDistinct
  <2>5. Connected' = Connected \ {s}
    BY <1>4, <2>3, <2>4 DEF Connected
  <2>6. IdIsSock'
    BY <2>3 DEF InTurn, Sane, IdIsSock
  <2> QED
    BY <1>1, <1>2, <1>3, <1>4, <1>6, <2>5, <2>6
<1> QED
  BY <1>5, <1>6

LEMMA ReadStage ==
  ASSUME Inv, InTurn, NEW s \in Sockets, s \in Connected, inbox[s] # <<>>
  PROVE  \/ Tells \/ (\E t \in Sockets : Enters(t))
         \/ Closes(s) \/ Sends(s)
<1>1. ~Spreads /\ \A t \in Sockets : ~Departs(t) /\ ~Queued(t)
  BY DEF Spreads, Departs, Queued, Speaks, InboxOf
<1>2. \A t \in Sockets : Knocks(t) \/ Closes(t) \/ Sends(t) => s = t
  BY DEF Knocks, Closes, Sends, Speaks, InboxOf
<1>3. ~Knocks(s)
  BY DEF Knocks
<1> QED
  BY <1>1, <1>2, <1>3 DEF InTurn

(* The first message of a client, its request for the master. *)
LEMMA AsksRead ==
  ASSUME Inv, Asks(open), AllThere, NEW s \in Sockets, s \in Connected, inbox[s] # <<>>,
         toLogic' = Notified(s, Head(inbox[s])), inbox' = [inbox EXCEPT ![s] = Tail(@)],
         UNCHANGED <<open, synced, replica, diffs, masters, toNet, fs>>
  PROVE  /\ Asks(open)' /\ Head(inbox[s]).type # "EOF"
         /\ \A q \in LogicNames \ {"mreq"} : toLogic'[q] = toLogic[q]
<1>1. inbox[s] = <<MasterRequest>> /\ s \in open
  BY DEF Asks
<1>2. Head(inbox[s]) = MasterRequest /\ Tail(inbox[s]) = <<>>
  BY <1>1
<1>3. toLogic' = [toLogic EXCEPT !.mreq = Append(@, s)] /\ toLogic \in LogicQueues
  BY <1>2 DEF Notified, MasterRequest, Inv, TypeOK
<1>4. Append(toLogic.mreq, s) \in Seq(open)
  BY <1>1 DEF Asks
<1>5. toLogic'.mreq \in Seq(open)
  BY <1>3, <1>4 DEF LogicQueues
<1>6. \A t \in Sockets : inbox'[t] = IF t = s THEN <<>> ELSE inbox[t]
  BY <1>2 DEF Inv, TypeOK, ClientsOK
<1>7. Asks(open)'
  BY <1>5, <1>6 DEF Asks, NoDiffs
<1>8. \A q \in LogicNames \ {"mreq"} : toLogic'[q] = toLogic[q]
  BY <1>3 DEF LogicQueues, LogicNames
<1> QED
  BY <1>2, <1>7, <1>8 DEF MasterRequest

LEMMA TurnHandlePeer ==
  ASSUME Inv, InTurn, NetHandlePeer
  PROVE  InTurn'
<1>1. PICK s \in Sockets :
           /\ s \in Connected /\ inbox[s] # <<>>
           /\ toLogic' = Notified(s, Head(inbox[s])) /\ inbox' = [inbox EXCEPT ![s] = Tail(@)]
           /\ IdIsSock'
           /\ Head(inbox[s]).type = "EOF" => Connected' = Connected \ {s}
           /\ Head(inbox[s]).type # "EOF" => Connected' = Connected
           /\ UNCHANGED <<arrived, open, synced, replica, diffs, masters, told, accepted, toNet, peerIDs, fs, ft, crash>>
  BY Reads
<1>2. Sane' /\ Registered' = Registered
  BY <1>1 DEF InTurn, Sane, Registered
<1>3. inbox \in [Sockets -> Seq(Message)] /\ toLogic \in LogicQueues
  BY DEF Inv, TypeOK, ClientsOK
<1>4. CASE Tells
  <2>1. /\ Asks(open)' /\ Head(inbox[s]).type # "EOF"
        /\ \A q \in LogicNames \ {"mreq"} : toLogic'[q] = toLogic[q]
    BY <1>1, <1>4, AsksRead DEF Tells, AllKnown
  <2>2. Tells'
    BY <1>1, <1>2, <1>4, <2>1 DEF Tells, AllKnown, AllThere, OwnersIn, LogicHas, LogicNames
  <2> QED
    BY <1>2, <2>2 DEF InTurn
<1>5. ASSUME NEW t \in Sockets, Enters(t)
      PROVE  InTurn'
  <2>1. /\ Asks(open)' /\ Head(inbox[s]).type # "EOF"
        /\ \A q \in LogicNames \ {"mreq"} : toLogic'[q] = toLogic[q]
    BY <1>1, <1>5, AsksRead DEF Enters
  <2>2. Enters(t)'
    BY <1>1, <1>2, <1>5, <2>1 DEF Enters, AllThere, OwnersIn, LogicHas, NetHas, LogicNames
  <2> QED
    BY <1>2, <2>2 DEF InTurn
<1>6. CASE Closes(s)
  <2>1. Head(inbox[s]) = [type |-> "EOF"] /\ Tail(inbox[s]) = <<>>
    BY <1>6 DEF Closes
  <2>2. toLogic' = [toLogic EXCEPT !.lost = Append(@, s)] /\ Connected' = Connected \ {s}
    BY <1>1, <2>1 DEF Notified
  <2>3. \A q \in LogicNames : toLogic[q] = <<>>
    BY <1>6 DEF Closes, LogicHas, LogicNames
  <2>4. toLogic'.lost = <<s>> /\ \A q \in LogicNames \ {"lost"} : toLogic'[q] = <<>>
    <3>1. Append(<<>>, s) = <<s>> /\ toLogic.lost = <<>>
      BY <2>3 DEF LogicNames
    <3> QED
      BY <1>3, <2>2, <2>3, <3>1 DEF LogicQueues, LogicNames
  <2>5. \A t \in Sockets : inbox'[t] = <<>>
    BY <1>1, <1>3, <1>6, <2>1 DEF Closes, InboxOf
  <2>6. AllThere' /\ Registered' = open' \cup {s} /\ s \in Sockets \ open' /\ OwnersIn(open \cup {s})'
    BY <1>1, <1>2, <1>6, <2>2 DEF Closes, AllThere, OwnersIn
  <2>7. LogicHas({"lost"})' /\ NetHas({})' /\ Taken' /\ AllAlike(open)'
    BY <1>1, <1>6, <2>4 DEF Closes, LogicHas, NetHas, Taken, NoDiffs, NoMasters, AllAlike, LogicNames
  <2>8. Departs(s)'
    BY <2>4, <2>5, <2>6, <2>7 DEF Departs
  <2> QED
    BY <1>2, <2>8 DEF InTurn
<1>7. CASE Sends(s)
  <2>1. \A q \in LogicNames : toLogic[q] = <<>>
    BY <1>7 DEF Sends, LogicHas, LogicNames
  <2>2. ASSUME NEW m, inbox[s] = <<m>>
        PROVE  Head(inbox[s]) = m /\ \A t \in Sockets : inbox'[t] = <<>>
    <3>1. Head(inbox[s]) = m /\ Tail(inbox[s]) = <<>>
      BY <2>2
    <3> QED
      BY <1>1, <1>3, <1>7, <3>1 DEF Sends, Speaks, InboxOf
  <2>3. ASSUME Connected' = Connected, \A t \in Sockets : inbox'[t] = <<>>
        PROVE  Speaks(s)' /\ inbox'[s] = <<>>
    BY <1>1, <1>2, <1>7, <2>3 DEF Sends, Speaks, AllKnown, AllThere, OwnersIn, InboxOf, NetHas,
       Taken, NoDiffs, NoMasters
  <2>4. ASSUME NEW u \in Update, Differs(s, u), inbox[s] = <<[type |-> "CLIENT_UPDATE", upd |-> u]>>
        PROVE  Queued(s)'
    <3>1. Head(inbox[s]) = [type |-> "CLIENT_UPDATE", upd |-> u] /\ \A t \in Sockets : inbox'[t] = <<>>
      BY <2>2, <2>4
    <3>2. toLogic' = [toLogic EXCEPT !.upd = Append(@, [id |-> s, upd |-> u])] /\ Connected' = Connected
      <4>1. PICK m : m = Head(inbox[s])
        OBVIOUS
      <4>2. m.type = "CLIENT_UPDATE" /\ m.upd = u
        BY <3>1, <4>1
      <4>3. Notified(s, m) = [toLogic EXCEPT !.upd = Append(@, [id |-> s, upd |-> u])]
        BY <4>2 DEF Notified
      <4> QED
        BY <1>1, <4>1, <4>2, <4>3
    <3>3. toLogic'.upd = <<[id |-> s, upd |-> u]>> /\ \A q \in LogicNames \ {"upd"} : toLogic'[q] = <<>>
      <4>1. Append(<<>>, [id |-> s, upd |-> u]) = <<[id |-> s, upd |-> u]>> /\ toLogic.upd = <<>>
        BY <2>1 DEF LogicNames
      <4> QED
        BY <1>3, <2>1, <3>2, <4>1 DEF LogicQueues, LogicNames
    <3>4. Differs(s, u)'
      BY <1>1, <2>4 DEF Differs, AllAlike
    <3> QED
      BY <2>3, <3>1, <3>2, <3>3, <3>4 DEF Queued, LogicHas, LogicNames
  <2>5. ASSUME NEW p \in Files, NEW chunk \in Nat, Holds(p, chunk),
               inbox[s] = <<[type |-> "CHUNK_GOT", path |-> p, chunk |-> chunk]>>
        PROVE  Queued(s)'
    <3> DEFINE g == [id |-> s, path |-> p, chunk |-> chunk]
    <3>1. /\ Head(inbox[s]) = [type |-> "CHUNK_GOT", path |-> p, chunk |-> chunk]
          /\ \A t \in Sockets : inbox'[t] = <<>>
      BY <2>2, <2>5
    <3>2. toLogic' = [toLogic EXCEPT !.got = Append(@, g)] /\ Connected' = Connected
      <4>1. PICK m : m = Head(inbox[s])
        OBVIOUS
      <4>2. m.type = "CHUNK_GOT" /\ m.path = p /\ m.chunk = chunk
        BY <3>1, <4>1
      <4>3. Notified(s, m) = [toLogic EXCEPT !.got = Append(@, g)]
        BY <4>2 DEF Notified
      <4> QED
        BY <1>1, <4>1, <4>2, <4>3
    <3>3. toLogic'.got = <<g>> /\ \A q \in LogicNames \ {"got"} : toLogic'[q] = <<>>
      <4> HIDE DEF g
      <4>1. Append(<<>>, g) = <<g>> /\ toLogic.got = <<>>
        BY <2>1 DEF LogicNames
      <4> QED
        BY <1>3, <2>1, <3>2, <4>1 DEF LogicQueues, LogicNames
    <3>4. Holds(p, chunk)'
      BY <1>1, <2>5 DEF Holds, AllAlike
    <3> QED
      BY <2>3, <3>1, <3>2, <3>3, <3>4 DEF Queued, LogicHas, LogicNames
  <2>6. Queued(s)'
    BY <1>7, <2>4, <2>5 DEF Sends
  <2> QED
    BY <1>2, <2>6 DEF InTurn
<1> QED
  BY <1>1, <1>4, <1>5, <1>6, <1>7, ReadStage

-----------------------------------------------------------------------------
(* The network thread sends. *)

LEMMA NetPopsIs ==
  ASSUME Inv, InTurn, NEW q \in NetNames, NEW d, NetPops(q, d)
  PROVE  /\ toNet[q] # <<>> /\ d \in Head(toNet[q]).to
         /\ toNet'[q] = Served(toNet[q], d) /\ \A r \in NetNames \ {q} : toNet'[r] = toNet[r]
         /\ Connected' = Connected /\ Registered' = Registered /\ (crash' = crash => Sane')
         /\ UNCHANGED <<arrived, open, inbox, synced, replica, accepted, toLogic, fs, ft>>
<1>1. /\ toNet[q] # <<>> /\ d \in Head(toNet[q]).to
      /\ toNet' = [toNet EXCEPT ![q] = Popped(q, d)]
      /\ UNCHANGED <<arrived, open, inbox, synced, replica, accepted, table, toLogic, peerIDs, fs, ft>>
  BY DEF NetPops, logicVars
<1>2. toNet'[q] = Popped(q, d) /\ \A r \in NetNames \ {q} : toNet'[r] = toNet[r]
  BY <1>1, QueueNames DEF NetNames, Inv, TypeOK, NetQueues
<1>3. Popped(q, d) = Served(toNet[q], d)
  BY DEF Popped, Served
<1>4. Connected' = Connected /\ Registered' = Registered /\ Occupied' = Occupied
  BY <1>1 DEF Connected, Occupied, Registered
<1> QED
  BY <1>1, <1>2, <1>3, <1>4 DEF InTurn, Sane, IdIsSock

LEMMA TurnSendsNothing ==
  ASSUME Inv, InTurn, NEW d \in Peers, NetSendsAcq(d) \/ NetSendsMasterFT(d)
  PROVE  InTurn'
<1>1. PICK q \in {"acq", "mft"} : NetPops(q, d) /\ (q = "acq" => NetSendsAcq(d))
  BY DEF NetSendsAcq, NetSendsMasterFT
<1>2. q \in NetNames /\ UNCHANGED <<diffs, masters, told, crash>>
  BY DEF NetSendsAcq, NetSendsMasterFT, NetNames
<1>3. /\ toNet[q] # <<>> /\ \A r \in NetNames \ {q} : toNet'[r] = toNet[r]
      /\ Connected' = Connected /\ Registered' = Registered /\ Sane'
      /\ UNCHANGED <<arrived, open, inbox, synced, replica, accepted, toLogic, fs, ft>>
  BY <1>1, <1>2, NetPopsIs
<1>4. toNet'.fsu = toNet.fsu /\ toNet'.add = toNet.add /\ toNet'.rem = toNet.rem /\ toNet'.mst = toNet.mst
  BY <1>3 DEF NetNames
<1>5. Asks(open) => Asks(open)'
  BY <1>2, <1>3, <1>4 DEF Asks, NoDiffs
<1>6. Tells => Tells'
  BY <1>2, <1>3, <1>4, <1>5 DEF Tells, AllKnown, AllThere, OwnersIn, LogicHas
<1>7. ASSUME NEW s \in Sockets, Enters(s), q = "mft"
      PROVE  Enters(s)'
  <2>1. NetHas({"mst", "mft"})'
    BY <1>3, <1>7 DEF Enters, NetHas, NetNames
  <2> QED
    BY <1>2, <1>3, <1>5, <1>7, <2>1 DEF Enters, AllThere, OwnersIn, LogicHas
<1>8. Tells \/ (q = "mft" /\ \E s \in Sockets : Enters(s))
  BY <1>1, <1>2, <1>3, NetStage
<1> QED
  BY <1>3, <1>6, <1>7, <1>8 DEF InTurn

LEMMA TurnSendsPeerTable ==
  ASSUME Inv, InTurn, NEW d \in Peers, NEW q \in {"add", "rem"}, NetSendsPeerTable(q, d)
  PROVE  InTurn'
<1>1. /\ q \in NetNames /\ NetPops(q, d) /\ UNCHANGED <<diffs, masters, crash>>
      /\ told' = IF d \in Connected THEN ToldPeers(SockOf(d), Connected) ELSE told
  BY DEF NetSendsPeerTable, NetNames
<1>2. /\ toNet[q] # <<>> /\ toNet'[q] = Served(toNet[q], d)
      /\ \A r \in NetNames \ {q} : toNet'[r] = toNet[r]
      /\ Connected' = Connected /\ Registered' = Registered /\ Sane'
      /\ UNCHANGED <<arrived, open, inbox, synced, replica, accepted, toLogic, fs, ft>>
  BY <1>1, NetPopsIs
<1>3. Tells
  BY <1>1, <1>2, NetStage
<1>4. toNet'.fsu = toNet.fsu /\ toNet'.mst = toNet.mst
  BY <1>2 DEF NetNames
<1>5. toNet[q] \in Seq([to : SUBSET Peers])
  BY DEF Inv, TypeOK, NetQueues
<1>6. Due(toNet[q]) \subseteq Due(toNet'[q]) \cup {d}
  <2> DEFINE S == [to : SUBSET Peers]
  <2>1. \A item \in S : \A T \in SUBSET item.to :
          [item EXCEPT !.to = T] \in S /\ [item EXCEPT !.to = T].to = T
    OBVIOUS
  <2> HIDE DEF S
  <2>2. toNet[q] \in Seq(S)
    BY <1>5 DEF S
  <2> QED
    BY <1>2, <2>1, <2>2, ServedDue
<1>7. Due(toNet.add) \cup Due(toNet.rem) \subseteq Due(toNet'.add) \cup Due(toNet'.rem) \cup {d}
  <2>1. CASE q = "add"
    <3>1. toNet'.rem = toNet.rem
      BY <1>2, <2>1 DEF NetNames
    <3> QED
      BY <1>6, <2>1, <3>1
  <2>2. CASE q = "rem"
    <3>1. toNet'.add = toNet.add
      BY <1>2, <2>2 DEF NetNames
    <3> QED
      BY <1>6, <2>2, <3>1
  <2> QED
    BY <2>1, <2>2
<1>8. \A e \in open : told'[e] = open \/ (e # d /\ told'[e] = told[e])
  <2>1. told \in [Sockets -> SUBSET Peers] /\ open \subseteq Sockets
    BY DEF Inv, TypeOK, ClientsOK
  <2>2. Connected = open
    BY <1>3 DEF Tells, AllKnown, AllThere
  <2>3. d \in Connected => SockOf(d) = d
    BY SockOfId DEF InTurn, Sane
  <2>4. CASE d \in open
    BY <1>1, <2>1, <2>2, <2>3, <2>4 DEF ToldPeers
  <2>5. CASE d \notin open
    BY <1>1, <2>2, <2>5
  <2> QED
    BY <2>4, <2>5
<1>9. \A e \in open' : told'[e] = open' \/ e \in Due(toNet'.add) \cup Due(toNet'.rem)
  BY <1>2, <1>3, <1>7, <1>8 DEF Tells
<1>10. Tells'
  BY <1>1, <1>2, <1>3, <1>4, <1>9 DEF Tells, Asks, NoDiffs, AllKnown, AllThere, OwnersIn, LogicHas
<1> QED
  BY <1>2, <1>10 DEF InTurn

(* Whoever asked for the master is still there when it is sent. *)
LEMMA TurnSendsMaster ==
  ASSUME Inv, InTurn, NEW d \in Peers, NetSendsMaster(d)
  PROVE  InTurn'
<1> DEFINE S == [to : SUBSET open, fs : {fs}]
<1>1. "mst" \in NetNames /\ NetPops("mst", d) /\ UNCHANGED <<diffs, told>>
  BY DEF NetSendsMaster, NetNames
<1>2. /\ toNet.mst # <<>> /\ d \in Head(toNet.mst).to /\ toNet'.mst = Served(toNet.mst, d)
      /\ \A r \in NetNames \ {"mst"} : toNet'[r] = toNet[r]
      /\ Connected' = Connected /\ Registered' = Registered /\ (crash' = crash => Sane')
      /\ UNCHANGED <<arrived, open, inbox, synced, replica, accepted, toLogic, fs, ft>>
  BY <1>1, NetPopsIs
<1>3. Tells \/ \E s \in Sockets : Enters(s)
  BY <1>1, <1>2, NetStage
<1>4. Asks(open) /\ AllThere
  BY <1>3 DEF Tells, Enters, AllKnown
<1>5. Served(toNet.mst, d) \in Seq(S) /\ Head(toNet.mst) \in S /\ Due(toNet.mst) \subseteq Due(toNet'.mst) \cup {d}
  <2>1. \A item \in S : \A T \in SUBSET item.to :
          [item EXCEPT !.to = T] \in S /\ [item EXCEPT !.to = T].to = T
    OBVIOUS
  <2>2. toNet.mst \in Seq(S)
    BY <1>4 DEF Asks
  <2> HIDE DEF S
  <2> QED
    BY <1>2, <2>1, <2>2, ServedDue
<1>6. d \in open /\ d \in Connected /\ SockOf(d) = d /\ Head(toNet.mst).fs = fs
  <2>1. d \in open /\ Head(toNet.mst).fs = fs
    BY <1>2, <1>5
  <2>2. d \in Connected
    BY <1>4, <2>1 DEF AllThere
  <2> QED
    BY <2>1, <2>2, SockOfId DEF InTurn, Sane
<1>7. masters' = [masters EXCEPT ![d] = Append(@, fs)] /\ crash' = crash
  BY <1>6 DEF NetSendsMaster
<1>8. \A e \in Sockets : /\ masters'[e] \in Seq({fs'})
                         /\ e = d \/ masters[e] # <<>> => masters'[e] # <<>>
  <2> TAKE e \in Sockets
  <2>1. masters[e] \in Seq({fs}) /\ masters'[e] = IF e = d THEN Append(masters[e], fs) ELSE masters[e]
    BY <1>4, <1>7 DEF Asks, Inv, TypeOK, ClientsOK
  <2>2. Append(masters[e], fs) \in Seq({fs}) /\ Append(masters[e], fs) # <<>>
    BY <2>1
  <2> QED
    BY <1>2, <2>1, <2>2
<1>9. Asks(open)'
  <2>1. synced \subseteq Sockets
    BY DEF Inv, TypeOK, ClientsOK
  <2>2. \A e \in synced' : replica'[e] = fs' \/ e \in Due(toNet'.mst) \/ masters'[e] # <<>>
    BY <1>2, <1>4, <1>5, <1>8, <2>1 DEF Asks
  <2> QED
    BY <1>1, <1>2, <1>4, <1>5, <1>8, <2>2 DEF Asks, NoDiffs
<1>10. Tells => Tells'
  <2>1. toNet'.fsu = toNet.fsu /\ toNet'.add = toNet.add /\ toNet'.rem = toNet.rem
    BY <1>2 DEF NetNames
  <2> QED
    BY <1>1, <1>2, <1>9, <2>1 DEF Tells, AllKnown, AllThere, OwnersIn, LogicHas
<1>11. ASSUME NEW s \in Sockets, Enters(s)
       PROVE  Enters(s)'
  <2>1. NetHas({"mst", "mft"})'
    BY <1>2, <1>11 DEF Enters, NetHas, NetNames
  <2> QED
    BY <1>1, <1>2, <1>9, <1>11, <2>1 DEF Enters, AllThere, OwnersIn, LogicHas
<1> QED
  BY <1>2, <1>3, <1>7, <1>10, <1>11 DEF InTurn

LEMMA TurnSendsFSUpdate ==
  ASSUME Inv, InTurn, NEW d \in Peers, NetSendsFSUpdate(d)
  PROVE  InTurn'
<1>1. /\ "fsu" \in NetNames /\ NetPops("fsu", d) /\ UNCHANGED <<masters, told, crash>>
      /\ diffs' = IF d \in Connected /\ SockOf(d) \in open
                    THEN [diffs EXCEPT ![SockOf(d)] = Append(@, Head(toNet.fsu).upd)]
                    ELSE diffs
  BY DEF NetSendsFSUpdate, NetNames
<1>2. /\ toNet.fsu # <<>> /\ d \in Head(toNet.fsu).to /\ toNet'.fsu = Served(toNet.fsu, d)
      /\ \A r \in NetNames \ {"fsu"} : toNet'[r] = toNet[r]
      /\ Connected' = Connected /\ Registered' = Registered /\ Sane'
      /\ UNCHANGED <<arrived, open, inbox, synced, replica, accepted, toLogic, fs, ft>>
  BY <1>1, NetPopsIs
<1>3. Spreads
  BY <1>1, <1>2, NetStage
<1>4. PICK u \in Update, T \in SUBSET open : UpdateUnderWay(u, T)
  BY <1>3 DEF Spreads
<1>5. PICK from \in Peers : toNet.fsu = <<[to |-> T, from |-> from, upd |-> u]>>
  BY <1>2, <1>4 DEF UpdateUnderWay
<1> PICK item : item = [to |-> T, from |-> from, upd |-> u]
  OBVIOUS
<1>6. Head(toNet.fsu) = item /\ Tail(toNet.fsu) = <<>> /\ item.to = T /\ item.upd = u
  BY <1>5
<1>7. d \in T /\ d \in open /\ d \in Connected /\ SockOf(d) = d
  <2>1. d \in open /\ d \in Connected
    BY <1>2, <1>3, <1>6 DEF Spreads, AllKnown, AllThere
  <2> QED
    BY <1>2, <1>6, <2>1, SockOfId DEF InTurn, Sane
<1>8. \A e \in Sockets : diffs'[e] = IF e = d THEN <<u>> ELSE diffs[e]
  <2>1. d \in Sockets => diffs[d] = <<>>
    BY <1>4, <1>7 DEF UpdateUnderWay
  <2>2. Append(<<>>, u) = <<u>>
    OBVIOUS
  <2>3. diffs' = [diffs EXCEPT ![d] = Append(@, u)]
    BY <1>1, <1>6, <1>7
  <2> QED
    BY <2>1, <2>2, <2>3 DEF Inv, TypeOK, ClientsOK
<1> DEFINE rest == T \ {d}
<1>9. \/ toNet'.fsu = <<>> /\ rest = {}
      \/ toNet'.fsu = <<[to |-> rest, from |-> from, upd |-> u]>>
  <2>1. CASE rest = {}
    BY <1>2, <1>6, <2>1 DEF Served
  <2>2. CASE rest # {}
    <3>1. toNet'.fsu = [<<item>> EXCEPT ![1].to = rest]
      BY <1>2, <1>5, <1>6, <2>2 DEF Served
    <3> HIDE DEF rest
    <3>2. [<<item>> EXCEPT ![1].to = rest] = <<[item EXCEPT !.to = rest]>>
      OBVIOUS
    <3>3. [item EXCEPT !.to = rest] = [to |-> rest, from |-> from, upd |-> u]
      OBVIOUS
    <3> QED
      BY <3>1, <3>2, <3>3
  <2> QED
    BY <2>1, <2>2
<1>10. UpdateUnderWay(u, rest)'
  <2>1. synced \subseteq Sockets
    BY DEF Inv, TypeOK, ClientsOK
  <2>2. \A e \in Sockets : diffs'[e] # <<>> => diffs'[e] = <<u>> /\ e \notin rest
    BY <1>4, <1>8 DEF UpdateUnderWay
  <2>3. \A e \in synced : IF e \in rest \/ diffs'[e] # <<>> THEN Applied(replica[e], u) = fs
                                                           ELSE replica[e] = fs
    BY <1>4, <1>7, <1>8, <2>1 DEF UpdateUnderWay
  <2> HIDE DEF rest
  <2> QED
    BY <1>2, <1>9, <2>2, <2>3 DEF UpdateUnderWay
<1>11. Spreads'
  <2>1. rest \in SUBSET open'
    BY <1>2
  <2> HIDE DEF rest
  <2> QED
    BY <1>1, <1>2, <1>3, <1>10, <2>1
       DEF Spreads, AllKnown, AllThere, OwnersIn, LogicHas, NetHas, NetNames, NoMasters
<1> QED
  BY <1>2, <1>11 DEF InTurn

LEMMA TurnNetwork ==
  ASSUME Inv, InTurn, Network
  PROVE  InTurn'
<1>1. CASE NetNext
  BY <1>1, TurnFrame DEF NetNext, clientVars, logicVars, turnVars
<1> QED
  BY <1>1, TurnSelect, TurnHandlePeer, TurnSendsNothing, TurnSendsFSUpdate, TurnSendsPeerTable,
     TurnSendsMaster DEF Network

-----------------------------------------------------------------------------
(* The logic thread. *)

LEMMA TakesIs ==
  ASSUME Inv, InTurn, NEW q \in LogicNames, LogicTakes(q)
  PROVE  /\ toLogic[q] # <<>> /\ toLogic'[q] = Tail(toLogic[q])
         /\ \A r \in LogicNames \ {q} : toLogic'[r] = toLogic[r]
         /\ Connected' = Connected /\ IdIsSock' /\ lphase' = lphase
         /\ UNCHANGED <<arrived, open, inbox, synced, replica, diffs, masters, told, accepted, table>>
<1>1. /\ toLogic[q] # <<>> /\ toLogic' = [toLogic EXCEPT ![q] = Tail(@)] /\ lphase' = lphase
      /\ UNCHANGED <<arrived, open, inbox, synced, replica, diffs, masters, told, accepted, table>>
  BY DEF LogicTakes, clientVars, netVars
<1>2. toLogic'[q] = Tail(toLogic[q]) /\ \A r \in LogicNames \ {q} : toLogic'[r] = toLogic[r]
  BY <1>1 DEF LogicNames, Inv, TypeOK, LogicQueues
<1>3. Connected' = Connected /\ Occupied' = Occupied
  BY <1>1 DEF Connected, Occupied
<1> QED
  BY <1>1, <1>2, <1>3 DEF InTurn, Sane, IdIsSock

(* What is pushed, and who is due for it, one queue or two at a time. *)
LEMMA Pushes ==
  ASSUME NEW n \in NetQueues, NEW r \in NetNames, NEW item
  PROVE  /\ [n EXCEPT ![r] = Push(@, item)][r] = Push(n[r], item)
         /\ \A q \in NetNames \ {r} : [n EXCEPT ![r] = Push(@, item)][q] = n[q]
         /\ DOMAIN [n EXCEPT ![r] = Push(@, item)] = NetNames
BY DEF NetQueues, NetNames

LEMMA PushFirst ==
  ASSUME NEW item
  PROVE  /\ Push(<<>>, item) = IF item.to = {} THEN <<>> ELSE <<item>>
         /\ Due(Push(<<>>, item)) = item.to
<1>1. CASE item.to = {}
  BY <1>1, DueEmpty DEF Push
<1>2. CASE item.to # {}
  <2>1. Append(<<>>, item) = <<item>>
    OBVIOUS
  <2>2. DOMAIN <<item>> = {1} /\ <<item>>[1] = item
    OBVIOUS
  <2>3. Due(<<item>>) = item.to
    BY <2>2 DEF Due
  <2> QED
    BY <1>2, <2>1, <2>3 DEF Push
<1> QED
  BY <1>1, <1>2

(* From a quiet stage, with the last queue item taken. *)
LEMMA ToTells ==
  ASSUME arrived' = accepted', Connected' = open', Registered' = open', OwnersIn(open)',
         \A s \in Sockets : inbox'[s] = <<>>, LogicHas({})', toNet'.fsu = <<>>,
         toNet'.mst \in Seq([to : SUBSET open', fs : {fs'}]), Taken',
         \A e \in synced' : replica'[e] = fs' \/ e \in Due(toNet'.mst),
         \A e \in open' : told'[e] = open' \/ e \in Due(toNet'.add) \cup Due(toNet'.rem)
  PROVE  Tells'
<1>1. toLogic'.mreq = <<>> /\ LogicHas({"mreq"})'
  BY DEF LogicHas
<1>2. NoDiffs' /\ \A e \in Sockets : masters'[e] \in Seq({fs'})
  BY EmptyIsSeq DEF Taken, NoMasters
<1> QED
  BY <1>1, <1>2 DEF Tells, Asks, AllKnown, AllThere

LEMMA TurnNewClient ==
  ASSUME Inv, InTurn, LogicNewClient
  PROVE  InTurn'
<1>1. "new" \in LogicNames /\ LogicTakes("new") /\ UNCHANGED <<fs, ft, crash>>
  BY DEF LogicNewClient, LogicNames
<1>2. /\ toLogic.new # <<>> /\ toLogic'.new = Tail(toLogic.new)
      /\ \A r \in LogicNames \ {"new"} : toLogic'[r] = toLogic[r]
      /\ Connected' = Connected /\ IdIsSock'
      /\ UNCHANGED <<arrived, open, inbox, synced, replica, diffs, masters, told, accepted, table>>
  BY <1>1, TakesIs
<1>3. PICK s \in Sockets : Enters(s)
  BY <1>2, NewStage
<1>4. Head(toLogic.new) = s /\ Tail(toLogic.new) = <<>>
  <2>1. toLogic.new = <<s>>
    BY <1>3 DEF Enters
  <2> QED
    BY <2>1
<1>5. peerIDs' = AddedPeer(s) /\ toNet' = [toNet EXCEPT !.add = Push(@, [to |-> Registered' \ {s}])]
  BY <1>4 DEF LogicNewClient
<1>6. Registered' = open /\ s \in open /\ peerIDs' # <<>>
  <2>1. Roster(AddedPeer(s)) = Registered \cup {s}
    BY <1>3, AddedPeerRoster DEF Enters, InTurn, Sane, Inv, TypeOK, Sockets
  <2>2. Registered' = Roster(AddedPeer(s))
    BY <1>5 DEF Registered
  <2>3. Registered' = open /\ s \in open
    BY <1>3, <2>1, <2>2 DEF Enters
  <2> QED
    BY <2>3 DEF Registered, Roster
<1>7. /\ Due(toNet'.add) = open \ {s} /\ toNet'.fsu = <<>> /\ toNet'.mst = toNet.mst /\ toNet'.rem = toNet.rem
  <2> DEFINE item == [to |-> open \ {s}]
  <2>1. toNet \in NetQueues /\ "add" \in NetNames
    BY DEF NetNames, Inv, TypeOK
  <2>2. toNet.add = <<>> /\ toNet.fsu = <<>>
    BY <1>3 DEF Enters, NetHas
  <2>3. toNet' = [toNet EXCEPT !["add"] = Push(@, item)] /\ item.to = open \ {s}
    BY <1>5, <1>6
  <2> HIDE DEF item
  <2>4. toNet'.add = Push(<<>>, item) /\ \A q \in NetNames \ {"add"} : toNet'[q] = toNet[q]
    BY <2>1, <2>2, <2>3, Pushes
  <2> QED
    BY <2>2, <2>3, <2>4, PushFirst DEF NetNames
<1>8. LogicHas({"mreq"})' /\ toLogic'.mreq = toLogic.mreq
  BY <1>2, <1>3, <1>4 DEF Enters, LogicHas, LogicNames
<1>9. \A e \in open' : told'[e] = open' \/ e \in Due(toNet'.add) \cup Due(toNet'.rem)
  BY <1>2, <1>3, <1>7 DEF Enters
<1>10. Tells'
  BY <1>1, <1>2, <1>3, <1>6, <1>7, <1>8, <1>9 DEF Enters, Tells, AllKnown, AllThere, OwnersIn, Asks, NoDiffs
<1>11. Sane'
  BY <1>1, <1>2, <1>6 DEF InTurn, Sane
<1> QED
  BY <1>10, <1>11 DEF InTurn

LEMMA TurnMasterRequest ==
  ASSUME Inv, InTurn, LogicMasterRequest
  PROVE  InTurn'
<1>1. "mreq" \in LogicNames /\ LogicTakes("mreq") /\ UNCHANGED <<peerIDs, fs, ft, crash>>
  BY DEF LogicMasterRequest, LogicNames
<1>2. /\ toLogic.mreq # <<>> /\ toLogic'.mreq = Tail(toLogic.mreq)
      /\ \A r \in LogicNames \ {"mreq"} : toLogic'[r] = toLogic[r]
      /\ Connected' = Connected /\ IdIsSock'
      /\ UNCHANGED <<arrived, open, inbox, synced, replica, diffs, masters, told, accepted, table>>
  BY <1>1, TakesIs
<1>3. Tells \/ \E s \in Sockets : Enters(s)
  BY <1>2, RequestStage
<1>4. Asks(open)
  BY <1>3 DEF Tells, Enters
<1> PICK id : id = Head(toLogic.mreq)
  OBVIOUS
<1> DEFINE S == [to : SUBSET open, fs : {fs}]
           item == [to |-> {id}, fs |-> fs]
           new == Push(toNet.mst, item)
<1>5. id \in open /\ toLogic'.mreq \in Seq(open)
  BY <1>2, <1>4 DEF Asks
<1>6. new \in Seq(S) /\ Due(new) = Due(toNet.mst) \cup item.to
  <2>1. item \in S /\ toNet.mst \in Seq(S)
    BY <1>4, <1>5 DEF Asks
  <2> HIDE DEF S, item
  <2> QED
    BY <2>1, PushDue
<1>7. toNet'.mst = new /\ \A q \in NetNames \ {"mst", "mft"} : toNet'[q] = toNet[q]
  BY DEF LogicMasterRequest, NetNames, Inv, TypeOK, NetQueues
<1>8. Asks(open)'
  BY <1>1, <1>2, <1>4, <1>5, <1>6, <1>7 DEF Asks, NoDiffs
<1>9. Registered' = Registered
  BY <1>1 DEF Registered
<1>10. Tells => Tells'
  <2>1. toNet'.fsu = toNet.fsu /\ toNet'.add = toNet.add /\ toNet'.rem = toNet.rem
    BY <1>7 DEF NetNames
  <2> QED
    BY <1>1, <1>2, <1>8, <1>9, <2>1 DEF Tells, AllKnown, AllThere, OwnersIn, LogicHas, LogicNames
<1>11. ASSUME NEW s \in Sockets, Enters(s)
       PROVE  Enters(s)'
  <2>1. NetHas({"mst", "mft"})'
    BY <1>7, <1>11 DEF Enters, NetHas, NetNames
  <2> QED
    BY <1>1, <1>2, <1>8, <1>9, <1>11, <2>1 DEF Enters, AllThere, OwnersIn, LogicHas, LogicNames
<1>12. Sane'
  BY <1>1, <1>2 DEF InTurn, Sane
<1> QED
  BY <1>3, <1>10, <1>11, <1>12 DEF InTurn

LEMMA TurnLostClient ==
  ASSUME Inv, IdsInv, InTurn, LogicLostClient
  PROVE  InTurn'
<1>1. "lost" \in LogicNames /\ LogicTakes("lost")
  BY DEF LogicLostClient, LogicNames
<1>2. /\ toLogic.lost # <<>> /\ toLogic'.lost = Tail(toLogic.lost)
      /\ \A r \in LogicNames \ {"lost"} : toLogic'[r] = toLogic[r]
      /\ Connected' = Connected /\ IdIsSock'
      /\ UNCHANGED <<arrived, open, inbox, synced, replica, diffs, masters, told, accepted, table>>
  BY <1>1, TakesIs
<1>3. PICK s \in Sockets : Departs(s)
  BY <1>2, LostStage
<1>4. /\ AllThere /\ s \notin open /\ Registered = open \cup {s} /\ Owners(ft) \subseteq open \cup {s}
      /\ toLogic.lost = <<s>> /\ LogicHas({"lost"}) /\ NetHas({}) /\ Taken /\ AllAlike(open)
      /\ \A t \in Sockets : inbox[t] = <<>>
  BY <1>3 DEF Departs, OwnersIn
<1>5. Head(toLogic.lost) = s /\ Tail(toLogic.lost) = <<>>
  BY <1>4
<1> DEFINE owned == RemovePeer(ft, s)
           gone == Ownerless(owned)
           item == [to |-> open]
           queues == [toNet EXCEPT !["rem"] = Push(@, item)]
<1>6. Registered' = open /\ peerIDs' # <<>>
  <2>1. RemovesPeer(s)
    BY <1>5 DEF LogicLostClient
  <2>2. \A i, j \in DOMAIN peerIDs : peerIDs[i] = peerIDs[j] /\ peerIDs[i] # -1 => i = j
    BY DEF IdsInv, NewPeersAreNew
  <2>3. Registered' = Registered \ {s} /\ peerIDs' # <<>>
    BY <1>4, <2>1, <2>2, RemovesPeerRoster DEF Inv, TypeOK, Sockets
  <2> QED
    BY <1>4, <2>3
<1>7. Prunes(owned, queues)
  <2>1. open \ {s} = open
    BY <1>4
  <2> QED
    BY <1>5, <1>6, <2>1 DEF LogicLostClient
<1>8. gone \subseteq DOMAIN ft /\ gone \subseteq Files /\ RemoveDefined(fs, gone)
  <2>1. gone \subseteq DOMAIN ft
    BY DEF Ownerless, RemovePeer
  <2>2. DOMAIN ft \subseteq Files /\ DOMAIN ft \subseteq PathsOf(fs)
    BY TabledFiles DEF InTurn, Sane, Tree
  <2> HIDE DEF gone
  <2> QED
    BY <2>1, <2>2 DEF RemoveDefined
<1> HIDE DEF owned, gone, item, queues
<1>9. /\ fs' \in RemovedAtPaths(fs, gone) /\ ft' = RemovePaths(owned, gone) /\ crash' = crash
      /\ toNet' = IF gone = {} THEN queues
                  ELSE [queues EXCEPT !.mst = Push(@, [to |-> open, fs |-> fs'])]
  BY <1>6, <1>7, <1>8 DEF Prunes, Pruned, gone
<1>10. fs' = {e \in fs : e.path \notin gone} /\ Tree(fs')
  BY <1>8, <1>9, TreePruned DEF InTurn, Sane
<1>11. Tabled(ft', fs') /\ Owners(ft') \subseteq open
  BY <1>4, <1>8, <1>9, <1>10, TabledLost DEF owned, InTurn, Sane, Inv, TypeOK, LogicOK
<1>12. /\ queues \in NetQueues /\ queues.mst = <<>> /\ queues.fsu = <<>> /\ Due(queues.rem) = open
  <2>1. toNet \in NetQueues /\ "rem" \in NetNames /\ open \in SUBSET Peers
    BY DEF NetNames, Inv, TypeOK, ClientsOK, Sockets
  <2>2. queues \in NetQueues
    BY <2>1, PushesType DEF queues, item
  <2>3. /\ queues.rem = Push(toNet.rem, item)
        /\ \A q \in NetNames \ {"rem"} : queues[q] = toNet[q]
    BY <2>1, Pushes DEF queues
  <2>4. toNet.rem = <<>> /\ toNet.mst = <<>> /\ toNet.fsu = <<>>
    BY <1>4 DEF NetHas
  <2>5. Due(queues.rem) = item.to
    BY <2>3, <2>4, PushFirst
  <2> QED
    BY <2>2, <2>3, <2>4, <2>5 DEF item, NetNames
<1>13. /\ toNet'.fsu = <<>> /\ Due(toNet'.rem) = open
       /\ toNet'.mst \in Seq([to : SUBSET open, fs : {fs'}])
       /\ \A e \in synced : replica[e] = fs' \/ e \in Due(toNet'.mst)
  <2>1. CASE gone = {}
    <3>1. toNet' = queues /\ fs' = fs
      BY <1>9, <1>10, <2>1
    <3> QED
      BY <1>4, <1>12, <3>1 DEF AllAlike, Inv, TypeOK, ClientsOK
  <2>2. CASE gone # {}
    <3> DEFINE mst == [to |-> open, fs |-> fs']
               S == [to : SUBSET open, fs : {fs'}]
    <3>1. mst \in S /\ mst.to = open /\ toNet' = [queues EXCEPT !["mst"] = Push(@, mst)]
      BY <1>9, <2>2
    <3> HIDE DEF mst, S
    <3>2. toNet'.mst = Push(<<>>, mst) /\ \A q \in NetNames \ {"mst"} : toNet'[q] = queues[q]
      BY <1>12, <3>1, Pushes DEF NetNames
    <3>3. Due(toNet'.mst) = open /\ toNet'.mst \in Seq(S)
      <4>1. <<>> \in Seq(S)
        OBVIOUS
      <4>2. Push(<<>>, mst) \in Seq(S)
        BY <3>1, <4>1, PushType
      <4>3. Due(Push(<<>>, mst)) = open
        BY <3>1, PushFirst
      <4> QED
        BY <3>2, <4>2, <4>3
    <3> QED
      BY <1>12, <3>2, <3>3 DEF S, NetNames, Inv, TypeOK, ClientsOK
  <2> QED
    BY <2>1, <2>2
<1>14. LogicHas({})'
  BY <1>2, <1>4, <1>5 DEF LogicHas, LogicNames
<1>15. arrived' = accepted' /\ Connected' = open' /\ Registered' = open' /\ OwnersIn(open)'
  BY <1>2, <1>4, <1>6, <1>11 DEF AllThere, OwnersIn
<1>16. Tells'
  <2>1. Taken'
    BY <1>2, <1>4 DEF Taken, NoDiffs, NoMasters
  <2> QED
    BY <1>2, <1>4, <1>13, <1>14, <1>15, <2>1, ToTells
<1>17. Sane'
  BY <1>2, <1>6, <1>9, <1>10, <1>11 DEF InTurn, Sane
<1> QED
  BY <1>16, <1>17 DEF InTurn

(* A chunk that is not there is never announced: the master has the file. *)
LEMMA TurnClientGot ==
  ASSUME Inv, InTurn, LogicIgnoresGot \/ LogicClientGot
  PROVE  InTurn'
<1>1. "got" \in LogicNames /\ LogicTakes("got") /\ UNCHANGED <<peerIDs, fs>>
  BY DEF LogicIgnoresGot, LogicClientGot, LogicNames
<1>2. /\ toLogic.got # <<>> /\ toLogic'.got = Tail(toLogic.got)
      /\ \A r \in LogicNames \ {"got"} : toLogic'[r] = toLogic[r]
      /\ Connected' = Connected /\ IdIsSock'
      /\ UNCHANGED <<arrived, open, inbox, synced, replica, diffs, masters, told, accepted, table>>
  BY <1>1, TakesIs
<1>3. PICK s \in Sockets : Queued(s)
  BY <1>2, WorkStage
<1>4. PICK p \in Files, chunk \in Nat :
        toLogic.got = <<[id |-> s, path |-> p, chunk |-> chunk]>> /\ LogicHas({"got"}) /\ Holds(p, chunk)
  BY <1>2, <1>3 DEF Queued, LogicHas
<1> PICK g : g = [id |-> s, path |-> p, chunk |-> chunk]
  OBVIOUS
<1>5. Head(toLogic.got) = g /\ Tail(toLogic.got) = <<>> /\ g.id = s /\ g.path = p /\ g.chunk = chunk
  BY <1>4
<1>6. /\ AllKnown /\ Owners(ft) \subseteq open /\ s \in open /\ NetHas({}) /\ Taken /\ AllAlike(open)
      /\ (\A e \in open : told[e] = open) /\ (\A t \in Sockets : inbox[t] = <<>>)
  BY <1>3, <1>4 DEF Queued, Speaks, Holds, InboxOf, OwnersIn, Inv, TypeOK, ClientsOK
<1>7. p \in DOMAIN ft /\ chunk \in DOMAIN ft[p]
  BY <1>4 DEF Holds, HasChunk
<1>8. crash' = crash /\ Tabled(ft', fs) /\ Owners(ft') \subseteq open
  <2>1. CASE LogicIgnoresGot
    BY <1>6, <2>1 DEF LogicIgnoresGot, InTurn, Sane
  <2>2. CASE LogicClientGot
    <3>1. ft' = SetOwner(ft, p, chunk, s) /\ crash' = crash
      BY <1>5, <1>7, <2>2 DEF LogicClientGot, HasChunk
    <3> QED
      BY <1>6, <1>7, <3>1, TabledGot DEF InTurn, Sane, Inv, TypeOK, LogicOK
  <2> QED
    BY <2>1, <2>2
<1>9. \A q \in NetNames \ {"acq"} : toNet'[q] = toNet[q]
  BY DEF LogicIgnoresGot, LogicClientGot, NetNames, Inv, TypeOK, NetQueues
<1>10. toNet'.fsu = <<>> /\ toNet'.mst = <<>>
  BY <1>6, <1>9 DEF NetHas, NetNames
<1>11. LogicHas({})'
  BY <1>2, <1>4, <1>5 DEF LogicHas, LogicNames
<1>12. arrived' = accepted' /\ Connected' = open' /\ Registered' = open' /\ OwnersIn(open)'
  BY <1>1, <1>2, <1>6, <1>8 DEF AllKnown, AllThere, OwnersIn, Registered
<1>13. \A e \in synced' : replica'[e] = fs'
  BY <1>1, <1>2, <1>6 DEF AllAlike, Inv, TypeOK, ClientsOK
<1>14. Tells'
  <2>1. toNet'.mst \in Seq([to : SUBSET open', fs : {fs'}])
    BY <1>10
  <2>2. Taken'
    BY <1>2, <1>6 DEF Taken, NoDiffs, NoMasters
  <2> QED
    BY <1>2, <1>6, <1>10, <1>11, <1>12, <1>13, <2>1, <2>2, ToTells
<1>15. Sane'
  BY <1>1, <1>2, <1>8 DEF InTurn, Sane
<1> QED
  BY <1>14, <1>15 DEF InTurn

LEMMA TurnClientUpdate ==
  ASSUME Inv, InTurn, LogicClientUpdate
  PROVE  InTurn'
<1>1. "upd" \in LogicNames /\ LogicTakes("upd") /\ UNCHANGED peerIDs
  BY DEF LogicClientUpdate, LogicNames
<1>2. /\ toLogic.upd # <<>> /\ toLogic'.upd = Tail(toLogic.upd)
      /\ \A r \in LogicNames \ {"upd"} : toLogic'[r] = toLogic[r]
      /\ Connected' = Connected /\ IdIsSock'
      /\ UNCHANGED <<arrived, open, inbox, synced, replica, diffs, masters, told, accepted, table>>
  BY <1>1, TakesIs
<1>3. PICK s \in Sockets : Queued(s)
  BY <1>2, WorkStage
<1>4. PICK u \in Update : toLogic.upd = <<[id |-> s, upd |-> u]>> /\ LogicHas({"upd"}) /\ Differs(s, u)
  BY <1>2, <1>3 DEF Queued, LogicHas
<1> PICK m : m = [id |-> s, upd |-> u]
  OBVIOUS
<1>5. Head(toLogic.upd) = m /\ Tail(toLogic.upd) = <<>> /\ m.id = s /\ m.upd = u
  BY <1>4
<1>6. /\ AllKnown /\ Owners(ft) \subseteq open /\ s \in open /\ NetHas({}) /\ Taken /\ AllAlike(open \ {s})
      /\ (\A e \in open : told[e] = open) /\ (\A t \in Sockets : inbox[t] = <<>>)
  BY <1>3, <1>4 DEF Queued, Speaks, Differs, InboxOf, OwnersIn, Inv, TypeOK, ClientsOK
<1> PICK G : G = replica[s]
  OBVIOUS
<1> PICK F : F = fs
  OBVIOUS
<1>7. /\ Tree(F) /\ Tree(G) /\ Tabled(ft, F) /\ u = [adds |-> Additions(F, G), dels |-> Deletions(F, G)]
      /\ u.adds = G \ F /\ u.dels = F \ G
  BY <1>4 DEF Differs, InTurn, Sane, Additions, Deletions
<1>8. /\ PlusDefined(MinusEquals(F, u.dels), u.adds)
      /\ PlusEquals(MinusEquals(F, u.dels), u.adds) = G /\ Applied(F, u) = G
  BY <1>7, DifferenceApplies
<1> PICK item : item = [to |-> open \ {s}, from |-> s, upd |-> u]
  OBVIOUS
<1>9. Reachable(s) = open \ {s}
  BY <1>6 DEF Reachable, AllKnown, AllThere
<1>10. /\ fs' = G /\ ft' = AddFileSystem(RemoveFileSystem(ft, F \ G), G \ F, s) /\ crash' = crash
       /\ toNet' = [toNet EXCEPT !["fsu"] = Push(@, item)]
  BY <1>5, <1>7, <1>8, <1>9 DEF LogicClientUpdate
<1>11. Tabled(ft', fs') /\ Owners(ft') \subseteq open
  BY <1>6, <1>7, <1>10, TabledUpdate DEF Inv, TypeOK, LogicOK
<1>12. /\ item \in [to : SUBSET open, from : Peers, upd : Update]
       /\ item.to = open \ {s} /\ item.upd = u
  BY DEF Sockets
<1>13. toNet'.fsu = Push(<<>>, item) /\ \A q \in NetNames \ {"fsu"} : toNet'[q] = <<>>
  <2>1. toNet \in NetQueues /\ "fsu" \in NetNames
    BY DEF NetNames, Inv, TypeOK
  <2>2. \A q \in NetNames : toNet[q] = <<>>
    BY <1>6 DEF NetHas, NetNames
  <2> QED
    BY <1>10, <2>1, <2>2, Pushes
<1>14. LogicHas({})'
  BY <1>2, <1>4, <1>5 DEF LogicHas, LogicNames
<1>15. arrived' = accepted' /\ Connected' = open' /\ Registered' = open' /\ OwnersIn(open)'
  BY <1>1, <1>2, <1>6, <1>11 DEF AllKnown, AllThere, OwnersIn, Registered
<1>16. \A e \in synced : IF e \in item.to THEN Applied(replica[e], u) = fs' ELSE replica[e] = fs'
  BY <1>6, <1>8, <1>10, <1>12 DEF AllAlike, Inv, TypeOK, ClientsOK
<1>17. Sane'
  BY <1>1, <1>2, <1>7, <1>10, <1>11 DEF InTurn, Sane
<1>18. UpdateUnderWay(u, open \ {s})'
  <2>1. \/ toNet'.fsu = <<>> /\ open \ {s} = {}
        \/ \E from \in Peers : toNet'.fsu = <<[to |-> open \ {s}, from |-> from, upd |-> u]>>
    BY <1>13, PushFirst DEF Sockets
  <2>2. \A e \in Sockets : diffs'[e] = <<>>
    BY <1>2, <1>6 DEF Taken, NoDiffs
  <2> QED
    BY <1>2, <1>12, <1>16, <2>1, <2>2 DEF UpdateUnderWay, Inv, TypeOK, ClientsOK
<1>19. Spreads'
  <2>1. NetHas({"fsu"})' /\ NoMasters'
    BY <1>2, <1>6, <1>13 DEF NetHas, NetNames, Taken, NoMasters
  <2>2. AllKnown' /\ OwnersIn(open)' /\ (\A t \in Sockets : inbox'[t] = <<>>) /\ \A e \in open' : told'[e] = open'
    BY <1>2, <1>6, <1>15 DEF AllKnown, AllThere
  <2>3. open \ {s} \in SUBSET open'
    BY <1>2
  <2> QED
    BY <1>2, <1>14, <1>18, <2>1, <2>2, <2>3 DEF Spreads
<1> QED
  BY <1>17, <1>19 DEF InTurn

LEMMA InTurnInit ==
  ASSUME Init
  PROVE  InTurn
<1>1. /\ arrived = 0 /\ open = {} /\ synced = {} /\ accepted = 0
      /\ inbox = [s \in Sockets |-> <<>>] /\ table = [i \in Slots |-> NoPeer]
      /\ toLogic = [new |-> <<>>, mreq |-> <<>>, lost |-> <<>>, got |-> <<>>, upd |-> <<>>]
      /\ toNet = [acq |-> <<>>, fsu |-> <<>>, add |-> <<>>, rem |-> <<>>, mst |-> <<>>, mft |-> <<>>]
      /\ peerIDs = [i \in 1 .. PeerTableSize |-> -1]
      /\ fs = {} /\ ft = EmptyTable /\ crash = "none"
  BY DEF Init
<1>2. Occupied = {} /\ Connected = {} /\ Registered = {}
  BY <1>1 DEF Occupied, Connected, Registered, Roster
<1>3. peerIDs # <<>>
  <2>1. 1 \in DOMAIN peerIDs
    BY <1>1, TrackerAssumption
  <2> QED
    BY <2>1
<1>4. Tree(fs) /\ Tabled(ft, fs) /\ Owners(ft) = {}
  BY <1>1 DEF Tree, Tabled, EmptyTable, PathsOf, FilesOf, Owners
<1>5. Sane
  BY <1>1, <1>2, <1>3, <1>4 DEF Sane, IdIsSock
<1>6. LogicHas({"mreq"}) /\ toLogic.mreq \in Seq(open) /\ toNet.fsu = <<>> /\ toNet.mst = <<>>
  BY <1>1 DEF LogicHas
<1>7. toNet.mst \in Seq([to : SUBSET open, fs : {fs}])
  BY <1>6
<1>8. Asks(open)
  <2>1. NoDiffs /\ \A e \in Sockets : masters[e] = <<>>
    BY DEF Init, NoDiffs
  <2> QED
    BY <1>1, <1>6, <1>7, <2>1, EmptyIsSeq DEF Asks
<1>9. Tells
  BY <1>1, <1>2, <1>4, <1>6, <1>8 DEF Tells, AllKnown, AllThere, OwnersIn
<1> QED
  BY <1>5, <1>9 DEF InTurn

LEMMA InTurnNext ==
  ASSUME Patient = TRUE, Inv, IdsInv, InTurn, [Next]_vars
  PROVE  InTurn'
<1>1. CASE Logic
  <2>1. CASE LogicNext
    BY <2>1, TurnFrame DEF LogicNext, clientVars, netVars, turnVars
  <2> QED
    BY <1>1, <2>1, TurnNewClient, TurnMasterRequest, TurnLostClient, TurnClientGot,
       TurnClientUpdate DEF Logic
<1>2. CASE UNCHANGED vars
  BY <1>2, TurnFrame DEF vars, clientVars, netVars, logicVars, turnVars
<1> QED
  BY <1>1, <1>2, TurnClient, TurnNetwork DEF Next

(* With patient clients the tracker does one thing at a time: it is at     *)
(* every moment at one of the stages of receive_new_client, updateNetwork, *)
(* receive_client_got or receive_lost_client, and of the polls that follow.*)
THEOREM OneThingAtATime ==
  ASSUME Patient = TRUE
  PROVE  Spec => []InTurn
<1>1. Init => InTurn
  BY InTurnInit
<1>2. Inv /\ IdsInv /\ InTurn /\ [Next]_vars => InTurn'
  BY InTurnNext
<1> QED
  BY <1>1, <1>2, TrackerInv, IdsAlways, PTL DEF Spec

(* Converged: when nothing is left to do, every client that was sent the   *)
(* master has been told of exactly its content, by whichever mixture of    *)
(* masters and updates it was sent.                                        *)
THEOREM PatientConverged ==
  ASSUME Patient = TRUE
  PROVE  Spec => []Converged
<1>1. Inv /\ InTurn => Converged
  BY RestIs DEF Converged, AllAlike, Inv, TypeOK, ClientsOK
<1> QED
  BY <1>1, OneThingAtATime, TrackerInv, PTL

(* TablesAgree: when nothing is left to do, every client's peer table is   *)
(* the set of connected clients.                                           *)
THEOREM PatientTablesAgree ==
  ASSUME Patient = TRUE
  PROVE  Spec => []TablesAgree
<1>1. Inv /\ InTurn => TablesAgree
  BY RestIs DEF TablesAgree, AllKnown, AllThere
<1> QED
  BY <1>1, OneThingAtATime, TrackerInv, PTL

(* OwnersConnected and NoGhostPeer: when nothing is left to do, whoever is *)
(* gone owns no chunk and has no slot in the logic thread's peer table.    *)
THEOREM PatientOwnersConnected ==
  ASSUME Patient = TRUE
  PROVE  Spec => []OwnersConnected
<1>1. Inv /\ InTurn => OwnersConnected
  BY RestIs DEF OwnersConnected, OwnersIn, AllKnown, AllThere
<1> QED
  BY <1>1, OneThingAtATime, TrackerInv, PTL

THEOREM PatientNoGhostPeer ==
  ASSUME Patient = TRUE
  PROVE  Spec => []NoGhostPeer
<1>1. Inv /\ InTurn => NoGhostPeer
  BY RestIs DEF NoGhostPeer, AllKnown, AllThere
<1> QED
  BY <1>1, OneThingAtATime, TrackerInv, PTL

(* FileTableWithinFs, now with directories inside directories: what        *)
(* prune_filesystem finds in the file table, the file system has.          *)
THEOREM PatientFileTableWithinFs ==
  ASSUME Patient = TRUE
  PROVE  Spec => []FileTableWithinFs
<1>1. InTurn => FileTableWithinFs
  BY TabledFiles DEF InTurn, Sane, Tree, FileTableWithinFs
<1> QED
  BY <1>1, OneThingAtATime, PTL

(* NothingFails: with patient clients every folder and file an update or a *)
(* prune asserts is there, every announced chunk exists, and every client  *)
(* the master is sent to is on the network thread's table.                 *)
THEOREM PatientNothingFails ==
  ASSUME Patient = TRUE
  PROVE  Spec => []NothingFails
<1>1. InTurn => NothingFails
  BY DEF InTurn, Sane, NothingFails
<1> QED
  BY <1>1, OneThingAtATime, PTL
=============================================================================
