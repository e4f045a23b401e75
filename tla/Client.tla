--------------------------------- MODULE Client ---------------------------------
(***************************************************************************)
(* DartSync clients: the logic thread of client/client.c and the network   *)
(* thread of client/network_client.c, joined by AsyncQueues, several of    *)
(* them around one tracker and connected to each other.                    *)
(*                                                                         *)
(*   tracker ==> down --> network thread --> toLogic --> logic thread      *)
(*   tracker <== up   <---------------------------------'   |              *)
(*   peers  <==> wire <-> network thread <-- toNet   <------'              *)
(*                                                                         *)
(* The logic thread is a loop that visits its queues in a fixed order;     *)
(* its phase says which one it is at, and one step handles one item with   *)
(* every call the handler makes, or finds the queue empty and moves on.    *)
(* The network thread looks at all its sockets and queues in every round;  *)
(* its handlers are steps in any order.                                    *)
(*                                                                         *)
(* The tracker is atomic here: one step takes a message in and announces   *)
(* it to everybody.  Module Tracker has what goes on inside it.            *)
(***************************************************************************)
EXTENDS Integers, Sequences, FiniteSets, FileTable

CONSTANTS
  Starters,     \* clients that are up from the beginning
  Authors,      \* clients whose users edit the directory
  MaxPending,   \* MAX_PENDING_REQUESTS
  MaxJobs,      \* bound: requests a client makes in a behaviour
  MaxConns,     \* bound: connections between clients at a time
  MaxRemoves,   \* bound: files users remove in a behaviour
  MaxJoins,     \* bound: clients that join in a behaviour
  MaxLeaves,    \* bound: clients that leave in a behaviour
  Patient       \* TRUE: users, joins and leaves wait until all is settled

(* A flat directory: mkdir and rmdir of a directory tree are left out.     *)
ASSUME ClientAssumption ==
  /\ Dirs = {} /\ 0 \notin Peers
  /\ IsFiniteSet(Paths) /\ IsFiniteSet(Peers)
  /\ Starters \subseteq Peers /\ Authors \subseteq Peers
  /\ MaxPending \in Nat \ {0} /\ MaxConns \in Nat
  /\ MaxJobs \in Nat /\ MaxRemoves \in Nat
  /\ MaxJoins \in Nat /\ MaxLeaves \in Nat
  /\ Patient \in BOOLEAN

VARIABLES
  \* the tracker
  master, mft,    \* its file system and file table
  members,        \* the clients in its peer table
  up,             \* up[c]: messages of c on their way to it, by kind
  down,           \* down[c]: messages to c on their way
  \* users
  author,         \* author[v]: whose user wrote content v
  undone,         \* undone[c]: entries c's user removed or overwrote
  removes,        \* files removed so far
  joined,         \* clients that were ever up
  \* clients
  node,           \* node[c]: the directory and the logic thread of c
  toLogic, toNet, \* the AsyncQueues
  alive,          \* running client processes
  sock,           \* sock[c]: peer table, from ids to connections (0: none)
  backlog,        \* backlog[c]: connections c has not yet accepted
  wire,           \* wire[k]: from the two ends of connection k to the
                  \* messages under way to that end; empty if k is unused
  crash           \* "none", or what brought a process down

trackerVars == <<master, mft, members, down>>
userVars == <<author, undone, removes, joined>>
netVars  == <<alive, sock, backlog, wire>>
vars == <<trackerVars, up, userVars, node, toLogic, toNet, netVars, crash>>

Running == crash = "none"
Up(c) == Running /\ c \in alive
Elements(s) == {s[i] : i \in DOMAIN s}
NoPaths == [p \in {} |-> 0]

-----------------------------------------------------------------------------
(* ChunkyFiles.  data holds, for each chunk, the version whose content it  *)
(* is; Filler is the "DEADBEEF" of chunkyfile_new_for_writing_to_path, or  *)
(* bytes of no file.  A ChunkyFile opened for reading has no path to be    *)
(* written to.                                                             *)
Filler == 0
Rejected == -1
Chunks(v) == 0 .. (ChunksOf[v] - 1)
Content(v) == [i \in Chunks(v) |-> v]
NoFile == [ver |-> 0, path |-> FALSE]
ForWriting(v) == [ver |-> v, data |-> [i \in Chunks(v) |-> Filler], written |-> {}, path |-> TRUE]
ForReading(f) == [ver |-> f.ver, data |-> f.data, written |-> {}, path |-> FALSE]
GetChunk(f, i) == IF i \in DOMAIN f.data THEN f.data[i] ELSE Filler
SetChunk(f, i, x) == [f EXCEPT !.data[i] = x, !.written = @ \cup {i}]
AllWritten(f) == f.written = DOMAIN f.data

(* A directory: from paths to the file there.  Scan is filesystem_new.     *)
Scan(dir) == {[path |-> p, ver |-> dir[p].ver] : p \in DOMAIN dir}
Without(f, P) == [p \in DOMAIN f \ P |-> f[p]]
With(f, g) == [p \in DOMAIN f \cup DOMAIN g |-> IF p \in DOMAIN g THEN g[p] ELSE f[p]]
Saved(f) == [ver |-> f.ver, data |-> f.data]

(* queue_shuffle swaps each element with a lower one, never with itself:   *)
(* of n elements it makes one cycle.                                       *)
Cycles(n) ==
  {f \in [1 .. n -> 1 .. n] :
     \A S \in (SUBSET (1 .. n)) \ {{}, 1 .. n} : \E i \in S : f[i] \notin S}
Shuffles(q) == {[i \in DOMAIN q |-> q[f[i]]] : f \in Cycles(Len(q))}

(* The chunks queued for a file to download.  Mutant: the last is missing. *)
AllButLast(v) == [i \in 1 .. (ChunksOf[v] - 1) |-> i - 1]
AllChunks(v) == [i \in 1 .. ChunksOf[v] |-> i - 1]

-----------------------------------------------------------------------------
(* What the handlers of client.c do to the logic thread's state s: the     *)
(* directory, cur_fs, prev_fs, and the file table, in which owners has the *)
(* chunk queues and entry the work queue, the outstanding requests and the *)
(* ChunkyFile of each path.                                                *)
Fresh(dir) ==
  [disk |-> dir, cur |-> Scan(dir), prev |-> <<>>, owners |-> EmptyTable,
   entry |-> NoPaths, jobs |-> <<>>, phase |-> "del"]

NoWork == [work |-> <<>>, out |-> <<>>, file |-> NoFile]
Refreshed(s) == [s EXCEPT !.cur = Scan(s.disk)]
Unlinked(s, P) == [s EXCEPT !.disk = Without(@, P)]
Forgotten(s, dels) ==
  [s EXCEPT !.owners = RemoveFileSystem(@, dels), !.entry = Without(@, PathsOf(dels))]
Learnt(s, adds, peer, entries) ==
  [s EXCEPT !.owners = AddFileSystem(@, adds, peer), !.entry = With(@, entries)]

(* The file table as it comes from the tracker: owners, and no work. *)
Received(s, ft) == [s EXCEPT !.owners = ft, !.entry = [p \in DOMAIN ft |-> NoWork]]

(* The entry additions F have for a path.  Where two versions are listed   *)
(* under one name, it is the one the iterator comes to last.               *)
Winners(F) == {f \in [PathsOf(F) -> F] : \A p \in DOMAIN f : f[p].path = p}

(* The versions F lists under each name, in the order of the iterator.     *)
Listings(F) ==
  {f \in [PathsOf(F) -> UNION {[1 .. n -> Versions] : n \in 1 .. MaxVersion}] :
     \A p \in DOMAIN f :
       /\ Elements(f[p]) = {e.ver : e \in {e \in F : e.path = p}}
       /\ \A i, j \in DOMAIN f[p] : f[p][i] = f[p][j] => i = j}
Latest(versions) == versions[Len(versions)]

(* filetable_enqueue_work_for_filesystem on the work queue q of a path:    *)
(* the chunks of every version listed are pushed, and all is shuffled.     *)
Enqueued(q, versions) ==
  LET After[n \in 0 .. Len(versions)] ==
        IF n = 0 THEN {q}
        ELSE UNION {Shuffles(w \o AllChunks(versions[n])) : w \in After[n - 1]}
  IN  After[Len(versions)]

(* For every path one of the work queues it may have. *)
Orders(queues) ==
  {f \in [DOMAIN queues -> UNION {queues[p] : p \in DOMAIN queues}] :
     \A p \in DOMAIN queues : f[p] \in queues[p]}

-----------------------------------------------------------------------------
(* The queues. *)
ToLogic == [del |-> <<>>, req |-> <<>>, chunk |-> <<>>, acq |-> <<>>, diff |-> <<>>, mst |-> <<>>]
ToNet == [req |-> <<>>, send |-> <<>>, err |-> <<>>]
ToTracker == [got |-> <<>>, upd |-> <<>>]
Announced(q, dsts, m) == [d \in Peers |-> IF d \in dsts THEN Append(q[d], m) ELSE q[d]]

Unused == {k \in 1 .. MaxConns : DOMAIN wire[k] = {}}
OtherEnd(k, c) == CHOOSE d \in DOMAIN wire[k] : d # c

(* Connections after the peer tables became socks and the accept queues    *)
(* logs: what is sent to an end no table or accept queue knows any more is *)
(* never read, and a connection nobody knows at either end is gone.        *)
Reads(socks, logs, k, c) ==
  k \in {socks[c][d] : d \in DOMAIN socks[c]} \cup Elements(logs[c])
Tidied(w, socks, logs) ==
  [k \in 1 .. MaxConns |->
     IF \E c \in DOMAIN w[k] : Reads(socks, logs, k, c)
       THEN [c \in DOMAIN w[k] |-> IF Reads(socks, logs, k, c) THEN w[k][c] ELSE <<>>]
       ELSE NoPaths]
Sent(w, k, d, m) == IF d \in DOMAIN w[k] THEN [w EXCEPT ![k][d] = Append(@, m)] ELSE w
EOF == [type |-> "EOF"]

NoTable == [d \in {} |-> 0]
NewTable(ids) == [d \in ids |-> 0]

(* Nothing is under way. *)
Quiet ==
  /\ Running
  /\ members = alive
  /\ \A c \in Peers :
       /\ up[c] = ToTracker /\ down[c] = <<>>
       /\ toLogic[c] = ToLogic /\ toNet[c] = ToNet /\ backlog[c] = <<>>
  /\ \A k \in 1 .. MaxConns : \A c \in DOMAIN wire[k] : wire[k][c] = <<>>

(* Nothing is under way or asked for, and the scans see what the clients   *)
(* believe.                                                                *)
Settled ==
  /\ Quiet
  /\ \A c \in alive :
       /\ node[c].cur = Scan(node[c].disk) /\ node[c].prev = <<node[c].cur>>
       /\ \A p \in DOMAIN node[c].entry :
            node[c].entry[p].work = <<>> /\ node[c].entry[p].out = <<>>

-----------------------------------------------------------------------------
Init ==
  /\ master = {} /\ mft = EmptyTable /\ members = Starters
  /\ up = [c \in Peers |-> ToTracker] /\ down = [c \in Peers |-> <<>>]
  /\ author = <<>> /\ undone = [c \in Peers |-> {}] /\ removes = 0
  /\ joined = Starters
  /\ node = [c \in Peers |-> Fresh(NoPaths)]
  /\ toLogic = [c \in Peers |-> ToLogic] /\ toNet = [c \in Peers |-> ToNet]
  /\ alive = Starters
  /\ sock = [c \in Peers |-> IF c \in Starters THEN NewTable(Starters) ELSE NoTable]
  /\ backlog = [c \in Peers |-> <<>>]
  /\ wire = [k \in 1 .. MaxConns |-> NoPaths]
  /\ crash = "none"

(***************************************************************************)
(* Users                                                                   *)
(***************************************************************************)
Acts == Running /\ (Patient => Settled)

(* A user edits the directory, whether the client runs or not. *)
Edits(c, p, dir) ==
  /\ Acts /\ c \in Authors
  /\ node' = [node EXCEPT ![c].disk = dir, ![c].cur = IF c \in alive THEN @ ELSE Scan(dir)]
  /\ undone' = [undone EXCEPT ![c] = @ \cup {e \in Scan(node[c].disk) : e.path = p}]
  /\ UNCHANGED <<trackerVars, up, joined, toLogic, toNet, netVars, crash>>

UserWrites(c, p) ==
  LET v == Len(author) + 1 IN
  /\ v <= MaxVersion
  /\ Edits(c, p, With(node[c].disk, [q \in {p} |-> [ver |-> v, data |-> Content(v)]]))
  /\ author' = Append(author, c)
  /\ UNCHANGED removes

UserRemoves(c, p) ==
  /\ removes < MaxRemoves
  /\ p \in DOMAIN node[c].disk
  /\ Edits(c, p, Without(node[c].disk, {p}))
  /\ removes' = removes + 1
  /\ UNCHANGED author

(***************************************************************************)
(* The tracker                                                             *)
(***************************************************************************)

(* filetable_set_that_peer_has_file_chunk, in a file table: it asserts     *)
(* that there is such a chunk, but lets one past the end through, where it *)
(* writes astray.                                                          *)
GotOutcomes(ft, g) ==
  IF HasChunk(ft, g.path, g.chunk) THEN {"none"}
  ELSE IF OnePastEnd(ft, g.path, g.chunk) THEN {"none", "stray_owner"} ELSE {"got_assert"}
GotApplied(ft, g) ==
  IF HasChunk(ft, g.path, g.chunk) THEN SetOwner(ft, g.path, g.chunk, g.peer) ELSE ft

(* clientGotBroadcast *)
TrackerGot(c) ==
  /\ Running /\ c \in members /\ up[c].got # <<>>
  /\ LET g == Head(up[c].got) IN
       /\ mft' = GotApplied(mft, g)
       /\ crash' \in GotOutcomes(mft, g)
       /\ down' = Announced(down, (members \cap alive) \ {c}, g)
  /\ up' = [up EXCEPT ![c].got = Tail(@)]
  /\ UNCHANGED <<master, members, userVars, node, toLogic, toNet, netVars>>

(* updateNetwork *)
TrackerUpdate(c) ==
  /\ Running /\ c \in members /\ up[c].upd # <<>>
  /\ LET u == Head(up[c].upd) IN
       /\ master' = PlusEquals(MinusEquals(master, u.dels), u.adds)
       /\ mft' = AddFileSystem(RemoveFileSystem(mft, u.dels), u.adds, c)
       /\ down' = Announced(down, (members \cap alive) \ {c},
                            [type |-> "diff", adds |-> u.adds, dels |-> u.dels, from |-> c])
  /\ up' = [up EXCEPT ![c].upd = Tail(@)]
  /\ UNCHANGED <<members, userVars, node, toLogic, toNet, netVars, crash>>

(* receive_lost_client, with prune_filesystem; the rest of what the lost   *)
(* client sent is served first (module Tracker has the other order).       *)
TrackerLoses(c) ==
  /\ Running /\ c \in members \ alive /\ up[c] = ToTracker
  /\ members' = members \ {c}
  /\ LET left == RemovePeer(mft, c)
         gone == Ownerless(left)
         told == Announced(down, members' \cap alive, [type |-> "peers", ids |-> members'])
     IN  /\ mft' = RemovePaths(left, gone)
         /\ IF gone = {}
              THEN down' = told /\ UNCHANGED master
              ELSE /\ master' \in RemovedAtPaths(master, gone)
                   /\ down' = Announced(told, members' \cap alive, [type |-> "mst", fs |-> master'])
  /\ UNCHANGED <<up, userVars, node, toLogic, toNet, netVars, crash>>

(***************************************************************************)
(* Network threads                                                         *)
(***************************************************************************)
(* clt_network_process_new_connections: the connection replaces whatever   *)
(* the table had for that peer; from a stranger it is closed.              *)
NetAccept(c) ==
  /\ Up(c) /\ backlog[c] # <<>>
  /\ LET k == Head(backlog[c])
         d == OtherEnd(k, c)
         known == d \in DOMAIN sock[c]
     IN  /\ sock' = IF known THEN [sock EXCEPT ![c][d] = k] ELSE sock
         /\ backlog' = [backlog EXCEPT ![c] = Tail(@)]
         /\ wire' = Tidied(IF known THEN wire ELSE Sent(wire, k, d, EOF), sock', backlog')
  /\ UNCHANGED <<trackerVars, up, userVars, node, toLogic, toNet, alive, crash>>

(* diff_tables, and the new table, which knows no sockets. *)
Lost(c, ids) == DOMAIN sock[c] \ ids
TakesTable(c, ids) ==
  /\ \E gone \in [1 .. Cardinality(Lost(c, ids)) -> Lost(c, ids)] :
       /\ Elements(gone) = Lost(c, ids)
       /\ toLogic' = [toLogic EXCEPT ![c].del = @ \o gone]
  /\ sock' = [sock EXCEPT ![c] = NewTable(ids)]
  /\ wire' = Tidied(wire, sock', backlog)

(* handle_tracker_msg.  Additions to the peer table only change how long   *)
(* the logic sleeps.                                                       *)
NetTracker(c) ==
  /\ Up(c) /\ down[c] # <<>>
  /\ LET m == Head(down[c]) IN
       IF m.type = "peers" THEN TakesTable(c, m.ids)
       ELSE /\ toLogic' = [toLogic EXCEPT ![c][m.type] = Append(@, m)]
            /\ UNCHANGED <<sock, wire>>
  /\ down' = [down EXCEPT ![c] = Tail(@)]
  /\ UNCHANGED <<master, mft, members, up, userVars, node, toNet, alive, backlog, crash>>

(* handle_peer_msg, for what peer d sent; when it cannot be read the       *)
(* socket is closed.                                                       *)
NetPeer(c, d) ==
  /\ Up(c) /\ d \in DOMAIN sock[c] /\ sock[c][d] # 0
  /\ LET k == sock[c][d] IN
       /\ wire[k][c] # <<>>
       /\ LET m == Head(wire[k][c])
              read == [wire EXCEPT ![k][c] = Tail(@)]
          IN  CASE m.type = "EOF" ->
                     /\ sock' = [sock EXCEPT ![c][d] = 0]
                     /\ wire' = Tidied(Sent(read, k, d, EOF), sock', backlog)
                     /\ UNCHANGED toLogic
                [] m.type = "req" ->
                     /\ toLogic' = [toLogic EXCEPT ![c].req = Append(@, [m EXCEPT !.peer = d])]
                     /\ wire' = read /\ UNCHANGED sock
                [] m.type \in {"send", "err"} ->
                     /\ toLogic' = [toLogic EXCEPT ![c].chunk = Append(@, m)]
                     /\ wire' = read /\ UNCHANGED sock
  /\ UNCHANGED <<trackerVars, up, userVars, node, toNet, alive, backlog, crash>>

NetTakes(c, q) ==
  /\ Up(c) /\ toNet[c][q] # <<>>
  /\ toNet' = [toNet EXCEPT ![c][q] = Tail(@)]
  /\ UNCHANGED <<trackerVars, up, userVars, node, toLogic, alive, crash>>

(* check_req_chunk_q: connects first if need be; a request for a peer that *)
(* is not in the table or does not answer is dropped.                      *)
NetRequests(c) ==
  /\ NetTakes(c, "req")
  /\ LET r == Head(toNet[c].req)
         d == r.peer
     IN  IF d \notin DOMAIN sock[c] \/ (sock[c][d] = 0 /\ d \notin alive)
           THEN UNCHANGED <<sock, backlog, wire>>
         ELSE IF sock[c][d] # 0
           THEN /\ wire' = Tidied(Sent(wire, sock[c][d], d, r), sock, backlog)
                /\ UNCHANGED <<sock, backlog>>
           ELSE \E k \in Unused :
                  /\ \A i \in Unused : k <= i
                  /\ sock' = [sock EXCEPT ![c][d] = k]
                  /\ backlog' = [backlog EXCEPT ![d] = Append(@, k)]
                  /\ wire' = [wire EXCEPT ![k] = [e \in {c, d} |-> IF e = d THEN <<r>> ELSE <<>>]]

(* check_send_chunk_q and check_req_error_q: no connection, no answer.     *)
NetAnswers(c, q) ==
  /\ q \in {"send", "err"} /\ NetTakes(c, q)
  /\ LET r == Head(toNet[c][q])
         d == r.peer
     IN  wire' = IF d \in DOMAIN sock[c] /\ sock[c][d] # 0
                   THEN Tidied(Sent(wire, sock[c][d], d, r), sock, backlog) ELSE wire
  /\ UNCHANGED <<sock, backlog>>

Network(c) ==
  \/ NetAccept(c) \/ NetTracker(c) \/ NetRequests(c)
  \/ \E d \in Peers : NetPeer(c, d)
  \/ \E q \in {"send", "err"} : NetAnswers(c, q)

(***************************************************************************)
(* Logic threads                                                           *)
(***************************************************************************)
(* The order of the loop in main of client.c.  Mutant: without             *)
(* check_work_queue.                                                       *)
PhasesNoWork == <<"del", "req", "chunk", "acq", "diff", "mst", "scan">>
Phases == <<"del", "req", "chunk", "acq", "diff", "mst", "work", "scan">>
NextPhase(ph) ==
  LET i == CHOOSE i \in DOMAIN Phases : Phases[i] = ph
  IN  IF i = Len(Phases) THEN Phases[1] ELSE Phases[i + 1]

LogicTakes(c, q) ==
  /\ Up(c) /\ node[c].phase = q /\ toLogic[c][q] # <<>>
  /\ toLogic' = [toLogic EXCEPT ![c][q] = Tail(@)]
  /\ UNCHANGED <<trackerVars, userVars, netVars>>

Become(c, s) == node' = [node EXCEPT ![c] = s]
Fails(why) == crash' = why /\ UNCHANGED <<up, node, toNet>>

(* recv_peer_deleted *)
LogicPeerDeleted(c) ==
  /\ LogicTakes(c, "del")
  /\ node' = [node EXCEPT ![c].owners = RemovePeer(@, Head(toLogic[c].del))]
  /\ UNCHANGED <<up, toNet, crash>>

(* send_chunk and send_chunk_rejection ask the network's table. *)
Answer(c, q, r, data) ==
  toNet' = IF r.peer \in DOMAIN sock[c]
             THEN [toNet EXCEPT ![c][q] = Append(@,
                     [type |-> q, peer |-> r.peer, path |-> r.path, chunk |-> r.chunk,
                      id |-> r.id, data |-> data])]
             ELSE toNet

(* receive_chunk_request: from the ChunkyFile of the file table, or else   *)
(* of the disk, which stays in the table.  For a file that is gone, stat   *)
(* leaves its result unset: the request is rejected, or the file that      *)
(* could not be opened is read.                                            *)
LogicChunkRequest(c) ==
  /\ LogicTakes(c, "req")
  /\ LET r == Head(toLogic[c].req)
         p == r.path
         s == node[c]
         inTable == p \in DOMAIN s.entry
     IN  IF inTable /\ s.entry[p].file # NoFile
           THEN /\ Answer(c, "send", r, GetChunk(s.entry[p].file, r.chunk))
                /\ UNCHANGED <<up, node, crash>>
         ELSE IF p \in DOMAIN s.disk
           THEN /\ Answer(c, "send", r, GetChunk(s.disk[p], r.chunk))
                /\ node' = IF inTable THEN [node EXCEPT ![c].entry[p].file = ForReading(s.disk[p])]
                           ELSE node
                /\ UNCHANGED <<up, crash>>
         ELSE \/ Answer(c, "err", r, Rejected) /\ UNCHANGED <<up, node, crash>>
              \/ Fails("no_file")

(* receive_chunk: the job id is looked for in the entry of the path, which *)
(* is read without asking whether there is one.  Mutant: any id will do.   *)
AnyId(s, m) == TRUE
Outstanding(s, m) == m.id \in Elements(s.entry[m.path].out)

(* queue_remove, of an id that is in the queue. *)
FirstGone(q, id) ==
  LET first == CHOOSE i \in DOMAIN q : q[i] = id /\ \A j \in 1 .. (i - 1) : q[j] # id
  IN  [i \in 1 .. (Len(q) - 1) |-> IF i < first THEN q[i] ELSE q[i + 1]]
JobDone(s, m) == [s EXCEPT !.entry[m.path].out = FirstGone(@, m.id)]

(* filetable_enqueue_work_request, after a rejection.  Mutant: the chunk   *)
(* is not asked for again.                                                 *)
Dropped(s, p, chunk) == s
Requeued(s, p, chunk) == [s EXCEPT !.entry[p].work = Append(@, chunk)]

(* A chunk that completes its file: chunkyfile_write asserts a path.       *)
(* Mutant: cur_fs is not read again.                                       *)
CompletedUnseen(s, p, f) ==
  [s EXCEPT !.disk = With(@, [q \in {p} |-> Saved(f)]), !.entry[p].file = NoFile]
Completed(s, p, f) ==
  Refreshed([s EXCEPT !.disk = With(@, [q \in {p} |-> Saved(f)]), !.entry[p].file = NoFile])

LogicChunk(c) ==
  /\ LogicTakes(c, "chunk")
  /\ LET m == Head(toLogic[c].chunk)
         p == m.path
         s == node[c]
     IN  IF p \notin DOMAIN s.entry THEN Fails("null_entry")
         ELSE IF ~Outstanding(s, m) THEN UNCHANGED <<up, node, toNet, crash>>
         ELSE
           LET f == s.entry[p].file
               got == [type |-> "acq", peer |-> c, path |-> p, chunk |-> m.chunk]
           IN  IF f = NoFile
                 THEN /\ Become(c, JobDone(s, m))
                      /\ UNCHANGED <<up, toNet, crash>>
               ELSE IF m.data = Rejected
                 THEN /\ Become(c, Requeued(JobDone(s, m), p, m.chunk))
                      /\ UNCHANGED <<up, toNet, crash>>
               ELSE IF m.chunk \notin DOMAIN f.data THEN Fails("stray_chunk")
               ELSE
                 LET g == SetChunk(f, m.chunk, m.data)
                 IN  IF AllWritten(g) /\ ~g.path THEN Fails("write_assert")
                     ELSE /\ Become(c, IF AllWritten(g) THEN Completed(JobDone(s, m), p, g)
                                       ELSE Refreshed([JobDone(s, m) EXCEPT !.entry[p].file = g]))
                          /\ up' = [up EXCEPT ![c].got = Append(@, got)]
                          /\ UNCHANGED <<toNet, crash>>

(* receive_chunk_got *)
LogicChunkGot(c) ==
  /\ LogicTakes(c, "acq")
  /\ LET g == Head(toLogic[c].acq) IN
       /\ crash' \in GotOutcomes(node[c].owners, g)
       /\ node' = [node EXCEPT ![c].owners = GotApplied(@, g)]
  /\ UNCHANGED <<up, toNet>>

(* recv_diff: RemoveFileDeletions, the file table, and GetFileAdditions,   *)
(* which writes files without chunks at once.                              *)
Download(v, order) == [work |-> order, out |-> <<>>, file |-> ForWriting(v)]
LogicDiff(c) ==
  /\ LogicTakes(c, "diff")
  /\ LET u == Head(toLogic[c].diff)
         left == Unlinked(Forgotten(node[c], u.dels), PathsOf(u.dels))
     IN  \E e \in Winners(u.adds) :
         \E order \in Orders([p \in DOMAIN e |-> Shuffles(AllChunks(e[p].ver))]) :
           LET empty == {p \in DOMAIN e : ChunksOf[e[p].ver] = 0}
               s == Learnt(left, u.adds, u.from, [p \in DOMAIN e |-> Download(e[p].ver, order[p])])
           IN  Become(c, Refreshed([s EXCEPT !.disk =
                             With(@, [p \in empty |-> Saved(ForWriting(e[p].ver))])]))
  /\ UNCHANGED <<up, toNet, crash>>

(* UpdateLocalFilesystem, in state s: what is not in the master goes, what *)
(* is left is announced, and all chunks of what is missing become work,    *)
(* whose entry the file table has to have.  Files without chunks are not   *)
(* written.                                                                *)
Matched(s, dels) ==
  IF dels = {} THEN s ELSE Refreshed(Unlinked(Forgotten(s, dels), PathsOf(dels)))
Announcements(c, cur) ==
  LET gots == {[type |-> "acq", peer |-> c, path |-> e.path, chunk |-> i] :
                 e \in cur, i \in UNION {Chunks(v) : v \in Versions}}
      due == {g \in gots : \E e \in cur : e.path = g.path /\ g.chunk \in Chunks(e.ver)}
  IN  CHOOSE q \in [1 .. Cardinality(due) -> due] : Elements(q) = due
UpdatesLocal(c, s, new) ==
  LET left == Matched(s, Deletions(s.cur, new))
      adds == Additions(s.cur, new)
  IN  IF ~(PathsOf(adds) \subseteq DOMAIN left.entry)
        THEN crash' = "work_assert" /\ UNCHANGED <<up, node>>
        ELSE \E vers \in Listings(adds) :
             \E order \in Orders([p \in DOMAIN vers |-> Enqueued(left.entry[p].work, vers[p])]) :
               /\ Become(c, [left EXCEPT !.cur = new, !.entry =
                     [p \in DOMAIN @ |->
                        IF p \in DOMAIN vers
                          THEN [@[p] EXCEPT !.work = order[p], !.file = ForWriting(Latest(vers[p]))]
                          ELSE @[p]]])
               /\ up' = [up EXCEPT ![c].got = @ \o Announcements(c, left.cur)]
               /\ UNCHANGED crash

(* recv_master *)
LogicMaster(c) ==
  /\ LogicTakes(c, "mst")
  /\ UpdatesLocal(c, node[c], Head(toLogic[c].mst).fs)
  /\ UNCHANGED toNet

(* filetableentry_get_job, for check_work_queue: jobs are numbered over    *)
(* all files.  Mutants: one request too many; numbers start at 1 for every *)
(* file.                                                                   *)
HasJobOneMore(s, p) ==
  Len(s.entry[p].out) <= MaxPending /\ s.entry[p].work # <<>> /\ Len(s.jobs) < MaxJobs
HasJob(s, p) ==
  /\ Len(s.entry[p].out) < MaxPending /\ s.entry[p].work # <<>>
  /\ Len(s.jobs) < MaxJobs

JobOfFile(s, p) == Len(s.entry[p].out) + 1
NextJob(s, p) == Len(s.jobs) + 1

(* A job whose peer the network does not know is not sent, but stays       *)
(* outstanding.  Past the end of the entry's chunks there is no queue of   *)
(* owners to draw one from.                                                *)
LogicWork(c, p) ==
  /\ Up(c) /\ node[c].phase = "work"
  /\ p \in DOMAIN node[c].entry /\ HasJob(node[c], p)
  /\ LET s == node[c]
         chunk == Head(s.entry[p].work)
         id == NextJob(s, p)
     IN  IF chunk \notin DOMAIN s.owners[p] THEN Fails("no_chunk")
         ELSE IF s.owners[p][chunk] = {} THEN Fails("no_owner")
         ELSE \E d \in s.owners[p][chunk] :
           /\ Become(c, [s EXCEPT !.entry[p].work = Tail(@), !.entry[p].out = Append(@, id),
                                  !.jobs = Append(@, [path |-> p, chunk |-> chunk,
                                                      ver |-> s.entry[p].file.ver])])
           /\ toNet' = IF d \notin DOMAIN sock[c] THEN toNet
                       ELSE [toNet EXCEPT ![c].req = Append(@,
                              [type |-> "req", peer |-> d, path |-> p, chunk |-> chunk, id |-> id])]
           /\ UNCHANGED <<up, crash>>
  /\ UNCHANGED <<trackerVars, userVars, toLogic, netVars>>

(* CheckLocalFilesystem, once its five seconds are over: a listing is      *)
(* compared with cur_fs when it is seen the second time.  The owner of own *)
(* additions is myID, which is always 0.                                   *)
LogicScan(c) ==
  /\ Up(c) /\ node[c].phase = "scan"
  /\ LET s == node[c]
         new == Scan(s.disk)
         adds == Additions(s.cur, new)
         dels == Deletions(s.cur, new)
     IN  IF s.prev # <<new>>
           THEN /\ Become(c, [s EXCEPT !.prev = <<new>>, !.phase = NextPhase(@)])
                /\ UNCHANGED up
           ELSE /\ new # s.cur
                /\ Become(c, [Learnt(Forgotten(s, dels), adds, 0, [p \in PathsOf(adds) |-> NoWork])
                              EXCEPT !.cur = new, !.phase = NextPhase(@)])
                /\ up' = [up EXCEPT ![c].upd = Append(@, [adds |-> adds, dels |-> dels])]
  /\ UNCHANGED <<trackerVars, userVars, toLogic, toNet, netVars, crash>>

(* The queue of this phase is empty, there is no job to give out, or the   *)
(* five seconds are not over.                                              *)
LogicNext(c) ==
  /\ Up(c)
  /\ node[c].phase \in DOMAIN toLogic[c] => toLogic[c][node[c].phase] = <<>>
  /\ node[c].phase = "work" => \A p \in DOMAIN node[c].entry : ~HasJob(node[c], p)
  /\ node' = [node EXCEPT ![c].phase = NextPhase(@)]
  /\ UNCHANGED <<trackerVars, up, userVars, toLogic, toNet, netVars, crash>>

Logic(c) ==
  \/ LogicPeerDeleted(c) \/ LogicChunkRequest(c) \/ LogicChunk(c) \/ LogicChunkGot(c)
  \/ LogicDiff(c) \/ LogicMaster(c)
  \/ \E p \in Files : LogicWork(c, p)
  \/ LogicScan(c) \/ LogicNext(c)

(***************************************************************************)
(* Clients come and go                                                     *)
(***************************************************************************)

(* A client starts: the tracker adds it to its table and tells everybody,  *)
(* and SendMasterFSRequest brings it the master and the file table, which  *)
(* it matches its directory to.                                            *)
Join(c) ==
  /\ Acts /\ c \notin joined
  /\ Cardinality(joined \ Starters) < MaxJoins
  /\ joined' = joined \cup {c} /\ alive' = alive \cup {c}
  /\ members' = members \cup {c}
  /\ down' = Announced(down, members' \cap alive', [type |-> "peers", ids |-> members'])
  /\ UpdatesLocal(c, Received(node[c], mft), master)
  /\ UNCHANGED <<master, mft, author, undone, removes, toLogic, toNet, sock, backlog, wire>>

(* A client process ends: what it had not sent is lost, and its sockets    *)
(* are closed, those of connections it had forgotten included.             *)
Leave(c) ==
  /\ Acts /\ c \in alive
  /\ Cardinality(joined \ alive) < MaxLeaves
  /\ alive' = alive \ {c}
  /\ up' \in {up, [up EXCEPT ![c] = ToTracker]}
  /\ down' = [down EXCEPT ![c] = <<>>]
  /\ node' = [node EXCEPT ![c] = Fresh(@.disk)]
  /\ toLogic' = [toLogic EXCEPT ![c] = ToLogic] /\ toNet' = [toNet EXCEPT ![c] = ToNet]
  /\ sock' = [sock EXCEPT ![c] = NoTable] /\ backlog' = [backlog EXCEPT ![c] = <<>>]
  /\ wire' = Tidied([k \in DOMAIN wire |->
                       IF c \in DOMAIN wire[k]
                         THEN Sent(wire, k, OtherEnd(k, c), EOF)[k] ELSE wire[k]],
                    sock', backlog')
  /\ UNCHANGED <<master, mft, members, userVars, crash>>

-----------------------------------------------------------------------------
Next ==
  \E c \in Peers :
    \/ \E p \in Files : UserWrites(c, p) \/ UserRemoves(c, p)
    \/ TrackerGot(c) \/ TrackerUpdate(c) \/ TrackerLoses(c)
    \/ Network(c) \/ Logic(c)
    \/ Join(c) \/ Leave(c)

Spec == Init /\ [][Next]_vars

(* Every loop goes on: the network thread waits in a select of 10 ms, the  *)
(* logic thread in usleep, and the five seconds of CheckLocalFilesystem    *)
(* pass.  Nothing is assumed of users.                                     *)
Fairness ==
  \A c \in Peers :
    /\ WF_vars(TrackerGot(c)) /\ WF_vars(TrackerUpdate(c)) /\ WF_vars(TrackerLoses(c))
    /\ WF_vars(NetAccept(c)) /\ WF_vars(NetTracker(c)) /\ WF_vars(NetRequests(c))
    /\ \A d \in Peers : WF_vars(NetPeer(c, d))
    /\ \A q \in {"send", "err"} : WF_vars(NetAnswers(c, q))
    /\ WF_vars(Logic(c)) /\ SF_vars(LogicScan(c))

FairSpec == Spec /\ Fairness

(***************************************************************************)
(* Properties                                                              *)
(***************************************************************************)
Stored == [path : Files, ver : Versions]

(* The shape of the state: what queues, tables and files may hold. *)
NodeOK(s) ==
  /\ Scan(s.disk) \subseteq Stored /\ s.cur \subseteq Stored
  /\ \A p \in DOMAIN s.disk : DOMAIN s.disk[p].data = Chunks(s.disk[p].ver)
  /\ s.prev = <<>> \/ s.prev[1] \subseteq Stored
  /\ DOMAIN s.owners = DOMAIN s.entry
  /\ \A p \in DOMAIN s.entry :
       /\ s.entry[p].file.path => s.entry[p].file.written \subseteq DOMAIN s.entry[p].file.data
       /\ Elements(s.entry[p].out) \subseteq DOMAIN s.jobs
       /\ Len(s.entry[p].out) <= MaxPending
  /\ s.phase \in Elements(Phases)
TypeOK ==
  /\ master \subseteq Stored /\ DOMAIN mft \subseteq PathsOf(master)
  /\ \A c \in Peers : NodeOK(node[c]) /\ DOMAIN sock[c] \subseteq Peers

(* No chunk is forgotten: as long as a file is incomplete, each chunk not  *)
(* yet written waits in its work queue or has a request outstanding.       *)
Accounted ==
  \A c \in alive : \A p \in DOMAIN node[c].entry :
    LET e == node[c].entry[p] IN
      e.file.path =>
        \A i \in DOMAIN e.file.data \ e.file.written :
          i \in Elements(e.work) \/ \E id \in Elements(e.out) : node[c].jobs[id].chunk = i

(* A job id outstanding for a file was drawn for that file, and for the    *)
(* version being downloaded, which is the one owners are known of; none is *)
(* outstanding twice.                                                      *)
JobsAreOwn ==
  \A c \in alive : \A p \in DOMAIN node[c].entry :
    LET e == node[c].entry[p] IN
      /\ e.file.path => DOMAIN node[c].owners[p] = Chunks(e.file.ver)
      /\ \A i, j \in DOMAIN e.out : e.out[i] = e.out[j] => i = j
      /\ \A id \in Elements(e.out) :
           /\ node[c].jobs[id].path = p
           /\ e.file # NoFile => node[c].jobs[id].ver = e.file.ver

(* A chunk goes into the ChunkyFile of the download that asked for it:     *)
(* never past its end (chunkyfile_set_chunk does not look), nor into one   *)
(* opened for reading, which chunkyfile_write asserts.                     *)
ChunksFit == crash \notin {"stray_chunk", "write_assert"}

(* The changes a client reports are its user's: never its own downloads,   *)
(* nor the deletions it was told of.                                       *)
OnlyUserEdits ==
  \A c \in alive : \A u \in Elements(up[c].upd) :
    /\ \A e \in u.adds : author[e.ver] = c
    /\ u.dels \subseteq undone[c]

(* Client.tex, of job ids: "if a file changes while a request is in        *)
(* transit, when the request gets back to the client, the client will not  *)
(* accept the request" - no file is written with chunks of another version.*)
ContentsMatch ==
  \A c \in alive : \A p \in DOMAIN node[c].disk :
    node[c].disk[p].data = Content(node[c].disk[p].ver)

(* README.md: "While a client is connected, it's shared directory should   *)
(* be identical to the shared directories of all the other clients" - once *)
(* nothing is under way, contents included.                                *)
Identical ==
  Settled => /\ \A c \in alive : Scan(node[c].disk) = master
             /\ ContentsMatch

(* Client.tex, of receive_chunk: a late chunk, whose id is not in the list *)
(* of valid IDs, "gets ignored" - it does not bring the client down.       *)
LateChunksIgnored == crash # "null_entry"

(* Client.tex, of CheckLocalFilesystem: local changes are pushed to the    *)
(* tracker - once nothing is under way, it lists every file there is.      *)
EditsAnnounced == Settled => \A c \in alive : Scan(node[c].disk) \subseteq master

(* Client.tex, of recv_peer_deleted: a peer that left is removed from the  *)
(* owners of every chunk.  TLC refutes this (README.md, Runs).             *)
DepartedForgotten ==
  Settled => \A c \in alive : Owners(node[c].owners) \subseteq alive \cup {0}

(* Client.tex: "When a peer receives a chunk request, it gets the chunk of  *)
(* the requested file and returns it to the specified peer" - no request   *)
(* is outstanding when nothing is under way.                               *)
RequestsReturn ==
  Quiet => \A c \in alive : \A p \in DOMAIN node[c].entry : node[c].entry[p].out = <<>>

(* Every edit reaches every directory that stays. *)
Delivered == <>[](Running => \A c \in alive : Scan(node[c].disk) = master)
=============================================================================
