------------------------------ MODULE PeerNetwork ------------------------------
(***************************************************************************)
(* Who is connected to whom: the tracker's roster of peers and the copies  *)
(* of it that the network threads of the clients keep                      *)
(* (client/network_client.c), the connections they open to each other,     *)
(* and the requests and answers that go over them.  Module Client has what *)
(* is asked for; here are the ids and addresses, which socket stands in    *)
(* which slot, and what is lost with a socket.                             *)
(*                                                                         *)
(* A process is named by the id the tracker gives it.  It keeps the id     *)
(* until it ends; the next process on its host gets a new one, but has     *)
(* the address of the old one.                                             *)
(***************************************************************************)
EXTENDS PeerTable

CONSTANTS
  Hosts,
  InitialSize,   \* INIT_CLIENT_NUM and INIT_PEER_SIZE: slots of a new table
  Askers,        \* hosts whose clients ask for chunks
  MaxStarts,     \* bound: processes in a behaviour
  MaxEnds,       \* bound: processes that end
  MaxAsks        \* bound: requests of one process

ASSUME PeerNetworkAssumption ==
  /\ InitialSize \in Nat \ {0} /\ Askers \subseteq Hosts
  /\ MaxStarts \in Nat /\ MaxEnds \in Nat /\ MaxAsks \in Nat

VARIABLES
  roster,   \* the tracker's peer table
  most,     \* the most peers it ever had
  told,     \* told[i]: items in the tracker's queues: send i the table
  posted,   \* posted[i]: tables on their way to i
  host,     \* host[i]: where process i runs
  state,    \* state[i]: "up"; "killed" by SIGPIPE or "astray" after a
            \* wild pointer, its sockets still open; "gone"
  proc,     \* proc[i]: tables and queues of process i
  accepts,  \* accepts[i]: connections i has not yet accepted
  socks,    \* all sockets so far, the two of a connection side by side
  cut       \* pairs of processes between which a connection was closed,
            \* replaced or forgotten, or one of which holds the connection
            \* of an earlier process in the slot of the other

trackerSide == <<roster, most, told>>
peerVars == <<trackerSide, posted, host, state, proc, accepts, socks, cut>>

Processes == 1 .. MaxStarts
Started == DOMAIN host
Up(i) == i \in Started /\ state[i] = "up"
Open(i) == i \in Started /\ state[i] # "gone"
ProcessesAt(h) == {i \in Started : host[i] = h /\ Open(i)}

Process ==
  [peers |-> NewTable(InitialSize),  \* cnt->peer_table
   heard |-> {},                     \* peers the logic was told of
   asked |-> <<>>,                   \* whom job n was asked of
   asks |-> <<>>,                    \* the queue ME_2_CLT_REQ_CHUNK
   todo |-> <<>>,                    \* CLT_2_ME_REQUEST_CHUNK
   answers |-> <<>>,                 \* ME_2_CLT_SEND_CHUNK
   got |-> <<>>]                     \* CLT_2_ME_RECEIVE_CHUNK, read or not

-----------------------------------------------------------------------------
(* Sockets.  in is what waits to be read; what comes to a socket that no   *)
(* table or backlog of its process knows will never be read.               *)
Socket(i, in) == [of |-> i, in |-> in, shut |-> FALSE]
Mate(s) == IF s % 2 = 1 THEN s + 1 ELSE s - 1
SocketsOf(i) == {s \in DOMAIN socks : socks[s].of = i /\ ~socks[s].shut}
InTable(i) == {e.sock : e \in Entries(proc[i].peers)} \cap DOMAIN socks
Watched(i, s) == s \in InTable(i) \/ s \in ToSet(accepts[i])
WatchedSocket(s) == ~socks[s].shut /\ Watched(socks[s].of, s)

EOF == [type |-> "eof"]
Delivered(all, s, m) == IF WatchedSocket(s) THEN [all EXCEPT ![s].in = Append(@, m)] ELSE all
Drained(all, S) == [s \in DOMAIN all |-> IF s \in S THEN [all[s] EXCEPT !.in = <<>>] ELSE all[s]]
Shut(s) == Drained([Delivered(socks, Mate(s), EOF) EXCEPT ![s].shut = TRUE], {s})

(* send, by process i on socket s: to one that is shut it raises SIGPIPE,  *)
(* or is lost where the reset has not yet come back.                       *)
Send(i, s, m) ==
  /\ socks' = Delivered(socks, Mate(s), m)
  /\ state' \in IF socks[Mate(s)].shut THEN {state, [state EXCEPT ![i] = "killed"]} ELSE {state}

(* The processes at the two ends of a socket of S lose touch. *)
Cuts(S) == {{socks[s].of, socks[Mate(s)].of} : s \in S}

-----------------------------------------------------------------------------
PeerInit ==
  /\ roster = NewTable(InitialSize) /\ most = 0
  /\ told = [i \in Processes |-> 0] /\ posted = [i \in Processes |-> <<>>]
  /\ host = <<>> /\ state = <<>>
  /\ proc = [i \in Processes |-> Process]
  /\ accepts = [i \in Processes |-> <<>>]
  /\ socks = <<>> /\ cut = {}

(***************************************************************************)
(* The tracker.  Every loop of its network thread reads all slots of the   *)
(* roster, junk included.                                                  *)
(***************************************************************************)
TrackerWell == ~HasJunk(roster)

(* The logic thread's broadcasts: an item for every peer but i.            *)
ToldOthers(i) == [j \in Processes |-> IF j \in Ids(roster) \ {i} THEN told[j] + 1 ELSE told[j]]

(* A client starts on a host where none runs (the port is taken else), and *)
(* the tracker accepts it: tkr_network_process_new_connections, and        *)
(* newPeerBroadcast.                                                       *)
Starts(h) ==
  /\ TrackerWell /\ ProcessesAt(h) = {}
  /\ Len(host) < MaxStarts
  /\ LET i == roster.next IN
       /\ roster' \in AddPeer(roster, h, i)
       /\ most' = IF roster'.count > most THEN roster'.count ELSE most
       /\ posted' = [posted EXCEPT ![i] = Append(@, Serialized(roster'))]
       /\ told' = ToldOthers(i)
  /\ host' = Append(host, h)
  /\ state' = Append(state, "up")
  /\ UNCHANGED <<proc, accepts, socks, cut>>

(* check_add_peer_q and check_remove_peer_q: the table as it is now. *)
TrackerTells(i) ==
  /\ TrackerWell /\ told[i] > 0
  /\ told' = [told EXCEPT ![i] = @ - 1]
  /\ posted' = IF KnownId(roster, i) /\ Open(i)
                 THEN [posted EXCEPT ![i] = Append(@, Serialized(roster))] ELSE posted
  /\ UNCHANGED <<roster, most, host, state, proc, accepts, socks, cut>>

(* tkr_network_handle_peer_messages finds the socket closed, and           *)
(* lostPeerBroadcast.                                                      *)
TrackerLoses(i) ==
  /\ TrackerWell /\ KnownId(roster, i) /\ ~Open(i)
  /\ roster' = DeletePeer(roster, i)
  /\ told' = ToldOthers(i)
  /\ UNCHANGED <<most, posted, host, state, proc, accepts, socks, cut>>

(***************************************************************************)
(* The network thread of process i                                         *)
(***************************************************************************)
(* clt_network_process_new_connections: the socket goes into the slot of   *)
(* the address it comes from, whatever is there; a stranger's is closed.   *)
(* Mutant: into the first slot there is.                                   *)
FirstSlot(t, h) == Used(t)
CallersSlots(t, h) == SlotsAt(t, h)

NetAccepts(i) ==
  /\ Up(i) /\ accepts[i] # <<>>
  /\ accepts' = [accepts EXCEPT ![i] = Tail(@)]
  /\ LET s == Head(accepts[i])
         t == proc[i].peers
         slots == CallersSlots(t, host[socks[Mate(s)].of])
     IN  IF slots = {}
           THEN /\ socks' = Shut(s)
                /\ cut' = cut \cup Cuts({s})
                /\ UNCHANGED proc
           ELSE LET e == t.slots[First(slots)]
                    lost == {e.sock} \ {-1} IN
                /\ proc' = [proc EXCEPT ![i].peers = WithSocket(@, First(slots), s)]
                /\ socks' = Drained(socks, lost)
                /\ cut' = cut \cup Cuts(lost) \cup ({{i, e.id}} \ Cuts({s}))
  /\ UNCHANGED <<trackerSide, posted, host, state>>

(* handle_tracker_msg, for a peer table: the logic is told of the          *)
(* differences, and the new table, without sockets, takes the place of the *)
(* old one.  Mutant: the deletions are those of the swapped tables.        *)
DeletedSwapped(old, new) == Deleted(new, old)
Departures(old, new) == Deleted(old, new)

NetTable(i) ==
  /\ Up(i) /\ posted[i] # <<>>
  /\ posted' = [posted EXCEPT ![i] = Tail(@)]
  /\ LET old == proc[i].peers
         lost == InTable(i)
     IN  \E new \in Deserialized(Head(posted[i])) :
         \E adds \in Added(old, new), dels \in Departures(old, new) :
           /\ proc' = [proc EXCEPT ![i].peers = new,
                         ![i].heard = IF HasJunk(adds) \/ HasJunk(dels) THEN @
                                      ELSE (@ \cup Ids(adds)) \ Ids(dels)]
           /\ state' = IF HasJunk(adds) \/ HasJunk(dels)
                         THEN [state EXCEPT ![i] = "astray"] ELSE state
           /\ socks' = Drained(socks, lost)
           /\ cut' = cut \cup Cuts(lost)
  /\ UNCHANGED <<trackerSide, host, accepts>>

(* handle_peer_msg, on the socket in slot n; at the end of the stream the  *)
(* socket is closed.  The sender is known by its slot.                     *)
NetReads(i) ==
  /\ Up(i)
  /\ \E n \in Used(proc[i].peers) :
       LET e == proc[i].peers.slots[n] IN
       /\ e.sock > 0 /\ socks[e.sock].in # <<>>
       /\ LET m == Head(socks[e.sock].in)
              p == CASE m.type = "eof" -> [proc[i] EXCEPT !.peers = WithSocket(@, n, -1)]
                     [] m.type = "ask" -> [proc[i] EXCEPT !.todo = Append(@, [m EXCEPT !.peer = e.id])]
                     [] m.type = "answer" -> [proc[i] EXCEPT !.got = Append(@, m)]
          IN  /\ proc' = [proc EXCEPT ![i] = p]
              /\ IF m.type = "eof"
                   THEN socks' = Shut(e.sock) /\ cut' = cut \cup Cuts({e.sock})
                   ELSE socks' = [socks EXCEPT ![e.sock].in = Tail(@)] /\ UNCHANGED cut
  /\ UNCHANGED <<trackerSide, posted, host, state, accepts>>

(* connect_to_peer keeps a connection there is.                            *)
Connected(e) == e.sock > 0

(* check_req_chunk_q: one item.  Without a peer, or one that does not      *)
(* listen, it is dropped.                                                  *)
NetAsks(i) ==
  /\ Up(i) /\ proc[i].asks # <<>>
  /\ LET m == Head(proc[i].asks)
         t == proc[i].peers
         taken == [proc EXCEPT ![i].asks = Tail(@)]
     IN  IF ~KnownId(t, m.peer)
           THEN proc' = taken /\ UNCHANGED <<state, accepts, socks>>
         ELSE IF Connected(ById(t, m.peer))
           THEN /\ Send(i, ById(t, m.peer).sock, m)
                /\ proc' = taken /\ UNCHANGED accepts
         ELSE IF ProcessesAt(ById(t, m.peer).host) = {}
           THEN proc' = taken /\ UNCHANGED <<state, accepts, socks>>
         ELSE \E j \in ProcessesAt(ById(t, m.peer).host) :
           /\ socks' = socks \o <<Socket(i, <<>>), Socket(j, <<m>>)>>
           /\ accepts' = [accepts EXCEPT ![j] = Append(@, Len(socks) + 2)]
           /\ proc' = [taken EXCEPT ![i].peers = WithSocket(@, SlotOf(t, m.peer), Len(socks) + 1)]
           /\ UNCHANGED state
  /\ UNCHANGED <<trackerSide, posted, host, cut>>

(* check_send_chunk_q and check_req_error_q: one item; without a peer or a *)
(* connection, it is dropped.                                              *)
NetAnswers(i) ==
  /\ Up(i) /\ proc[i].answers # <<>>
  /\ proc' = [proc EXCEPT ![i].answers = Tail(@)]
  /\ LET m == Head(proc[i].answers)
         t == proc[i].peers
     IN  IF KnownId(t, m.peer) /\ ById(t, m.peer).sock > 0
           THEN Send(i, ById(t, m.peer).sock, m)
           ELSE UNCHANGED <<state, socks>>
  /\ UNCHANGED <<trackerSide, posted, host, accepts, cut>>

(***************************************************************************)
(* The logic thread of process i, where it uses the network                *)
(***************************************************************************)
(* send_chunk_request: job numbers start at 1 in every process. *)
LogicAsks(i, d) ==
  /\ Up(i) /\ host[i] \in Askers /\ d # i
  /\ Len(proc[i].asked) < MaxAsks
  /\ KnownId(proc[i].peers, d)
  /\ LET m == [type |-> "ask", job |-> Len(proc[i].asked) + 1, origin |-> i, peer |-> d] IN
       proc' = [proc EXCEPT ![i].asked = Append(@, d), ![i].asks = Append(@, m)]
  /\ UNCHANGED <<trackerSide, posted, host, state, accepts, socks, cut>>

(* receive_chunk_request, and send_chunk or send_chunk_rejection; a peer   *)
(* the table no longer has gets no answer.  Mutant: what cannot be served  *)
(* is not rejected.                                                        *)
LogicServes(i) ==
  /\ Up(i) /\ proc[i].todo # <<>>
  /\ LET m == Head(proc[i].todo) IN
     \E has \in BOOLEAN :
       proc' = [proc EXCEPT ![i].todo = Tail(@),
                  ![i].answers = IF has /\ KnownId(proc[i].peers, m.peer)
                                   THEN Append(@, [m EXCEPT !.type = "answer"]) ELSE @]
  /\ UNCHANGED <<trackerSide, posted, host, state, accepts, socks, cut>>
LogicAnswers(i) ==
  /\ Up(i) /\ proc[i].todo # <<>>
  /\ LET m == Head(proc[i].todo) IN
       proc' = [proc EXCEPT ![i].todo = Tail(@),
                  ![i].answers = IF KnownId(proc[i].peers, m.peer)
                                   THEN Append(@, [m EXCEPT !.type = "answer"]) ELSE @]
  /\ UNCHANGED <<trackerSide, posted, host, state, accepts, socks, cut>>

(* The process ends, at its user's wish or because it was brought down.    *)
Ends(i) ==
  /\ Open(i)
  /\ Cardinality({j \in Started : state[j] # "up"}) < MaxEnds \/ state[i] # "up"
  /\ state' = [state EXCEPT ![i] = "gone"]
  /\ proc' = [proc EXCEPT ![i] = [Process EXCEPT !.asked = proc[i].asked]]
  /\ posted' = [posted EXCEPT ![i] = <<>>] /\ accepts' = [accepts EXCEPT ![i] = <<>>]
  /\ LET heard == {s \in DOMAIN socks : Mate(s) \in SocketsOf(i) /\ WatchedSocket(s)} IN
       socks' = [s \in DOMAIN socks |->
                   IF socks[s].of = i THEN [socks[s] EXCEPT !.shut = TRUE, !.in = <<>>]
                   ELSE IF s \in heard THEN [socks[s] EXCEPT !.in = Append(@, EOF)]
                   ELSE socks[s]]
  /\ cut' = cut \cup {{i, j} : j \in Processes}
  /\ UNCHANGED <<trackerSide, host>>

-----------------------------------------------------------------------------
PeerNext ==
  \/ \E h \in Hosts : Starts(h)
  \/ \E i \in Processes :
       \/ TrackerTells(i) \/ TrackerLoses(i)
       \/ NetAccepts(i) \/ NetTable(i) \/ NetReads(i) \/ NetAsks(i) \/ NetAnswers(i)
       \/ \E d \in Processes : LogicAsks(i, d)
       \/ LogicAnswers(i) \/ Ends(i)

PeerSpec == PeerInit /\ [][PeerNext]_peerVars

(***************************************************************************)
(* Properties                                                              *)
(***************************************************************************)
Messages == [type : {"ask", "answer"}, job : 1 .. MaxAsks, origin : Processes, peer : Processes]

(* The shape of the state: sockets in tables are connections of the        *)
(* process that were not closed, each in one slot.                         *)
PeerTypeOK ==
  /\ \A i \in Started :
       LET p == proc[i] IN
       /\ ~HasJunk(p.peers) /\ Ids(p.peers) \subseteq Started
       /\ \A e \in Entries(p.peers) :
            e.sock > 0 => e.sock \in SocketsOf(i)
       /\ \A e, f \in Entries(p.peers) : e.sock > 0 /\ e.sock = f.sock => e = f
       /\ \A n \in DOMAIN p.asks : p.asks[n] \in Messages
       /\ \A n \in DOMAIN p.answers : p.answers[n] \in Messages
  /\ Ids(roster) \subseteq Started /\ roster.count = Cardinality(Ids(roster))

(* What the logic has been told of arrivals and departures is what the     *)
(* peer table says: diff_tables loses nothing.                             *)
HeardIsTable == \A i \in Started : Up(i) => proc[i].heard = Ids(proc[i].peers)

(* No pointer is read from a slot nobody set, but where a table was filled *)
(* to its end: as many clients at once as it has slots, or a departure of  *)
(* two thirds of them between two tables.                                  *)
JunkNeedsCrowd ==
  /\ HasJunk(roster) => most >= InitialSize
  /\ \A i \in Started : state[i] = "astray" =>
       Cardinality(proc[i].heard \ Ids(proc[i].peers)) >= 2 * Cardinality(Ids(proc[i].peers))

(* An answer comes to a process that asked for it, or was started where    *)
(* that one ran, and comes once.                                           *)
AnswersAreOwn ==
  \A i \in Started : LET got == proc[i].got IN
    /\ \A n \in DOMAIN got : host[got[n].origin] = host[i]
                             /\ got[n].job \in DOMAIN proc[got[n].origin].asked
    /\ \A n, l \in DOMAIN got :
         got[n].job = got[l].job /\ got[n].origin = got[l].origin => n = l

(* When everything sent has been read and everything read dealt with, a    *)
(* request between two processes that stayed, and whose connections were   *)
(* not closed, replaced, forgotten or taken for another's, has been        *)
(* answered.                                                               *)
AtRest(i) ==
  /\ posted[i] = <<>> /\ accepts[i] = <<>>
  /\ proc[i].asks = <<>> /\ proc[i].todo = <<>> /\ proc[i].answers = <<>>
  /\ \A s \in InTable(i) : socks[s].in = <<>>
Settled(i, d, n) ==
  \/ \E l \in DOMAIN proc[i].got : proc[i].got[l].origin = i /\ proc[i].got[l].job = n
  \/ {i, d} \in cut \/ ~Up(i) \/ ~Up(d)
AnsweredAtRest ==
  (\A i \in Started : Up(i) => AtRest(i)) =>
    \A i \in Started : \A n \in DOMAIN proc[i].asked : Settled(i, proc[i].asked[n], n)

(* Network.tex: "If there are any existing client connections, those       *)
(* sockets will also be watched."  Two clients that connect to each other  *)
(* at once refute it: the accepted socket takes the place of the opened    *)
(* one, which nobody closes.  AnsweredAtRest exempts these two by cut.     *)
ConnectionsWatched == \A i \in Started : Up(i) => \A s \in SocketsOf(i) : Watched(i, s)
=============================================================================
