-------------------------------- MODULE Tracker --------------------------------
(***************************************************************************)
(* The DartSync tracker: the logic thread of tracker/tracker.c and the     *)
(* network thread of tracker/network_tracker.c, joined by AsyncQueues.     *)
(*                                                                         *)
(*   client sockets --> network thread --> toLogic --> logic thread        *)
(*   client sockets <-- network thread <-- toNet   <-- logic thread        *)
(*                                                                         *)
(* Each thread is a loop that visits its queues in a fixed order and       *)
(* drains each one; nphase and lphase say which queue it is at.  One step  *)
(* handles one queue item (or one socket message) with every call the      *)
(* handler makes, or finds the queue empty and moves on, so the two loops  *)
(* interleave between any two items.                                       *)
(*                                                                         *)
(* The clients are the environment.  Sockets to clients are reliable: what *)
(* the tracker sends a client about the file system stays in masters and   *)
(* diffs until the client's main loop takes it, which is when its          *)
(* directory, replica, changes.  Of the peer tables only the last one      *)
(* sent, told, matters.                                                    *)
(***************************************************************************)
EXTENDS Integers, Sequences, FiniteSets, FileTable

CONSTANTS
  NetSlots,       \* slots of the network thread's peer table (INIT_CLIENT_NUM)
  PeerTableSize,  \* initial slots of the logic thread's peer table
  MaxGots,        \* bound: CHUNK_GOT messages in a behaviour
  MaxCloses,      \* bound: clients that leave in a behaviour
  Patient,        \* TRUE: clients act only while there is nothing to do
  SettledJoins    \* TRUE: nobody edits while a client joins

(* add_peer grows its table when it becomes full; here it never does.      *)
ASSUME TrackerAssumption ==
  /\ Cardinality(Peers) \in Nat /\ Peers = 1 .. Cardinality(Peers)
  /\ NetSlots \in Nat /\ NetSlots > Cardinality(Peers)
  /\ PeerTableSize \in Nat \ {0}
  /\ MaxGots \in Nat /\ MaxCloses \in Nat
  /\ Patient \in BOOLEAN /\ SettledJoins \in BOOLEAN

VARIABLES
  \* clients
  arrived,        \* connections clients have made; the k-th is socket k
  open,           \* sockets whose client end is open
  inbox,          \* inbox[s]: messages sent on s and not yet read
  synced,         \* sockets whose client has taken a master file system
  replica,        \* replica[s]: the directory (cur_fs) of the client at s
  diffs,          \* diffs[s]: updates sent on s and not yet taken there
  masters,        \* masters[s]: masters sent on s and not yet taken there
  heard,          \* heard[s]: entries the client at s had from the tracker
  told,           \* told[s]: ids in the peer table last sent on s
  edits,          \* edits the users have made; the k-th writes version k
  gots,           \* CHUNK_GOT messages sent so far
  \* network thread
  accepted,       \* sockets accepted so far
  idCounter,      \* peer_table->id_counter
  table,          \* peer_table->peer_list
  ready,          \* slots select() reported and not yet handled
  nphase,
  \* the AsyncQueues
  toLogic, toNet,
  \* logic thread
  peerIDs, numberOfEntries, fs, ft, lphase,
  crash           \* "none", or what brought the process down

clientVars ==
  <<arrived, open, inbox, synced, replica, diffs, masters, heard, told, edits, gots>>
netVars    == <<accepted, idCounter, table, ready, nphase>>
logicVars  == <<peerIDs, numberOfEntries, fs, ft, lphase>>
vars == <<clientVars, netVars, toLogic, toNet, logicVars, crash>>

Sockets == Peers          \* as many sockets as ids
Slots == 1 .. NetSlots
NoPeer == [id |-> 0, sock |-> 0]
Running == crash = "none"

(* The two loops: main() of tracker.c, and tkr_network_start with          *)
(* poll_queues.                                                            *)
NoMasterRequests == <<"new", "lost", "got", "upd">>   \* mutant: a queue not polled
LogicPhases == <<"new", "mreq", "lost", "got", "upd">>
NetPhases == <<"select", "peers", "acq", "fsu", "add", "rem", "mst", "mft">>
After(phases, ph) ==
  LET i == CHOOSE i \in DOMAIN phases : phases[i] = ph
  IN  IF i = Len(phases) THEN phases[1] ELSE phases[i + 1]

-----------------------------------------------------------------------------
(* Messages and queue items.  A broadcast pushes one item per destination; *)
(* here it is one entry with the set of destinations still to be served,   *)
(* in any order.                                                           *)
Update == [adds : SUBSET Entries, dels : SUBSET Entries]
Message ==
  [type : {"REQUEST_MASTER", "EOF"}]
    \cup [type : {"CHUNK_GOT"}, path : Files, chunk : Nat]
    \cup [type : {"CLIENT_UPDATE"}, upd : Update]

LogicQueues ==
  [new : Seq(Peers), mreq : Seq(Peers), lost : Seq(Peers),
   got : Seq([id : Peers, path : Files, chunk : Nat]),
   upd : Seq([id : Peers, upd : Update])]

NetQueues ==
  [acq : Seq([to : SUBSET Peers, from : Peers, path : Files, chunk : Nat]),
   fsu : Seq([to : SUBSET Peers, from : Peers, upd : Update]),
   add : Seq([to : SUBSET Peers]), rem : Seq([to : SUBSET Peers]),
   mst : Seq([to : SUBSET Peers, fs : SUBSET Entries]),
   mft : Seq([to : SUBSET Peers])]

Push(q, item) == IF item.to = {} THEN q ELSE Append(q, item)

Occupied == {i \in Slots : table[i] # NoPeer}
Connected == {table[i].id : i \in Occupied}
SockOf(id) == table[CHOOSE i \in Occupied : table[i].id = id].sock

(* The destinations of a broadcast: the slots in use, less the subject.    *)
(* send_got_chunk_update and send_FS_update also ask the network's table.  *)
(* Mutant: the loop over the table stops one slot early.                   *)
RosterButLast(ids) == {ids[i] : i \in 1 .. (Len(ids) - 1)} \ {-1, 0}
Roster(ids) == {ids[i] : i \in DOMAIN ids} \ {-1, 0}
Registered == Roster(peerIDs)
Reachable(id) == (Registered \cap Connected) \ {id}

Idle ==
  /\ arrived = accepted
  /\ \A s \in Sockets : inbox[s] = <<>> /\ diffs[s] = <<>> /\ masters[s] = <<>>
  /\ \A q \in DOMAIN toLogic : toLogic[q] = <<>>
  /\ \A q \in DOMAIN toNet : toNet[q] = <<>>

(* Every client that came and stayed is known to both threads and has a    *)
(* master.                                                                 *)
Settled == arrived = accepted /\ Registered = Connected /\ synced = open

-----------------------------------------------------------------------------
Init ==
  /\ arrived = 0 /\ open = {} /\ synced = {}
  /\ inbox = [s \in Sockets |-> <<>>]
  /\ replica = [s \in Sockets |-> {}]
  /\ diffs = [s \in Sockets |-> <<>>] /\ masters = [s \in Sockets |-> <<>>]
  /\ heard = [s \in Sockets |-> {}] /\ told = [s \in Sockets |-> {}]
  /\ edits = 0 /\ gots = 0
  /\ accepted = 0 /\ idCounter = 1
  /\ table = [i \in Slots |-> NoPeer]
  /\ ready = {} /\ nphase = "select"
  /\ toLogic = [new |-> <<>>, mreq |-> <<>>, lost |-> <<>>, got |-> <<>>, upd |-> <<>>]
  /\ toNet = [acq |-> <<>>, fsu |-> <<>>, add |-> <<>>, rem |-> <<>>,
              mst |-> <<>>, mft |-> <<>>]
  /\ peerIDs = [i \in 1 .. PeerTableSize |-> -1]
  /\ numberOfEntries = 0
  /\ fs = {} /\ ft = EmptyTable
  /\ lphase = "new"
  /\ crash = "none"

(***************************************************************************)
(* Clients                                                                 *)
(***************************************************************************)
ClientStep ==
  /\ Running
  /\ Patient => Idle
  /\ UNCHANGED <<netVars, toLogic, toNet, logicVars, crash>>

(* A client connects and asks for the master (SendMasterFSRequest). *)
ClientConnects ==
  /\ ClientStep
  /\ SettledJoins => Idle
  /\ arrived < Cardinality(Peers)
  /\ arrived' = arrived + 1
  /\ open' = open \cup {arrived'}
  /\ inbox' = [inbox EXCEPT ![arrived'] = <<[type |-> "REQUEST_MASTER"]>>]
  /\ UNCHANGED <<synced, replica, diffs, masters, heard, told, edits, gots>>

(* CheckLocalFilesystem: the user has changed the directory to new, and    *)
(* the client sends the difference.                                        *)
SendsUpdate(s, new) ==
  /\ ClientStep
  /\ SettledJoins => Settled
  /\ s \in open \cap synced
  /\ edits < MaxVersion
  /\ new # replica[s]
  /\ inbox' = [inbox EXCEPT ![s] = Append(@,
       [type |-> "CLIENT_UPDATE",
        upd |-> [adds |-> Additions(replica[s], new), dels |-> Deletions(replica[s], new)]])]
  /\ replica' = [replica EXCEPT ![s] = new]
  /\ edits' = edits + 1
  /\ UNCHANGED <<arrived, open, synced, diffs, masters, heard, told, gots>>

ClientWrites(s, p) ==
  /\ Above(p) \subseteq PathsOf(replica[s])
  /\ SendsUpdate(s, {e \in replica[s] : e.path # p}
                      \cup {[path |-> p, ver |-> edits + 1]})

ClientMakesDir(s, d) ==
  /\ Above(d) \subseteq PathsOf(replica[s])
  /\ SendsUpdate(s, replica[s] \cup {[path |-> d, ver |-> 0]})

ClientRemoves(s, p) ==
  SendsUpdate(s, {e \in replica[s] : e.path # p /\ <<e.path, p>> \notin Inside})

(* A client announces each chunk it receives, and when it takes a master   *)
(* (UpdateLocalFilesystem) every chunk of every file it shares with it,    *)
(* files of its own user as well.                                          *)
ClientGot(s, e, chunk) ==
  /\ ClientStep
  /\ s \in open \cap synced
  /\ gots < MaxGots
  /\ e \in FilesOf(replica[s]) \cap heard[s]
  /\ chunk < NumChunks(e)
  /\ inbox' = [inbox EXCEPT ![s] = Append(@,
       [type |-> "CHUNK_GOT", path |-> e.path, chunk |-> chunk])]
  /\ gots' = gots + 1
  /\ UNCHANGED <<arrived, open, synced, replica, diffs, masters, heard, told, edits>>

ClientCloses(s) ==
  /\ ClientStep
  /\ s \in open
  /\ arrived - Cardinality(open) < MaxCloses
  /\ open' = open \ {s}
  /\ synced' = synced \ {s}
  /\ inbox' = [inbox EXCEPT ![s] = Append(@, [type |-> "EOF"])]
  /\ replica' = [replica EXCEPT ![s] = {}]
  /\ diffs' = [diffs EXCEPT ![s] = <<>>]
  /\ masters' = [masters EXCEPT ![s] = <<>>]
  /\ heard' = [heard EXCEPT ![s] = {}]
  /\ told' = [told EXCEPT ![s] = {}]
  /\ UNCHANGED <<arrived, edits, gots>>

(* The replica of a client that applies an update (recv_diff): files go by *)
(* path, and an addition replaces the file of the same name.               *)
Applied(F, u) ==
  {e \in F : /\ e.path \notin PathsOf(u.dels) \cup PathsOf(u.adds)
             /\ \A d \in u.dels : <<e.path, d.path>> \notin Inside} \cup u.adds

(* The client takes a master: the first in SendMasterFSRequest, which      *)
(* polls no other queue but the master's file table, the later ones in its *)
(* main loop.  UpdateLocalFilesystem makes it the client's directory.      *)
ClientTakesMaster(s) ==
  /\ Running
  /\ s \in open /\ masters[s] # <<>>
  /\ replica' = [replica EXCEPT ![s] = Head(masters[s])]
  /\ synced' = synced \cup {s}
  /\ masters' = [masters EXCEPT ![s] = Tail(@)]
  /\ heard' = [heard EXCEPT ![s] = Head(masters[s])]
  /\ UNCHANGED <<arrived, open, inbox, diffs, told, edits, gots>>
  /\ UNCHANGED <<netVars, toLogic, toNet, logicVars, crash>>

(* The client takes an update, in its main loop only.  Each kind has a     *)
(* queue of its own there and may be taken before or after the other: what *)
(* was sent first can still be on the socket when its queue is polled.     *)
ClientTakesDiff(s) ==
  /\ Running
  /\ s \in synced /\ diffs[s] # <<>>
  /\ replica' = [replica EXCEPT ![s] = Applied(@, Head(diffs[s]))]
  /\ diffs' = [diffs EXCEPT ![s] = Tail(@)]
  /\ heard' = [heard EXCEPT ![s] = @ \cup Head(diffs[s]).adds]
  /\ UNCHANGED <<arrived, open, inbox, synced, masters, told, edits, gots>>
  /\ UNCHANGED <<netVars, toLogic, toNet, logicVars, crash>>

ClientReceives(s) == ClientTakesMaster(s) \/ ClientTakesDiff(s)

Client ==
  \/ ClientConnects
  \/ \E s \in Sockets :
       \/ \E p \in Files : ClientWrites(s, p)
       \/ \E d \in Dirs : ClientMakesDir(s, d)
       \/ \E p \in Paths : ClientRemoves(s, p)
       \/ \E e \in Entries : e.path \in Files
            /\ \E chunk \in 0 .. (NumChunks(e) - 1) : ClientGot(s, e, chunk)
       \/ ClientCloses(s)
       \/ ClientReceives(s)

(***************************************************************************)
(* Network thread                                                          *)
(***************************************************************************)

(* send_peer_table_to_client *)
ToldPeers(s, ids) == IF s \in open THEN [told EXCEPT ![s] = ids] ELSE told

(* add_peer: the id is drawn from a counter, whatever slot i is free.      *)
(* Mutants: the slot is the id; the counter starts at zero.                *)
SlotAsId(i) == i
ZeroBasedId(i) == idCounter - 1
NewId(i) == idCounter

(* tkr_network_listen and tkr_network_process_new_connections: select,     *)
(* then accept one connection if there is one.                             *)
NetSelect ==
  /\ Running /\ nphase = "select"
  /\ ready' = {i \in Occupied : inbox[table[i].sock] # <<>>}
  /\ nphase' = IF ready' = {} THEN "acq" ELSE "peers"
  /\ IF accepted < arrived
       THEN LET i == CHOOSE i \in Slots \ Occupied : \A j \in Slots \ Occupied : i <= j
                s == accepted + 1
            IN  /\ accepted' = s
                /\ table' = [table EXCEPT ![i] = [id |-> NewId(i), sock |-> s]]
                /\ idCounter' = idCounter + 1
                /\ toLogic' = [toLogic EXCEPT !.new = Append(@, NewId(i))]
                /\ told' = ToldPeers(s, Connected')
       ELSE UNCHANGED <<accepted, table, idCounter, toLogic, told>>
  /\ UNCHANGED <<arrived, open, inbox, synced, replica, diffs, masters, heard, edits, gots>>
  /\ UNCHANGED <<toNet, logicVars, crash>>

(* handle_client_msg: what the message of client id pushes for the logic.  *)
Notified(id, m) ==
  CASE m.type = "REQUEST_MASTER" -> [toLogic EXCEPT !.mreq = Append(@, id)]
    [] m.type = "CHUNK_GOT" ->
         [toLogic EXCEPT !.got = Append(@, [id |-> id, path |-> m.path, chunk |-> m.chunk])]
    [] m.type = "CLIENT_UPDATE" ->
         [toLogic EXCEPT !.upd = Append(@, [id |-> id, upd |-> m.upd])]
    [] m.type = "EOF" -> [toLogic EXCEPT !.lost = Append(@, id)]

(* delete_peer.  Mutant: the slot of a lost client is not freed. *)
StillListed(i) == table
Freed(i) == [table EXCEPT ![i] = NoPeer]

(* tkr_network_handle_peer_messages: one message of the next ready slot;   *)
(* when it cannot be read the client is lost and its slot freed.           *)
NetHandlePeer ==
  /\ Running /\ nphase = "peers"
  /\ \E i \in ready :
       /\ \A j \in ready : i <= j
       /\ LET s == table[i].sock
              m == Head(inbox[s])
          IN  /\ toLogic' = Notified(table[i].id, m)
              /\ inbox' = [inbox EXCEPT ![s] = Tail(@)]
              /\ table' = IF m.type = "EOF" THEN Freed(i) ELSE table
       /\ ready' = ready \ {i}
  /\ nphase' = IF ready' = {} THEN "acq" ELSE "peers"
  /\ UNCHANGED <<arrived, open, synced, replica, diffs, masters, heard, told, edits, gots>>
  /\ UNCHANGED <<accepted, idCounter, toNet, logicVars, crash>>

(* The queue of this phase is empty: on to the next one. *)
NetNext ==
  /\ Running /\ nphase \in DOMAIN toNet /\ toNet[nphase] = <<>>
  /\ nphase' = After(NetPhases, nphase)
  /\ UNCHANGED <<clientVars, accepted, idCounter, table, ready, toLogic, toNet, logicVars, crash>>

(* One item for client d is popped from queue q.  Mutant: an item whose    *)
(* client is gone is only looked at.                                       *)
KeptWhenGone(q, d) ==
  LET rest == Head(toNet[q]).to \ {d}
  IN  IF d \notin Connected THEN toNet[q]
      ELSE IF rest = {} THEN Tail(toNet[q]) ELSE [toNet[q] EXCEPT ![1].to = rest]

Popped(q, d) ==
  LET rest == Head(toNet[q]).to \ {d}
  IN  IF rest = {} THEN Tail(toNet[q]) ELSE [toNet[q] EXCEPT ![1].to = rest]

NetPops(q, d) ==
  /\ Running /\ nphase = q /\ toNet[q] # <<>>
  /\ d \in Head(toNet[q]).to
  /\ toNet' = [toNet EXCEPT ![q] = Popped(q, d)]
  /\ UNCHANGED <<arrived, open, inbox, synced, replica, heard, edits, gots>>
  /\ UNCHANGED <<accepted, idCounter, table, ready, toLogic, logicVars>>

(* check_file_acq_q and check_send_master_ft_q: send_client_message, which *)
(* does nothing when the client is gone.  Neither touches the directory.   *)
NetSendsAcq(d) ==
  /\ NetPops("acq", d)
  /\ UNCHANGED <<nphase, diffs, masters, told, crash>>

NetSendsMasterFT(d) ==
  /\ NetPops("mft", d)
  /\ UNCHANGED <<nphase, diffs, masters, told, crash>>

(* check_fs_update_q: the loop is left when the client is gone. *)
NetSendsFSUpdate(d) ==
  /\ NetPops("fsu", d)
  /\ nphase' = IF d \in Connected THEN nphase ELSE "add"
  /\ diffs' = IF d \in Connected /\ SockOf(d) \in open
                THEN [diffs EXCEPT ![SockOf(d)] = Append(@, Head(toNet.fsu).upd)]
                ELSE diffs
  /\ UNCHANGED <<masters, told, crash>>

(* check_add_peer_q and check_remove_peer_q: both send the whole table. *)
NetSendsPeerTable(q, d) ==
  /\ q \in {"add", "rem"}
  /\ NetPops(q, d)
  /\ nphase' = IF d \in Connected THEN nphase ELSE After(NetPhases, q)
  /\ told' = IF d \in Connected THEN ToldPeers(SockOf(d), Connected) ELSE told
  /\ UNCHANGED <<diffs, masters, crash>>

(* check_send_master_q reads client->id before it knows that the client is *)
(* still there.                                                            *)
NetSendsMaster(d) ==
  /\ NetPops("mst", d)
  /\ IF d \in Connected
       THEN /\ masters' = IF SockOf(d) \in open
                            THEN [masters EXCEPT ![SockOf(d)] = Append(@, Head(toNet.mst).fs)]
                            ELSE masters
            /\ UNCHANGED crash
       ELSE crash' = "null_client" /\ UNCHANGED masters
  /\ UNCHANGED <<nphase, diffs, told>>

Network ==
  \/ NetSelect
  \/ NetHandlePeer
  \/ NetNext
  \/ \E d \in Peers :
       \/ NetSendsAcq(d)
       \/ NetSendsFSUpdate(d)
       \/ \E q \in {"add", "rem"} : NetSendsPeerTable(q, d)
       \/ NetSendsMaster(d)
       \/ NetSendsMasterFT(d)

(***************************************************************************)
(* Logic thread                                                            *)
(***************************************************************************)
LogicTakes(q) ==
  /\ Running /\ lphase = q /\ toLogic[q] # <<>>
  /\ toLogic' = [toLogic EXCEPT ![q] = Tail(@)]
  /\ UNCHANGED <<clientVars, netVars, lphase>>

LogicNext ==
  /\ Running /\ toLogic[lphase] = <<>>
  /\ lphase' = After(LogicPhases, lphase)
  /\ UNCHANGED <<clientVars, netVars, toLogic, toNet, peerIDs, numberOfEntries, fs, ft, crash>>

(* containsPeer looks at the first numberOfEntries slots. *)
ContainsPeer(id) ==
  \E i \in DOMAIN peerIDs : i <= numberOfEntries /\ peerIDs[i] = id

(* addPeerToTable: the first slot that is free or already has the id; the  *)
(* table doubles when there is none.                                       *)
AddedPeer(id) ==
  LET Fit == {i \in DOMAIN peerIDs : peerIDs[i] \in {-1, id}}
  IN  IF Fit # {}
        THEN [peerIDs EXCEPT ![CHOOSE i \in Fit : \A j \in Fit : i <= j] = id]
        ELSE peerIDs \o [i \in 1 .. Len(peerIDs) |-> IF i = 1 THEN id ELSE -1]

(* receive_new_client: addPeerToTable, newPeerBroadcast. *)
LogicNewClient ==
  /\ LogicTakes("new")
  /\ LET id == Head(toLogic.new) IN
       /\ peerIDs' = AddedPeer(id)
       /\ numberOfEntries' = numberOfEntries + 1
       /\ toNet' = [toNet EXCEPT !.add = Push(@, [to |-> Registered' \ {id}])]
  /\ UNCHANGED <<fs, ft, crash>>

(* receive_master_request: send_master does not look whether the client is *)
(* there, send_master_filetable does.                                      *)
LogicMasterRequest ==
  /\ LogicTakes("mreq")
  /\ LET id == Head(toLogic.mreq) IN
       toNet' = [toNet EXCEPT !.mst = Push(@, [to |-> {id}, fs |-> fs]),
                              !.mft = Push(@, [to |-> {id} \cap Connected])]
  /\ UNCHANGED <<peerIDs, numberOfEntries, fs, ft, crash>>

(* removePeerFromTable.  An id that is not there makes it read one element *)
(* past the array: the read may happen to match the id.  Mutant: only the  *)
(* first numberOfEntries slots are searched, as in containsPeer.           *)
RemovesIfCounted(id) ==
  LET At == {i \in DOMAIN peerIDs : i <= numberOfEntries /\ peerIDs[i] = id}
  IN  /\ peerIDs' = [i \in DOMAIN peerIDs |-> IF i \in At THEN -1 ELSE peerIDs[i]]
      /\ numberOfEntries' = numberOfEntries - Cardinality(At)

RemovesPeer(id) ==
  LET At == {i \in DOMAIN peerIDs : peerIDs[i] = id}
  IN  IF At # {}
        THEN /\ peerIDs' = [peerIDs EXCEPT ![CHOOSE i \in At : \A j \in At : i <= j] = -1]
             /\ numberOfEntries' = numberOfEntries - 1
        ELSE /\ peerIDs' = peerIDs
             /\ numberOfEntries' \in {numberOfEntries, numberOfEntries - 1}

(* filetable_remove_file for each file pruned.  Mutant: it is forgotten. *)
StaysTabled(owned, gone) == owned
Pruned(owned, gone) == RemovePaths(owned, gone)

(* prune_filesystem, on the file table the lost client was taken out of:   *)
(* files with an ownerless chunk leave fs and the table, and if there was  *)
(* one everybody is sent the master.                                       *)
Prunes(owned, queues) ==
  LET gone == Ownerless(owned) IN
    IF RemoveDefined(fs, gone)
      THEN /\ fs' \in RemovedAtPaths(fs, gone)
           /\ ft' = Pruned(owned, gone)
           /\ toNet' = IF gone = {} THEN queues
                       ELSE [queues EXCEPT !.mst = Push(@, [to |-> Registered', fs |-> fs'])]
           /\ UNCHANGED crash
      ELSE /\ crash' = "prune_assert"
           /\ UNCHANGED <<fs, ft, toNet>>

(* receive_lost_client: removePeerFromTable, filetable_remove_peer,        *)
(* lostPeerBroadcast, prune_filesystem.                                    *)
LogicLostClient ==
  /\ LogicTakes("lost")
  /\ LET id == Head(toLogic.lost) IN
       /\ RemovesPeer(id)
       /\ Prunes(RemovePeer(ft, id),
                 [toNet EXCEPT !.rem = Push(@, [to |-> Registered' \ {id}])])

(* receive_client_got from a peer containsPeer does not find: ignored. *)
LogicIgnoresGot ==
  /\ LogicTakes("got")
  /\ ~ContainsPeer(Head(toLogic.got).id)
  /\ UNCHANGED <<toNet, peerIDs, numberOfEntries, fs, ft, crash>>

(* clientGotBroadcast, then filetable_set_that_peer_has_file_chunk.  One   *)
(* chunk past the end the owner queue is whatever the memory holds: the    *)
(* write brings the process down or goes unnoticed.                        *)
LogicClientGot ==
  /\ LogicTakes("got")
  /\ LET g == Head(toLogic.got) IN
       /\ ContainsPeer(g.id)
       /\ toNet' = [toNet EXCEPT !.acq = Push(@,
            [to |-> Reachable(g.id),
             from |-> g.id, path |-> g.path, chunk |-> g.chunk])]
       /\ IF HasChunk(ft, g.path, g.chunk)
            THEN ft' = SetOwner(ft, g.path, g.chunk, g.id) /\ UNCHANGED crash
            ELSE /\ crash' \in IF OnePastEnd(ft, g.path, g.chunk)
                                 THEN {"none", "stray_owner"} ELSE {"got_assert"}
                 /\ UNCHANGED ft
  /\ UNCHANGED <<peerIDs, numberOfEntries, fs>>

(* updateNetwork: the pusher becomes the only owner of what it added,      *)
(* whether or not it is still a peer.                                      *)
LogicClientUpdate ==
  /\ LogicTakes("upd")
  /\ LET id == Head(toLogic.upd).id
         u == Head(toLogic.upd).upd
         rest == MinusEquals(fs, u.dels)
     IN  IF PlusDefined(rest, u.adds)
           THEN /\ fs' = PlusEquals(rest, u.adds)
                /\ ft' = AddFileSystem(RemoveFileSystem(ft, u.dels), u.adds, id)
                /\ toNet' = [toNet EXCEPT !.fsu = Push(@,
                     [to |-> Reachable(id), from |-> id, upd |-> u])]
                /\ UNCHANGED crash
           ELSE /\ crash' = "plus_assert"
                /\ UNCHANGED <<fs, ft, toNet>>
  /\ UNCHANGED <<peerIDs, numberOfEntries>>

Logic ==
  \/ LogicNext
  \/ LogicNewClient
  \/ LogicMasterRequest
  \/ LogicLostClient
  \/ LogicIgnoresGot
  \/ LogicClientGot
  \/ LogicClientUpdate

-----------------------------------------------------------------------------
Next == Client \/ Network \/ Logic

Spec == Init /\ [][Next]_vars

(* Both threads loop without waiting on anything but a bounded select and  *)
(* usleep, so each keeps taking steps; so do a client's own loops, which   *)
(* take what it was sent.                                                  *)
FairSpec ==
  /\ Spec
  /\ WF_vars(Network) /\ WF_vars(Logic)
  /\ \A s \in Sockets : WF_vars(ClientReceives(s))

(***************************************************************************)
(* Properties                                                              *)
(***************************************************************************)

(* The shape of the state: what the structs, queues and tables may hold.   *)
ClientsOK ==
  /\ arrived \in 0 .. Cardinality(Peers) /\ open \subseteq Sockets
  /\ inbox \in [Sockets -> Seq(Message)]
  /\ synced \subseteq open
  /\ replica \in [Sockets -> SUBSET Entries]
  /\ diffs \in [Sockets -> Seq(Update)]
  /\ masters \in [Sockets -> Seq(SUBSET Entries)]
  /\ heard \in [Sockets -> SUBSET Entries]
  /\ told \in [Sockets -> SUBSET Peers]
  /\ edits \in 0 .. MaxVersion /\ gots \in 0 .. MaxGots

NetworkOK ==
  /\ accepted \in 0 .. arrived /\ idCounter = accepted + 1
  /\ table \in [Slots -> [id : Peers, sock : Sockets] \cup {NoPeer}]
  /\ ready \subseteq Occupied
  /\ nphase \in {"select", "peers", "acq", "fsu", "add", "rem", "mst", "mft"}

LogicOK ==
  /\ peerIDs \in Seq(Peers \cup {-1}) /\ numberOfEntries \in Int
  /\ fs \subseteq Entries
  /\ ft \in FileTables
  /\ lphase \in {"new", "mreq", "lost", "got", "upd"}
  /\ crash \in {"none", "null_client", "got_assert", "stray_owner",
                "plus_assert", "prune_assert"}

TypeOK ==
  /\ ClientsOK /\ NetworkOK /\ LogicOK
  /\ toLogic \in LogicQueues /\ toNet \in NetQueues

(* A client announced as new is new: its id is in no slot of the logic     *)
(* thread's table, twice in no queue, and no two connections share an id   *)
(* or a slot.  addPeerToTable and filetable_set_that_peer_has_file_chunk   *)
(* identify peers by this id alone.                                        *)
NewPeersAreNew ==
  /\ \A i, j \in Occupied : i # j => table[i].id # table[j].id /\ table[i].sock # table[j].sock
  /\ \A k \in DOMAIN toLogic.new :
       /\ toLogic.new[k] \notin Registered
       /\ \A l \in DOMAIN toLogic.new : toLogic.new[k] = toLogic.new[l] => k = l
  /\ \A i, j \in DOMAIN peerIDs : peerIDs[i] = peerIDs[j] /\ peerIDs[i] # -1 => i = j

(* A client is reported lost once, and is off the network's table by then: *)
(* the loss is final, and no other client can be taken for it.             *)
LossIsFinal ==
  \A k \in DOMAIN toLogic.lost :
    /\ toLogic.lost[k] \notin Connected
    /\ \A l \in DOMAIN toLogic.lost : toLogic.lost[k] = toLogic.lost[l] => k = l

(* Every chunk of every file the tracker lists has an owner to download it *)
(* from: prune_filesystem leaves no file behind that lost its last owner   *)
(* of a chunk.                                                             *)
AlwaysOwned == \A p \in DOMAIN ft : \A c \in DOMAIN ft[p] : ft[p][c] # {}

(* Every file of the file table is in the master file system, which is     *)
(* what filesystem_remove_file_at_path asserts when prune_filesystem       *)
(* removes a file it found in the table.                                   *)
FileTableWithinFs == DOMAIN ft \subseteq PathsOf(fs)

(* With nothing left to do, every client that has a master has exactly the *)
(* tracker's content.                                                      *)
Converged == Idle /\ Running => \A s \in synced : replica[s] = fs

(* With nothing left to do, every client's peer table is the set of        *)
(* connected clients.                                                      *)
TablesAgree == Idle /\ Running => \A s \in open : told[s] = Connected

(* With nothing left to do, only connected clients own chunks and have     *)
(* slots in the logic thread's peer table.                                 *)
OwnersConnected == Idle /\ Running => Owners(ft) \subseteq Connected
NoGhostPeer == Idle /\ Running => Registered \subseteq Connected

(* containsPeer finds exactly the peers of the table. *)
ContainsPeerIsExact == \A id \in Peers : ContainsPeer(id) <=> id \in Registered

(* The assertions and the null dereference that end the process. *)
NoGotAssert == crash # "got_assert"
NoPruneAssert == crash # "prune_assert"
NoPlusAssert == crash # "plus_assert"
NoNullClient == crash # "null_client"

(* None of them happens. *)
NothingFails == crash = "none"

(* A client that stays gets the master it asked for. *)
MasterServed == \A s \in Sockets : s \in open ~> s \in synced \/ s \notin open \/ ~Running

(* The queues drain: no item stays behind one that cannot be sent. *)
Drains == <>[](Idle \/ ~Running)

=============================================================================
