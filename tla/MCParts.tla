-------------------------------- MODULE MCParts --------------------------------
(***************************************************************************)
(* Small instances, for TLC, of the units that Tracker and Client are made *)
(* of or leave out.  They share no state: a behaviour picks one of them    *)
(* and leaves the others as they start.                                    *)
(*                                                                         *)
(* The ring starts with three slots, so that it doubles once and closes    *)
(* gaps on either side of its end.  The heart beats long enough for two    *)
(* clients to beat, fall silent and be overdue.                            *)
(*                                                                         *)
(* The network of peers is looked at three times: a crowd of clients that  *)
(* come and go and ask for nothing; a pair of hosts, with clients that end *)
(* and start again while the first host's asks; a trio of clients that     *)
(* stay.                                                                   *)
(***************************************************************************)
EXTENDS RingQueue, Heartbeat, PeerNetwork, TreeSync, ChunkTransfer, LinkedList,
        FileTableStore, TLC

CONSTANTS Pair, Asker

VARIABLE part

MCBase == <<"x">> :> 0 @@ <<"x", "x">> :> 1 @@ <<"y">> :> 1
MCHash == "p" :> 0 @@ "q" :> 2 @@ "r" :> 1
MCChunkCounts == <<2, 0>>

Init ==
  /\ part \in {"ring", "heartbeat", "crowd", "pair", "trio", "trees", "chunks", "list", "store"}
  /\ RingInit /\ HeartbeatInit /\ PeerInit /\ TreeInit /\ ChunkInit /\ ListInit /\ StoreInit
  /\ part # "trees" => master = Scanned(Base, CHOOSE o \in Orders : TRUE, <<>>, "")
  /\ part # "chunks" => file.size = 0

Asking == {host'[i] : i \in {j \in DOMAIN host' : proc'[j].asked # <<>>}}
Gone == {j \in DOMAIN state' : state'[j] = "gone"}
PeerPart ==
  /\ PeerNext
  /\ part = "crowd" => Asking = {} /\ IsInjective(host')
  /\ part = "pair" => /\ ToSet(host') \subseteq Pair
                      /\ Asking \subseteq Asker
                      /\ Cardinality(Gone) < 2
  /\ part = "trio" => Gone = {}

Next ==
  /\ UNCHANGED part
  /\ \/ /\ part = "ring" /\ RingNext
        /\ UNCHANGED <<heartbeatVars, peerVars, treeVars, chunkVars, listVars, store>>
     \/ /\ part = "heartbeat" /\ HeartbeatNext
        /\ UNCHANGED <<ringVars, peerVars, treeVars, chunkVars, listVars, store>>
     \/ /\ part \in {"crowd", "pair", "trio"} /\ PeerPart
        /\ UNCHANGED <<ringVars, heartbeatVars, treeVars, chunkVars, listVars, store>>
     \/ /\ part = "trees" /\ TreeNext
        /\ UNCHANGED <<ringVars, heartbeatVars, peerVars, chunkVars, listVars, store>>
     \/ /\ part = "chunks" /\ ChunkNext
        /\ UNCHANGED <<ringVars, heartbeatVars, peerVars, treeVars, listVars, store>>
     \/ /\ part = "list" /\ ListNext
        /\ UNCHANGED <<ringVars, heartbeatVars, peerVars, treeVars, chunkVars, store>>
     \/ /\ part = "store" /\ StoreNext
        /\ UNCHANGED <<ringVars, heartbeatVars, peerVars, treeVars, chunkVars, listVars>>

Spec ==
  Init /\ [][Next]_<<part, ringVars, heartbeatVars, peerVars, treeVars, chunkVars, listVars, store>>

(* What FileTableStore does to a table is what FileTable says.             *)
(* StoreIsTable is costly, and looks at store alone.                       *)
TableKept == part = "store" => StoreIsTable
=============================================================================
