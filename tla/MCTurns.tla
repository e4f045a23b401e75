-------------------------------- MODULE MCTurns --------------------------------
(***************************************************************************)
(* Two small instances of Tracker for TLC that share no state: a behaviour *)
(* picks one of them and leaves the other as it starts.                    *)
(*   patient  clients act while nothing is under way; f lies in a          *)
(*            directory d, g beside it;                                    *)
(*   free     clients act at any moment, on g, and the threads are fair;   *)
(*            its variables are those of Tracker under the name free...    *)
(***************************************************************************)
EXTENDS MCTracker

VARIABLES
  part,        \* "patient" or "free"
  \* clients
  freeArrived, freeOpen, freeInbox, freeSynced, freeReplica, freeDiffs,
  freeMasters, freeHeard, freeTold, freeEdits, freeGots,
  \* network thread, queues, logic thread
  freeAccepted, freeIdCounter, freeTable, freeReady, freeNphase,
  freeToLogic, freeToNet,
  freePeerIDs, freeNumberOfEntries, freeFs, freeFt, freeLphase, freeCrash

freeState ==
  <<freeArrived, freeOpen, freeInbox, freeSynced, freeReplica, freeDiffs,
    freeMasters, freeHeard, freeTold, freeEdits, freeGots,
    freeAccepted, freeIdCounter, freeTable, freeReady, freeNphase,
    freeToLogic, freeToNet,
    freePeerIDs, freeNumberOfEntries, freeFs, freeFt, freeLphase, freeCrash>>

all == <<part, vars, freeState>>

(* The same directory and ids; nothing is announced, and one client leaves. *)
Free == INSTANCE Tracker WITH
  Patient <- FALSE, MaxGots <- 0, MaxCloses <- 1,
  arrived <- freeArrived, open <- freeOpen, inbox <- freeInbox,
  synced <- freeSynced, replica <- freeReplica, diffs <- freeDiffs,
  masters <- freeMasters, heard <- freeHeard, told <- freeTold,
  edits <- freeEdits, gots <- freeGots,
  accepted <- freeAccepted, idCounter <- freeIdCounter, table <- freeTable,
  ready <- freeReady, nphase <- freeNphase,
  toLogic <- freeToLogic, toNet <- freeToNet,
  peerIDs <- freePeerIDs, numberOfEntries <- freeNumberOfEntries,
  fs <- freeFs, ft <- freeFt, lphase <- freeLphase, crash <- freeCrash

TurnsInit == part \in {"patient", "free"} /\ Init /\ Free!Init

Freely(A) == part = "free" /\ A /\ UNCHANGED <<part, vars>>

(* Users who act at any moment make one edit, of g. *)
TurnsNext ==
  \/ part = "patient" /\ Next /\ UNCHANGED <<part, freeState>>
  \/ /\ Freely(Free!Next)
     /\ freeEdits' < 2
     /\ \A s \in Peers : PathsOf(freeReplica'[s]) \subseteq {"g"}

(* The fairness of FairSpec in Tracker, for the free part. *)
TurnsSpec ==
  /\ TurnsInit /\ [][TurnsNext]_all
  /\ WF_all(Freely(Free!Network)) /\ WF_all(Freely(Free!Logic))
  /\ \A s \in Peers : WF_all(Freely(Free!ClientReceives(s)))

(* A client that stays gets its master, and the queues drain, whenever     *)
(* clients act (MasterServed and Drains of Tracker).                       *)
FreeMasterServed == Free!MasterServed
FreeDrains == Free!Drains
=============================================================================
