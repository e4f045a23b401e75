------------------------------- MODULE Heartbeat -------------------------------
(***************************************************************************)
(* Heartbeats: the client network thread sends one every so often          *)
(* (client/network_client.c), and the tracker network thread stamps the    *)
(* peer's time_last_alive and calls check_liveliness in every round of its *)
(* loop (tracker/network_tracker.c).  Time is time(NULL) in seconds, one   *)
(* clock for all, never set back; nothing bounds how long a round takes.   *)
(***************************************************************************)
EXTENDS Integers, FiniteSets

CONSTANTS
  Clients,
  DIASTOLE,    \* seconds, of client and tracker
  MaxTime,     \* bound: seconds in a behaviour
  MaxBeats     \* bound: heartbeats of one client unread by the tracker

ASSUME HeartbeatAssumption ==
  /\ DIASTOLE \in Nat /\ MaxTime \in Nat /\ MaxBeats \in Nat

VARIABLES
  now,
  up,              \* clients whose network thread runs
  last_heartbeat,  \* of each client, 0 before the first
  beats,           \* beats[c]: heartbeats on c's socket, unread
  knocking,        \* clients that connected and were not accepted yet
  listed,          \* clients in the tracker's peer table
  time_last_alive, \* of each listed client
  phase,           \* of the tracker: "serve", then "check"
  expired          \* clients check_liveliness reported as lost

heartbeatVars == <<now, up, last_heartbeat, beats, knocking, listed, time_last_alive, phase, expired>>
clientVars == <<up, last_heartbeat>>
trackerVars == <<listed, time_last_alive, phase, expired>>

Start == DIASTOLE + 1       \* the clock is far from 0

HeartbeatInit ==
  /\ now = Start
  /\ up = {} /\ knocking = {} /\ listed = {} /\ expired = {}
  /\ last_heartbeat = [c \in Clients |-> 0]
  /\ beats = [c \in Clients |-> 0]
  /\ time_last_alive = [c \in Clients |-> 0]
  /\ phase = "serve"

Tick ==
  /\ now < Start + MaxTime
  /\ now' = now + 1
  /\ UNCHANGED <<clientVars, beats, knocking, trackerVars>>

-----------------------------------------------------------------------------
(* The client's network thread starts, connects and enters its loop. *)
Connect(c) ==
  /\ c \notin up \cup knocking \cup listed \cup expired
  /\ last_heartbeat[c] = 0
  /\ up' = up \cup {c}
  /\ knocking' = knocking \cup {c}
  /\ UNCHANGED <<now, last_heartbeat, beats, trackerVars>>

Beat(c) ==
  /\ c \in up
  /\ now - last_heartbeat[c] > DIASTOLE
  /\ beats[c] < MaxBeats
  /\ beats' = [beats EXCEPT ![c] = @ + 1]
  /\ last_heartbeat' = [last_heartbeat EXCEPT ![c] = now]
  /\ UNCHANGED <<now, up, knocking, trackerVars>>

(* The client's host or its link goes down: the tracker's socket says      *)
(* nothing of it.                                                          *)
FallSilent(c) ==
  /\ c \in up
  /\ up' = up \ {c}
  /\ UNCHANGED <<now, last_heartbeat, beats, knocking, trackerVars>>

-----------------------------------------------------------------------------
(* One round up to check_liveliness: at most one connection is accepted    *)
(* (add_peer), and one message of each listed client is read.              *)
StampedDeadline(new, read) ==      \* mutant: the deadline is stored
  [c \in Clients |-> IF c \in new \cup read THEN now + DIASTOLE ELSE time_last_alive[c]]
StampedOnAccept(new, read) ==      \* mutant: the beats that are read leave no stamp
  [c \in Clients |-> IF c \in new THEN now ELSE time_last_alive[c]]
Stamped(new, read) ==
  [c \in Clients |-> IF c \in new \cup read THEN now ELSE time_last_alive[c]]

Serve ==
  /\ phase = "serve"
  /\ \E new \in SUBSET knocking :
       /\ Cardinality(new) = IF knocking = {} THEN 0 ELSE 1
       /\ LET read == {c \in listed : beats[c] > 0} IN
            /\ beats' = [c \in Clients |-> IF c \in read THEN beats[c] - 1 ELSE beats[c]]
            /\ time_last_alive' = Stamped(new, read)
       /\ listed' = listed \cup new
       /\ knocking' = knocking \ new
  /\ phase' = "check"
  /\ UNCHANGED <<now, clientVars, expired>>

(* The condition of check_liveliness, with the operands the wrong way      *)
(* round for an age: it never holds, and nobody expires.                   *)
Expires(c) == time_last_alive[c] - now > DIASTOLE

check_liveliness ==
  /\ phase = "check"
  /\ LET dead == {c \in listed : Expires(c)} IN
       /\ listed' = listed \ dead
       /\ expired' = expired \cup dead
  /\ phase' = "serve"
  /\ UNCHANGED <<now, clientVars, beats, knocking, time_last_alive>>

HeartbeatNext ==
  \/ Tick
  \/ \E c \in Clients : Connect(c) \/ Beat(c) \/ FallSilent(c)
  \/ Serve
  \/ check_liveliness

HeartbeatSpec == HeartbeatInit /\ [][HeartbeatNext]_heartbeatVars

(* The tracker's loop waits on nothing but a bounded select.               *)
HeartbeatFairSpec ==
  HeartbeatSpec /\ WF_heartbeatVars(Serve) /\ WF_heartbeatVars(check_liveliness)

(***************************************************************************)
(* Properties                                                              *)
(***************************************************************************)

(* The shape of the state; a beat is never stamped before it is sent.      *)
HeartbeatTypeOK ==
  /\ now \in Start .. (Start + MaxTime)
  /\ up \subseteq Clients /\ knocking \subseteq Clients
  /\ listed \subseteq Clients /\ expired \subseteq Clients
  /\ last_heartbeat \in [Clients -> 0 .. now]
  /\ beats \in [Clients -> 0 .. MaxBeats]
  /\ time_last_alive \in [Clients -> 0 .. now]
  /\ phase \in {"serve", "check"}

(* A heartbeat the tracker has read is not forgotten: of a listed client   *)
(* with none unread, the stamp is as late as its last heartbeat, however   *)
(* many came at once and however long the rounds took.  An age computed    *)
(* from the stamp then never exceeds the time the client let pass.         *)
StampsCoverBeats ==
  \A c \in listed : beats[c] = 0 => last_heartbeat[c] <= time_last_alive[c]

(* Network.tex: the tracker "periodically scans all of the open client     *)
(* connections and terminates any client that hasn't sent a heartbeat      *)
(* within a 6 second time frame".  A client that went silent, whose beats  *)
(* are all read and whose stamp is too old, goes.                          *)
Silent(c) ==
  c \in listed \ up /\ beats[c] = 0 /\ now - time_last_alive[c] > DIASTOLE
SilentClientsGo == \A c \in Clients : Silent(c) ~> c \notin listed
=============================================================================
