-------------------------------- MODULE MCOpen --------------------------------
(***************************************************************************)
(* Small instances, for TLC, of Tracker and of Client where clients come,  *)
(* edit and leave at any moment.  They share no state: a behaviour picks   *)
(* one of them and leaves the other as it starts.                          *)
(***************************************************************************)
EXTENDS MCTracker

VARIABLES
  part,        \* "tracker" or "clients"
  \* of Client; the last three are its toLogic, toNet and crash
  master, mft, members, up, down, author, undone, removes, joined,
  node, alive, sock, backlog, wire, clientToLogic, clientToNet, clientCrash

clientState ==
  <<master, mft, members, up, down, author, undone, removes, joined,
    node, alive, sock, backlog, wire, clientToLogic, clientToNet, clientCrash>>

(* The same directory and ids; one client joins and one leaves. *)
Churn == INSTANCE Client WITH
  Starters <- {1}, Authors <- {1, 2},
  MaxPending <- 1, MaxJobs <- 2, MaxConns <- 1,
  MaxRemoves <- 1, MaxJoins <- 1, MaxLeaves <- 1,
  toLogic <- clientToLogic, toNet <- clientToNet, crash <- clientCrash

OpenInit == part \in {"tracker", "clients"} /\ Init /\ Churn!Init

(* Clients write one version only. *)
OpenNext ==
  /\ UNCHANGED part
  /\ \/ part = "tracker" /\ Next /\ UNCHANGED clientState
     \/ part = "clients" /\ Churn!Next /\ Len(author') < 2 /\ UNCHANGED vars

OpenSpec == OpenInit /\ [][OpenNext]_<<part, vars, clientState>>

(* No chunk of a download is forgotten, whoever comes and goes (Client). *)
Accounted == Churn!Accounted
=============================================================================
