------------------------------- MODULE MCTracker -------------------------------
(***************************************************************************)
(* Small instances of Tracker for TLC.                                     *)
(***************************************************************************)
EXTENDS Tracker

(* One directory d with file f below it, and file g at the root. *)
MCInside == {<<"f", "d">>}
MCNoDirs == {}

(* The first content has two chunks, the later ones one. *)
MCChunks == [v \in Versions |-> IF v = 1 THEN 2 ELSE 1]
=============================================================================
