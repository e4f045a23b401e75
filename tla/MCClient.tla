------------------------------- MODULE MCClient -------------------------------
(***************************************************************************)
(* Small instances of Client for TLC.                                      *)
(***************************************************************************)
EXTENDS Client

MCNone == {}

(* The first content has two chunks, the later ones one. *)
MCChunks == [v \in Versions |-> IF v = 1 THEN 2 ELSE 1]
=============================================================================
