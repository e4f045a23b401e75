------------------------------ MODULE MCDownload ------------------------------
(***************************************************************************)
(* A small instance of Client for TLC: client 1 writes, rewrites or        *)
(* removes a file, client 2 downloads it.  Client 2 joins a directory that *)
(* is empty; client 1 may leave at any moment of the first download, and   *)
(* either when all is settled after the second edit.                       *)
(***************************************************************************)
EXTENDS MCClient

(* Users write or remove at most twice, while both clients run. *)
EditCount == Len(author) + removes
Edited == EditCount' # EditCount
Joined == joined' # joined
Left == ~(alive \subseteq alive')

DownloadNext ==
  /\ Next
  /\ Joined => EditCount = 0
  /\ Edited => alive = Peers /\ EditCount < 2 /\ (EditCount = 0 => Settled)
  /\ Left => \/ EditCount = 1 /\ 1 \notin alive'
             \/ EditCount = 2 /\ Settled

DownloadSpec == Init /\ [][DownloadNext]_vars /\ Fairness
=============================================================================
