------------------------------- MODULE PeerTable -------------------------------
(***************************************************************************)
(* common/peer_table.c: the table of peers that the tracker fills, sends   *)
(* to its clients in one buffer, and that clients compare with the one     *)
(* they had.                                                               *)
(*                                                                         *)
(* A table is an array of slots that doubles when its count reaches its    *)
(* size.  realloc leaves the new slots unset: each is a NULL pointer or    *)
(* Junk, which the code takes for the address of a peer.  Operations that  *)
(* may grow a table therefore give the set of tables they may end with.    *)
(***************************************************************************)
EXTENDS Integers, Sequences, FiniteSets, SequencesExt

None == [id |-> 0]
Junk == [id |-> -1]
Peer(id, host, sock) == [id |-> id, host |-> host, sock |-> sock]

Clear(n) == [k \in 1 .. n |-> None]
NewTable(n) == [slots |-> Clear(n), count |-> 0, next |-> 1]

Used(t) == {k \in DOMAIN t.slots : t.slots[k] \notin {None, Junk}}
Entries(t) == {t.slots[k] : k \in Used(t)}
Ids(t) == {e.id : e \in Entries(t)}
HasJunk(t) == Junk \in {t.slots[k] : k \in DOMAIN t.slots}

(* The first slot with property P, in the order of the loops of this file. *)
First(K) == CHOOSE k \in K : \A l \in K : k <= l
Holes(t) == {k \in DOMAIN t.slots : t.slots[k] = None}

(* The lookups by id and by address; the slot of socket k. *)
KnownId(t, id) == id \in Ids(t)
ById(t, id) == CHOOSE e \in Entries(t) : e.id = id
SlotOf(t, id) == CHOOSE k \in Used(t) : t.slots[k].id = id
SlotsAt(t, host) == {k \in Used(t) : t.slots[k].host = host}
WithSocket(t, k, sock) == [t EXCEPT !.slots[k].sock = sock]

(* The doubling at the end of add_peer and copy_peer.  Mutant: it grows    *)
(* one peer too early.                                                     *)
GrownEarly(t) ==
  IF t.count + 1 < Len(t.slots) THEN {t}
  ELSE {[t EXCEPT !.slots = @ \o more] : more \in [1 .. Len(t.slots) -> {None, Junk}]}
Grown(t) ==
  IF t.count # Len(t.slots) THEN {t}
  ELSE {[t EXCEPT !.slots = @ \o more] : more \in [1 .. Len(t.slots) -> {None, Junk}]}

(* add_peer: nothing is added where no slot is NULL. *)
AddPeer(t, host, sock) ==
  Grown(IF Holes(t) = {} THEN t
        ELSE [t EXCEPT !.slots[First(Holes(t))] = Peer(t.next, host, sock),
                       !.count = @ + 1, !.next = @ + 1])

CopyPeer(t, id, host, sock) ==
  IF Holes(t) = {} THEN {t}
  ELSE Grown([t EXCEPT !.slots[First(Holes(t))] = Peer(id, host, sock), !.count = @ + 1])

DeletePeer(t, id) ==
  IF ~KnownId(t, id) THEN t
  ELSE [t EXCEPT !.slots[SlotOf(t, id)] = None, !.count = @ - 1]

(* serialize_peer_table: id and address of each entry, in slot order.      *)
Serialized(t) ==
  LET Written[k \in 0 .. Len(t.slots)] ==
        IF k = 0 THEN <<>>
        ELSE IF k \in Used(t)
          THEN Append(Written[k - 1], [id |-> t.slots[k].id, host |-> t.slots[k].host])
        ELSE Written[k - 1]
  IN  Written[Len(t.slots)]

(* deserialize_peer_table: copy_peer counts each entry, and the loop       *)
(* counts it again.                                                        *)
Recounted(t) == [t EXCEPT !.count = @ + 1]
Deserialized(buf) ==
  LET Read[k \in 0 .. Len(buf)] ==
        IF k = 0 THEN {NewTable(2 * Len(buf))}
        ELSE {Recounted(u) : u \in UNION {CopyPeer(t, buf[k].id, buf[k].host, -1) : t \in Read[k - 1]}}
  IN  Read[Len(buf)]

(* diff_tables: the entries of b that a lacks, and those of a that b       *)
(* lacks, both in tables of the size of b.                                 *)
Missing(a, b, k) == k \in Used(b) /\ ~KnownId(a, b.slots[k].id)
Lacking(a, b, n) ==
  LET Found[k \in 0 .. Len(b.slots)] ==
        IF k = 0 THEN {NewTable(n)}
        ELSE IF Missing(a, b, k)
          THEN LET e == b.slots[k] IN UNION {CopyPeer(t, e.id, e.host, e.sock) : t \in Found[k - 1]}
        ELSE Found[k - 1]
  IN  Found[Len(b.slots)]
Added(orig, new) == Lacking(orig, new, Len(new.slots))
Deleted(orig, new) == Lacking(new, orig, Len(new.slots))
=============================================================================
