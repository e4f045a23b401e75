--------------------------- MODULE PeerNetworkProofs ---------------------------
(***************************************************************************)
(* Theorems about PeerTable and PeerNetwork, for any number of hosts,      *)
(* processes and requests, and tables of any size.                         *)
(***************************************************************************)
EXTENDS PeerNetwork, Induction, SequenceTheorems, FiniteSetTheorems, TLAPS

-----------------------------------------------------------------------------
(***************************************************************************)
(* Tables.  What is said of a table is said of its used slots.             *)
(***************************************************************************)
Known == [id : Nat \ {0}, host : Hosts, sock : Int]
Slots == {None, Junk} \cup Known
Tables == [slots : Seq(Slots), count : Nat, next : Nat]

(* No two slots have one id; the count is that of the used slots, and      *)
(* there is room for one more, but in a table with junk.                   *)
Unique(t) == \A k, l \in Used(t) : t.slots[k].id = t.slots[l].id => k = l
Counted(t) == t.count = Cardinality(Used(t)) /\ (HasJunk(t) \/ t.count < Len(t.slots))

(* Table u has what t has, and in slot h, unused in t, peer e.             *)
SameUse(t, u) == Used(u) = Used(t) /\ \A k \in Used(t) : u.slots[k] = t.slots[k]
Gains(t, u, h, e) ==
  /\ h \in Nat \ {0} /\ h \notin Used(t)
  /\ Used(u) = Used(t) \cup {h} /\ u.slots[h] = e
  /\ \A k \in Used(t) : u.slots[k] = t.slots[k]

LEMMA KnownIs ==
  /\ None \notin Known /\ Junk \notin Known /\ None # Junk
  /\ \A id \in Nat \ {0}, h \in Hosts, s \in Int :
        Peer(id, h, s) \in Known /\ Peer(id, h, s).id = id
        /\ Peer(id, h, s).host = h /\ Peer(id, h, s).sock = s
<1>1. None.id = 0 /\ Junk.id = -1
  BY DEF None, Junk
<1>2. \A e \in Known : e.id \in Nat \ {0}
  BY DEF Known
<1>3. None \notin Known /\ Junk \notin Known /\ None # Junk
  BY <1>1, <1>2
<1> QED
  BY <1>3 DEF Peer, Known

LEMMA TableIs ==
  ASSUME NEW t \in Tables
  PROVE  /\ t.slots \in Seq(Slots) /\ t.count \in Nat /\ t.next \in Nat
         /\ Len(t.slots) \in Nat /\ DOMAIN t.slots = 1 .. Len(t.slots)
         /\ \A k \in 1 .. Len(t.slots) : t.slots[k] \in Slots
         /\ Used(t) = {k \in 1 .. Len(t.slots) : t.slots[k] \in Known}
         /\ Used(t) \subseteq 1 .. Len(t.slots) /\ IsFiniteSet(Used(t))
         /\ Cardinality(Used(t)) \in Nat
<1>1. t.slots \in Seq(Slots) /\ t.count \in Nat /\ t.next \in Nat
  BY DEF Tables
<1>2. Len(t.slots) \in Nat /\ DOMAIN t.slots = 1 .. Len(t.slots)
  BY <1>1, LenProperties
<1>3. \A k \in 1 .. Len(t.slots) : t.slots[k] \in Slots
  BY <1>1, ElementOfSeq
<1>4. Used(t) = {k \in 1 .. Len(t.slots) : t.slots[k] \in Known}
  BY <1>2, <1>3, KnownIs DEF Used, Slots
<1>5. IsFiniteSet(1 .. Len(t.slots))
  BY <1>2, FS_Interval
<1>6. Used(t) \in SUBSET (1 .. Len(t.slots))
  BY <1>4
<1>7. IsFiniteSet(Used(t))
  BY <1>5, <1>6, FS_Subset
<1> QED
  BY <1>1, <1>2, <1>3, <1>4, <1>6, <1>7, FS_CardinalityType

LEMMA EntryIs ==
  ASSUME NEW t \in Tables
  PROVE  /\ \A k \in Used(t) : t.slots[k] \in Known /\ t.slots[k].id \in Nat \ {0}
                               /\ t.slots[k].host \in Hosts /\ t.slots[k].sock \in Int
         /\ Entries(t) = {t.slots[k] : k \in Used(t)} /\ Ids(t) = {t.slots[k].id : k \in Used(t)}
         /\ HasJunk(t) <=> \E k \in 1 .. Len(t.slots) : t.slots[k] = Junk
         /\ Holes(t) = {k \in 1 .. Len(t.slots) : t.slots[k] = None}
<1>1. \A k \in Used(t) : t.slots[k] \in Known
  BY TableIs
<1>2. Entries(t) = {t.slots[k] : k \in Used(t)} /\ Ids(t) = {t.slots[k].id : k \in Used(t)}
  BY DEF Entries, Ids
<1>3. (HasJunk(t) <=> \E k \in 1 .. Len(t.slots) : t.slots[k] = Junk)
      /\ Holes(t) = {k \in 1 .. Len(t.slots) : t.slots[k] = None}
  BY TableIs DEF HasJunk, Holes
<1> QED
  BY <1>1, <1>2, <1>3 DEF Known

LEMMA NewTableIs ==
  ASSUME NEW n \in Nat
  PROVE  /\ NewTable(n) \in Tables /\ Used(NewTable(n)) = {} /\ ~HasJunk(NewTable(n))
         /\ NewTable(n).count = 0 /\ NewTable(n).next = 1 /\ Len(NewTable(n).slots) = n
         /\ Ids(NewTable(n)) = {}
<1> DEFINE q == Clear(n)
<1>1. q \in [1 .. n -> Slots] /\ \A k \in 1 .. n : q[k] = None
  BY DEF Clear, Slots
<1>2. q \in Seq(Slots) /\ Len(q) = n /\ DOMAIN q = 1 .. n
  BY <1>1
<1>3. NewTable(n) = [slots |-> q, count |-> 0, next |-> 1]
  BY DEF NewTable
<1> HIDE DEF q
<1>4. NewTable(n) \in Tables /\ NewTable(n).slots = q /\ NewTable(n).count = 0 /\ NewTable(n).next = 1
  BY <1>2, <1>3 DEF Tables
<1>5. Used(NewTable(n)) = {} /\ ~HasJunk(NewTable(n))
  BY <1>1, <1>2, <1>4, KnownIs DEF Used, HasJunk
<1>6. Ids(NewTable(n)) = {}
  BY <1>5 DEF Ids, Entries
<1> QED
  BY <1>2, <1>4, <1>5, <1>6

LEMMA FirstIs ==
  ASSUME NEW K, K \subseteq Nat, K # {}
  PROVE  First(K) \in K
BY LeastOf DEF First

(* A table without junk whose slots are not all used has a hole. *)
LEMMA HoleThere ==
  ASSUME NEW t \in Tables, ~HasJunk(t), Cardinality(Used(t)) < Len(t.slots)
  PROVE  Holes(t) # {} /\ First(Holes(t)) \in Holes(t)
<1>1. ASSUME Holes(t) = {} PROVE FALSE
  <2>1. \A k \in 1 .. Len(t.slots) : t.slots[k] # None /\ t.slots[k] # Junk /\ t.slots[k] \in Slots
    BY <1>1, EntryIs, TableIs
  <2>2. Used(t) = 1 .. Len(t.slots)
    BY <2>1, TableIs DEF Slots
  <2>3. Cardinality(1 .. Len(t.slots)) = Len(t.slots)
    <3>1. 1 \in Int /\ Len(t.slots) \in Int /\ Len(t.slots) \in Nat
      BY TableIs
    <3> QED
      BY <3>1, FS_Interval
  <2> QED
    BY <2>2, <2>3, TableIs
<1>2. Holes(t) \subseteq Nat
  BY EntryIs, TableIs
<1> QED
  BY <1>1, <1>2, FirstIs

LEMMA HoleFilled ==
  ASSUME NEW t \in Tables, NEW u \in Tables, NEW h \in Holes(t), NEW e \in Known,
         u.slots = [t.slots EXCEPT ![h] = e]
  PROVE  /\ Gains(t, u, h, e) /\ Len(u.slots) = Len(t.slots) /\ (HasJunk(u) <=> HasJunk(t))
<1>1. h \in 1 .. Len(t.slots) /\ t.slots[h] = None
  BY EntryIs
<1>2. Len(u.slots) = Len(t.slots) /\ \A k \in 1 .. Len(t.slots) : u.slots[k] = IF k = h THEN e ELSE t.slots[k]
  <2>1. e \in Slots
    BY DEF Slots
  <2> QED
    BY <1>1, <2>1, TableIs, ExceptSeq
<1>3. h \notin Used(t)
  BY <1>1, TableIs, KnownIs
<1>4. Used(u) = Used(t) \cup {h}
  BY <1>1, <1>2, TableIs
<1>5. \A k \in Used(t) : u.slots[k] = t.slots[k]
  BY <1>2, <1>3, TableIs
<1>6. u.slots[h] = e
  BY <1>1, <1>2
<1>7. HasJunk(u) <=> HasJunk(t)
  <2>1. e # Junk /\ None # Junk
    BY KnownIs
  <2> QED
    BY <1>1, <1>2, <2>1, EntryIs
<1> QED
  BY <1>1, <1>2, <1>3, <1>4, <1>5, <1>6, <1>7 DEF Gains

(* realloc: more slots, none of them used. *)
LEMMA GrownIs ==
  ASSUME NEW t \in Tables, NEW u \in Grown(t)
  PROVE  /\ u \in Tables /\ u.count = t.count /\ u.next = t.next /\ SameUse(t, u)
         /\ HasJunk(t) => HasJunk(u)
         /\ \/ u = t /\ t.count # Len(t.slots)
            \/ t.count = Len(t.slots) /\ Len(u.slots) = 2 * Len(t.slots)
<1>1. CASE t.count # Len(t.slots)
  BY <1>1 DEF Grown, SameUse
<1>2. CASE t.count = Len(t.slots)
  <2>1. PICK more \in [1 .. Len(t.slots) -> {None, Junk}] : u = [t EXCEPT !.slots = @ \o more]
    BY <1>2 DEF Grown
  <2>2. more \in Seq(Slots) /\ Len(more) = Len(t.slots)
    BY TableIs DEF Slots
  <2> DEFINE q == t.slots \o more
  <2>3. /\ q \in Seq(Slots) /\ Len(q) = 2 * Len(t.slots)
        /\ \A k \in 1 .. (2 * Len(t.slots)) : q[k] = IF k <= Len(t.slots) THEN t.slots[k] ELSE more[k - Len(t.slots)]
    <3>1. t.slots \in Seq(Slots) /\ Len(t.slots) \in Nat /\ Len(t.slots) + Len(more) = 2 * Len(t.slots)
      BY <2>2, TableIs
    <3>2. /\ q \in Seq(Slots) /\ Len(q) = Len(t.slots) + Len(more)
          /\ \A k \in 1 .. (Len(t.slots) + Len(more)) :
                q[k] = IF k <= Len(t.slots) THEN t.slots[k] ELSE more[k - Len(t.slots)]
      BY <2>2, <3>1, ConcatProperties
    <3> QED
      BY <3>1, <3>2
  <2>4. u = [t EXCEPT !.slots = q]
    BY <2>1
  <2> HIDE DEF q
  <2>5. u \in Tables /\ u.slots = q /\ u.count = t.count /\ u.next = t.next
    BY <2>3, <2>4 DEF Tables
  <2>6. \A k \in 1 .. Len(t.slots) : k \in 1 .. (2 * Len(t.slots)) /\ u.slots[k] = t.slots[k]
    BY <2>3, <2>5, TableIs
  <2>7. ASSUME NEW k \in 1 .. (2 * Len(t.slots)), k \notin 1 .. Len(t.slots) PROVE u.slots[k] \notin Known
    <3>1. k - Len(t.slots) \in 1 .. Len(t.slots) /\ ~ (k <= Len(t.slots))
      BY <2>7, TableIs
    <3>2. u.slots[k] \in {None, Junk}
      BY <2>3, <2>5, <3>1
    <3> QED
      BY <3>2, KnownIs
  <2>8. Used(u) = Used(t)
    BY <2>3, <2>5, <2>6, <2>7, TableIs
  <2>9. HasJunk(t) => HasJunk(u)
    BY <2>3, <2>5, <2>6, EntryIs
  <2> QED
    BY <1>2, <2>3, <2>5, <2>6, <2>8, <2>9, TableIs DEF SameUse
<1> QED
  BY <1>1, <1>2

-----------------------------------------------------------------------------
(* A peer put into the first hole, and the table grown when it is full.    *)
Filled(t, e, n) == [t EXCEPT !.slots[First(Holes(t))] = e, !.count = @ + 1, !.next = n]
Room(t) == ~HasJunk(t) /\ Cardinality(Used(t)) < Len(t.slots)

(* What adding peer e to t makes of it. *)
Takes(t, u, e, n) ==
  /\ u \in Tables /\ u.count = t.count + 1 /\ u.next = n
  /\ Len(t.slots) <= Len(u.slots)
  /\ \E h \in Nat \ {0} : Gains(t, u, h, e)
  /\ \/ ~HasJunk(u) /\ t.count + 1 # Len(t.slots) /\ Len(u.slots) = Len(t.slots)
     \/ t.count + 1 = Len(t.slots) /\ Len(u.slots) = 2 * Len(t.slots)

IsOf(u, q, c, n) == u \in Tables /\ u.slots = q /\ u.count = c /\ u.next = n

LEMMA WithSlots ==
  ASSUME NEW t \in Tables, NEW q \in Seq(Slots)
  PROVE  IsOf([t EXCEPT !.slots = q], q, t.count, t.next)
BY DEF Tables, IsOf

LEMMA WithCount ==
  ASSUME NEW t \in Tables, NEW c \in Nat
  PROVE  IsOf([t EXCEPT !.count = c], t.slots, c, t.next)
BY DEF Tables, IsOf

LEMMA WithNext ==
  ASSUME NEW t \in Tables, NEW n \in Nat
  PROVE  IsOf([t EXCEPT !.next = n], t.slots, t.count, n)
BY DEF Tables, IsOf

(* One peer in slot h: the update of the three fields taken apart. *)
LEMMA PutIs ==
  ASSUME NEW t \in Tables, NEW h, NEW e, [t.slots EXCEPT ![h] = e] \in Seq(Slots), NEW n \in Nat,
         NEW u, u = [t EXCEPT !.slots[h] = e, !.count = @ + 1, !.next = n]
  PROVE  IsOf(u, [t.slots EXCEPT ![h] = e], t.count + 1, n)
<1> DEFINE q == [t.slots EXCEPT ![h] = e]
           v == [t EXCEPT !.slots = q]
           w == [v EXCEPT !.count = t.count + 1]
<1>1. u = [w EXCEPT !.next = n]
  OBVIOUS
<1> HIDE DEF q
<1>2. IsOf(v, q, t.count, t.next)
  BY WithSlots DEF q
<1>3. v \in Tables /\ t.count + 1 \in Nat /\ v.slots = q /\ v.next = t.next
  BY <1>2, TableIs DEF IsOf
<1> HIDE DEF v
<1>4. IsOf(w, v.slots, t.count + 1, v.next)
  BY <1>3, WithCount
<1>5. w \in Tables /\ w.slots = q /\ w.count = t.count + 1
  BY <1>3, <1>4 DEF IsOf
<1> HIDE DEF w
<1>6. IsOf(u, w.slots, w.count, n)
  BY <1>1, <1>5, WithNext
<1> QED
  BY <1>5, <1>6 DEF q

LEMMA CopyIs ==
  ASSUME NEW t \in Tables, NEW h, NEW e, [t.slots EXCEPT ![h] = e] \in Seq(Slots)
  PROVE  [t EXCEPT !.slots[h] = e, !.count = @ + 1]
           = [t EXCEPT !.slots[h] = e, !.count = @ + 1, !.next = t.next]
<1> DEFINE q == [t.slots EXCEPT ![h] = e]
           v == [t EXCEPT !.slots = q]
           w == [v EXCEPT !.count = t.count + 1]
<1>1. [t EXCEPT !.slots[h] = e, !.count = @ + 1] = w
      /\ [t EXCEPT !.slots[h] = e, !.count = @ + 1, !.next = t.next] = [w EXCEPT !.next = t.next]
  OBVIOUS
<1> HIDE DEF q
<1>2. IsOf(v, q, t.count, t.next)
  BY WithSlots DEF q
<1>3. v \in Tables /\ t.count + 1 \in Nat /\ v.next = t.next
  BY <1>2, TableIs DEF IsOf
<1> HIDE DEF v
<1>4. IsOf(w, v.slots, t.count + 1, v.next)
  BY <1>3, WithCount
<1>5. w \in Tables /\ w.next = t.next
  BY <1>3, <1>4 DEF IsOf
<1> HIDE DEF w
<1>6. [w EXCEPT !.next = t.next] = w
  BY <1>5 DEF Tables
<1> QED
  BY <1>1, <1>6

LEMMA FilledIs ==
  ASSUME NEW t \in Tables, Room(t), NEW e \in Known, NEW n \in Nat
  PROVE  LET u == Filled(t, e, n) IN
         /\ u \in Tables /\ u.count = t.count + 1 /\ u.next = n /\ Len(u.slots) = Len(t.slots)
         /\ ~HasJunk(u) /\ Gains(t, u, First(Holes(t)), e) /\ Holes(t) # {}
<1> DEFINE h == First(Holes(t))
           q == [t.slots EXCEPT ![h] = e]
           u == Filled(t, e, n)
<1>1. Holes(t) # {} /\ h \in Holes(t) /\ ~HasJunk(t)
  BY HoleThere DEF Room
<1>2. h \in 1 .. Len(t.slots) /\ e \in Slots
  BY <1>1, EntryIs DEF Slots
<1>3. q \in Seq(Slots)
  BY <1>2, TableIs, ExceptSeq
<1>4. u = [t EXCEPT !.slots[h] = e, !.count = @ + 1, !.next = n]
  BY DEF Filled
<1> HIDE DEF h, u
<1>6. u \in Tables /\ u.slots = q /\ u.count = t.count + 1 /\ u.next = n
  <2>1. IsOf(u, q, t.count + 1, n)
    BY <1>3, <1>4, PutIs
  <2> QED
    BY <2>1 DEF IsOf
<1> HIDE DEF q
<1>7. Gains(t, u, h, e) /\ Len(u.slots) = Len(t.slots) /\ (HasJunk(u) <=> HasJunk(t))
  BY <1>1, <1>6, HoleFilled DEF q
<1> QED
  BY <1>1, <1>6, <1>7 DEF u, h

LEMMA FilledGrown ==
  ASSUME NEW t \in Tables, Room(t), NEW e \in Known, NEW n \in Nat, NEW u \in Grown(Filled(t, e, n))
  PROVE  Takes(t, u, e, n)
<1> DEFINE v == Filled(t, e, n)
<1>1. /\ v \in Tables /\ v.count = t.count + 1 /\ v.next = n /\ Len(v.slots) = Len(t.slots)
      /\ ~HasJunk(v) /\ Gains(t, v, First(Holes(t)), e)
  BY FilledIs
<1> HIDE DEF v
<1>2. /\ u \in Tables /\ u.count = v.count /\ u.next = v.next /\ SameUse(v, u)
      /\ \/ u = v /\ v.count # Len(v.slots)
         \/ v.count = Len(v.slots) /\ Len(u.slots) = 2 * Len(v.slots)
  BY <1>1, GrownIs DEF v
<1>3. Gains(t, u, First(Holes(t)), e)
  BY <1>1, <1>2 DEF Gains, SameUse
<1>4. First(Holes(t)) \in Nat \ {0}
  BY <1>3 DEF Gains
<1>5. Len(t.slots) \in Nat
  BY TableIs
<1> QED
  BY <1>1, <1>2, <1>3, <1>4, <1>5 DEF Takes

LEMMA CopyPeerIs ==
  ASSUME NEW t \in Tables, Room(t), NEW id \in Nat \ {0}, NEW h \in Hosts, NEW sock \in Int,
         NEW u \in CopyPeer(t, id, h, sock)
  PROVE  Takes(t, u, Peer(id, h, sock), t.next)
<1> DEFINE e == Peer(id, h, sock)
<1>1. e \in Known /\ t.next \in Nat
  BY KnownIs, TableIs
<1>2. Holes(t) # {}
  BY <1>1, FilledIs
<1> HIDE DEF e
<1> DEFINE k == First(Holes(t))
<1>3. [t.slots EXCEPT ![k] = e] \in Seq(Slots)
  <2>1. k \in Holes(t)
    BY HoleThere DEF Room
  <2>2. k \in 1 .. Len(t.slots) /\ e \in Slots
    BY <1>1, <2>1, EntryIs DEF Slots
  <2> QED
    BY <2>2, TableIs, ExceptSeq
<1> HIDE DEF k
<1>4. [t EXCEPT !.slots[k] = e, !.count = @ + 1] = Filled(t, e, t.next)
  BY <1>3, CopyIs DEF Filled, k
<1>5. u \in Grown(Filled(t, e, t.next))
  BY <1>2, <1>4 DEF CopyPeer, e, k
<1>6. Takes(t, u, e, t.next)
  BY <1>1, <1>5, FilledGrown
<1> QED
  BY <1>6 DEF e

(* A table with junk keeps it, whatever is copied into it. *)
LEMMA CopyPeerType ==
  ASSUME NEW t \in Tables, NEW id \in Nat \ {0}, NEW h \in Hosts, NEW sock \in Int,
         NEW u \in CopyPeer(t, id, h, sock)
  PROVE  u \in Tables /\ u.next = t.next /\ (HasJunk(t) => HasJunk(u))
<1>1. CASE Holes(t) = {}
  BY <1>1 DEF CopyPeer
<1>2. CASE Holes(t) # {}
  <2> DEFINE e == Peer(id, h, sock)
             k == First(Holes(t))
             q == [t.slots EXCEPT ![k] = e]
             v == [t EXCEPT !.slots[k] = e, !.count = @ + 1]
  <2>1. Holes(t) \subseteq Nat
    BY EntryIs
  <2>2. k \in Holes(t) /\ e \in Known
    BY <1>2, <2>1, FirstIs, KnownIs
  <2>3. k \in 1 .. Len(t.slots) /\ e \in Slots
    BY <2>2, EntryIs DEF Slots
  <2>4. q \in Seq(Slots)
    BY <2>3, TableIs, ExceptSeq
  <2>6. u \in Grown(v)
    BY <1>2 DEF CopyPeer
  <2> HIDE DEF k, e
  <2>7. v = [t EXCEPT !.slots[k] = e, !.count = @ + 1, !.next = t.next]
    BY <2>4, CopyIs
  <2> HIDE DEF v
  <2>8. v \in Tables /\ v.slots = q /\ v.next = t.next
    <3>1. t.next \in Nat
      BY TableIs
    <3>2. IsOf(v, q, t.count + 1, t.next)
      BY <2>4, <2>7, <3>1, PutIs
    <3> QED
      BY <3>2 DEF IsOf
  <2> HIDE DEF q
  <2>9. HasJunk(t) => HasJunk(v)
    BY <2>2, <2>8, HoleFilled DEF q
  <2> QED
    BY <2>6, <2>8, <2>9, GrownIs
<1> QED
  BY <1>1, <1>2

-----------------------------------------------------------------------------
(* The lookups find what is there. *)
LEMMA LookupIs ==
  ASSUME NEW t \in Tables, Unique(t), NEW id, KnownId(t, id)
  PROVE  /\ SlotOf(t, id) \in Used(t) /\ t.slots[SlotOf(t, id)].id = id
         /\ ById(t, id) = t.slots[SlotOf(t, id)]
         /\ \A k \in Used(t) : t.slots[k].id = id => k = SlotOf(t, id)
<1>1. PICK k \in Used(t) : t.slots[k].id = id
  BY EntryIs DEF KnownId
<1>2. SlotOf(t, id) \in Used(t) /\ t.slots[SlotOf(t, id)].id = id
  BY <1>1 DEF SlotOf
<1>3. \A l \in Used(t) : t.slots[l].id = id => l = SlotOf(t, id)
  BY <1>2 DEF Unique
<1>4. t.slots[k] \in Entries(t) /\ t.slots[k].id = id
  BY <1>1, EntryIs
<1>5. ById(t, id) \in Entries(t) /\ ById(t, id).id = id
  BY <1>4 DEF ById
<1>6. PICK l \in Used(t) : ById(t, id) = t.slots[l]
  BY <1>5, EntryIs
<1> QED
  BY <1>2, <1>3, <1>5, <1>6

(* delete_peer: one slot less is used. *)
Loses(t, u, id) ==
  /\ u \in Tables /\ u.next = t.next /\ Len(u.slots) = Len(t.slots)
  /\ u.count = t.count - 1 /\ (HasJunk(u) <=> HasJunk(t))
  /\ \E k \in Used(t) : /\ t.slots[k].id = id /\ Used(u) = Used(t) \ {k}
                        /\ \A l \in Used(u) : u.slots[l] = t.slots[l]

LEMMA DeletePeerIs ==
  ASSUME NEW t \in Tables, Unique(t), t.count \in Nat \ {0}, NEW id, KnownId(t, id)
  PROVE  Loses(t, DeletePeer(t, id), id)
<1> DEFINE k == SlotOf(t, id)
           q == [t.slots EXCEPT ![k] = None]
           v == [t EXCEPT !.slots = q]
           u == DeletePeer(t, id)
<1>1. k \in Used(t) /\ t.slots[k].id = id
  BY LookupIs
<1> HIDE DEF k
<1>2. k \in 1 .. Len(t.slots) /\ None \in Slots
  BY <1>1, TableIs DEF Slots
<1>3. /\ q \in Seq(Slots) /\ Len(q) = Len(t.slots)
      /\ \A l \in 1 .. Len(t.slots) : q[l] = IF l = k THEN None ELSE t.slots[l]
  BY <1>2, TableIs, ExceptSeq
<1>4. u = [v EXCEPT !.count = t.count - 1]
  BY DEF DeletePeer, k
<1> HIDE DEF q, u
<1>5. IsOf(v, q, t.count, t.next)
  BY <1>3, WithSlots
<1>6. v \in Tables /\ v.slots = q /\ v.next = t.next /\ t.count - 1 \in Nat
  BY <1>5 DEF IsOf
<1> HIDE DEF v
<1>7. IsOf(u, v.slots, t.count - 1, v.next)
  BY <1>4, <1>6, WithCount
<1>8. u \in Tables /\ u.slots = q /\ u.next = t.next /\ u.count = t.count - 1
  BY <1>6, <1>7 DEF IsOf
<1>9. Used(u) = Used(t) \ {k}
  BY <1>3, <1>8, TableIs, KnownIs
<1>10. \A l \in Used(u) : u.slots[l] = t.slots[l]
  BY <1>3, <1>8, <1>9, TableIs
<1>11. HasJunk(u) <=> HasJunk(t)
  <2>1. None # Junk /\ t.slots[k] # Junk
    BY <1>1, KnownIs, EntryIs
  <2> QED
    BY <1>2, <1>3, <1>8, <2>1, EntryIs
<1>12. Loses(t, u, id)
  BY <1>1, <1>3, <1>8, <1>9, <1>10, <1>11 DEF Loses
<1> QED
  BY <1>12 DEF u

(* A table with another socket in slot k. *)
Rewired(t, u, k, sock) ==
  /\ u \in Tables /\ Used(u) = Used(t) /\ (HasJunk(u) <=> HasJunk(t))
  /\ \A l \in Used(t) : u.slots[l].id = t.slots[l].id /\ u.slots[l].host = t.slots[l].host
                        /\ u.slots[l].sock = IF l = k THEN sock ELSE t.slots[l].sock

LEMMA WithSocketIs ==
  ASSUME NEW t \in Tables, NEW k \in Used(t), NEW sock \in Int
  PROVE  Rewired(t, WithSocket(t, k, sock), k, sock)
<1> DEFINE e == [t.slots[k] EXCEPT !.sock = sock]
           q == [t.slots EXCEPT ![k] = e]
           u == WithSocket(t, k, sock)
<1>1. t.slots[k] \in Known /\ k \in 1 .. Len(t.slots)
  BY TableIs
<1>2. e \in Known /\ e.id = t.slots[k].id /\ e.host = t.slots[k].host /\ e.sock = sock
  BY <1>1 DEF Known
<1>3. u = [t EXCEPT !.slots = q]
  BY DEF WithSocket
<1> HIDE DEF e
<1>4. e \in Slots
  BY <1>2 DEF Slots
<1>5. /\ q \in Seq(Slots) /\ Len(q) = Len(t.slots)
      /\ \A l \in 1 .. Len(t.slots) : q[l] = IF l = k THEN e ELSE t.slots[l]
  BY <1>1, <1>4, TableIs, ExceptSeq
<1> HIDE DEF q, u
<1>6. IsOf(u, q, t.count, t.next)
  BY <1>3, <1>5, WithSlots
<1>7. u \in Tables /\ u.slots = q
  BY <1>6 DEF IsOf
<1>8. Used(u) = Used(t)
  BY <1>1, <1>2, <1>5, <1>7, TableIs
<1>9. HasJunk(u) <=> HasJunk(t)
  <2>1. e # Junk /\ t.slots[k] # Junk
    BY <1>1, <1>2, KnownIs
  <2> QED
    BY <1>1, <1>5, <1>7, <2>1, EntryIs
<1>10. \A l \in Used(t) : u.slots[l] = IF l = k THEN e ELSE t.slots[l]
  BY <1>5, <1>7, TableIs
<1>11. Rewired(t, u, k, sock)
  BY <1>2, <1>7, <1>8, <1>9, <1>10 DEF Rewired
<1> QED
  BY <1>11 DEF u

-----------------------------------------------------------------------------
(* The buffer: the ids and addresses of the used slots, each once.         *)
Items == [id : Nat \ {0}, host : Hosts]
BufferIds(b) == {b[k].id : k \in 1 .. Len(b)}
Distinct(b) == \A k, l \in 1 .. Len(b) : b[k].id = b[l].id => k = l

Serial(q, t, k) ==
  /\ q \in Seq(Items) /\ Distinct(q)
  /\ \A j \in 1 .. Len(q) : \E l \in Used(t) : l <= k /\ q[j].id = t.slots[l].id /\ q[j].host = t.slots[l].host
  /\ \A l \in Used(t) : l <= k => \E j \in 1 .. Len(q) : q[j].id = t.slots[l].id

Item(t, k) == [id |-> t.slots[k].id, host |-> t.slots[k].host]
WriteNext(q, t, k) == IF k \in Used(t) THEN Append(q, Item(t, k)) ELSE q

LEMMA ItemIs ==
  ASSUME NEW t \in Tables, NEW k \in Used(t)
  PROVE  Item(t, k) \in Items /\ Item(t, k).id = t.slots[k].id /\ Item(t, k).host = t.slots[k].host
BY EntryIs DEF Item, Items

LEMMA WriteStep ==
  ASSUME NEW t \in Tables, Unique(t), NEW k \in 1 .. Len(t.slots), NEW q, Serial(q, t, k - 1)
  PROVE  Serial(WriteNext(q, t, k), t, k)
<1>0. q \in Seq(Items) /\ Len(q) \in Nat
  BY DEF Serial
<1>1. CASE k \notin Used(t)
  <2>1. \A l \in Used(t) : l <= k => l <= k - 1
    BY <1>1, TableIs
  <2>2. \A l \in Used(t) : l <= k - 1 => l <= k
    BY TableIs
  <2> QED
    BY <1>1, <2>1, <2>2 DEF Serial, WriteNext
<1>2. CASE k \in Used(t)
  <2> DEFINE r == Append(q, Item(t, k))
             n == Len(q)
  <2>1. Item(t, k) \in Items /\ Item(t, k).id = t.slots[k].id /\ Item(t, k).host = t.slots[k].host
    BY <1>2, ItemIs
  <2>2. /\ r \in Seq(Items) /\ Len(r) = n + 1 /\ r[n + 1] = Item(t, k)
        /\ \A j \in 1 .. n : r[j] = q[j]
    BY <1>0, <2>1, AppendProperties
  <2> HIDE DEF r
  <2>3. \A j \in 1 .. (n + 1) : j \in 1 .. n \/ j = n + 1
    BY <1>0
  <2>4. \A j \in 1 .. n : \E l \in Used(t) : l <= k - 1 /\ q[j].id = t.slots[l].id /\ q[j].host = t.slots[l].host
    BY DEF Serial
  <2>5. \A l \in Used(t) : l <= k - 1 => l <= k /\ l # k
    BY TableIs
  <2>6. \A j \in 1 .. n : r[j].id # t.slots[k].id
    BY <1>2, <2>2, <2>4, <2>5 DEF Unique
  <2>7. Distinct(r)
    <3>1. Distinct(q)
      BY DEF Serial
    <3>2. r[n + 1].id = t.slots[k].id
      BY <2>1, <2>2
    <3>3. SUFFICES ASSUME NEW i \in 1 .. (n + 1), NEW j \in 1 .. (n + 1), r[i].id = r[j].id PROVE i = j
      BY <2>2 DEF Distinct
    <3>4. CASE i \in 1 .. n /\ j \in 1 .. n
      BY <2>2, <3>1, <3>3, <3>4 DEF Distinct
    <3>5. CASE i = n + 1 /\ j = n + 1
      BY <3>5
    <3>6. CASE i = n + 1 /\ j \in 1 .. n
      BY <2>6, <3>2, <3>3, <3>6
    <3>7. CASE j = n + 1 /\ i \in 1 .. n
      BY <2>6, <3>2, <3>3, <3>7
    <3> QED
      BY <2>3, <3>4, <3>5, <3>6, <3>7
  <2>8. ASSUME NEW j \in 1 .. (n + 1)
        PROVE  \E l \in Used(t) : l <= k /\ r[j].id = t.slots[l].id /\ r[j].host = t.slots[l].host
    <3>1. CASE j \in 1 .. n
      BY <2>2, <2>4, <2>5, <3>1
    <3>2. CASE j = n + 1
      <4>1. k <= k
        OBVIOUS
      <4> QED
        BY <1>2, <2>1, <2>2, <3>2, <4>1
    <3> QED
      BY <2>3, <3>1, <3>2
  <2>9. ASSUME NEW l \in Used(t), l <= k PROVE \E j \in 1 .. (n + 1) : r[j].id = t.slots[l].id
    <3>1. CASE l = k
      <4>1. n + 1 \in 1 .. (n + 1)
        BY <1>0
      <4> QED
        BY <2>1, <2>2, <3>1, <4>1
    <3>2. CASE l # k
      <4>1. l <= k - 1
        BY <2>9, <3>2, TableIs
      <4>2. PICK j \in 1 .. n : q[j].id = t.slots[l].id
        BY <4>1 DEF Serial
      <4>3. j \in 1 .. (n + 1)
        BY <1>0
      <4> QED
        BY <2>2, <4>2, <4>3
    <3> QED
      BY <3>1, <3>2
  <2>10. Serial(r, t, k)
    BY <2>2, <2>7, <2>8, <2>9 DEF Serial
  <2> QED
    BY <1>2, <2>10 DEF WriteNext, r
<1> QED
  BY <1>1, <1>2

(* What the loop of serialize_peer_table writes. *)
LEMMA SerializedIs ==
  ASSUME NEW t \in Tables, Unique(t)
  PROVE  Serial(Serialized(t), t, Len(t.slots))
<1> DEFINE n == Len(t.slots)
           S == Seq(Items)
           D == [q \in S |-> [k \in 1 .. n |-> WriteNext(q, t, k)]]
           Written[k \in 0 .. Len(t.slots)] ==
             IF k = 0 THEN <<>>
             ELSE IF k \in Used(t)
               THEN Append(Written[k - 1], [id |-> t.slots[k].id, host |-> t.slots[k].host])
             ELSE Written[k - 1]
           Loop(f) == f = [k \in 0 .. Len(t.slots) |->
             IF k = 0 THEN <<>>
             ELSE IF k \in Used(t)
               THEN Append(f[k - 1], [id |-> t.slots[k].id, host |-> t.slots[k].host])
             ELSE f[k - 1]]
<1>1. n \in Nat /\ <<>> \in S
  BY TableIs
<1>2. \A q \in S, k \in 1 .. n : WriteNext(q, t, k) \in S
  BY ItemIs, AppendProperties DEF WriteNext
<1>3. D \in [S -> [1 .. n -> S]] /\ \A q \in S, k \in 1 .. n : D[q][k] = WriteNext(q, t, k)
  BY <1>2
<1> HIDE DEF D
<1>4. PICK f : Iterates(f, S, <<>>, n, D)
  <2> HIDE DEF S, n
  <2> QED
    BY <1>1, <1>3, Recursion
<1>5. f \in [0 .. n -> S] /\ f[0] = <<>> /\ \A k \in 1 .. n : f[k] = WriteNext(f[k - 1], t, k)
  <2>1. f \in [0 .. n -> S] /\ f[0] = <<>> /\ \A k \in 1 .. n : f[k] = D[f[k - 1]][k]
    BY <1>4 DEF Iterates
  <2>2. \A k \in 1 .. n : f[k - 1] \in S
    BY <1>1, <2>1
  <2> QED
    BY <1>3, <2>1, <2>2
<1>6. Loop(f)
  <2> DEFINE B(k) == IF k = 0 THEN <<>>
                     ELSE IF k \in Used(t)
                       THEN Append(f[k - 1], [id |-> t.slots[k].id, host |-> t.slots[k].host])
                     ELSE f[k - 1]
  <2>1. ASSUME NEW k \in 0 .. n PROVE f[k] = B(k)
    <3>1. CASE k = 0
      BY <1>5, <3>1
    <3>2. CASE k # 0
      <4>1. k \in 1 .. n
        BY <1>1, <3>2
      <4> QED
        BY <1>5, <3>2, <4>1 DEF WriteNext, Item
    <3> QED
      BY <3>1, <3>2
  <2>2. f = [k \in 0 .. n |-> f[k]]
    BY <1>5
  <2> HIDE DEF B
  <2>3. f = [k \in 0 .. n |-> B(k)]
    BY <2>1, <2>2
  <2> QED
    BY <2>3 DEF B
<1>7. Loop(Written)
  BY <1>6
<1>8. Written[0] = <<>> /\ \A k \in 1 .. n : Written[k] = WriteNext(Written[k - 1], t, k)
  <2>1. 0 \in 0 .. n /\ \A k \in 1 .. n : k \in 0 .. n /\ k # 0
    BY <1>1
  <2> HIDE DEF Written
  <2> QED
    BY <1>7, <2>1 DEF WriteNext, Item
<1>9. Serialized(t) = Written[n]
  BY DEF Serialized
<1> HIDE DEF Written, Loop, S
<1> DEFINE P == {k \in 0 .. n : Serial(Written[k], t, k)}
<1>10. 0 \in P
  <2>1. <<>> \in Seq(Items) /\ Len(<<>>) = 0
    OBVIOUS
  <2>2. \A l \in Used(t) : ~ (l <= 0)
    BY TableIs
  <2>3. Serial(<<>>, t, 0)
    BY <2>1, <2>2 DEF Serial, Distinct
  <2> QED
    BY <1>1, <1>8, <2>3
<1>11. ASSUME NEW k \in 1 .. n, k - 1 \in P PROVE k \in P
  <2>1. Serial(WriteNext(Written[k - 1], t, k), t, k)
    BY <1>11, WriteStep
  <2> QED
    BY <1>1, <1>8, <2>1
<1>12. n \in P
  <2> HIDE DEF P, n
  <2>1. \A k \in 0 .. n : k \in P
    BY <1>1, <1>10, <1>11, Stepwise
  <2> QED
    BY <1>1, <2>1
<1> QED
  BY <1>9, <1>12

-----------------------------------------------------------------------------
(* The table read from a buffer of peers with different ids: one without   *)
(* junk, for its count, odd at every test, never reaches its even size.    *)
IsBuffer(b) == b \in Seq(Items) /\ Distinct(b)
Loaded(u, b, k) ==
  /\ u \in Tables /\ ~HasJunk(u) /\ Len(u.slots) = 2 * Len(b)
  /\ u.count = 2 * k /\ Cardinality(Used(u)) = k /\ Unique(u)
  /\ \A l \in Used(u) : \E j \in 1 .. k : u.slots[l] = Peer(b[j].id, b[j].host, -1)
  /\ \A j \in 1 .. k : \E l \in Used(u) : u.slots[l].id = b[j].id
ReadNext(T, b, k) == {Recounted(u) : u \in UNION {CopyPeer(t, b[k].id, b[k].host, -1) : t \in T}}

LEMMA RecountedIs ==
  ASSUME NEW t \in Tables
  PROVE  IsOf(Recounted(t), t.slots, t.count + 1, t.next)
<1>1. Recounted(t) = [t EXCEPT !.count = t.count + 1] /\ t.count + 1 \in Nat
  BY TableIs DEF Recounted
<1> QED
  BY <1>1, WithCount

LEMMA BufferIs ==
  ASSUME NEW b \in Seq(Items), NEW k \in 1 .. Len(b)
  PROVE  b[k].id \in Nat \ {0} /\ b[k].host \in Hosts /\ Len(b) \in Nat
<1>1. b[k] \in Items
  BY ElementOfSeq
<1>2. Len(b) \in Nat
  BY LenProperties
<1> QED
  BY <1>1, <1>2 DEF Items

LEMMA ReadType ==
  ASSUME NEW b \in Seq(Items), NEW k \in 1 .. Len(b), NEW T \in SUBSET Tables
  PROVE  ReadNext(T, b, k) \in SUBSET Tables
<1>1. SUFFICES ASSUME NEW v \in ReadNext(T, b, k) PROVE v \in Tables
  OBVIOUS
<1>2. PICK t \in T : \E u \in CopyPeer(t, b[k].id, b[k].host, -1) : v = Recounted(u)
  BY <1>1 DEF ReadNext
<1>3. PICK u \in CopyPeer(t, b[k].id, b[k].host, -1) : v = Recounted(u)
  BY <1>2
<1>4. t \in Tables /\ -1 \in Int
  OBVIOUS
<1>5. u \in Tables
  BY <1>3, <1>4, BufferIs, CopyPeerType
<1> QED
  BY <1>3, <1>5, RecountedIs DEF IsOf

LEMMA ReadStep ==
  ASSUME NEW b, IsBuffer(b), NEW k \in 1 .. Len(b), NEW t, Loaded(t, b, k - 1),
         NEW u \in CopyPeer(t, b[k].id, b[k].host, -1)
  PROVE  Loaded(Recounted(u), b, k)
<1> DEFINE e == Peer(b[k].id, b[k].host, -1)
           v == Recounted(u)
<1>1. /\ b \in Seq(Items) /\ Len(b) \in Nat /\ b[k].id \in Nat \ {0} /\ b[k].host \in Hosts /\ -1 \in Int
      /\ t \in Tables /\ ~HasJunk(t) /\ Len(t.slots) = 2 * Len(b)
      /\ t.count = 2 * (k - 1) /\ Cardinality(Used(t)) = k - 1 /\ Unique(t)
  BY BufferIs DEF IsBuffer, Loaded
<1>2. Room(t)
  BY <1>1 DEF Room
<1>3. Takes(t, u, e, t.next)
  BY <1>1, <1>2, CopyPeerIs
<1>4. e.id = b[k].id
  BY <1>1, KnownIs
<1> HIDE DEF e
<1>5. /\ u \in Tables /\ u.count = t.count + 1
      /\ \/ ~HasJunk(u) /\ t.count + 1 # Len(t.slots) /\ Len(u.slots) = Len(t.slots)
         \/ t.count + 1 = Len(t.slots)
  BY <1>3 DEF Takes
<1>6. t.count + 1 # Len(t.slots)
  BY <1>1
<1>7. IsOf(v, u.slots, u.count + 1, u.next)
  BY <1>5, RecountedIs
<1> HIDE DEF v
<1>8. v \in Tables /\ v.slots = u.slots /\ v.count = u.count + 1
  BY <1>7 DEF IsOf
<1>9. Used(v) = Used(u) /\ ~HasJunk(v) /\ Len(v.slots) = 2 * Len(b) /\ v.count = 2 * k
  BY <1>1, <1>5, <1>6, <1>8 DEF Used, HasJunk
<1>10. PICK h \in Nat \ {0} : Gains(t, u, h, e)
  BY <1>3 DEF Takes
<1>11. /\ h \notin Used(t) /\ Used(v) = Used(t) \cup {h} /\ v.slots[h] = e
       /\ \A l \in Used(t) : v.slots[l] = t.slots[l]
  BY <1>8, <1>9, <1>10 DEF Gains
<1>12. Cardinality(Used(v)) = k
  <2>1. IsFiniteSet(Used(t))
    BY <1>1, TableIs
  <2>2. Cardinality(Used(t) \cup {h}) = Cardinality(Used(t)) + 1
    BY <1>11, <2>1, FS_AddElement
  <2> QED
    BY <1>1, <1>11, <2>2
<1>13. \A l \in Used(t) : \E j \in 1 .. (k - 1) : t.slots[l] = Peer(b[j].id, b[j].host, -1) /\ t.slots[l].id = b[j].id
  <2>1. \A j \in 1 .. (k - 1) : j \in 1 .. Len(b)
    BY <1>1
  <2>2. \A j \in 1 .. (k - 1) : Peer(b[j].id, b[j].host, -1).id = b[j].id
    <3>1. \A j \in 1 .. (k - 1) : b[j].id \in Nat \ {0} /\ b[j].host \in Hosts /\ -1 \in Int
      BY <1>1, <2>1, BufferIs
    <3> QED
      BY <3>1, KnownIs
  <2> QED
    BY <2>2 DEF Loaded
<1>14. \A l \in Used(t) : t.slots[l].id # b[k].id
  <2>1. \A j \in 1 .. (k - 1) : j \in 1 .. Len(b) /\ j # k
    BY <1>1
  <2> QED
    BY <1>13, <2>1 DEF IsBuffer, Distinct
<1>15. Unique(v)
  BY <1>1, <1>4, <1>11, <1>14 DEF Unique
<1>16. ASSUME NEW l \in Used(v) PROVE \E j \in 1 .. k : v.slots[l] = Peer(b[j].id, b[j].host, -1)
  <2>1. CASE l \in Used(t)
    <3>1. PICK j \in 1 .. (k - 1) : t.slots[l] = Peer(b[j].id, b[j].host, -1)
      BY <1>13, <2>1
    <3>2. j \in 1 .. k
      BY <1>1
    <3> QED
      BY <1>11, <2>1, <3>1, <3>2
  <2>2. CASE l = h
    <3>1. k \in 1 .. k
      BY <1>1
    <3> QED
      BY <1>11, <2>2, <3>1 DEF e
  <2> QED
    BY <1>11, <2>1, <2>2
<1>17. ASSUME NEW j \in 1 .. k PROVE \E l \in Used(v) : v.slots[l].id = b[j].id
  <2>1. CASE j = k
    BY <1>4, <1>11, <2>1
  <2>2. CASE j # k
    <3>1. j \in 1 .. (k - 1)
      BY <1>1, <2>2
    <3>2. PICK l \in Used(t) : t.slots[l].id = b[j].id
      BY <3>1 DEF Loaded
    <3> QED
      BY <1>11, <3>2
  <2> QED
    BY <2>1, <2>2
<1>18. Loaded(v, b, k)
  BY <1>8, <1>9, <1>12, <1>15, <1>16, <1>17 DEF Loaded
<1> QED
  BY <1>18 DEF v

LEMMA DeserializedIs ==
  ASSUME NEW b, IsBuffer(b), NEW u \in Deserialized(b)
  PROVE  Loaded(u, b, Len(b))
<1> DEFINE n == Len(b)
           S == SUBSET Tables
           c == {NewTable(2 * Len(b))}
           D == [T \in S |-> [k \in 1 .. n |-> ReadNext(T, b, k)]]
           Read[k \in 0 .. Len(b)] ==
             IF k = 0 THEN {NewTable(2 * Len(b))}
             ELSE {Recounted(w) : w \in UNION {CopyPeer(t, b[k].id, b[k].host, -1) : t \in Read[k - 1]}}
           Loop(f) == f = [k \in 0 .. Len(b) |->
             IF k = 0 THEN {NewTable(2 * Len(b))}
             ELSE {Recounted(w) : w \in UNION {CopyPeer(t, b[k].id, b[k].host, -1) : t \in f[k - 1]}}]
<1>1. n \in Nat /\ 2 * n \in Nat /\ b \in Seq(Items)
  BY LenProperties DEF IsBuffer
<1>2. c \in S
  BY <1>1, NewTableIs
<1>3. D \in [S -> [1 .. n -> S]] /\ \A T \in S, k \in 1 .. n : D[T][k] = ReadNext(T, b, k)
  BY <1>1, ReadType
<1> HIDE DEF D, c
<1>4. PICK f : Iterates(f, S, c, n, D)
  <2> HIDE DEF S, n
  <2> QED
    BY <1>1, <1>2, <1>3, Recursion
<1>5. f \in [0 .. n -> S] /\ f[0] = c /\ \A k \in 1 .. n : f[k] = ReadNext(f[k - 1], b, k)
  <2>1. f \in [0 .. n -> S] /\ f[0] = c /\ \A k \in 1 .. n : f[k] = D[f[k - 1]][k]
    BY <1>4 DEF Iterates
  <2>2. \A k \in 1 .. n : f[k - 1] \in S
    BY <1>1, <2>1
  <2> QED
    BY <1>3, <2>1, <2>2
<1>6. Loop(f)
  <2> DEFINE B(k) == IF k = 0 THEN {NewTable(2 * Len(b))}
                     ELSE {Recounted(w) : w \in UNION {CopyPeer(t, b[k].id, b[k].host, -1) : t \in f[k - 1]}}
  <2>1. ASSUME NEW k \in 0 .. n PROVE f[k] = B(k)
    <3>1. CASE k = 0
      BY <1>5, <3>1 DEF c
    <3>2. CASE k # 0
      <4>1. k \in 1 .. n
        BY <1>1, <3>2
      <4> QED
        BY <1>5, <3>2, <4>1 DEF ReadNext
    <3> QED
      BY <3>1, <3>2
  <2>2. f = [k \in 0 .. n |-> f[k]]
    BY <1>5
  <2> HIDE DEF B
  <2>3. f = [k \in 0 .. n |-> B(k)]
    BY <2>1, <2>2
  <2> QED
    BY <2>3 DEF B
<1>7. Loop(Read)
  BY <1>6
<1>8. Read[0] = c /\ \A k \in 1 .. n : Read[k] = ReadNext(Read[k - 1], b, k)
  <2>1. 0 \in 0 .. n /\ \A k \in 1 .. n : k \in 0 .. n /\ k # 0
    BY <1>1
  <2> HIDE DEF Read
  <2> QED
    BY <1>7, <2>1 DEF ReadNext, c
<1>9. Deserialized(b) = Read[n]
  BY DEF Deserialized
<1> HIDE DEF Read, Loop, S
<1> DEFINE P == {k \in 0 .. n : \A t \in Read[k] : Loaded(t, b, k)}
<1>10. 0 \in P
  <2>1. Loaded(NewTable(2 * n), b, 0)
    <3> DEFINE t == NewTable(2 * n)
    <3>1. /\ t \in Tables /\ Used(t) = {} /\ ~HasJunk(t) /\ t.count = 0 /\ Len(t.slots) = 2 * n
      BY <1>1, NewTableIs
    <3>2. Cardinality(Used(t)) = 0
      BY <3>1, FS_EmptySet
    <3> HIDE DEF t
    <3>3. Loaded(t, b, 0)
      BY <3>1, <3>2 DEF Loaded, Unique
    <3> QED
      BY <3>3 DEF t
  <2> QED
    BY <1>1, <1>8, <2>1 DEF c
<1>11. ASSUME NEW k \in 1 .. n, k - 1 \in P PROVE k \in P
  <2>1. ASSUME NEW v \in Read[k] PROVE Loaded(v, b, k)
    <3>1. PICK t \in Read[k - 1] : \E w \in CopyPeer(t, b[k].id, b[k].host, -1) : v = Recounted(w)
      BY <1>8, <2>1 DEF ReadNext
    <3>2. PICK w \in CopyPeer(t, b[k].id, b[k].host, -1) : v = Recounted(w)
      BY <3>1
    <3>3. Loaded(t, b, k - 1)
      BY <1>11
    <3> QED
      BY <3>2, <3>3, ReadStep
  <2> QED
    BY <1>1, <2>1
<1>12. n \in P
  <2> HIDE DEF P, n
  <2>1. \A k \in 0 .. n : k \in P
    BY <1>1, <1>10, <1>11, Stepwise
  <2> QED
    BY <1>1, <2>1
<1> QED
  BY <1>9, <1>12

-----------------------------------------------------------------------------
(* diff_tables: a table with the missing peers, each once, which has junk  *)
(* only where there are as many of them as it has slots.                   *)
IdsIn(t, K) == {t.slots[k].id : k \in K}
MissingTo(a, b, k) == {j \in 1 .. k : Missing(a, b, j)}
Collected(u, a, b, n, k) ==
  /\ u \in Tables
  /\ \/ HasJunk(u) /\ n <= Cardinality(MissingTo(a, b, k))
     \/ /\ ~HasJunk(u) /\ n <= Len(u.slots) /\ Cardinality(Used(u)) < Len(u.slots)
        /\ u.count = Cardinality(Used(u)) /\ u.count = Cardinality(MissingTo(a, b, k))
        /\ Ids(u) = IdsIn(b, MissingTo(a, b, k))
CopyNext(T, e) == UNION {CopyPeer(t, e.id, e.host, e.sock) : t \in T}
FindNext(T, a, b, k) == IF Missing(a, b, k) THEN CopyNext(T, b.slots[k]) ELSE T

LEMMA CopyNextType ==
  ASSUME NEW e \in Known, NEW T \in SUBSET Tables
  PROVE  CopyNext(T, e) \in SUBSET Tables
<1>1. e.id \in Nat \ {0} /\ e.host \in Hosts /\ e.sock \in Int
  BY DEF Known
<1>2. \A t \in T : \A u \in CopyPeer(t, e.id, e.host, e.sock) : u \in Tables
  BY <1>1, CopyPeerType
<1> QED
  BY <1>2 DEF CopyNext

LEMMA MissingIs ==
  ASSUME NEW a \in Tables, NEW b \in Tables, NEW k \in 1 .. Len(b.slots)
  PROVE  /\ IsFiniteSet(MissingTo(a, b, k - 1)) /\ Cardinality(MissingTo(a, b, k - 1)) \in Nat
         /\ IF Missing(a, b, k)
              THEN /\ MissingTo(a, b, k) = MissingTo(a, b, k - 1) \cup {k}
                   /\ Cardinality(MissingTo(a, b, k)) = Cardinality(MissingTo(a, b, k - 1)) + 1
                   /\ b.slots[k] \in Known
              ELSE MissingTo(a, b, k) = MissingTo(a, b, k - 1)
<1> DEFINE M == MissingTo(a, b, k - 1)
<1>1. IsFiniteSet(M)
  <2>1. IsFiniteSet(1 .. (k - 1))
    BY FS_Interval
  <2>2. M \in SUBSET (1 .. (k - 1))
    BY DEF MissingTo
  <2> QED
    BY <2>1, <2>2, FS_Subset
<1>2. Cardinality(M) \in Nat /\ k \notin M
  BY <1>1, FS_CardinalityType DEF MissingTo
<1>3. CASE Missing(a, b, k)
  <2>1. MissingTo(a, b, k) = M \cup {k}
    BY <1>3 DEF MissingTo
  <2>2. Cardinality(M \cup {k}) = Cardinality(M) + 1
    BY <1>1, <1>2, FS_AddElement
  <2>3. b.slots[k] \in Known
    BY <1>3, EntryIs DEF Missing
  <2> QED
    BY <1>1, <1>2, <1>3, <2>1, <2>2, <2>3
<1>4. CASE ~Missing(a, b, k)
  <2>1. MissingTo(a, b, k) = M
    BY <1>4 DEF MissingTo
  <2> QED
    BY <1>1, <1>2, <1>4, <2>1
<1> QED
  BY <1>3, <1>4

LEMMA CollectStep ==
  ASSUME NEW a \in Tables, NEW b \in Tables, NEW n \in Nat \ {0}, NEW k \in 1 .. Len(b.slots),
         Missing(a, b, k), NEW t, Collected(t, a, b, n, k - 1),
         NEW u \in CopyPeer(t, b.slots[k].id, b.slots[k].host, b.slots[k].sock)
  PROVE  Collected(u, a, b, n, k)
<1> DEFINE e == b.slots[k]
           m == Cardinality(MissingTo(a, b, k - 1))
<1>1. /\ e \in Known /\ e.id \in Nat \ {0} /\ e.host \in Hosts /\ e.sock \in Int
      /\ e = Peer(e.id, e.host, e.sock)
  <2>1. e \in Known
    BY MissingIs
  <2> QED
    BY <2>1 DEF Known, Peer
<1>2. /\ m \in Nat /\ Cardinality(MissingTo(a, b, k)) = m + 1
      /\ MissingTo(a, b, k) = MissingTo(a, b, k - 1) \cup {k}
  BY MissingIs
<1>3. t \in Tables
  BY DEF Collected
<1> HIDE DEF m
<1>4. CASE HasJunk(t)
  <2>1. n <= m
    BY <1>4 DEF Collected, m
  <2>2. u \in Tables /\ HasJunk(u)
    BY <1>1, <1>3, <1>4, CopyPeerType
  <2>3. n <= m + 1
    BY <1>2, <2>1
  <2> QED
    BY <1>2, <2>2, <2>3 DEF Collected
<1>5. CASE ~HasJunk(t)
  <2>1. /\ n <= Len(t.slots) /\ Cardinality(Used(t)) < Len(t.slots)
        /\ t.count = Cardinality(Used(t)) /\ t.count = m
        /\ Ids(t) = IdsIn(b, MissingTo(a, b, k - 1))
    BY <1>5 DEF Collected, m
  <2>2. Room(t)
    BY <1>5, <2>1 DEF Room
  <2>3. Takes(t, u, Peer(e.id, e.host, e.sock), t.next)
    BY <1>1, <1>3, <2>2, CopyPeerIs
  <2>4. Takes(t, u, e, t.next)
    BY <1>1, <2>3
  <2> HIDE DEF e
  <2>5. /\ u \in Tables /\ u.count = t.count + 1 /\ Len(t.slots) <= Len(u.slots)
        /\ \/ ~HasJunk(u) /\ t.count + 1 # Len(t.slots) /\ Len(u.slots) = Len(t.slots)
           \/ t.count + 1 = Len(t.slots) /\ Len(u.slots) = 2 * Len(t.slots)
    BY <2>4 DEF Takes
  <2>6. PICK h \in Nat \ {0} : Gains(t, u, h, e)
    BY <2>4 DEF Takes
  <2>7. /\ h \notin Used(t) /\ Used(u) = Used(t) \cup {h} /\ u.slots[h] = e
        /\ \A l \in Used(t) : u.slots[l] = t.slots[l]
    BY <2>6 DEF Gains
  <2>8. Cardinality(Used(u)) = m + 1
    <3>1. IsFiniteSet(Used(t))
      BY <1>3, TableIs
    <3>2. Cardinality(Used(t) \cup {h}) = Cardinality(Used(t)) + 1
      BY <2>7, <3>1, FS_AddElement
    <3> QED
      BY <2>1, <2>7, <3>2
  <2>9. Ids(u) = IdsIn(b, MissingTo(a, b, k))
    <3>1. Ids(u) = {u.slots[l].id : l \in Used(u)} /\ Ids(t) = {t.slots[l].id : l \in Used(t)}
      BY <1>3, <2>5, EntryIs
    <3>2. Ids(u) = Ids(t) \cup {e.id}
      BY <2>7, <3>1
    <3>3. IdsIn(b, MissingTo(a, b, k)) = IdsIn(b, MissingTo(a, b, k - 1)) \cup {e.id}
      BY <1>2 DEF IdsIn, e
    <3> QED
      BY <2>1, <3>2, <3>3
  <2>10. Len(t.slots) \in Nat /\ Len(u.slots) \in Nat
    BY <1>3, <2>5, TableIs
  <2>11. CASE HasJunk(u)
    <3>1. n <= m + 1
      BY <2>1, <2>5, <2>11
    <3> QED
      BY <1>2, <2>5, <2>11, <3>1 DEF Collected
  <2>12. CASE ~HasJunk(u)
    <3>1. n <= Len(u.slots) /\ m + 1 < Len(u.slots)
      BY <1>2, <2>1, <2>5, <2>10
    <3>2. u.count = m + 1
      BY <2>1, <2>5
    <3> QED
      BY <1>2, <2>5, <2>8, <2>9, <2>12, <3>1, <3>2 DEF Collected
  <2> QED
    BY <2>11, <2>12
<1> QED
  BY <1>4, <1>5

LEMMA LackingCollects ==
  ASSUME NEW a \in Tables, NEW b \in Tables, NEW n \in Nat \ {0}, NEW u \in Lacking(a, b, n)
  PROVE  Collected(u, a, b, n, Len(b.slots))
<1> DEFINE l == Len(b.slots)
           S == SUBSET Tables
           c == {NewTable(n)}
           D == [T \in S |-> [k \in 1 .. l |-> FindNext(T, a, b, k)]]
           Found[k \in 0 .. Len(b.slots)] ==
             IF k = 0 THEN {NewTable(n)}
             ELSE IF Missing(a, b, k)
               THEN LET e == b.slots[k] IN UNION {CopyPeer(t, e.id, e.host, e.sock) : t \in Found[k - 1]}
             ELSE Found[k - 1]
           Loop(f) == f = [k \in 0 .. Len(b.slots) |->
             IF k = 0 THEN {NewTable(n)}
             ELSE IF Missing(a, b, k)
               THEN LET e == b.slots[k] IN UNION {CopyPeer(t, e.id, e.host, e.sock) : t \in f[k - 1]}
             ELSE f[k - 1]]
<1>1. l \in Nat /\ c \in S
  BY NewTableIs, TableIs
<1>2. \A T \in S, k \in 1 .. l : FindNext(T, a, b, k) \in S
  <2>1. SUFFICES ASSUME NEW T \in S, NEW k \in 1 .. l PROVE FindNext(T, a, b, k) \in S
    OBVIOUS
  <2>2. CASE Missing(a, b, k)
    <3>1. b.slots[k] \in Known
      BY <2>2, MissingIs
    <3> QED
      BY <2>2, <3>1, CopyNextType DEF FindNext
  <2> QED
    BY <2>2 DEF FindNext
<1>3. D \in [S -> [1 .. l -> S]] /\ \A T \in S, k \in 1 .. l : D[T][k] = FindNext(T, a, b, k)
  BY <1>2
<1> HIDE DEF D, c
<1>4. PICK f : Iterates(f, S, c, l, D)
  <2> HIDE DEF S, l
  <2> QED
    BY <1>1, <1>3, Recursion
<1>5. f \in [0 .. l -> S] /\ f[0] = c /\ \A k \in 1 .. l : f[k] = FindNext(f[k - 1], a, b, k)
  <2>1. f \in [0 .. l -> S] /\ f[0] = c /\ \A k \in 1 .. l : f[k] = D[f[k - 1]][k]
    BY <1>4 DEF Iterates
  <2>2. \A k \in 1 .. l : f[k - 1] \in S
    <3>1. \A k \in 1 .. l : k - 1 \in 0 .. l
      BY <1>1
    <3> HIDE DEF S
    <3> QED
      BY <2>1, <3>1
  <2> QED
    BY <1>3, <2>1, <2>2
<1>6. Loop(f)
  <2> DEFINE B(k) ==
        IF k = 0 THEN {NewTable(n)}
        ELSE IF Missing(a, b, k)
          THEN LET e == b.slots[k] IN UNION {CopyPeer(t, e.id, e.host, e.sock) : t \in f[k - 1]}
        ELSE f[k - 1]
  <2>1. ASSUME NEW k \in 0 .. l PROVE f[k] = B(k)
    <3>1. CASE k = 0
      BY <1>5, <3>1 DEF c
    <3>2. CASE k # 0
      <4>1. k \in 1 .. l
        BY <1>1, <3>2
      <4> QED
        BY <1>5, <3>2, <4>1 DEF FindNext, CopyNext
    <3> QED
      BY <3>1, <3>2
  <2>2. f = [k \in 0 .. l |-> f[k]]
    BY <1>5
  <2> HIDE DEF B
  <2>3. f = [k \in 0 .. l |-> B(k)]
    BY <2>1, <2>2
  <2> QED
    BY <2>3 DEF B
<1>7. Loop(Found)
  BY <1>6
<1>8. Found[0] = c /\ \A k \in 1 .. l : Found[k] = FindNext(Found[k - 1], a, b, k)
  <2>1. 0 \in 0 .. l /\ \A k \in 1 .. l : k \in 0 .. l /\ k # 0
    BY <1>1
  <2> HIDE DEF Found
  <2> QED
    BY <1>7, <2>1 DEF FindNext, CopyNext, c
<1>9. Lacking(a, b, n) = Found[l]
  BY DEF Lacking
<1> HIDE DEF Found, Loop, S
<1> DEFINE P == {k \in 0 .. l : \A t \in Found[k] : Collected(t, a, b, n, k)}
<1>10. 0 \in P
  <2> DEFINE t == NewTable(n)
  <2>1. /\ t \in Tables /\ Used(t) = {} /\ ~HasJunk(t) /\ t.count = 0 /\ Len(t.slots) = n /\ Ids(t) = {}
    BY NewTableIs
  <2>2. MissingTo(a, b, 0) = {} /\ Cardinality({}) = 0
    BY FS_EmptySet DEF MissingTo
  <2>3. IdsIn(b, MissingTo(a, b, 0)) = {}
    BY <2>2 DEF IdsIn
  <2> HIDE DEF t
  <2>4. Cardinality(Used(t)) = 0 /\ Cardinality(MissingTo(a, b, 0)) = 0 /\ n <= n /\ 0 < n
    BY <2>1, <2>2
  <2>5. Collected(t, a, b, n, 0)
    BY <2>1, <2>3, <2>4 DEF Collected
  <2> QED
    BY <1>1, <1>8, <2>5 DEF t, c
<1>11. ASSUME NEW k \in 1 .. l, k - 1 \in P PROVE k \in P
  <2>1. ASSUME NEW v \in Found[k] PROVE Collected(v, a, b, n, k)
    <3>1. CASE Missing(a, b, k)
      <4> DEFINE e == b.slots[k]
      <4>1. v \in CopyNext(Found[k - 1], e)
        BY <1>8, <2>1, <3>1 DEF FindNext
      <4>2. PICK t \in Found[k - 1] : v \in CopyPeer(t, e.id, e.host, e.sock)
        BY <4>1 DEF CopyNext
      <4>3. Collected(t, a, b, n, k - 1)
        BY <1>11
      <4> QED
        BY <3>1, <4>2, <4>3, CollectStep
    <3>2. CASE ~Missing(a, b, k)
      <4>1. Collected(v, a, b, n, k - 1)
        BY <1>8, <1>11, <2>1, <3>2 DEF FindNext
      <4>2. MissingTo(a, b, k) = MissingTo(a, b, k - 1)
        BY <3>2, MissingIs
      <4> QED
        BY <4>1, <4>2 DEF Collected
    <3> QED
      BY <3>1, <3>2
  <2> QED
    BY <1>1, <2>1
<1>12. l \in P
  <2> HIDE DEF P, l
  <2>1. \A k \in 0 .. l : k \in P
    BY <1>1, <1>10, <1>11, Stepwise
  <2> QED
    BY <1>1, <2>1
<1> QED
  BY <1>9, <1>12

(* Used slots of a table are as many as their ids. *)
LEMMA IdCount ==
  ASSUME NEW t \in Tables, Unique(t), NEW K \in SUBSET Used(t)
  PROVE  /\ IsFiniteSet(IdsIn(t, K)) /\ Cardinality(IdsIn(t, K)) = Cardinality(K)
         /\ Cardinality(IdsIn(t, K)) \in Nat
<1> DEFINE f == [k \in K |-> t.slots[k].id]
<1>1. IsFiniteSet(K)
  BY TableIs, FS_Subset
<1>2. f \in Surjection(K, IdsIn(t, K))
  BY DEF Surjection, IdsIn
<1>3. f \in Injection(K, IdsIn(t, K))
  BY DEF Injection, IsInjective, IdsIn, Unique
<1> HIDE DEF f
<1>4. IsFiniteSet(IdsIn(t, K)) /\ Cardinality(IdsIn(t, K)) = Cardinality(K)
  BY <1>1, <1>2, <1>3, FS_Surjection
<1> QED
  BY <1>4, FS_CardinalityType

(* Every peer of b that a lacks, or junk if they are n at least. *)
LEMMA LackingIs ==
  ASSUME NEW a \in Tables, NEW b \in Tables, Unique(b), NEW n \in Nat \ {0}, NEW u \in Lacking(a, b, n)
  PROVE  /\ u \in Tables
         /\ \/ HasJunk(u) /\ n <= Cardinality(Ids(b) \ Ids(a))
            \/ ~HasJunk(u) /\ Ids(u) = Ids(b) \ Ids(a)
<1> DEFINE M == MissingTo(a, b, Len(b.slots))
<1>1. Collected(u, a, b, n, Len(b.slots))
  BY LackingCollects
<1>2. M = {j \in Used(b) : b.slots[j].id \notin Ids(a)}
  BY TableIs DEF MissingTo, Missing, KnownId
<1>3. IdsIn(b, M) = Ids(b) \ Ids(a)
  BY <1>2, EntryIs DEF IdsIn
<1> HIDE DEF M
<1>4. Cardinality(Ids(b) \ Ids(a)) = Cardinality(M)
  BY <1>2, <1>3, IdCount
<1> QED
  BY <1>1, <1>3, <1>4 DEF Collected, M

-----------------------------------------------------------------------------
(***************************************************************************)
(* Tables and buffers, with the processes they name.                       *)
(***************************************************************************)
(* h says where each process runs: processes are added, none changes host. *)
HostsGrow(h, g) == DOMAIN h \subseteq DOMAIN g /\ \A i \in DOMAIN h : g[i] = h[i]

Named(t, h) == \A k \in Used(t) : t.slots[k].id \in DOMAIN h /\ t.slots[k].host = h[t.slots[k].id]
TableOK(t, h) == t \in Tables /\ Unique(t) /\ Named(t, h) /\ ~HasJunk(t)
BufferOK(b, h) ==
  /\ IsBuffer(b) /\ 0 < Len(b)
  /\ \A k \in 1 .. Len(b) : b[k].id \in DOMAIN h /\ b[k].host = h[b[k].id]
RosterOK(t, m, h) ==
  /\ t \in Tables /\ Unique(t) /\ Named(t, h) /\ Counted(t)
  /\ t.next = Len(h) + 1 /\ InitialSize <= Len(t.slots)
  /\ m \in Nat /\ t.count <= m /\ (HasJunk(t) => InitialSize <= m)

LEMMA NamedGrows ==
  ASSUME NEW h, NEW g, HostsGrow(h, g), NEW t, Named(t, h)
  PROVE  Named(t, g)
BY DEF Named, HostsGrow

LEMMA TableGrows ==
  ASSUME NEW h, NEW g, HostsGrow(h, g), NEW t, TableOK(t, h)
  PROVE  TableOK(t, g)
BY NamedGrows DEF TableOK

LEMMA BufferGrows ==
  ASSUME NEW h, NEW g, HostsGrow(h, g), NEW b, BufferOK(b, h)
  PROVE  BufferOK(b, g)
BY DEF BufferOK, HostsGrow

LEMMA NewTableOK ==
  ASSUME NEW n \in Nat, NEW h
  PROVE  TableOK(NewTable(n), h)
BY NewTableIs DEF TableOK, Unique, Named

(* A roster, or any table, as it is sent. *)
LEMMA SerializedOK ==
  ASSUME NEW t \in Tables, NEW h, Unique(t), Named(t, h), Used(t) # {}
  PROVE  BufferOK(Serialized(t), h) /\ BufferIds(Serialized(t)) = Ids(t)
<1> DEFINE b == Serialized(t)
           n == Len(t.slots)
<1>1. Serial(b, t, n)
  BY SerializedIs
<1> HIDE DEF b
<1>2. \A l \in Used(t) : l <= n
  BY TableIs
<1>3. /\ b \in Seq(Items) /\ Distinct(b)
      /\ \A j \in 1 .. Len(b) : \E l \in Used(t) : b[j].id = t.slots[l].id /\ b[j].host = t.slots[l].host
      /\ \A l \in Used(t) : \E j \in 1 .. Len(b) : b[j].id = t.slots[l].id
  BY <1>1, <1>2 DEF Serial
<1>4. BufferIds(b) = Ids(t)
  <2>1. Ids(t) = {t.slots[l].id : l \in Used(t)}
    BY EntryIs
  <2>2. \A j \in 1 .. Len(b) : b[j].id \in Ids(t)
    BY <1>3, <2>1
  <2>3. \A l \in Used(t) : t.slots[l].id \in BufferIds(b)
    BY <1>3 DEF BufferIds
  <2> QED
    BY <2>1, <2>2, <2>3 DEF BufferIds
<1>5. 0 < Len(b)
  <2>1. PICK l \in Used(t) : TRUE
    OBVIOUS
  <2>2. PICK j \in 1 .. Len(b) : TRUE
    BY <1>3, <2>1
  <2>3. Len(b) \in Nat
    BY <1>3, LenProperties
  <2> QED
    BY <2>2, <2>3
<1>6. \A k \in 1 .. Len(b) : b[k].id \in DOMAIN h /\ b[k].host = h[b[k].id]
  BY <1>3 DEF Named
<1>7. BufferOK(b, h)
  BY <1>3, <1>5, <1>6 DEF BufferOK, IsBuffer
<1> QED
  BY <1>4, <1>7 DEF b

(* A table as it is read. *)
LEMMA DeserializedOK ==
  ASSUME NEW b, NEW h, BufferOK(b, h), NEW u \in Deserialized(b)
  PROVE  /\ TableOK(u, h) /\ Ids(u) = BufferIds(b) /\ \A k \in Used(u) : u.slots[k].sock = -1
         /\ Len(u.slots) = 2 * Len(b) /\ Cardinality(Ids(u)) = Len(b) /\ Len(b) \in Nat \ {0}
<1>1. IsBuffer(b) /\ 0 < Len(b) /\ b \in Seq(Items)
  BY DEF BufferOK, IsBuffer
<1>2. Len(b) \in Nat \ {0}
  BY <1>1, LenProperties
<1>3. Loaded(u, b, Len(b))
  BY <1>1, DeserializedIs
<1>4. /\ u \in Tables /\ ~HasJunk(u) /\ Unique(u) /\ Len(u.slots) = 2 * Len(b)
      /\ Cardinality(Used(u)) = Len(b)
      /\ \A l \in Used(u) : \E j \in 1 .. Len(b) : u.slots[l] = Peer(b[j].id, b[j].host, -1)
      /\ \A j \in 1 .. Len(b) : \E l \in Used(u) : u.slots[l].id = b[j].id
  BY <1>3 DEF Loaded
<1>5. \A j \in 1 .. Len(b) : /\ Peer(b[j].id, b[j].host, -1).id = b[j].id
                              /\ Peer(b[j].id, b[j].host, -1).host = b[j].host
                              /\ Peer(b[j].id, b[j].host, -1).sock = -1
  BY DEF Peer
<1>6. ASSUME NEW l \in Used(u)
      PROVE  \E j \in 1 .. Len(b) : u.slots[l].id = b[j].id /\ u.slots[l].host = b[j].host /\ u.slots[l].sock = -1
  <2>1. PICK j \in 1 .. Len(b) : u.slots[l] = Peer(b[j].id, b[j].host, -1)
    BY <1>4
  <2> QED
    BY <1>5, <2>1
<1>7. Named(u, h) /\ \A k \in Used(u) : u.slots[k].sock = -1
  <2>1. \A j \in 1 .. Len(b) : b[j].id \in DOMAIN h /\ b[j].host = h[b[j].id]
    BY DEF BufferOK
  <2>2. ASSUME NEW l \in Used(u)
        PROVE  u.slots[l].id \in DOMAIN h /\ u.slots[l].host = h[u.slots[l].id] /\ u.slots[l].sock = -1
    <3>1. PICK j \in 1 .. Len(b) : u.slots[l].id = b[j].id /\ u.slots[l].host = b[j].host /\ u.slots[l].sock = -1
      BY <1>6
    <3> QED
      BY <2>1, <3>1
  <2> QED
    BY <2>2 DEF Named
<1>8. Ids(u) = IdsIn(u, Used(u)) /\ Ids(u) = BufferIds(b)
  <2>1. Ids(u) = {u.slots[l].id : l \in Used(u)}
    BY <1>4, EntryIs
  <2>2. ASSUME NEW l \in Used(u) PROVE u.slots[l].id \in BufferIds(b)
    BY <1>6, <2>2 DEF BufferIds
  <2>3. ASSUME NEW j \in 1 .. Len(b) PROVE b[j].id \in Ids(u)
    <3>1. PICK l \in Used(u) : u.slots[l].id = b[j].id
      BY <1>4
    <3> QED
      BY <2>1, <3>1
  <2>4. Ids(u) = BufferIds(b)
    BY <2>1, <2>2, <2>3 DEF BufferIds
  <2> QED
    BY <2>1, <2>4 DEF IdsIn
<1>9. Cardinality(Ids(u)) = Len(b)
  BY <1>4, <1>8, IdCount
<1> QED
  BY <1>2, <1>4, <1>7, <1>8, <1>9 DEF TableOK

(* The roster with one more peer, and with one less. *)
LEMMA RosterTakes ==
  ASSUME NEW t, NEW m, NEW h, RosterOK(t, m, h), ~HasJunk(t), NEW g,
         HostsGrow(h, g), Len(g) = Len(h) + 1, Len(h) \in Nat, DOMAIN g = 1 .. Len(g), DOMAIN h = 1 .. Len(h),
         NEW e \in Known, e.id = t.next, e.host = g[Len(g)], NEW u, Takes(t, u, e, t.next + 1)
  PROVE  /\ RosterOK(u, IF u.count > m THEN u.count ELSE m, g)
         /\ Ids(u) = Ids(t) \cup {e.id}
<1>1. /\ t \in Tables /\ Unique(t) /\ Named(t, h) /\ Counted(t)
      /\ t.next = Len(h) + 1 /\ InitialSize <= Len(t.slots)
      /\ m \in Nat /\ t.count <= m
  BY DEF RosterOK
<1>2. /\ u \in Tables /\ u.count = t.count + 1 /\ u.next = t.next + 1 /\ Len(t.slots) <= Len(u.slots)
      /\ \/ ~HasJunk(u) /\ t.count + 1 # Len(t.slots) /\ Len(u.slots) = Len(t.slots)
         \/ t.count + 1 = Len(t.slots) /\ Len(u.slots) = 2 * Len(t.slots)
  BY DEF Takes
<1>3. PICK k \in Nat \ {0} : Gains(t, u, k, e)
  BY DEF Takes
<1>4. /\ k \notin Used(t) /\ Used(u) = Used(t) \cup {k} /\ u.slots[k] = e
      /\ \A l \in Used(t) : u.slots[l] = t.slots[l]
  BY <1>3 DEF Gains
<1>5. \A l \in Used(t) : t.slots[l].id \in DOMAIN h /\ t.slots[l].id # e.id
  BY <1>1 DEF Named
<1>6. Unique(u)
  BY <1>1, <1>4, <1>5 DEF Unique
<1>7. Named(u, g)
  <2>1. e.id \in DOMAIN g /\ e.host = g[e.id]
    BY <1>1
  <2> QED
    BY <1>1, <1>4, <2>1, <1>5 DEF Named, HostsGrow
<1>8. /\ Len(t.slots) \in Nat /\ Len(u.slots) \in Nat /\ t.count \in Nat
      /\ t.count = Cardinality(Used(t)) /\ t.count < Len(t.slots)
  BY <1>1, <1>2, TableIs DEF Counted
<1>9. Counted(u)
  <2>1. IsFiniteSet(Used(t))
    BY <1>1, TableIs
  <2>2. Cardinality(Used(u)) = t.count + 1
    <3>1. Cardinality(Used(t) \cup {k}) = Cardinality(Used(t)) + 1
      BY <1>4, <2>1, FS_AddElement
    <3> QED
      BY <1>4, <1>8, <3>1
  <2>3. t.count + 1 < Len(u.slots)
    BY <1>2, <1>8
  <2> QED
    BY <1>2, <2>2, <2>3 DEF Counted
<1>10. HasJunk(u) => InitialSize <= t.count + 1
  BY <1>1, <1>2
<1>11. Ids(u) = Ids(t) \cup {e.id}
  <2>1. Ids(u) = {u.slots[l].id : l \in Used(u)} /\ Ids(t) = {t.slots[l].id : l \in Used(t)}
    BY <1>1, <1>2, EntryIs
  <2> QED
    BY <1>4, <2>1
<1> DEFINE n == IF u.count > m THEN u.count ELSE m
<1>12. n \in Nat /\ t.count + 1 <= n /\ InitialSize \in Nat
  BY <1>1, <1>2, <1>8, PeerNetworkAssumption
<1>13. u.count <= n /\ InitialSize <= Len(u.slots) /\ (HasJunk(u) => InitialSize <= n)
       /\ u.next = Len(g) + 1
  BY <1>1, <1>2, <1>8, <1>10, <1>12
<1> HIDE DEF n
<1>14. RosterOK(u, n, g)
  BY <1>2, <1>6, <1>7, <1>9, <1>12, <1>13 DEF RosterOK
<1> QED
  BY <1>11, <1>14 DEF n

LEMMA RosterLoses ==
  ASSUME NEW t, NEW m, NEW h, RosterOK(t, m, h), ~HasJunk(t), NEW id, KnownId(t, id)
  PROVE  RosterOK(DeletePeer(t, id), m, h) /\ Ids(DeletePeer(t, id)) = Ids(t) \ {id}
<1> DEFINE u == DeletePeer(t, id)
<1>1. /\ t \in Tables /\ Unique(t) /\ Named(t, h) /\ Counted(t)
      /\ t.next = Len(h) + 1 /\ InitialSize <= Len(t.slots)
      /\ m \in Nat /\ t.count <= m
  BY DEF RosterOK
<1>2. /\ IsFiniteSet(Used(t)) /\ Cardinality(Used(t)) \in Nat /\ Len(t.slots) \in Nat
      /\ t.count = Cardinality(Used(t)) /\ t.count < Len(t.slots)
  BY <1>1, TableIs DEF Counted
<1>3. t.count \in Nat \ {0}
  <2>1. Used(t) # {}
    BY <1>1, LookupIs
  <2> QED
    BY <1>2, <2>1, FS_EmptySet
<1>4. Loses(t, u, id)
  BY <1>1, <1>3, DeletePeerIs
<1> HIDE DEF u
<1>5. /\ u \in Tables /\ u.next = t.next /\ Len(u.slots) = Len(t.slots) /\ u.count = t.count - 1 /\ ~HasJunk(u)
  BY <1>4 DEF Loses
<1>6. PICK k \in Used(t) : /\ t.slots[k].id = id /\ Used(u) = Used(t) \ {k}
                           /\ \A l \in Used(u) : u.slots[l] = t.slots[l]
  BY <1>4 DEF Loses
<1>7. Unique(u) /\ Named(u, h)
  BY <1>1, <1>6 DEF Unique, Named
<1>8. Cardinality(Used(u)) = t.count - 1
  BY <1>2, <1>6, FS_RemoveElement
<1>9. Counted(u) /\ u.count <= m
  BY <1>1, <1>2, <1>5, <1>8 DEF Counted
<1>10. Ids(u) = Ids(t) \ {id}
  <2>1. Ids(u) = {u.slots[l].id : l \in Used(u)} /\ Ids(t) = {t.slots[l].id : l \in Used(t)}
    BY <1>1, <1>5, EntryIs
  <2> QED
    BY <1>1, <1>6, <2>1 DEF Unique
<1>11. RosterOK(u, m, h)
  BY <1>1, <1>5, <1>7, <1>9 DEF RosterOK
<1> QED
  BY <1>10, <1>11 DEF u

-----------------------------------------------------------------------------
(***************************************************************************)
(* Sockets                                                                 *)
(***************************************************************************)
Tokens == {EOF} \cup Messages
Lines == Seq(Tokens)
SocketSet == [of : Processes, in : Lines, shut : BOOLEAN]
SocksOK(S, h) ==
  /\ S \in Seq(SocketSet) /\ Len(S) % 2 = 0
  /\ \A s \in 1 .. Len(S) : S[s].of \in DOMAIN h

(* Sockets stay with their process; R may have more of them than S. *)
SocksGrow(S, R) ==
  /\ R \in Seq(SocketSet) /\ Len(S) <= Len(R)
  /\ \A s \in 1 .. Len(S) : R[s].of = S[s].of
Shuts(S, R, X) == \A s \in 1 .. Len(S) : R[s].shut = IF s \in X THEN TRUE ELSE S[s].shut

(* A line after a step in which nothing is sent: as it was, dropped, or    *)
(* with the end of the stream.                                             *)
Less(q, r) == r = q \/ r = <<>> \/ r = Append(q, EOF)

LEMMA TokenIs ==
  /\ EOF \in Tokens /\ EOF.type = "eof" /\ EOF \notin Messages
  /\ \A m \in Messages : /\ m \in Tokens /\ m.type \in {"ask", "answer"} /\ m.job \in 1 .. MaxAsks
                         /\ m.origin \in Processes /\ m.peer \in Processes
  /\ \A m \in Tokens : m.type # "eof" => m \in Messages
<1>1. EOF.type = "eof"
  BY DEF EOF
<1>2. \A m \in Messages : /\ m.type \in {"ask", "answer"} /\ m.job \in 1 .. MaxAsks
                          /\ m.origin \in Processes /\ m.peer \in Processes
  BY DEF Messages
<1>3. EOF \notin Messages
  BY <1>1, <1>2
<1> QED
  BY <1>1, <1>2, <1>3 DEF Tokens

LEMMA SocketIs ==
  ASSUME NEW S \in Seq(SocketSet)
  PROVE  /\ Len(S) \in Nat /\ DOMAIN S = 1 .. Len(S)
         /\ \A s \in 1 .. Len(S) : /\ S[s] \in SocketSet /\ S[s].of \in Processes
                                   /\ S[s].in \in Lines /\ S[s].shut \in BOOLEAN
<1>1. \A s \in 1 .. Len(S) : S[s] \in SocketSet
  BY ElementOfSeq
<1> QED
  BY <1>1, LenProperties DEF SocketSet

LEMMA MateIs ==
  ASSUME NEW S \in Seq(SocketSet), Len(S) % 2 = 0, NEW s \in 1 .. Len(S)
  PROVE  Mate(s) \in 1 .. Len(S) /\ Mate(Mate(s)) = s /\ Mate(s) # s
<1>1. Len(S) \in Nat /\ s \in Nat
  BY SocketIs
<1>2. CASE s % 2 = 1
  <2>1. Mate(s) = s + 1 /\ (s + 1) % 2 = 0 /\ s # Len(S)
    BY <1>1, <1>2 DEF Mate
  <2> QED
    BY <1>1, <2>1 DEF Mate
<1>3. CASE s % 2 # 1
  <2>1. Mate(s) = s - 1 /\ (s - 1) % 2 = 1 /\ s # 1
    BY <1>1, <1>3 DEF Mate
  <2> QED
    BY <1>1, <2>1 DEF Mate
<1> QED
  BY <1>2, <1>3

(* One message more at socket s, where w. *)
Gets(S, R, s, m, w) ==
  /\ SocksGrow(S, R) /\ Len(R) = Len(S) /\ Shuts(S, R, {})
  /\ \A u \in 1 .. Len(S) : R[u].in = IF w /\ u = s THEN Append(S[u].in, m) ELSE S[u].in

LEMMA DeliveredIs ==
  ASSUME NEW S \in Seq(SocketSet), NEW s \in 1 .. Len(S), NEW m \in Tokens
  PROVE  Gets(S, Delivered(S, s, m), s, m, WatchedSocket(s))
<1>0. Len(S) \in Nat /\ S[s] \in SocketSet /\ S[s].in \in Lines
  BY SocketIs
<1>1. CASE ~WatchedSocket(s)
  <2>1. Delivered(S, s, m) = S
    BY <1>1 DEF Delivered
  <2> QED
    BY <1>0, <1>1, <2>1 DEF Gets, SocksGrow, Shuts
<1>2. CASE WatchedSocket(s)
  <2> DEFINE e == [S[s] EXCEPT !.in = Append(S[s].in, m)]
             R == [S EXCEPT ![s] = e]
  <2>1. Delivered(S, s, m) = R
    BY <1>2 DEF Delivered
  <2>2. Append(S[s].in, m) \in Lines
    BY <1>0, AppendProperties DEF Lines
  <2>3. e \in SocketSet /\ e.of = S[s].of /\ e.shut = S[s].shut /\ e.in = Append(S[s].in, m)
    BY <1>0, <2>2 DEF SocketSet
  <2> HIDE DEF e
  <2>4. R \in Seq(SocketSet) /\ Len(R) = Len(S) /\ \A u \in 1 .. Len(S) : R[u] = IF u = s THEN e ELSE S[u]
    BY <2>3, ExceptSeq
  <2> HIDE DEF R
  <2>5. SocksGrow(S, R) /\ Shuts(S, R, {})
    BY <1>0, <2>3, <2>4 DEF SocksGrow, Shuts
  <2>6. \A u \in 1 .. Len(S) : R[u].in = IF u = s THEN Append(S[u].in, m) ELSE S[u].in
    BY <2>3, <2>4
  <2>7. Gets(S, R, s, m, TRUE)
    BY <2>4, <2>5, <2>6 DEF Gets
  <2> QED
    BY <1>2, <2>1, <2>7 DEF Gets
<1> QED
  BY <1>1, <1>2

(* The lines of the sockets of X dropped. *)
Drops(S, R, X) ==
  /\ SocksGrow(S, R) /\ Len(R) = Len(S) /\ Shuts(S, R, {})
  /\ \A u \in 1 .. Len(S) : R[u].in = IF u \in X THEN <<>> ELSE S[u].in

LEMMA DrainedIs ==
  ASSUME NEW S \in Seq(SocketSet), NEW X
  PROVE  Drops(S, Drained(S, X), X)
<1> DEFINE E(s) == IF s \in X THEN [S[s] EXCEPT !.in = <<>>] ELSE S[s]
           R == Drained(S, X)
<1>1. Len(S) \in Nat /\ DOMAIN S = 1 .. Len(S) /\ \A s \in 1 .. Len(S) : S[s] \in SocketSet
  BY SocketIs
<1>2. <<>> \in Lines
  BY DEF Lines
<1>3. \A s \in 1 .. Len(S) : /\ E(s) \in SocketSet /\ E(s).of = S[s].of /\ E(s).shut = S[s].shut
                              /\ E(s).in = IF s \in X THEN <<>> ELSE S[s].in
  BY <1>1, <1>2 DEF SocketSet
<1>4. R = [s \in 1 .. Len(S) |-> E(s)]
  BY <1>1 DEF Drained
<1> HIDE DEF E, R
<1>5. R \in [1 .. Len(S) -> SocketSet] /\ \A s \in 1 .. Len(S) : R[s] = E(s)
  BY <1>3, <1>4
<1>6. R \in Seq(SocketSet) /\ Len(R) = Len(S)
  BY <1>1, <1>5
<1>7. Drops(S, R, X)
  BY <1>1, <1>3, <1>5, <1>6 DEF Drops, SocksGrow, Shuts
<1> QED
  BY <1>7 DEF R

(* Socket s closed; the other end hears of it, where w. *)
Closes(S, R, s, w) ==
  /\ SocksGrow(S, R) /\ Len(R) = Len(S) /\ Shuts(S, R, {s})
  /\ \A u \in 1 .. Len(S) : R[u].in = IF u = s THEN <<>>
                                      ELSE IF w /\ u = Mate(s) THEN Append(S[u].in, EOF) ELSE S[u].in

LEMMA ShutIs ==
  ASSUME socks \in Seq(SocketSet), Len(socks) % 2 = 0, NEW s \in 1 .. Len(socks)
  PROVE  Closes(socks, Shut(s), s, WatchedSocket(Mate(s)))
<1> DEFINE A == Delivered(socks, Mate(s), EOF)
           e == [A[s] EXCEPT !.shut = TRUE]
           B == [A EXCEPT ![s] = e]
           R == Shut(s)
           w == WatchedSocket(Mate(s))
<1>1. Mate(s) \in 1 .. Len(socks) /\ Mate(s) # s
  BY MateIs
<1>2. Gets(socks, A, Mate(s), EOF, w)
  BY <1>1, TokenIs, DeliveredIs
<1>3. R = Drained(B, {s})
  BY DEF Shut
<1> HIDE DEF A, R, w
<1>4. A \in Seq(SocketSet) /\ Len(A) = Len(socks)
  BY <1>2 DEF Gets, SocksGrow
<1>5. A[s] \in SocketSet
  BY <1>4, SocketIs
<1>6. e \in SocketSet /\ e.of = A[s].of /\ e.shut = TRUE /\ e.in = A[s].in
  BY <1>5 DEF SocketSet
<1> HIDE DEF e
<1>7. B \in Seq(SocketSet) /\ Len(B) = Len(A) /\ \A u \in 1 .. Len(A) : B[u] = IF u = s THEN e ELSE A[u]
  BY <1>4, <1>6, ExceptSeq
<1> HIDE DEF B
<1>8. Drops(B, R, {s})
  BY <1>3, <1>7, DrainedIs
<1>9. R \in Seq(SocketSet) /\ Len(R) = Len(socks) /\ Len(socks) \in Nat
  BY <1>4, <1>7, <1>8, SocketIs DEF Drops, SocksGrow
<1>10. ASSUME NEW u \in 1 .. Len(socks)
       PROVE  /\ R[u].of = socks[u].of
              /\ R[u].shut = IF u \in {s} THEN TRUE ELSE socks[u].shut
              /\ R[u].in = IF u = s THEN <<>>
                           ELSE IF w /\ u = Mate(s) THEN Append(socks[u].in, EOF) ELSE socks[u].in
  <2>1. R[u].of = B[u].of /\ R[u].shut = B[u].shut /\ R[u].in = IF u \in {s} THEN <<>> ELSE B[u].in
    BY <1>4, <1>7, <1>8 DEF Drops, SocksGrow, Shuts
  <2>2. /\ A[u].of = socks[u].of /\ A[u].shut = socks[u].shut
        /\ A[u].in = IF w /\ u = Mate(s) THEN Append(socks[u].in, EOF) ELSE socks[u].in
    BY <1>2 DEF Gets, SocksGrow, Shuts
  <2>3. B[u].of = A[u].of /\ B[u].shut = IF u = s THEN TRUE ELSE A[u].shut
    BY <1>4, <1>6, <1>7
  <2>4. u # s => B[u].in = A[u].in
    BY <1>4, <1>7
  <2> QED
    BY <2>1, <2>2, <2>3, <2>4
<1>11. SocksGrow(socks, R) /\ Shuts(socks, R, {s})
  <2>1. \A u \in 1 .. Len(socks) : R[u].of = socks[u].of
    BY <1>10
  <2>2. \A u \in 1 .. Len(socks) : R[u].shut = IF u \in {s} THEN TRUE ELSE socks[u].shut
    BY <1>10
  <2>3. Len(socks) <= Len(R)
    BY <1>9
  <2>4. SocksGrow(socks, R)
    BY <1>9, <2>1, <2>3 DEF SocksGrow
  <2>5. Shuts(socks, R, {s})
    BY <2>2 DEF Shuts
  <2> QED
    BY <2>4, <2>5
<1>12. \A u \in 1 .. Len(socks) :
         R[u].in = IF u = s THEN <<>>
                   ELSE IF w /\ u = Mate(s) THEN Append(socks[u].in, EOF) ELSE socks[u].in
  BY <1>10
<1>13. Closes(socks, R, s, w)
  BY <1>9, <1>11, <1>12 DEF Closes
<1> QED
  BY <1>13 DEF R, w

-----------------------------------------------------------------------------
(***************************************************************************)
(* The invariant: what each process holds, and who holds which socket.     *)
(***************************************************************************)
Own(S, i, s) == s \in 1 .. Len(S) /\ S[s].of = i /\ ~S[s].shut

(* Table t and backlog q of process i: its open sockets, each in one       *)
(* place; a slot's leads to a process where the slot's own ran.            *)
Plugged(t, q, i, S, h) ==
  /\ \A n \in 1 .. Len(q) : Own(S, i, q[n])
  /\ \A n, l \in 1 .. Len(q) : q[n] = q[l] => n = l
  /\ \A k \in Used(t) : t.slots[k].sock # -1 =>
       /\ Own(S, i, t.slots[k].sock)
       /\ \A n \in 1 .. Len(q) : q[n] # t.slots[k].sock
       /\ h[S[Mate(t.slots[k].sock)].of] = t.slots[k].host
  /\ \A k, l \in Used(t) : t.slots[k].sock # -1 /\ t.slots[k].sock = t.slots[l].sock => k = l

Procs == [peers : Tables, heard : SUBSET Nat, asked : Seq(Processes), asks : Seq(Messages),
          todo : Seq(Messages), answers : Seq(Messages), got : Seq(Messages)]

(* What the logic heard, of a process in state st. *)
Heard(p, st) ==
  /\ st \in {"none", "up"} => p.heard = Ids(p.peers)
  /\ st = "astray" => Cardinality(p.heard \ Ids(p.peers)) >= 2 * Cardinality(Ids(p.peers))

ProcOK(p, q, i, S, h, st) ==
  /\ p \in Procs /\ q \in Seq(Nat) /\ TableOK(p.peers, h) /\ Heard(p, st) /\ Plugged(p.peers, q, i, S, h)

StateOf(i) == IF i \in Started THEN state[i] ELSE "none"

TypeInv ==
  /\ host \in Seq(Hosts) /\ Len(host) <= MaxStarts
  /\ state \in Seq({"up", "killed", "astray", "gone"}) /\ Len(state) = Len(host)
  /\ told \in [Processes -> Nat]
  /\ posted \in [Processes -> Seq(Seq(Items))]
  /\ DOMAIN proc = Processes /\ DOMAIN accepts = Processes
  /\ proc = [i \in Processes |-> proc[i]] /\ accepts = [i \in Processes |-> accepts[i]]
PostedInv == \A i \in Processes : \A n \in 1 .. Len(posted[i]) : BufferOK(posted[i][n], host)
ProcInv == \A i \in Processes : ProcOK(proc[i], accepts[i], i, socks, host, StateOf(i))
PeerInv == TypeInv /\ RosterOK(roster, most, host) /\ PostedInv /\ SocksOK(socks, host) /\ ProcInv

(* Plugged is what was, but for the sockets of X. *)
LEMMA PluggedKeeps ==
  ASSUME NEW t \in Tables, NEW q \in Seq(Nat), NEW i, NEW S, NEW h, NEW R, NEW g,
         SocksOK(S, h), Plugged(t, q, i, S, h), SocksGrow(S, R), HostsGrow(h, g),
         NEW X, \A n \in 1 .. Len(q) : q[n] \notin X, \A k \in Used(t) : t.slots[k].sock \notin X,
         \A s \in 1 .. Len(S) : S[s].of = i /\ s \notin X => R[s].shut = S[s].shut
  PROVE  Plugged(t, q, i, R, g)
<1>1. S \in Seq(SocketSet) /\ Len(S) % 2 = 0 /\ R \in Seq(SocketSet)
  BY DEF SocksOK, SocksGrow
<1>2. Len(S) \in Nat /\ Len(R) \in Nat /\ Len(S) <= Len(R)
  BY <1>1, SocketIs DEF SocksGrow
<1>3. \A s : Own(S, i, s) /\ s \notin X => Own(R, i, s)
  BY <1>2 DEF Own, SocksGrow
<1>4. ASSUME NEW s \in 1 .. Len(S) PROVE g[R[Mate(s)].of] = h[S[Mate(s)].of]
  <2>1. Mate(s) \in 1 .. Len(S)
    BY <1>1, MateIs
  <2> QED
    BY <2>1 DEF SocksGrow, SocksOK, HostsGrow
<1>5. ASSUME NEW k \in Used(t), t.slots[k].sock # -1
      PROVE  /\ Own(R, i, t.slots[k].sock)
             /\ \A n \in 1 .. Len(q) : q[n] # t.slots[k].sock
             /\ g[R[Mate(t.slots[k].sock)].of] = t.slots[k].host
  <2>1. /\ Own(S, i, t.slots[k].sock)
        /\ \A n \in 1 .. Len(q) : q[n] # t.slots[k].sock
        /\ h[S[Mate(t.slots[k].sock)].of] = t.slots[k].host
    BY <1>5 DEF Plugged
  <2> DEFINE x == t.slots[k].sock
  <2>2. x \in 1 .. Len(S)
    BY <2>1 DEF Own
  <2>3. g[R[Mate(x)].of] = h[S[Mate(x)].of]
    BY <1>4, <2>2
  <2>4. Own(R, i, x)
    BY <1>3, <2>1
  <2> QED
    BY <2>1, <2>3, <2>4
<1>6. \A n \in 1 .. Len(q) : Own(R, i, q[n])
  BY <1>3 DEF Plugged
<1> QED
  BY <1>5, <1>6 DEF Plugged

LEMMA ProcKeeps ==
  ASSUME NEW p, NEW q, NEW i, NEW S, NEW h, NEW st, ProcOK(p, q, i, S, h, st),
         NEW R, NEW g, SocksOK(S, h), SocksGrow(S, R), HostsGrow(h, g),
         \A s \in 1 .. Len(S) : S[s].of = i => R[s].shut = S[s].shut
  PROVE  ProcOK(p, q, i, R, g, st)
<1>1. p \in Procs /\ q \in Seq(Nat) /\ TableOK(p.peers, h) /\ Heard(p, st) /\ Plugged(p.peers, q, i, S, h)
      /\ p.peers \in Tables
  BY DEF ProcOK, TableOK
<1>2. TableOK(p.peers, g)
  BY <1>1, TableGrows
<1>3. Plugged(p.peers, q, i, R, g)
  <2> DEFINE X == {}
  <2>1. /\ \A n \in 1 .. Len(q) : q[n] \notin X
        /\ \A k \in Used(p.peers) : p.peers.slots[k].sock \notin X
        /\ \A s \in 1 .. Len(S) : S[s].of = i /\ s \notin X => R[s].shut = S[s].shut
    OBVIOUS
  <2> HIDE DEF X
  <2> QED
    BY <1>1, <2>1, PluggedKeeps
<1> QED
  BY <1>1, <1>2, <1>3 DEF ProcOK

(* Another socket in slot k, or none. *)
LEMMA PluggedAnew ==
  ASSUME NEW t \in Tables, NEW q, NEW i, NEW S, NEW h, Plugged(t, q, i, S, h),
         NEW k \in Used(t), NEW s \in Int, NEW u, Rewired(t, u, k, s),
         s # -1 => /\ Own(S, i, s) /\ \A n \in 1 .. Len(q) : q[n] # s
                   /\ \A l \in Used(t) : t.slots[l].sock # s
                   /\ h[S[Mate(s)].of] = t.slots[k].host
  PROVE  Plugged(u, q, i, S, h)
<1>1. /\ u \in Tables /\ Used(u) = Used(t)
      /\ \A l \in Used(t) : u.slots[l].host = t.slots[l].host
      /\ \A l \in Used(t) : u.slots[l].sock = IF l = k THEN s ELSE t.slots[l].sock
  BY DEF Rewired
<1>2. ASSUME NEW l \in Used(u), u.slots[l].sock # -1
      PROVE  /\ Own(S, i, u.slots[l].sock)
             /\ \A n \in 1 .. Len(q) : q[n] # u.slots[l].sock
             /\ h[S[Mate(u.slots[l].sock)].of] = u.slots[l].host
  <2>1. CASE l = k
    BY <1>1, <1>2, <2>1
  <2>2. CASE l # k
    <3>1. u.slots[l].sock = t.slots[l].sock /\ u.slots[l].host = t.slots[l].host /\ l \in Used(t)
      BY <1>1, <2>2
    <3> QED
      BY <1>2, <3>1 DEF Plugged
  <2> QED
    BY <2>1, <2>2
<1>3. \A l, m \in Used(u) : u.slots[l].sock # -1 /\ u.slots[l].sock = u.slots[m].sock => l = m
  BY <1>1 DEF Plugged
<1>4. /\ \A n \in 1 .. Len(q) : Own(S, i, q[n])
      /\ \A n, l \in 1 .. Len(q) : q[n] = q[l] => n = l
  BY DEF Plugged
<1> QED
  BY <1>2, <1>3, <1>4 DEF Plugged

LEMMA RewiredOK ==
  ASSUME NEW t, NEW h, TableOK(t, h), NEW k, NEW s, NEW u, Rewired(t, u, k, s)
  PROVE  TableOK(u, h) /\ Ids(u) = Ids(t)
<1>1. /\ u \in Tables /\ t \in Tables /\ Used(u) = Used(t) /\ (HasJunk(u) <=> HasJunk(t))
      /\ \A l \in Used(t) : u.slots[l].id = t.slots[l].id /\ u.slots[l].host = t.slots[l].host
  BY DEF Rewired, TableOK
<1>2. Ids(u) = {u.slots[l].id : l \in Used(u)} /\ Ids(t) = {t.slots[l].id : l \in Used(t)}
  BY <1>1, EntryIs
<1>3. Ids(u) = Ids(t)
  BY <1>1, <1>2
<1>4. Unique(u)
  BY <1>1 DEF Unique, TableOK
<1>5. Named(u, h)
  BY <1>1 DEF Named, TableOK
<1> QED
  BY <1>1, <1>3, <1>4, <1>5 DEF TableOK

-----------------------------------------------------------------------------
(***************************************************************************)
(* The steps, one lemma for each.                                          *)
(***************************************************************************)
LEMMA PeerFacts ==
  ASSUME PeerInv
  PROVE  /\ host \in Seq(Hosts) /\ Len(host) \in Nat /\ Started = 1 .. Len(host) /\ DOMAIN host = 1 .. Len(host)
         /\ Started \subseteq Processes /\ DOMAIN state = Started
         /\ socks \in Seq(SocketSet) /\ Len(socks) \in Nat /\ DOMAIN socks = 1 .. Len(socks)
         /\ DOMAIN proc = Processes /\ DOMAIN accepts = Processes
         /\ DOMAIN told = Processes /\ DOMAIN posted = Processes
         /\ HostsGrow(host, host) /\ SocksGrow(socks, socks)
<1>1. TypeInv /\ SocksOK(socks, host)
  BY DEF PeerInv
<1>2. host \in Seq(Hosts) /\ Len(host) \in Nat /\ DOMAIN host = 1 .. Len(host) /\ Len(host) <= MaxStarts
  BY <1>1, LenProperties DEF TypeInv
<1>3. MaxStarts \in Nat
  BY PeerNetworkAssumption
<1>4. DOMAIN state = 1 .. Len(host)
  BY <1>1, LenProperties DEF TypeInv
<1>5. socks \in Seq(SocketSet) /\ Len(socks) \in Nat /\ DOMAIN socks = 1 .. Len(socks)
  BY <1>1, LenProperties DEF SocksOK
<1>6. DOMAIN told = Processes /\ DOMAIN posted = Processes /\ DOMAIN proc = Processes /\ DOMAIN accepts = Processes
  BY <1>1 DEF TypeInv
<1> QED
  BY <1>2, <1>3, <1>4, <1>5, <1>6 DEF Started, Processes, HostsGrow, SocksGrow

LEMMA ProcFacts ==
  ASSUME PeerInv, NEW i \in Processes
  PROVE  /\ proc[i] \in Procs /\ accepts[i] \in Seq(Nat) /\ TableOK(proc[i].peers, host)
         /\ proc[i].peers \in Tables /\ Heard(proc[i], StateOf(i))
         /\ Plugged(proc[i].peers, accepts[i], i, socks, host)
BY DEF PeerInv, ProcInv, ProcOK, TableOK

States == {"up", "killed", "astray", "gone"}

(* A step of process i, by which no other is touched, but perhaps in its   *)
(* backlog.                                                                *)
LEMMA ProcessStep ==
  ASSUME PeerInv, NEW i \in Processes, UNCHANGED <<trackerSide, host>>,
         SocksGrow(socks, socks'), SocksOK(socks', host),
         \A s \in 1 .. Len(socks) : socks[s].of # i => socks'[s].shut = socks[s].shut,
         state' \in Seq(States), Len(state') = Len(state),
         \A j \in Started : j # i => state'[j] = state[j],
         DOMAIN proc' = Processes, proc' = [j \in Processes |-> proc'[j]],
         \A j \in Processes : j # i => proc'[j] = proc[j],
         DOMAIN accepts' = Processes, accepts' = [j \in Processes |-> accepts'[j]],
         \A j \in Processes : j # i => accepts'[j] = accepts[j]
                                       \/ ProcOK(proc[j], accepts'[j], j, socks', host, StateOf(j)),
         posted' \in [Processes -> Seq(Seq(Items))],
         \A j \in Processes : \A n \in 1 .. Len(posted'[j]) : BufferOK(posted'[j][n], host),
         ProcOK(proc'[i], accepts'[i], i, socks', host, StateOf(i)')
  PROVE  PeerInv'
<1>1. UNCHANGED <<roster, most, told, host>>
  BY DEF trackerSide
<1>2. TypeInv /\ RosterOK(roster, most, host)
  BY DEF PeerInv
<1>3. TypeInv'
  BY <1>1, <1>2 DEF TypeInv, States
<1>4. RosterOK(roster', most', host')
  BY <1>1, <1>2
<1>5. PostedInv'
  BY <1>1 DEF PostedInv
<1>6. SocksOK(socks', host')
  BY <1>1
<1>7. ProcInv'
  <2>1. ASSUME NEW j \in Processes, j # i
        PROVE  ProcOK(proc'[j], accepts'[j], j, socks', host, StateOf(j)')
    <3>1. StateOf(j)' = StateOf(j)
      BY <1>1, <2>1 DEF StateOf, Started
    <3>2. ProcOK(proc[j], accepts[j], j, socks, host, StateOf(j))
      BY DEF PeerInv, ProcInv
    <3>3. \A s \in 1 .. Len(socks) : socks[s].of = j => socks'[s].shut = socks[s].shut
      BY <2>1
    <3>4. ProcOK(proc[j], accepts[j], j, socks', host, StateOf(j))
      BY <3>2, <3>3, PeerFacts, ProcKeeps DEF PeerInv
    <3> QED
      BY <2>1, <3>1, <3>4
  <2> QED
    BY <1>1, <2>1 DEF ProcInv
<1> QED
  BY <1>3, <1>4, <1>5, <1>6, <1>7 DEF PeerInv

LEMMA PeerInitInv ==
  ASSUME PeerInit
  PROVE  PeerInv
<1>1. /\ roster = NewTable(InitialSize) /\ most = 0 /\ InitialSize \in Nat \ {0}
      /\ host = <<>> /\ state = <<>> /\ socks = <<>>
      /\ told = [i \in Processes |-> 0] /\ posted = [i \in Processes |-> <<>>]
      /\ proc = [i \in Processes |-> Process] /\ accepts = [i \in Processes |-> <<>>]
  BY PeerNetworkAssumption DEF PeerInit
<1>2. TypeInv
  <2>1. host \in Seq(Hosts) /\ Len(host) = 0 /\ MaxStarts \in Nat
    BY <1>1, PeerNetworkAssumption
  <2>2. state \in Seq(States) /\ Len(state) = 0
    BY <1>1
  <2>3. posted \in [Processes -> Seq(Seq(Items))]
    <3>1. <<>> \in Seq(Seq(Items))
      OBVIOUS
    <3> QED
      BY <1>1, <3>1
  <2> QED
    BY <1>1, <2>1, <2>2, <2>3 DEF TypeInv, States
<1>3. RosterOK(roster, most, host)
  <2>1. /\ roster \in Tables /\ Used(roster) = {} /\ ~HasJunk(roster) /\ roster.count = 0
        /\ roster.next = 1 /\ Len(roster.slots) = InitialSize
    BY <1>1, NewTableIs
  <2>2. Cardinality(Used(roster)) = 0
    BY <2>1, FS_EmptySet
  <2> QED
    BY <1>1, <2>1, <2>2 DEF RosterOK, Unique, Named, Counted
<1>4. PostedInv
  BY <1>1 DEF PostedInv
<1>5. SocksOK(socks, host)
  BY <1>1 DEF SocksOK
<1>6. ASSUME NEW i \in Processes PROVE ProcOK(proc[i], accepts[i], i, socks, host, StateOf(i))
  <2> DEFINE t == NewTable(InitialSize)
  <2>1. proc[i] = Process /\ accepts[i] = <<>> /\ accepts[i] \in Seq(Nat) /\ Len(accepts[i]) = 0
    BY <1>1
  <2>2. StateOf(i) = "none"
    BY <1>1 DEF StateOf, Started
  <2>3. TableOK(t, host) /\ t \in Tables /\ Ids(t) = {} /\ Used(t) = {}
    BY <1>1, NewTableOK, NewTableIs
  <2>4. Process.peers = t /\ Process.heard = {}
    BY DEF Process
  <2> HIDE DEF t
  <2>5. Process \in Procs
    <3>1. Process = [peers |-> t, heard |-> {}, asked |-> <<>>, asks |-> <<>>, todo |-> <<>>,
                     answers |-> <<>>, got |-> <<>>]
      BY DEF Process, t
    <3>2. <<>> \in Seq(Processes) /\ <<>> \in Seq(Messages)
      OBVIOUS
    <3> QED
      BY <2>3, <3>1, <3>2 DEF Procs
  <2>6. Heard(Process, "none")
    BY <2>3, <2>4 DEF Heard
  <2>7. Plugged(t, accepts[i], i, socks, host)
    BY <2>1, <2>3 DEF Plugged
  <2> QED
    BY <2>1, <2>2, <2>3, <2>4, <2>5, <2>6, <2>7 DEF ProcOK
<1>7. ProcInv
  BY <1>6 DEF ProcInv
<1> QED
  BY <1>2, <1>3, <1>4, <1>5, <1>7 DEF PeerInv

(* A step of the tracker, by which roster and posts may change. *)
LEMMA TrackerStep ==
  ASSUME PeerInv, UNCHANGED <<host, state, proc, accepts, socks>>, RosterOK(roster', most', host),
         told' \in [Processes -> Nat], posted' \in [Processes -> Seq(Seq(Items))],
         \A j \in Processes : \A n \in 1 .. Len(posted'[j]) : BufferOK(posted'[j][n], host)
  PROVE  PeerInv'
<1>1. TypeInv'
  BY DEF PeerInv, TypeInv
<1>2. PostedInv'
  BY DEF PostedInv
<1>3. SocksOK(socks', host')
  BY DEF PeerInv
<1>4. ProcInv'
  BY DEF PeerInv, ProcInv, StateOf, Started
<1> QED
  BY <1>1, <1>2, <1>3, <1>4 DEF PeerInv

(* One more table posted to i, or one less. *)
LEMMA PostedMore ==
  ASSUME NEW P \in [Processes -> Seq(Seq(Items))], NEW h,
         \A j \in Processes : \A n \in 1 .. Len(P[j]) : BufferOK(P[j][n], h),
         NEW i \in Processes, NEW b \in Seq(Items), BufferOK(b, h), NEW Q, Q = [P EXCEPT ![i] = Append(@, b)]
  PROVE  /\ Q \in [Processes -> Seq(Seq(Items))]
         /\ \A j \in Processes : \A n \in 1 .. Len(Q[j]) : BufferOK(Q[j][n], h)
<1>1. P[i] \in Seq(Seq(Items)) /\ Len(P[i]) \in Nat
  BY LenProperties
<1>2. /\ Append(P[i], b) \in Seq(Seq(Items)) /\ Len(Append(P[i], b)) = Len(P[i]) + 1
      /\ \A n \in 1 .. Len(P[i]) : Append(P[i], b)[n] = P[i][n]
      /\ Append(P[i], b)[Len(P[i]) + 1] = b
  BY <1>1, AppendProperties
<1>3. ASSUME NEW n \in 1 .. Len(Append(P[i], b)) PROVE BufferOK(Append(P[i], b)[n], h)
  <2>1. CASE n = Len(P[i]) + 1
    BY <1>2, <2>1
  <2>2. CASE n \in 1 .. Len(P[i])
    BY <1>2, <2>2
  <2> QED
    BY <1>1, <1>2, <2>1, <2>2
<1>4. Q \in [Processes -> Seq(Seq(Items))] /\ Q[i] = Append(P[i], b) /\ \A j \in Processes : j # i => Q[j] = P[j]
  BY <1>2
<1> QED
  BY <1>3, <1>4

LEMMA PostedLess ==
  ASSUME NEW P \in [Processes -> Seq(Seq(Items))], NEW h,
         \A j \in Processes : \A n \in 1 .. Len(P[j]) : BufferOK(P[j][n], h),
         NEW i \in Processes, P[i] # <<>>, NEW Q, Q = [P EXCEPT ![i] = Tail(@)]
  PROVE  /\ Q \in [Processes -> Seq(Seq(Items))] /\ BufferOK(Head(P[i]), h)
         /\ \A j \in Processes : \A n \in 1 .. Len(Q[j]) : BufferOK(Q[j][n], h)
<1>1. P[i] \in Seq(Seq(Items)) /\ Len(P[i]) \in Nat
  BY LenProperties
<1>2. /\ Tail(P[i]) \in Seq(Seq(Items)) /\ Len(Tail(P[i])) = Len(P[i]) - 1 /\ Head(P[i]) = P[i][1]
      /\ \A n \in 1 .. Len(Tail(P[i])) : Tail(P[i])[n] = P[i][n + 1]
      /\ 1 \in 1 .. Len(P[i])
  BY <1>1, HeadTailProperties, EmptySeq
<1>3. ASSUME NEW n \in 1 .. Len(Tail(P[i])) PROVE BufferOK(Tail(P[i])[n], h)
  <2>1. n + 1 \in 1 .. Len(P[i])
    BY <1>1, <1>2
  <2> QED
    BY <1>2, <2>1
<1>4. Q \in [Processes -> Seq(Seq(Items))] /\ Q[i] = Tail(P[i]) /\ \A j \in Processes : j # i => Q[j] = P[j]
  BY <1>2
<1> QED
  BY <1>2, <1>3, <1>4

LEMMA ToldIs ==
  ASSUME PeerInv, NEW i
  PROVE  ToldOthers(i) \in [Processes -> Nat]
BY DEF ToldOthers, PeerInv, TypeInv

LEMMA AddPeerIs ==
  ASSUME NEW t \in Tables, Unique(t), Counted(t), ~HasJunk(t), t.next \in Nat \ {0}, NEW h \in Hosts,
         NEW s \in Int, NEW u \in AddPeer(t, h, s)
  PROVE  Takes(t, u, Peer(t.next, h, s), t.next + 1)
<1> DEFINE e == Peer(t.next, h, s)
           n == t.next + 1
<1>1. e \in Known /\ n \in Nat
  BY KnownIs
<1>2. Room(t)
  <2>1. Len(t.slots) \in Nat /\ Cardinality(Used(t)) < Len(t.slots)
    BY TableIs DEF Counted
  <2> QED
    BY <2>1 DEF Room
<1>3. Holes(t) # {}
  BY <1>1, <1>2, FilledIs
<1>4. [t EXCEPT !.slots[First(Holes(t))] = e, !.count = @ + 1, !.next = @ + 1] = Filled(t, e, n)
  BY DEF Filled
<1>5. u \in Grown(Filled(t, e, n))
  BY <1>3, <1>4 DEF AddPeer
<1> HIDE DEF e, n
<1>6. Takes(t, u, e, n)
  BY <1>1, <1>2, <1>5, FilledGrown
<1> QED
  BY <1>6 DEF e, n

(* A process more: the next id, and the roster has it. *)
LEMMA StartsIs ==
  ASSUME PeerInv, NEW h \in Hosts, Starts(h)
  PROVE  /\ roster.next = Len(host) + 1 /\ Len(host) + 1 \in Processes /\ Len(host) \in Nat
         /\ Started = 1 .. Len(host) /\ DOMAIN host = 1 .. Len(host)
         /\ host' \in Seq(Hosts) /\ Len(host') = Len(host) + 1 /\ DOMAIN host' = 1 .. Len(host')
         /\ host'[Len(host')] = h /\ HostsGrow(host, host')
         /\ state' \in Seq(States) /\ Len(state') = Len(host') /\ state'[Len(host')] = "up"
         /\ \A j \in 1 .. Len(host) : state'[j] = state[j]
         /\ RosterOK(roster', most', host') /\ Ids(roster') = Ids(roster) \cup {Len(host')}
<1> DEFINE i == roster.next
           e == Peer(i, h, i)
<1>1. /\ ~HasJunk(roster) /\ Len(host) < MaxStarts /\ roster' \in AddPeer(roster, h, i)
      /\ most' = IF roster'.count > most THEN roster'.count ELSE most
      /\ posted' = [posted EXCEPT ![i] = Append(@, Serialized(roster'))]
      /\ told' = ToldOthers(i) /\ host' = Append(host, h) /\ state' = Append(state, "up")
      /\ UNCHANGED <<proc, accepts, socks>>
  BY DEF Starts, TrackerWell
<1>2. TypeInv /\ RosterOK(roster, most, host) /\ PostedInv /\ SocksOK(socks, host) /\ ProcInv
  BY DEF PeerInv
<1>3. /\ i = Len(host) + 1 /\ i \in Processes /\ i \in Nat \ {0} /\ Len(host) \in Nat /\ MaxStarts \in Nat
      /\ Started = 1 .. Len(host) /\ DOMAIN host = 1 .. Len(host)
  BY <1>1, <1>2, PeerFacts, PeerNetworkAssumption DEF RosterOK, Processes
<1>4. /\ host' \in Seq(Hosts) /\ Len(host') = Len(host) + 1 /\ DOMAIN host' = 1 .. Len(host')
      /\ host'[Len(host')] = h /\ HostsGrow(host, host')
  BY <1>1, <1>3, PeerFacts, AppendProperties DEF HostsGrow
<1>5. /\ state \in Seq(States) /\ Len(state) = Len(host)
      /\ state' \in Seq(States) /\ Len(state') = Len(host') /\ state'[i] = "up"
      /\ \A j \in 1 .. Len(host) : state'[j] = state[j]
  <2>1. state \in Seq(States) /\ Len(state) = Len(host) /\ "up" \in States
    BY <1>2 DEF TypeInv, States
  <2> QED
    BY <1>1, <1>3, <1>4, <2>1, AppendProperties
<1>6. /\ RosterOK(roster', most', host') /\ Ids(roster') = Ids(roster) \cup {e.id}
  <2>1. roster \in Tables /\ Unique(roster) /\ Counted(roster)
    BY <1>2 DEF RosterOK
  <2>2. Takes(roster, roster', e, i + 1)
    BY <1>1, <1>3, <2>1, AddPeerIs
  <2>3. e \in Known /\ e.id = i /\ e.host = h
    BY <1>3, KnownIs
  <2> HIDE DEF e
  <2>4. e.id = roster.next /\ e.host = host'[Len(host')]
    BY <1>4, <2>3
  <2> DEFINE t == roster
             m == most
             f == host
             g == host'
             u == roster'
  <2>5. /\ RosterOK(t, m, f) /\ ~HasJunk(t) /\ HostsGrow(f, g) /\ Len(g) = Len(f) + 1 /\ Len(f) \in Nat
        /\ DOMAIN g = 1 .. Len(g) /\ DOMAIN f = 1 .. Len(f) /\ e.id = t.next /\ e.host = g[Len(g)]
        /\ Takes(t, u, e, t.next + 1)
    BY <1>1, <1>2, <1>3, <1>4, <2>2, <2>4
  <2> HIDE DEF t, m, f, g, u
  <2>6. /\ RosterOK(u, IF u.count > m THEN u.count ELSE m, g)
        /\ Ids(u) = Ids(t) \cup {e.id}
    BY <2>3, <2>5, RosterTakes
  <2> QED
    BY <1>1, <2>6 DEF t, m, g, u
<1>7. e.id = Len(host')
  BY <1>3, <1>4, KnownIs
<1> QED
  BY <1>3, <1>4, <1>5, <1>6, <1>7

LEMMA StartsKeeps ==
  ASSUME PeerInv, NEW h \in Hosts, Starts(h)
  PROVE  PeerInv'
<1> DEFINE i == roster.next
<1>1. /\ Len(host) < MaxStarts /\ posted' = [posted EXCEPT ![i] = Append(@, Serialized(roster'))]
      /\ told' = ToldOthers(i) /\ host' = Append(host, h) /\ UNCHANGED <<proc, accepts, socks>>
  BY DEF Starts
<1>2. TypeInv /\ RosterOK(roster, most, host) /\ PostedInv /\ SocksOK(socks, host) /\ ProcInv
  BY DEF PeerInv
<1>3. /\ i = Len(host) + 1 /\ i \in Processes /\ Len(host) \in Nat /\ MaxStarts \in Nat
      /\ Started = 1 .. Len(host) /\ DOMAIN host = 1 .. Len(host)
  BY StartsIs, PeerNetworkAssumption
<1>4. /\ host' \in Seq(Hosts) /\ Len(host') = Len(host) + 1 /\ DOMAIN host' = 1 .. Len(host')
      /\ HostsGrow(host, host')
  BY StartsIs
<1>5. /\ state' \in Seq(States) /\ Len(state') = Len(host') /\ state'[i] = "up"
      /\ \A j \in 1 .. Len(host) : state'[j] = state[j]
  BY <1>3, <1>4, StartsIs
<1>6. RosterOK(roster', most', host') /\ Ids(roster') # {}
  BY StartsIs
<1> HIDE DEF i
<1>7. /\ posted' \in [Processes -> Seq(Seq(Items))]
      /\ \A j \in Processes : \A n \in 1 .. Len(posted'[j]) : BufferOK(posted'[j][n], host')
  <2>1. roster' \in Tables /\ Unique(roster') /\ Named(roster', host')
    BY <1>6 DEF RosterOK
  <2>2. Used(roster') # {}
    <3>1. Ids(roster') = {roster'.slots[k].id : k \in Used(roster')}
      BY <2>1, EntryIs
    <3>2. Ids(roster') # {}
      BY <1>6
    <3> QED
      BY <3>1, <3>2
  <2>3. BufferOK(Serialized(roster'), host') /\ Serialized(roster') \in Seq(Items)
    BY <2>1, <2>2, SerializedOK DEF BufferOK, IsBuffer
  <2>4. \A j \in Processes : \A n \in 1 .. Len(posted[j]) : BufferOK(posted[j][n], host')
    BY <1>2, <1>4, BufferGrows DEF PostedInv
  <2>5. posted \in [Processes -> Seq(Seq(Items))]
    BY <1>2 DEF TypeInv
  <2> DEFINE b == Serialized(roster')
             P == posted
             Q == posted'
             g == host'
  <2>6. /\ b \in Seq(Items) /\ BufferOK(b, g) /\ P \in [Processes -> Seq(Seq(Items))]
        /\ Q = [P EXCEPT ![i] = Append(@, b)] /\ i \in Processes
    BY <1>1, <1>3, <2>3, <2>5
  <2>7. \A j \in Processes : \A n \in 1 .. Len(P[j]) : BufferOK(P[j][n], g)
    BY <2>4
  <2> HIDE DEF b, P, Q, g
  <2>8. /\ Q \in [Processes -> Seq(Seq(Items))]
        /\ \A j \in Processes : \A n \in 1 .. Len(Q[j]) : BufferOK(Q[j][n], g)
    BY <2>6, <2>7, PostedMore
  <2> QED
    BY <2>8 DEF Q, g
<1>8. TypeInv'
  BY <1>1, <1>2, <1>3, <1>4, <1>5, <1>7, ToldIs DEF TypeInv, States
<1>9. PostedInv'
  BY <1>7 DEF PostedInv
<1>10. SocksOK(socks', host')
  BY <1>1, <1>2, <1>4 DEF SocksOK, HostsGrow
<1>11. ASSUME NEW j \in Processes PROVE ProcOK(proc'[j], accepts'[j], j, socks', host', StateOf(j)')
  <2>1. ProcOK(proc[j], accepts[j], j, socks, host, StateOf(j))
    BY <1>2 DEF ProcInv
  <2>2. StateOf(j)' = StateOf(j) \/ (StateOf(j) = "none" /\ StateOf(j)' = "up")
    BY <1>3, <1>4, <1>5 DEF StateOf, Started
  <2>3. ProcOK(proc[j], accepts[j], j, socks, host, StateOf(j)')
    BY <2>1, <2>2 DEF ProcOK, Heard
  <2>4. ProcOK(proc[j], accepts[j], j, socks, host', StateOf(j)')
    BY <1>2, <1>4, <2>3, PeerFacts, ProcKeeps
  <2> QED
    BY <1>1, <2>4
<1>12. ProcInv'
  BY <1>11 DEF ProcInv
<1> QED
  BY <1>6, <1>8, <1>9, <1>10, <1>12 DEF PeerInv

LEMMA TrackerTellsKeeps ==
  ASSUME PeerInv, NEW i \in Processes, TrackerTells(i)
  PROVE  PeerInv'
<1>1. /\ told[i] > 0 /\ told' = [told EXCEPT ![i] = @ - 1]
      /\ UNCHANGED <<roster, most, host, state, proc, accepts, socks>>
      /\ posted' = IF KnownId(roster, i) /\ Open(i)
                     THEN [posted EXCEPT ![i] = Append(@, Serialized(roster))] ELSE posted
  BY DEF TrackerTells
<1>2. TypeInv /\ RosterOK(roster, most, host) /\ PostedInv
  BY DEF PeerInv
<1>3. told' \in [Processes -> Nat]
  BY <1>1, <1>2 DEF TypeInv
<1>4. posted \in [Processes -> Seq(Seq(Items))]
      /\ \A j \in Processes : \A n \in 1 .. Len(posted[j]) : BufferOK(posted[j][n], host)
  BY <1>2 DEF TypeInv, PostedInv
<1>5. posted' \in [Processes -> Seq(Seq(Items))]
      /\ \A j \in Processes : \A n \in 1 .. Len(posted'[j]) : BufferOK(posted'[j][n], host)
  <2>1. CASE ~(KnownId(roster, i) /\ Open(i))
    BY <1>1, <1>4, <2>1
  <2>2. CASE KnownId(roster, i) /\ Open(i)
    <3>1. roster \in Tables /\ Unique(roster) /\ Named(roster, host)
      BY <1>2 DEF RosterOK
    <3>2. Used(roster) # {}
      BY <2>2, <3>1, LookupIs
    <3>3. BufferOK(Serialized(roster), host) /\ Serialized(roster) \in Seq(Items)
      BY <3>1, <3>2, SerializedOK DEF BufferOK, IsBuffer
    <3> QED
      BY <1>1, <1>4, <2>2, <3>3, PostedMore
  <2> QED
    BY <2>1, <2>2
<1>6. RosterOK(roster', most', host)
  BY <1>1, <1>2
<1> QED
  BY <1>1, <1>3, <1>5, <1>6, TrackerStep

LEMMA TrackerLosesKeeps ==
  ASSUME PeerInv, NEW i \in Processes, TrackerLoses(i)
  PROVE  PeerInv'
<1>1. /\ ~HasJunk(roster) /\ KnownId(roster, i) /\ roster' = DeletePeer(roster, i) /\ told' = ToldOthers(i)
      /\ UNCHANGED <<most, posted, host, state, proc, accepts, socks>>
  BY DEF TrackerLoses, TrackerWell
<1>2. TypeInv /\ RosterOK(roster, most, host) /\ PostedInv
  BY DEF PeerInv
<1>3. RosterOK(roster', most', host)
  BY <1>1, <1>2, RosterLoses
<1>4. /\ posted' \in [Processes -> Seq(Seq(Items))]
      /\ \A j \in Processes : \A n \in 1 .. Len(posted'[j]) : BufferOK(posted'[j][n], host)
  BY <1>1, <1>2 DEF TypeInv, PostedInv
<1>5. told' \in [Processes -> Nat]
  BY <1>1, ToldIs
<1> QED
  BY <1>1, <1>3, <1>4, <1>5, TrackerStep

(* Puts p at i, and leaves the rest. *)
LEMMA PutAt ==
  ASSUME NEW P, DOMAIN P = Processes, P = [j \in Processes |-> P[j]], NEW i \in Processes, NEW p,
         NEW Q, Q = [P EXCEPT ![i] = p]
  PROVE  /\ DOMAIN Q = Processes /\ Q = [j \in Processes |-> Q[j]] /\ Q[i] = p
         /\ \A j \in Processes : j # i => Q[j] = P[j]
OBVIOUS

LEMMA SocksKeep ==
  ASSUME NEW S, NEW h, SocksOK(S, h), NEW R, SocksGrow(S, R), Len(R) = Len(S)
  PROVE  SocksOK(R, h)
BY DEF SocksOK, SocksGrow

(* The head of a backlog, taken off. *)
LEMMA BacklogIs ==
  ASSUME NEW t, NEW q \in Seq(Nat), q # <<>>, NEW i, NEW S, NEW h, Plugged(t, q, i, S, h)
  PROVE  /\ Own(S, i, Head(q)) /\ Head(q) \in Nat /\ Tail(q) \in Seq(Nat)
         /\ Plugged(t, Tail(q), i, S, h)
         /\ \A n \in 1 .. Len(Tail(q)) : Tail(q)[n] # Head(q)
         /\ \A k \in Used(t) : t.slots[k].sock # Head(q)
<1>1. /\ Tail(q) \in Seq(Nat) /\ Len(Tail(q)) = Len(q) - 1 /\ Head(q) = q[1] /\ Len(q) \in Nat
      /\ \A n \in 1 .. Len(Tail(q)) : Tail(q)[n] = q[n + 1]
      /\ 1 \in 1 .. Len(q) /\ Head(q) \in Nat
  BY HeadTailProperties, EmptySeq
<1>2. \A n \in 1 .. Len(Tail(q)) : n + 1 \in 1 .. Len(q) /\ n + 1 # 1
  BY <1>1
<1>3. /\ \A n \in 1 .. Len(q) : Own(S, i, q[n])
      /\ \A n, l \in 1 .. Len(q) : q[n] = q[l] => n = l
      /\ \A k \in Used(t) : t.slots[k].sock # -1 =>
           /\ Own(S, i, t.slots[k].sock)
           /\ \A n \in 1 .. Len(q) : q[n] # t.slots[k].sock
           /\ h[S[Mate(t.slots[k].sock)].of] = t.slots[k].host
      /\ \A k, l \in Used(t) : t.slots[k].sock # -1 /\ t.slots[k].sock = t.slots[l].sock => k = l
  BY DEF Plugged
<1>4. \A n \in 1 .. Len(Tail(q)) : Own(S, i, Tail(q)[n]) /\ Tail(q)[n] # Head(q)
  BY <1>1, <1>2, <1>3
<1>5. \A n, l \in 1 .. Len(Tail(q)) : Tail(q)[n] = Tail(q)[l] => n = l
  <2>1. SUFFICES ASSUME NEW n \in 1 .. Len(Tail(q)), NEW l \in 1 .. Len(Tail(q)), Tail(q)[n] = Tail(q)[l]
                 PROVE  n = l
    OBVIOUS
  <2>2. n + 1 = l + 1
    BY <1>1, <1>2, <1>3, <2>1
  <2> QED
    BY <2>2, <1>1
<1>6. \A k \in Used(t) : t.slots[k].sock # -1 => \A n \in 1 .. Len(Tail(q)) : Tail(q)[n] # t.slots[k].sock
  BY <1>1, <1>2, <1>3
<1>7. \A k \in Used(t) : t.slots[k].sock # Head(q)
  BY <1>1, <1>3
<1>8. Plugged(t, Tail(q), i, S, h)
  BY <1>3, <1>4, <1>5, <1>6 DEF Plugged
<1> QED
  BY <1>1, <1>3, <1>4, <1>7, <1>8

(* A process whose table is t instead. *)
LEMMA WithPeers ==
  ASSUME NEW p \in Procs, NEW t \in Tables
  PROVE  LET u == [p EXCEPT !.peers = t] IN
         /\ u \in Procs /\ u.peers = t /\ u.heard = p.heard /\ u.asked = p.asked /\ u.asks = p.asks
         /\ u.todo = p.todo /\ u.answers = p.answers /\ u.got = p.got
BY DEF Procs

LEMMA HeardKept ==
  ASSUME NEW p, NEW u, NEW st, Heard(p, st), u.heard = p.heard, Ids(u.peers) = Ids(p.peers)
  PROVE  Heard(u, st)
BY DEF Heard

(* A socket of process i is closed that neither its table nor its backlog  *)
(* holds.                                                                  *)
LEMMA ShutKeeps ==
  ASSUME NEW S, NEW h, SocksOK(S, h), NEW t \in Tables, NEW q \in Seq(Nat), NEW i, Plugged(t, q, i, S, h),
         NEW s, \A n \in 1 .. Len(q) : q[n] # s, \A k \in Used(t) : t.slots[k].sock # s,
         NEW R, NEW w, Closes(S, R, s, w)
  PROVE  Plugged(t, q, i, R, h) /\ SocksOK(R, h) /\ SocksGrow(S, R)
<1>1. SocksGrow(S, R) /\ Len(R) = Len(S) /\ \A u \in 1 .. Len(S) : u \notin {s} => R[u].shut = S[u].shut
  BY DEF Closes, Shuts
<1>2. SocksOK(R, h)
  BY <1>1, SocksKeep
<1>3. HostsGrow(h, h)
  BY DEF HostsGrow
<1> DEFINE X == {s}
<1>4. /\ \A n \in 1 .. Len(q) : q[n] \notin X
      /\ \A k \in Used(t) : t.slots[k].sock \notin X
      /\ \A u \in 1 .. Len(S) : S[u].of = i /\ u \notin X => R[u].shut = S[u].shut
  BY <1>1
<1> HIDE DEF X
<1>5. Plugged(t, q, i, R, h)
  BY <1>1, <1>3, <1>4, PluggedKeeps
<1> QED
  BY <1>1, <1>2, <1>5

LEMMA DrainKeeps ==
  ASSUME NEW S, NEW h, SocksOK(S, h), NEW t \in Tables, NEW q \in Seq(Nat), NEW i, Plugged(t, q, i, S, h),
         NEW R, SocksGrow(S, R), Len(R) = Len(S), Shuts(S, R, {})
  PROVE  Plugged(t, q, i, R, h) /\ SocksOK(R, h)
<1>1. SocksOK(R, h) /\ HostsGrow(h, h)
  BY SocksKeep DEF HostsGrow
<1> DEFINE X == {}
<1>2. /\ \A n \in 1 .. Len(q) : q[n] \notin X
      /\ \A k \in Used(t) : t.slots[k].sock \notin X
      /\ \A u \in 1 .. Len(S) : S[u].of = i /\ u \notin X => R[u].shut = S[u].shut
  BY DEF Shuts
<1> HIDE DEF X
<1>3. Plugged(t, q, i, R, h)
  BY <1>1, <1>2, PluggedKeeps
<1> QED
  BY <1>1, <1>3

LEMMA NetAcceptsKeeps ==
  ASSUME PeerInv, NEW i \in Processes, NetAccepts(i)
  PROVE  PeerInv'
<1> DEFINE q == accepts[i]
           s == Head(q)
           t == proc[i].peers
           K == CallersSlots(t, host[socks[Mate(s)].of])
           k == First(K)
           u == WithSocket(t, k, s)
           p == [proc[i] EXCEPT !.peers = u]
<1>1. /\ q # <<>> /\ accepts' = [accepts EXCEPT ![i] = Tail(q)]
      /\ \/ K = {} /\ socks' = Shut(s) /\ UNCHANGED proc
         \/ /\ K # {} /\ proc' = [proc EXCEPT ![i].peers = WithSocket(@, k, s)]
            /\ socks' = Drained(socks, {t.slots[k].sock} \ {-1})
      /\ UNCHANGED <<trackerSide, posted, host, state>>
  BY DEF NetAccepts
<1>2. TypeInv /\ SocksOK(socks, host) /\ PostedInv
  BY DEF PeerInv
<1>3. /\ proc[i] \in Procs /\ q \in Seq(Nat) /\ TableOK(t, host) /\ t \in Tables
      /\ Heard(proc[i], StateOf(i)) /\ Plugged(t, q, i, socks, host)
  BY ProcFacts
<1>4. /\ Own(socks, i, s) /\ s \in Nat /\ Tail(q) \in Seq(Nat) /\ Plugged(t, Tail(q), i, socks, host)
      /\ \A n \in 1 .. Len(Tail(q)) : Tail(q)[n] # s
      /\ \A l \in Used(t) : t.slots[l].sock # s
  BY <1>1, <1>3, BacklogIs
<1>5. s \in 1 .. Len(socks) /\ socks[s].of = i /\ s # -1
  BY <1>4 DEF Own
<1>6. /\ DOMAIN accepts' = Processes /\ accepts' = [j \in Processes |-> accepts'[j]]
      /\ accepts'[i] = Tail(q) /\ \A j \in Processes : j # i => accepts'[j] = accepts[j]
  BY <1>1, <1>2 DEF TypeInv
<1>7. /\ state' \in Seq(States) /\ Len(state') = Len(state) /\ \A j \in Started : j # i => state'[j] = state[j]
      /\ posted' \in [Processes -> Seq(Seq(Items))]
      /\ \A j \in Processes : \A n \in 1 .. Len(posted'[j]) : BufferOK(posted'[j][n], host)
      /\ StateOf(i)' = StateOf(i)
  BY <1>1, <1>2 DEF TypeInv, States, PostedInv, StateOf, Started
<1> HIDE DEF q, s, t
<1>8. CASE K = {} /\ socks' = Shut(s) /\ UNCHANGED proc
  <2>1. Closes(socks, socks', s, WatchedSocket(Mate(s)))
    BY <1>2, <1>5, <1>8, ShutIs DEF SocksOK
  <2>2. Plugged(t, Tail(q), i, socks', host) /\ SocksOK(socks', host) /\ SocksGrow(socks, socks')
    BY <1>2, <1>3, <1>4, <2>1, ShutKeeps
  <2>3. \A x \in 1 .. Len(socks) : socks[x].of # i => socks'[x].shut = socks[x].shut
    BY <1>5, <2>1 DEF Closes, Shuts
  <2>4. ProcOK(proc'[i], accepts'[i], i, socks', host, StateOf(i)')
    BY <1>3, <1>4, <1>6, <1>7, <1>8, <2>2 DEF ProcOK, t
  <2>5. DOMAIN proc' = Processes /\ proc' = [j \in Processes |-> proc'[j]]
    BY <1>2, <1>8 DEF TypeInv
  <2> QED
    BY <1>1, <1>6, <1>7, <1>8, <2>2, <2>3, <2>4, <2>5, ProcessStep
<1>9. CASE /\ K # {} /\ proc' = [proc EXCEPT ![i].peers = WithSocket(@, k, s)]
           /\ socks' = Drained(socks, {t.slots[k].sock} \ {-1})
  <2>1. K \subseteq Used(t) /\ k \in Used(t) /\ t.slots[k].host = host[socks[Mate(s)].of]
    <3>1. K = {l \in Used(t) : t.slots[l].host = host[socks[Mate(s)].of]}
      BY DEF CallersSlots, SlotsAt
    <3>2. K \subseteq Nat
      BY <1>3, <3>1, TableIs
    <3>3. k \in K
      BY <1>9, <3>2, FirstIs
    <3> QED
      BY <3>1, <3>3
  <2> HIDE DEF K, k
  <2>2. Rewired(t, u, k, s)
    BY <1>3, <1>5, <2>1, WithSocketIs
  <2>3. TableOK(u, host) /\ Ids(u) = Ids(t) /\ u \in Tables
    BY <1>3, <2>2, RewiredOK DEF TableOK
  <2>4. Plugged(u, Tail(q), i, socks, host)
    <3> DEFINE r == Tail(q)
    <3>1. /\ Own(socks, i, s) /\ s \in Int /\ Plugged(t, r, i, socks, host) /\ t \in Tables
          /\ \A n \in 1 .. Len(r) : r[n] # s
          /\ \A l \in Used(t) : t.slots[l].sock # s
          /\ host[socks[Mate(s)].of] = t.slots[k].host
      BY <1>3, <1>4, <2>1
    <3> HIDE DEF r, u
    <3>2. Plugged(u, r, i, socks, host)
      BY <2>1, <2>2, <3>1, PluggedAnew
    <3> QED
      BY <3>2 DEF r
  <2>5. Drops(socks, socks', {t.slots[k].sock} \ {-1})
    BY <1>2, <1>9, DrainedIs DEF SocksOK
  <2>6. SocksGrow(socks, socks') /\ Len(socks') = Len(socks) /\ Shuts(socks, socks', {})
    BY <2>5 DEF Drops
  <2>7. proc' = [proc EXCEPT ![i] = p]
    BY <1>9 DEF t
  <2>8. DOMAIN proc' = Processes /\ proc' = [j \in Processes |-> proc'[j]] /\ proc'[i] = p
        /\ \A j \in Processes : j # i => proc'[j] = proc[j]
    BY <1>2, <2>7, PutAt DEF TypeInv
  <2> HIDE DEF u
  <2>9. p \in Procs /\ p.peers = u /\ p.heard = proc[i].heard
    BY <1>3, <2>3, WithPeers
  <2> HIDE DEF p
  <2>10. Plugged(u, Tail(q), i, socks', host) /\ SocksOK(socks', host)
    BY <1>2, <1>4, <2>3, <2>4, <2>6, DrainKeeps
  <2>11. Heard(p, StateOf(i))
    BY <1>3, <2>3, <2>9, HeardKept DEF t
  <2>12. ProcOK(proc'[i], accepts'[i], i, socks', host, StateOf(i)')
    BY <1>4, <1>6, <1>7, <2>3, <2>8, <2>9, <2>10, <2>11 DEF ProcOK
  <2>13. \A x \in 1 .. Len(socks) : socks[x].of # i => socks'[x].shut = socks[x].shut
    BY <2>6 DEF Shuts
  <2> QED
    BY <1>1, <1>6, <1>7, <2>6, <2>8, <2>10, <2>12, <2>13, ProcessStep
<1> QED
  BY <1>1, <1>8, <1>9

(* A new table after an old one: what is new is found; what is gone is,    *)
(* but where it is twice the new table.                                    *)
LEMMA DifferencesAre ==
  ASSUME NEW b, NEW h, BufferOK(b, h), NEW new \in Deserialized(b), NEW old, TableOK(old, h),
         NEW adds \in Added(old, new), NEW dels \in Departures(old, new)
  PROVE  /\ ~HasJunk(adds) /\ Ids(adds) = Ids(new) \ Ids(old)
         /\ \/ HasJunk(dels) /\ 2 * Cardinality(Ids(new)) <= Cardinality(Ids(old) \ Ids(new))
            \/ ~HasJunk(dels) /\ Ids(dels) = Ids(old) \ Ids(new)
<1> DEFINE n == Len(new.slots)
           c == Cardinality(Ids(new))
           d == Cardinality(Ids(new) \ Ids(old))
<1>1. TableOK(new, h) /\ n = 2 * Len(b) /\ c = Len(b) /\ Len(b) \in Nat \ {0}
  BY DeserializedOK
<1>2. /\ new \in Tables /\ Unique(new) /\ old \in Tables /\ Unique(old) /\ n \in Nat \ {0}
  BY <1>1 DEF TableOK
<1>3. adds \in Lacking(old, new, n) /\ dels \in Lacking(new, old, n)
  BY DEF Added, Departures, Deleted
<1>4. d <= c /\ d \in Nat /\ IsFiniteSet(Ids(new))
  <2>1. IsFiniteSet(IdsIn(new, Used(new))) /\ IdsIn(new, Used(new)) = Ids(new)
    BY <1>2, IdCount, EntryIs DEF IdsIn
  <2>2. Ids(new) \ Ids(old) \in SUBSET Ids(new)
    OBVIOUS
  <2> QED
    BY <2>1, <2>2, FS_Subset, FS_CardinalityType
<1> HIDE DEF n, c, d
<1>5. \/ HasJunk(adds) /\ n <= d
      \/ ~HasJunk(adds) /\ Ids(adds) = Ids(new) \ Ids(old)
  BY <1>2, <1>3, LackingIs DEF d
<1>6. \/ HasJunk(dels) /\ n <= Cardinality(Ids(old) \ Ids(new))
      \/ ~HasJunk(dels) /\ Ids(dels) = Ids(old) \ Ids(new)
  BY <1>2, <1>3, LackingIs
<1>7. n = 2 * c /\ ~(n <= d)
  BY <1>1, <1>4
<1> QED
  BY <1>5, <1>6, <1>7 DEF c

LEMMA NetTableKeeps ==
  ASSUME PeerInv, NEW i \in Processes, NetTable(i)
  PROVE  PeerInv'
<1> DEFINE q == accepts[i]
           t == proc[i].peers
           b == Head(posted[i])
<1>1. TypeInv /\ SocksOK(socks, host) /\ PostedInv
  BY DEF PeerInv
<1>2. /\ proc[i] \in Procs /\ q \in Seq(Nat) /\ TableOK(t, host) /\ t \in Tables
      /\ Heard(proc[i], StateOf(i)) /\ Plugged(t, q, i, socks, host)
  BY ProcFacts
<1>3. /\ i \in Started /\ state[i] = "up" /\ posted[i] # <<>> /\ posted' = [posted EXCEPT ![i] = Tail(@)]
      /\ UNCHANGED <<trackerSide, host, accepts>>
  BY DEF NetTable, Up
<1>4. PICK new \in Deserialized(b) : \E adds \in Added(t, new), dels \in Departures(t, new) :
           /\ proc' = [proc EXCEPT ![i].peers = new,
                         ![i].heard = IF HasJunk(adds) \/ HasJunk(dels) THEN @
                                      ELSE (@ \cup Ids(adds)) \ Ids(dels)]
           /\ state' = IF HasJunk(adds) \/ HasJunk(dels)
                         THEN [state EXCEPT ![i] = "astray"] ELSE state
           /\ socks' = Drained(socks, InTable(i))
  BY DEF NetTable
<1>5. PICK adds \in Added(t, new) : \E dels \in Departures(t, new) :
           /\ proc' = [proc EXCEPT ![i].peers = new,
                         ![i].heard = IF HasJunk(adds) \/ HasJunk(dels) THEN @
                                      ELSE (@ \cup Ids(adds)) \ Ids(dels)]
           /\ state' = IF HasJunk(adds) \/ HasJunk(dels)
                         THEN [state EXCEPT ![i] = "astray"] ELSE state
           /\ socks' = Drained(socks, InTable(i))
  BY <1>4
<1>6. PICK dels \in Departures(t, new) :
           /\ proc' = [proc EXCEPT ![i].peers = new,
                         ![i].heard = IF HasJunk(adds) \/ HasJunk(dels) THEN @
                                      ELSE (@ \cup Ids(adds)) \ Ids(dels)]
           /\ state' = IF HasJunk(adds) \/ HasJunk(dels)
                         THEN [state EXCEPT ![i] = "astray"] ELSE state
           /\ socks' = Drained(socks, InTable(i))
  BY <1>5
<1> DEFINE H == IF HasJunk(dels) THEN proc[i].heard ELSE (proc[i].heard \cup Ids(adds)) \ Ids(dels)
           v == [proc[i] EXCEPT !.peers = new]
           p == [v EXCEPT !.heard = H]
<1>7. BufferOK(b, host) /\ posted' \in [Processes -> Seq(Seq(Items))]
      /\ \A j \in Processes : \A n \in 1 .. Len(posted'[j]) : BufferOK(posted'[j][n], host)
  <2>1. posted \in [Processes -> Seq(Seq(Items))]
        /\ \A j \in Processes : \A n \in 1 .. Len(posted[j]) : BufferOK(posted[j][n], host)
    BY <1>1 DEF TypeInv, PostedInv
  <2> QED
    BY <1>3, <2>1, PostedLess
<1>8. TableOK(new, host) /\ new \in Tables /\ \A l \in Used(new) : new.slots[l].sock = -1
  BY <1>7, DeserializedOK DEF TableOK
<1> HIDE DEF b, t, q
<1>9. /\ ~HasJunk(adds) /\ Ids(adds) = Ids(new) \ Ids(t)
      /\ \/ HasJunk(dels) /\ 2 * Cardinality(Ids(new)) <= Cardinality(Ids(t) \ Ids(new))
         \/ ~HasJunk(dels) /\ Ids(dels) = Ids(t) \ Ids(new)
  BY <1>2, <1>7, DifferencesAre
<1>10. proc' = [proc EXCEPT ![i] = p]
  <2>1. proc' = [proc EXCEPT ![i].peers = new, ![i].heard = H]
    BY <1>6, <1>9
  <2> HIDE DEF H
  <2>2. proc' = [[proc EXCEPT ![i].peers = new] EXCEPT ![i].heard = H]
    BY <2>1
  <2>3. DOMAIN proc = Processes /\ proc = [j \in Processes |-> proc[j]]
    BY <1>1 DEF TypeInv
  <2> QED
    BY <2>2, <2>3
<1>11. DOMAIN proc' = Processes /\ proc' = [j \in Processes |-> proc'[j]] /\ proc'[i] = p
       /\ \A j \in Processes : j # i => proc'[j] = proc[j]
  BY <1>1, <1>10, PutAt DEF TypeInv
<1>12. StateOf(i) = "up" /\ proc[i].heard = Ids(t) /\ Ids(t) \subseteq Nat /\ Ids(new) \subseteq Nat
  <2>1. Ids(t) = {t.slots[l].id : l \in Used(t)} /\ Ids(new) = {new.slots[l].id : l \in Used(new)}
    BY <1>2, <1>8, EntryIs
  <2>2. \A l \in Used(t) : t.slots[l].id \in Nat
    BY <1>2, EntryIs
  <2>3. \A l \in Used(new) : new.slots[l].id \in Nat
    BY <1>8, EntryIs
  <2>4. StateOf(i) = "up"
    BY <1>3 DEF StateOf
  <2>5. proc[i].heard = Ids(t)
    BY <1>2, <2>4 DEF Heard, t
  <2> QED
    BY <2>1, <2>2, <2>3, <2>4, <2>5
<1>13. H \in SUBSET Nat /\ H = IF HasJunk(dels) THEN Ids(t) ELSE Ids(new)
  BY <1>9, <1>12
<1> HIDE DEF H
<1>14. p \in Procs /\ p.peers = new /\ p.heard = H
  <2>1. v \in Procs /\ v.peers = new
    BY <1>2, <1>8, WithPeers
  <2> HIDE DEF v
  <2> QED
    BY <1>13, <2>1 DEF Procs
<1> HIDE DEF v, p
<1>15. /\ state' \in Seq(States) /\ Len(state') = Len(state) /\ \A j \in Started : j # i => state'[j] = state[j]
       /\ StateOf(i)' = IF HasJunk(dels) THEN "astray" ELSE "up"
  <2>1. state \in Seq(States) /\ i \in 1 .. Len(state) /\ "astray" \in States /\ DOMAIN host' = DOMAIN host
        /\ Started = 1 .. Len(state) /\ Len(state) \in Nat
    BY <1>1, <1>3, PeerFacts DEF TypeInv, States
  <2>2. StateOf(i)' = state'[i]
    BY <1>3, <2>1 DEF StateOf, Started
  <2>3. CASE HasJunk(dels)
    <3>1. state' = [state EXCEPT ![i] = "astray"]
      BY <1>6, <2>3
    <3> QED
      BY <2>1, <2>2, <2>3, <3>1, ExceptSeq
  <2>4. CASE ~HasJunk(dels)
    BY <1>3, <1>6, <1>9, <2>1, <2>2, <2>4
  <2> QED
    BY <2>3, <2>4
<1>16. Heard(p, StateOf(i)')
  BY <1>9, <1>13, <1>14, <1>15 DEF Heard
<1>17. Plugged(new, q, i, socks, host)
  BY <1>2, <1>8 DEF Plugged
<1>18. SocksGrow(socks, socks') /\ Len(socks') = Len(socks) /\ Shuts(socks, socks', {})
  BY <1>1, <1>6, DrainedIs DEF SocksOK, Drops
<1>19. Plugged(new, q, i, socks', host) /\ SocksOK(socks', host)
  BY <1>1, <1>2, <1>8, <1>17, <1>18, DrainKeeps
<1>20. DOMAIN accepts' = Processes /\ accepts' = [j \in Processes |-> accepts'[j]]
       /\ \A j \in Processes : accepts'[j] = accepts[j]
  BY <1>1, <1>3 DEF TypeInv
<1>21. ProcOK(proc'[i], accepts'[i], i, socks', host, StateOf(i)')
  BY <1>2, <1>8, <1>11, <1>14, <1>16, <1>19, <1>20 DEF ProcOK, q
<1>22. \A x \in 1 .. Len(socks) : socks[x].of # i => socks'[x].shut = socks[x].shut
  BY <1>18 DEF Shuts
<1> QED
  BY <1>3, <1>7, <1>11, <1>15, <1>18, <1>19, <1>20, <1>21, <1>22, ProcessStep

(* A process with another queue. *)
LEMMA WithQueue ==
  ASSUME NEW p \in Procs, NEW q \in Seq(Messages)
  PROVE  /\ LET u == [p EXCEPT !.asks = q] IN
              /\ u \in Procs /\ u.peers = p.peers /\ u.heard = p.heard /\ u.asked = p.asked
              /\ u.asks = q /\ u.todo = p.todo /\ u.answers = p.answers /\ u.got = p.got
         /\ LET u == [p EXCEPT !.todo = q] IN
              /\ u \in Procs /\ u.peers = p.peers /\ u.heard = p.heard /\ u.asked = p.asked
              /\ u.asks = p.asks /\ u.todo = q /\ u.answers = p.answers /\ u.got = p.got
         /\ LET u == [p EXCEPT !.answers = q] IN
              /\ u \in Procs /\ u.peers = p.peers /\ u.heard = p.heard /\ u.asked = p.asked
              /\ u.asks = p.asks /\ u.todo = p.todo /\ u.answers = q /\ u.got = p.got
         /\ LET u == [p EXCEPT !.got = q] IN
              /\ u \in Procs /\ u.peers = p.peers /\ u.heard = p.heard /\ u.asked = p.asked
              /\ u.asks = p.asks /\ u.todo = p.todo /\ u.answers = p.answers /\ u.got = q
BY DEF Procs

LEMMA WithAsked ==
  ASSUME NEW p \in Procs, NEW q \in Seq(Processes)
  PROVE  LET u == [p EXCEPT !.asked = q] IN
         /\ u \in Procs /\ u.peers = p.peers /\ u.heard = p.heard /\ u.asked = q
         /\ u.asks = p.asks /\ u.todo = p.todo /\ u.answers = p.answers /\ u.got = p.got
BY DEF Procs

LEMMA ProcParts ==
  ASSUME NEW p \in Procs
  PROVE  /\ p.peers \in Tables /\ p.heard \in SUBSET Nat /\ p.asked \in Seq(Processes)
         /\ p.asks \in Seq(Messages) /\ p.todo \in Seq(Messages)
         /\ p.answers \in Seq(Messages) /\ p.got \in Seq(Messages)
BY DEF Procs

(* A step of process i that closes nothing and leaves its table; it may be *)
(* killed by it.                                                           *)
LEMMA PlainStep ==
  ASSUME PeerInv, NEW i \in Processes, i \in Started, UNCHANGED <<trackerSide, posted, host, accepts>>,
         SocksGrow(socks, socks'), Len(socks') = Len(socks), Shuts(socks, socks', {}),
         state' \in {state, [state EXCEPT ![i] = "killed"]},
         NEW p \in Procs, p.peers = proc[i].peers, p.heard = proc[i].heard,
         proc' = [proc EXCEPT ![i] = p]
  PROVE  PeerInv'
<1> DEFINE t == proc[i].peers
           q == accepts[i]
<1>1. TypeInv /\ SocksOK(socks, host) /\ PostedInv
  BY DEF PeerInv
<1>2. /\ q \in Seq(Nat) /\ TableOK(t, host) /\ t \in Tables
      /\ Heard(proc[i], StateOf(i)) /\ Plugged(t, q, i, socks, host)
  BY ProcFacts
<1>3. Plugged(t, q, i, socks', host) /\ SocksOK(socks', host)
  BY <1>1, <1>2, DrainKeeps
<1>4. DOMAIN proc' = Processes /\ proc' = [j \in Processes |-> proc'[j]] /\ proc'[i] = p
      /\ \A j \in Processes : j # i => proc'[j] = proc[j]
  BY <1>1, PutAt DEF TypeInv
<1>5. /\ state' \in Seq(States) /\ Len(state') = Len(state) /\ \A j \in Started : j # i => state'[j] = state[j]
      /\ StateOf(i)' \in {StateOf(i), "killed"}
  <2>1. state \in Seq(States) /\ i \in 1 .. Len(state) /\ "killed" \in States /\ DOMAIN host' = DOMAIN host
        /\ Started = 1 .. Len(state) /\ Len(state) \in Nat
    BY <1>1, PeerFacts DEF TypeInv, States
  <2>2. StateOf(i)' = state'[i] /\ StateOf(i) = state[i]
    BY <2>1 DEF StateOf, Started
  <2>3. CASE state' = state
    BY <2>1, <2>2, <2>3
  <2>4. CASE state' = [state EXCEPT ![i] = "killed"]
    BY <2>1, <2>2, <2>4, ExceptSeq
  <2> QED
    BY <2>3, <2>4
<1>6. Heard(p, StateOf(i)')
  <2>1. Heard(p, StateOf(i))
    BY <1>2, HeardKept
  <2> QED
    BY <1>5, <2>1 DEF Heard
<1>7. DOMAIN accepts' = Processes /\ accepts' = [j \in Processes |-> accepts'[j]]
      /\ \A j \in Processes : accepts'[j] = accepts[j]
  BY <1>1 DEF TypeInv
<1>8. ProcOK(proc'[i], accepts'[i], i, socks', host, StateOf(i)')
  BY <1>2, <1>3, <1>4, <1>6, <1>7 DEF ProcOK
<1>9. \A x \in 1 .. Len(socks) : socks[x].of # i => socks'[x].shut = socks[x].shut
  BY DEF Shuts
<1>10. /\ posted' \in [Processes -> Seq(Seq(Items))]
       /\ \A j \in Processes : \A n \in 1 .. Len(posted'[j]) : BufferOK(posted'[j][n], host)
  BY <1>1 DEF TypeInv, PostedInv
<1>11. UNCHANGED <<trackerSide, host>>
  OBVIOUS
<1> QED
  BY <1>3, <1>4, <1>5, <1>7, <1>8, <1>9, <1>10, <1>11, ProcessStep

LEMMA SendIs ==
  ASSUME PeerInv, NEW i, NEW s \in 1 .. Len(socks), NEW m \in Tokens, Send(i, s, m)
  PROVE  /\ Mate(s) \in 1 .. Len(socks)
         /\ Gets(socks, socks', Mate(s), m, WatchedSocket(Mate(s)))
         /\ SocksGrow(socks, socks') /\ Len(socks') = Len(socks) /\ Shuts(socks, socks', {})
         /\ state' \in {state, [state EXCEPT ![i] = "killed"]}
<1>1. socks \in Seq(SocketSet) /\ Len(socks) % 2 = 0
  BY DEF PeerInv, SocksOK
<1>2. Mate(s) \in 1 .. Len(socks)
  BY <1>1, MateIs
<1>3. socks' = Delivered(socks, Mate(s), m)
  BY DEF Send
<1>4. Gets(socks, socks', Mate(s), m, WatchedSocket(Mate(s)))
  BY <1>1, <1>2, <1>3, DeliveredIs
<1>5. state' \in {state, [state EXCEPT ![i] = "killed"]}
  BY DEF Send
<1> QED
  BY <1>2, <1>4, <1>5 DEF Gets

(* The first message of socket s read. *)
Reads(S, R, s) ==
  /\ SocksGrow(S, R) /\ Len(R) = Len(S) /\ Shuts(S, R, {})
  /\ \A u \in 1 .. Len(S) : R[u].in = IF u = s THEN Tail(S[u].in) ELSE S[u].in

LEMMA ReadsIs ==
  ASSUME NEW S \in Seq(SocketSet), NEW s \in 1 .. Len(S), S[s].in # <<>>
  PROVE  /\ Reads(S, [S EXCEPT ![s].in = Tail(@)], s)
         /\ Head(S[s].in) \in Tokens
<1> DEFINE e == [S[s] EXCEPT !.in = Tail(S[s].in)]
           R == [S EXCEPT ![s] = e]
<1>1. Len(S) \in Nat /\ S[s] \in SocketSet /\ S[s].in \in Seq(Tokens) /\ DOMAIN S = 1 .. Len(S)
  BY SocketIs DEF Lines
<1>2. Tail(S[s].in) \in Lines /\ Head(S[s].in) \in Tokens
  BY <1>1, HeadTailProperties DEF Lines
<1>3. [S EXCEPT ![s].in = Tail(@)] = R
  BY <1>1
<1>4. e \in SocketSet /\ e.of = S[s].of /\ e.shut = S[s].shut /\ e.in = Tail(S[s].in)
  BY <1>1, <1>2 DEF SocketSet
<1> HIDE DEF e
<1>5. R \in Seq(SocketSet) /\ Len(R) = Len(S) /\ \A u \in 1 .. Len(S) : R[u] = IF u = s THEN e ELSE S[u]
  BY <1>4, ExceptSeq
<1> HIDE DEF R
<1>6. SocksGrow(S, R) /\ Shuts(S, R, {})
  BY <1>1, <1>4, <1>5 DEF SocksGrow, Shuts
<1>7. \A u \in 1 .. Len(S) : R[u].in = IF u = s THEN Tail(S[u].in) ELSE S[u].in
  BY <1>4, <1>5
<1>8. Reads(S, R, s)
  BY <1>5, <1>6, <1>7 DEF Reads
<1> QED
  BY <1>2, <1>3, <1>8

(* A socket in a table is its process's, and open. *)
LEMMA SlotSocket ==
  ASSUME PeerInv, NEW i \in Processes, NEW k \in Used(proc[i].peers), proc[i].peers.slots[k].sock > 0
  PROVE  LET s == proc[i].peers.slots[k].sock IN
         /\ s \in 1 .. Len(socks) /\ Own(socks, i, s) /\ s # -1
         /\ \A n \in 1 .. Len(accepts[i]) : accepts[i][n] # s
         /\ \A l \in Used(proc[i].peers) : l # k => proc[i].peers.slots[l].sock # s
<1> DEFINE t == proc[i].peers
           s == t.slots[k].sock
           q == accepts[i]
<1>1. t \in Tables /\ Plugged(t, q, i, socks, host)
  BY ProcFacts
<1> HIDE DEF t, q
<1>2. k \in Used(t) /\ s > 0
  BY DEF t
<1>3. s \in Int /\ s # -1
  BY <1>1, <1>2, EntryIs
<1>4. Own(socks, i, s) /\ \A n \in 1 .. Len(q) : q[n] # s
  BY <1>1, <1>2, <1>3 DEF Plugged
<1>5. \A l \in Used(t) : l # k => t.slots[l].sock # s
  BY <1>1, <1>2, <1>3 DEF Plugged
<1> QED
  BY <1>3, <1>4, <1>5 DEF Own, t, q

(* What a peer's message becomes. *)
LEMMA RenamedIs ==
  ASSUME NEW m \in Messages, NEW d \in Processes
  PROVE  /\ LET u == [m EXCEPT !.peer = d] IN
              u \in Messages /\ u.type = m.type /\ u.job = m.job /\ u.origin = m.origin /\ u.peer = d
         /\ LET u == [m EXCEPT !.type = "answer"] IN
              u \in Messages /\ u.type = "answer" /\ u.job = m.job /\ u.origin = m.origin /\ u.peer = m.peer
BY DEF Messages

LEMMA NetReadsKeeps ==
  ASSUME PeerInv, NEW i \in Processes, NetReads(i)
  PROVE  PeerInv'
<1> DEFINE t == proc[i].peers
           q == accepts[i]
<1>1. TypeInv /\ SocksOK(socks, host) /\ PostedInv /\ socks \in Seq(SocketSet) /\ Len(socks) % 2 = 0
  BY DEF PeerInv, SocksOK
<1>2. /\ proc[i] \in Procs /\ q \in Seq(Nat) /\ TableOK(t, host) /\ t \in Tables
      /\ Heard(proc[i], StateOf(i)) /\ Plugged(t, q, i, socks, host)
  BY ProcFacts
<1>3. i \in Started /\ UNCHANGED <<trackerSide, posted, host, state, accepts>>
  BY DEF NetReads, Up
<1>4. PICK k \in Used(t) :
       LET e == t.slots[k] IN
       /\ e.sock > 0 /\ socks[e.sock].in # <<>>
       /\ LET m == Head(socks[e.sock].in)
              p == CASE m.type = "eof" -> [proc[i] EXCEPT !.peers = WithSocket(@, k, -1)]
                     [] m.type = "ask" -> [proc[i] EXCEPT !.todo = Append(@, [m EXCEPT !.peer = e.id])]
                     [] m.type = "answer" -> [proc[i] EXCEPT !.got = Append(@, m)]
          IN  /\ proc' = [proc EXCEPT ![i] = p]
              /\ IF m.type = "eof"
                   THEN socks' = Shut(e.sock) /\ cut' = cut \cup Cuts({e.sock})
                   ELSE socks' = [socks EXCEPT ![e.sock].in = Tail(@)] /\ UNCHANGED cut
  BY DEF NetReads
<1> DEFINE e == t.slots[k]
           s == e.sock
           m == Head(socks[s].in)
<1>5. /\ s \in 1 .. Len(socks) /\ Own(socks, i, s)
      /\ \A n \in 1 .. Len(q) : q[n] # s
      /\ \A l \in Used(t) : l # k => t.slots[l].sock # s
  BY <1>4, SlotSocket
<1>6. /\ socks[s].in # <<>> /\ m \in Tokens
      /\ Reads(socks, [socks EXCEPT ![s].in = Tail(@)], s)
  BY <1>1, <1>4, <1>5, ReadsIs
<1>7. e.id \in Processes
  BY <1>2, PeerFacts DEF TableOK, Named, Started
<1>8. CASE m.type = "eof"
  <2> DEFINE u == WithSocket(t, k, -1)
             p == [proc[i] EXCEPT !.peers = u]
  <2>1. proc' = [proc EXCEPT ![i] = p] /\ socks' = Shut(s)
    BY <1>4, <1>8
  <2>2. DOMAIN proc' = Processes /\ proc' = [j \in Processes |-> proc'[j]] /\ proc'[i] = p
        /\ \A j \in Processes : j # i => proc'[j] = proc[j]
    BY <1>1, <2>1, PutAt DEF TypeInv
  <2>3. Closes(socks, socks', s, WatchedSocket(Mate(s)))
    BY <1>1, <1>5, <2>1, ShutIs
  <2> HIDE DEF e, s, m, t, q
  <2>4. Rewired(t, u, k, -1)
    BY <1>2, WithSocketIs
  <2>5. TableOK(u, host) /\ Ids(u) = Ids(t) /\ u \in Tables
    BY <1>2, <2>4, RewiredOK DEF TableOK
  <2> HIDE DEF u
  <2>6. Plugged(u, q, i, socks, host)
    <3> DEFINE x == -1
    <3>1. x \in Int /\ x = -1 /\ Rewired(t, u, k, x)
      BY <2>4
    <3> HIDE DEF x
    <3>2. x # -1 => /\ Own(socks, i, x) /\ \A n \in 1 .. Len(q) : q[n] # x
                    /\ \A l \in Used(t) : t.slots[l].sock # x
                    /\ host[socks[Mate(x)].of] = t.slots[k].host
      BY <3>1
    <3> QED
      BY <1>2, <3>1, <3>2, PluggedAnew
  <2>7. \A l \in Used(u) : u.slots[l].sock # s
    <3>1. Used(u) = Used(t) /\ \A l \in Used(t) : u.slots[l].sock = IF l = k THEN -1 ELSE t.slots[l].sock
      BY <2>4 DEF Rewired
    <3>2. s # -1
      BY <1>5, PeerFacts
    <3> QED
      BY <1>5, <3>1, <3>2
  <2>8. Plugged(u, q, i, socks', host) /\ SocksOK(socks', host) /\ SocksGrow(socks, socks')
    BY <1>1, <1>2, <1>5, <2>3, <2>5, <2>6, <2>7, ShutKeeps
  <2>9. \A x \in 1 .. Len(socks) : socks[x].of # i => socks'[x].shut = socks[x].shut
    BY <1>5, <2>3 DEF Closes, Shuts, Own
  <2>10. p \in Procs /\ p.peers = u /\ p.heard = proc[i].heard
    BY <1>2, <2>5, WithPeers
  <2> HIDE DEF p
  <2>11. Heard(p, StateOf(i))
    BY <1>2, <2>5, <2>10, HeardKept DEF t
  <2>12. DOMAIN accepts' = Processes /\ accepts' = [j \in Processes |-> accepts'[j]]
         /\ \A j \in Processes : accepts'[j] = accepts[j]
    BY <1>1, <1>3 DEF TypeInv
  <2>13. StateOf(i)' = StateOf(i)
    BY <1>3 DEF StateOf, Started
  <2>14. ProcOK(proc'[i], accepts'[i], i, socks', host, StateOf(i)')
    BY <1>2, <2>2, <2>5, <2>8, <2>10, <2>11, <2>12, <2>13 DEF ProcOK, q
  <2>15. /\ state' \in Seq(States) /\ Len(state') = Len(state) /\ \A j \in Started : j # i => state'[j] = state[j]
         /\ posted' \in [Processes -> Seq(Seq(Items))]
         /\ \A j \in Processes : \A n \in 1 .. Len(posted'[j]) : BufferOK(posted'[j][n], host)
    BY <1>1, <1>3 DEF TypeInv, States, PostedInv
  <2> QED
    BY <1>3, <2>2, <2>8, <2>9, <2>12, <2>14, <2>15, ProcessStep
<1>9. CASE m.type # "eof"
  <2>1. m \in Messages /\ m.type \in {"ask", "answer"}
    BY <1>6, <1>9, TokenIs
  <2> DEFINE r == [m EXCEPT !.peer = e.id]
             p == IF m.type = "ask" THEN [proc[i] EXCEPT !.todo = Append(@, r)]
                  ELSE [proc[i] EXCEPT !.got = Append(@, m)]
  <2>2. proc' = [proc EXCEPT ![i] = p] /\ socks' = [socks EXCEPT ![s].in = Tail(@)]
    <3>1. "ask" # "eof" /\ "answer" # "eof" /\ "ask" # "answer"
      OBVIOUS
    <3> QED
      BY <1>4, <1>9, <2>1, <3>1
  <2>3. SocksGrow(socks, socks') /\ Len(socks') = Len(socks) /\ Shuts(socks, socks', {})
    BY <1>6, <2>2 DEF Reads
  <2> HIDE DEF e, s, m
  <2>4. r \in Messages
    BY <1>7, <2>1, RenamedIs
  <2>5. p \in Procs /\ p.peers = proc[i].peers /\ p.heard = proc[i].heard
    <3>1. proc[i].todo \in Seq(Messages) /\ proc[i].got \in Seq(Messages)
      BY <1>2, ProcParts
    <3>2. Append(proc[i].todo, r) \in Seq(Messages) /\ Append(proc[i].got, m) \in Seq(Messages)
      BY <2>1, <2>4, <3>1, AppendProperties
    <3> HIDE DEF r
    <3>3. CASE m.type = "ask"
      BY <1>2, <3>2, <3>3, WithQueue
    <3>4. CASE m.type # "ask"
      BY <1>2, <3>2, <3>4, WithQueue
    <3> QED
      BY <3>3, <3>4
  <2> HIDE DEF p
  <2>6. state' \in {state, [state EXCEPT ![i] = "killed"]} /\ UNCHANGED <<trackerSide, posted, host, accepts>>
    BY <1>3
  <2> QED
    BY <1>3, <2>2, <2>3, <2>5, <2>6, PlainStep
<1> QED
  BY <1>8, <1>9

(* A new connection, its sockets side by side, and a message on its way. *)
Connects(S, R, i, j, m) ==
  /\ SocksGrow(S, R) /\ Len(R) = Len(S) + 2 /\ Shuts(S, R, {})
  /\ \A u \in 1 .. Len(S) : R[u].in = S[u].in
  /\ R[Len(S) + 1].of = i /\ R[Len(S) + 1].in = <<>> /\ ~R[Len(S) + 1].shut
  /\ R[Len(S) + 2].of = j /\ R[Len(S) + 2].in = <<m>> /\ ~R[Len(S) + 2].shut
  /\ Mate(Len(S) + 1) = Len(S) + 2 /\ Mate(Len(S) + 2) = Len(S) + 1

LEMMA ConnectsIs ==
  ASSUME NEW S \in Seq(SocketSet), Len(S) % 2 = 0, NEW i \in Processes, NEW j \in Processes, NEW m \in Tokens
  PROVE  Connects(S, S \o <<Socket(i, <<>>), Socket(j, <<m>>)>>, i, j, m)
<1> DEFINE a == Socket(i, <<>>)
           b == Socket(j, <<m>>)
           T == <<a, b>>
           R == S \o T
           n == Len(S)
<1>1. n \in Nat /\ n % 2 = 0
  BY SocketIs
<1>2. /\ a \in SocketSet /\ a.of = i /\ a.in = <<>> /\ ~a.shut
      /\ b \in SocketSet /\ b.of = j /\ b.in = <<m>> /\ ~b.shut
  <2>1. <<>> \in Lines /\ <<m>> \in Lines
    BY DEF Lines
  <2> QED
    BY <2>1 DEF Socket, SocketSet
<1> HIDE DEF a, b
<1>3. T \in Seq(SocketSet) /\ Len(T) = 2 /\ T[1] = a /\ T[2] = b
  BY <1>2
<1> HIDE DEF T
<1>4. R \in Seq(SocketSet) /\ Len(R) = n + 2 /\ \A u \in 1 .. n + 2 : R[u] = IF u <= n THEN S[u] ELSE T[u - n]
  <2>1. /\ R \in Seq(SocketSet) /\ Len(R) = n + Len(T)
        /\ \A u \in 1 .. n + Len(T) : R[u] = IF u <= n THEN S[u] ELSE T[u - n]
    BY <1>3, ConcatProperties
  <2> HIDE DEF R, n
  <2> QED
    BY <1>3, <2>1
<1> HIDE DEF R
<1>5. R[n + 1] = a /\ R[n + 2] = b /\ \A u \in 1 .. n : R[u] = S[u]
  <2>1. n + 1 \in 1 .. n + 2 /\ n + 2 \in 1 .. n + 2 /\ ~(n + 1 <= n) /\ ~(n + 2 <= n) /\ n + 1 - n = 1 /\ n + 2 - n = 2
    BY <1>1
  <2>2. \A u \in 1 .. n : u \in 1 .. n + 2 /\ u <= n
    BY <1>1
  <2> QED
    BY <1>3, <1>4, <2>1, <2>2
<1>6. Mate(n + 1) = n + 2 /\ Mate(n + 2) = n + 1
  <2>1. (n + 1) % 2 = 1 /\ (n + 2) % 2 = 0
    BY <1>1
  <2> QED
    BY <1>1, <2>1 DEF Mate
<1>7. SocksGrow(S, R) /\ Shuts(S, R, {})
  BY <1>1, <1>4, <1>5 DEF SocksGrow, Shuts
<1>8. Connects(S, R, i, j, m)
  BY <1>2, <1>4, <1>5, <1>6, <1>7 DEF Connects
<1> QED
  BY <1>8 DEF R, T, a, b

(* One more connection in a backlog. *)
LEMMA PluggedMore ==
  ASSUME NEW t, NEW q \in Seq(Nat), NEW i, NEW S, NEW h, Plugged(t, q, i, S, h),
         NEW s \in Nat, Own(S, i, s), \A n \in 1 .. Len(q) : q[n] # s, \A k \in Used(t) : t.slots[k].sock # s
  PROVE  Plugged(t, Append(q, s), i, S, h) /\ Append(q, s) \in Seq(Nat)
<1> DEFINE r == Append(q, s)
<1>1. /\ r \in Seq(Nat) /\ Len(r) = Len(q) + 1 /\ Len(q) \in Nat
      /\ \A n \in 1 .. Len(q) : r[n] = q[n]
      /\ r[Len(q) + 1] = s
  BY AppendProperties, LenProperties
<1> HIDE DEF r
<1>2. \A n \in 1 .. Len(r) : (n = Len(q) + 1 /\ r[n] = s) \/ (n \in 1 .. Len(q) /\ r[n] = q[n])
  BY <1>1
<1>3. \A n \in 1 .. Len(r) : Own(S, i, r[n])
  BY <1>2 DEF Plugged
<1>4. \A n, l \in 1 .. Len(r) : r[n] = r[l] => n = l
  BY <1>2 DEF Plugged
<1>5. \A k \in Used(t) : t.slots[k].sock # -1 =>
        /\ Own(S, i, t.slots[k].sock)
        /\ \A n \in 1 .. Len(r) : r[n] # t.slots[k].sock
        /\ h[S[Mate(t.slots[k].sock)].of] = t.slots[k].host
  BY <1>2 DEF Plugged
<1>6. \A k, l \in Used(t) : t.slots[k].sock # -1 /\ t.slots[k].sock = t.slots[l].sock => k = l
  BY DEF Plugged
<1> QED
  BY <1>1, <1>3, <1>4, <1>5, <1>6 DEF Plugged, r

(* The queue of requests, one of them taken. *)
LEMMA AsksIs ==
  ASSUME PeerInv, NEW i \in Processes, proc[i].asks # <<>>
  PROVE  LET p == [proc[i] EXCEPT !.asks = Tail(@)] IN
         /\ p \in Procs /\ p.peers = proc[i].peers /\ p.heard = proc[i].heard
         /\ p.asked = proc[i].asked /\ p.todo = proc[i].todo
         /\ p.answers = proc[i].answers /\ p.got = proc[i].got
         /\ p.asks = Tail(proc[i].asks) /\ Head(proc[i].asks) \in Messages
<1>1. proc[i] \in Procs /\ proc[i].asks \in Seq(Messages)
  BY ProcFacts, ProcParts
<1>2. Tail(proc[i].asks) \in Seq(Messages) /\ Head(proc[i].asks) \in Messages
  BY <1>1, HeadTailProperties
<1> QED
  BY <1>1, <1>2, WithQueue

LEMMA NetConnects ==
  ASSUME PeerInv, NEW i \in Processes, i \in Started, NEW m \in Messages, proc[i].asks # <<>>,
         KnownId(proc[i].peers, m.peer), ~Connected(ById(proc[i].peers, m.peer)),
         NEW j \in ProcessesAt(ById(proc[i].peers, m.peer).host),
         socks' = socks \o <<Socket(i, <<>>), Socket(j, <<m>>)>>,
         accepts' = [accepts EXCEPT ![j] = Append(@, Len(socks) + 2)],
         proc' = [[proc EXCEPT ![i].asks = Tail(@)] EXCEPT ![i].peers =
                    WithSocket(@, SlotOf(proc[i].peers, m.peer), Len(socks) + 1)],
         UNCHANGED <<trackerSide, posted, host, state>>
  PROVE  PeerInv'
<1> DEFINE t == proc[i].peers
           k == SlotOf(t, m.peer)
           n == Len(socks)
           u == WithSocket(t, k, n + 1)
           v == [proc[i] EXCEPT !.asks = Tail(@)]
           p == [v EXCEPT !.peers = u]
           R == socks'
           B == accepts'
<1>1. TypeInv /\ SocksOK(socks, host) /\ PostedInv /\ socks \in Seq(SocketSet) /\ n % 2 = 0 /\ n \in Nat
  BY PeerFacts DEF PeerInv, SocksOK
<1>2. /\ proc[i] \in Procs /\ TableOK(t, host) /\ t \in Tables /\ Unique(t) /\ Heard(proc[i], StateOf(i))
  BY ProcFacts DEF TableOK
<1>3. k \in Used(t) /\ ById(t, m.peer) = t.slots[k]
  BY <1>2, LookupIs
<1>4. j \in Started /\ j \in Processes /\ host[j] = t.slots[k].host
  BY <1>3, PeerFacts DEF ProcessesAt
<1>5. Connects(socks, R, i, j, m)
  BY <1>1, <1>4, TokenIs, ConnectsIs
<1>6. /\ SocksGrow(socks, R) /\ Len(R) = n + 2 /\ Shuts(socks, R, {}) /\ R \in Seq(SocketSet)
      /\ R[n + 1].of = i /\ ~R[n + 1].shut /\ R[n + 2].of = j /\ ~R[n + 2].shut
      /\ Mate(n + 1) = n + 2
  BY <1>5 DEF Connects, SocksGrow
<1>7. SocksOK(R, host)
  <2>1. (n + 2) % 2 = 0
    BY <1>1
  <2>2. ASSUME NEW s \in 1 .. Len(R) PROVE R[s].of \in DOMAIN host
    <3>1. s \in 1 .. n \/ s = n + 1 \/ s = n + 2
      BY <1>1, <1>6
    <3>2. s \in 1 .. n => R[s].of = socks[s].of /\ socks[s].of \in DOMAIN host
      BY <1>1, <1>6 DEF SocksGrow, SocksOK
    <3> QED
      BY <1>4, <1>6, <3>1, <3>2 DEF Started
  <2> QED
    BY <1>6, <2>1, <2>2 DEF SocksOK
<1>8. /\ B = [B EXCEPT ![j] = Append(accepts[j], n + 2)] /\ DOMAIN B = Processes
      /\ B = [l \in Processes |-> B[l]] /\ B[j] = Append(accepts[j], n + 2)
      /\ \A l \in Processes : l # j => B[l] = accepts[l]
  BY <1>1, <1>4 DEF TypeInv
<1>9. proc' = [proc EXCEPT ![i] = p]
  <2>1. DOMAIN proc = Processes /\ proc = [l \in Processes |-> proc[l]] /\ v.peers = t
    BY <1>1, <1>2 DEF TypeInv, Procs
  <2>2. [proc EXCEPT ![i].asks = Tail(@)] = [proc EXCEPT ![i] = v]
    BY <2>1
  <2> HIDE DEF v, k, n
  <2>3. proc' = [[proc EXCEPT ![i] = v] EXCEPT ![i].peers = WithSocket(@, k, n + 1)]
    BY <2>2 DEF k, n
  <2>4. [proc EXCEPT ![i] = v][i] = v
    BY <2>1
  <2> QED
    BY <2>1, <2>3, <2>4
<1>10. DOMAIN proc' = Processes /\ proc' = [l \in Processes |-> proc'[l]] /\ proc'[i] = p
       /\ \A l \in Processes : l # i => proc'[l] = proc[l]
  BY <1>1, <1>9, PutAt DEF TypeInv
<1>11. ASSUME NEW l \in Processes
       PROVE  /\ ProcOK(proc[l], accepts[l], l, R, host, StateOf(l))
              /\ accepts[l] \in Seq(Nat) /\ \A x \in 1 .. Len(accepts[l]) : accepts[l][x] \in 1 .. n
              /\ \A x \in Used(proc[l].peers) : proc[l].peers.slots[x].sock # -1 =>
                   proc[l].peers.slots[x].sock \in 1 .. n
  <2>1. ProcOK(proc[l], accepts[l], l, socks, host, StateOf(l)) /\ HostsGrow(host, host)
    BY PeerFacts DEF PeerInv, ProcInv
  <2>2. ProcOK(proc[l], accepts[l], l, R, host, StateOf(l))
    <3>1. \A s \in 1 .. Len(socks) : socks[s].of = l => R[s].shut = socks[s].shut
      BY <1>6 DEF Shuts
    <3> HIDE DEF R
    <3> QED
      BY <1>1, <1>6, <2>1, <3>1, ProcKeeps
  <2>3. Plugged(proc[l].peers, accepts[l], l, socks, host) /\ accepts[l] \in Seq(Nat)
    BY ProcFacts
  <2> QED
    BY <2>2, <2>3 DEF Plugged, Own
<1>28. ASSUME NEW l \in Processes, NEW x \in Used(proc[l].peers)
       PROVE  proc[l].peers.slots[x].sock # n + 1 /\ proc[l].peers.slots[x].sock # n + 2
  <2> DEFINE y == proc[l].peers.slots[x].sock
  <2>1. y = -1 \/ y \in 1 .. n
    BY <1>11
  <2> HIDE DEF y
  <2>2. y # n + 1 /\ y # n + 2
    BY <1>1, <2>1
  <2> QED
    BY <2>2 DEF y
<1> HIDE DEF R, B, n
<1>12. ASSUME NEW l \in Processes
       PROVE  /\ ProcOK(proc[l], B[l], l, R, host, StateOf(l))
              /\ \A x \in 1 .. Len(B[l]) : B[l][x] # n + 1
  <2>1. accepts[l] \in Seq(Nat) /\ \A x \in 1 .. Len(accepts[l]) : accepts[l][x] # n + 1 /\ accepts[l][x] # n + 2
    BY <1>1, <1>11
  <2>2. CASE l # j
    BY <1>8, <1>11, <2>1, <2>2
  <2>3. CASE l = j
    <3> DEFINE w == proc[j].peers
               q == accepts[j]
               y == n + 2
    <3>1. ProcOK(proc[j], q, j, R, host, StateOf(j)) /\ Plugged(w, q, j, R, host) /\ q \in Seq(Nat)
      BY <1>4, <1>11 DEF ProcOK
    <3>2. w \in Tables
      BY <1>4, ProcFacts
    <3>3. /\ Own(R, j, y) /\ y \in Nat /\ \A x \in 1 .. Len(q) : q[x] # y
          /\ \A x \in Used(w) : w.slots[x].sock # y
      <4>1. \A x \in Used(w) : w.slots[x].sock # y
        BY <1>4, <1>28
      <4> QED
        BY <1>1, <1>6, <2>1, <2>3, <4>1 DEF Own
    <3> HIDE DEF w, q, y
    <3>4. Plugged(w, Append(q, y), j, R, host) /\ Append(q, y) \in Seq(Nat)
      BY <3>1, <3>3, PluggedMore
    <3>5. ProcOK(proc[j], Append(q, y), j, R, host, StateOf(j))
      BY <3>1, <3>4 DEF ProcOK, w
    <3>6. \A x \in 1 .. Len(Append(q, y)) : Append(q, y)[x] # n + 1
      <4>1. \A x \in 1 .. Len(q) : q[x] # n + 1
        BY <2>1, <2>3 DEF q
      <4>2. y # n + 1
        BY <1>1 DEF y
      <4>3. Len(Append(q, y)) = Len(q) + 1 /\ Len(q) \in Nat /\ Append(q, y)[Len(q) + 1] = y
            /\ \A x \in 1 .. Len(q) : Append(q, y)[x] = q[x]
        BY <3>1, <3>3, AppendProperties, LenProperties
      <4>4. \A x \in 1 .. Len(q) + 1 : x \in 1 .. Len(q) \/ x = Len(q) + 1
        BY <4>3
      <4> QED
        BY <4>1, <4>2, <4>3, <4>4
    <3> QED
      BY <1>8, <2>3, <3>5, <3>6 DEF q, y
  <2> QED
    BY <2>2, <2>3
<1> DEFINE q == B[i]
<1>13. /\ q \in Seq(Nat) /\ Plugged(t, q, i, R, host) /\ \A x \in 1 .. Len(q) : q[x] # n + 1
  BY <1>12 DEF ProcOK
<1>14. \A x \in Used(t) : t.slots[x].sock # n + 1
  BY <1>28
<1> HIDE DEF t, k, q
<1>15. Rewired(t, u, k, n + 1) /\ n + 1 \in Int
  BY <1>1, <1>2, <1>3, WithSocketIs
<1> HIDE DEF u
<1>16. TableOK(u, host) /\ Ids(u) = Ids(t) /\ u \in Tables
  BY <1>2, <1>15, RewiredOK DEF TableOK
<1>17. Plugged(u, q, i, R, host)
  <2> DEFINE x == n + 1
  <2>1. Own(R, i, x) /\ host[R[Mate(x)].of] = t.slots[k].host
    BY <1>1, <1>4, <1>6 DEF Own
  <2> HIDE DEF x
  <2> QED
    BY <1>2, <1>3, <1>13, <1>14, <1>15, <2>1, PluggedAnew DEF x
<1>18. p \in Procs /\ p.peers = u /\ p.heard = proc[i].heard
  <2>1. v \in Procs /\ v.heard = proc[i].heard
    BY AsksIs
  <2> HIDE DEF v
  <2> QED
    BY <1>16, <2>1, WithPeers
<1> HIDE DEF p
<1>19. Heard(p, StateOf(i))
  BY <1>2, <1>16, <1>18, HeardKept DEF t
<1>20. StateOf(i)' = StateOf(i)
  BY DEF StateOf, Started
<1>21. ProcOK(p, q, i, R, host, StateOf(i))
  BY <1>13, <1>16, <1>17, <1>18, <1>19 DEF ProcOK
<1>22. /\ state' \in Seq(States) /\ Len(state') = Len(state) /\ \A l \in Started : l # i => state'[l] = state[l]
       /\ posted' \in [Processes -> Seq(Seq(Items))]
       /\ \A l \in Processes : \A x \in 1 .. Len(posted'[l]) : BufferOK(posted'[l][x], host)
       /\ UNCHANGED <<trackerSide, host>>
  BY <1>1 DEF TypeInv, States, PostedInv
<1>23. \A x \in 1 .. Len(socks) : socks[x].of # i => socks'[x].shut = socks[x].shut
  BY <1>6 DEF Shuts, R
<1>24. SocksGrow(socks, socks') /\ SocksOK(socks', host)
  BY <1>6, <1>7 DEF R
<1>25. DOMAIN accepts' = Processes /\ accepts' = [l \in Processes |-> accepts'[l]]
  BY <1>8 DEF B
<1>26. \A l \in Processes : l # i => ProcOK(proc[l], accepts'[l], l, socks', host, StateOf(l))
  BY <1>12 DEF B, R
<1>27. ProcOK(proc'[i], accepts'[i], i, socks', host, StateOf(i)')
  BY <1>10, <1>20, <1>21 DEF q, B, R
<1> QED
  BY <1>10, <1>22, <1>23, <1>24, <1>25, <1>26, <1>27, ProcessStep

(* What a known peer's slot holds. *)
LEMMA ByIdIs ==
  ASSUME PeerInv, NEW i \in Processes, NEW d, KnownId(proc[i].peers, d)
  PROVE  LET t == proc[i].peers
             e == ById(t, d) IN
         /\ SlotOf(t, d) \in Used(t) /\ e = t.slots[SlotOf(t, d)] /\ e.id = d /\ e.sock \in Int
         /\ d \in Started /\ d \in Processes /\ e.host = host[d]
         /\ e.sock > 0 => e.sock \in 1 .. Len(socks) /\ Own(socks, i, e.sock)
<1> DEFINE t == proc[i].peers
           k == SlotOf(t, d)
           e == ById(t, d)
<1>1. TableOK(t, host) /\ t \in Tables /\ Unique(t) /\ Named(t, host)
  BY ProcFacts DEF TableOK
<1>2. k \in Used(t) /\ e = t.slots[k] /\ t.slots[k].id = d
  BY <1>1, LookupIs
<1>3. e.sock \in Int
  BY <1>1, <1>2, EntryIs
<1>4. d \in Started /\ e.host = host[d] /\ d \in Processes
  BY <1>1, <1>2, PeerFacts DEF Named, Started
<1>5. e.sock > 0 => e.sock \in 1 .. Len(socks) /\ Own(socks, i, e.sock)
  BY <1>2, SlotSocket
<1> QED
  BY <1>2, <1>3, <1>4, <1>5

LEMMA NetAsksKeeps ==
  ASSUME PeerInv, NEW i \in Processes, NetAsks(i)
  PROVE  PeerInv'
<1> DEFINE t == proc[i].peers
           m == Head(proc[i].asks)
           p == [proc[i] EXCEPT !.asks = Tail(@)]
           e == ById(t, m.peer)
<1>1. i \in Started /\ proc[i].asks # <<>> /\ UNCHANGED <<trackerSide, posted, host>>
  BY DEF NetAsks, Up
<1>2. /\ p \in Procs /\ p.peers = proc[i].peers /\ p.heard = proc[i].heard
      /\ m \in Messages /\ m \in Tokens
  BY <1>1, AsksIs, TokenIs
<1>3. \/ UNCHANGED <<state, accepts, socks>> /\ proc' = [proc EXCEPT ![i].asks = Tail(@)]
      \/ /\ KnownId(t, m.peer) /\ Connected(e) /\ Send(i, e.sock, m) /\ UNCHANGED accepts
         /\ proc' = [proc EXCEPT ![i].asks = Tail(@)]
      \/ /\ KnownId(t, m.peer) /\ ~Connected(e) /\ UNCHANGED state
         /\ \E j \in ProcessesAt(e.host) :
           /\ socks' = socks \o <<Socket(i, <<>>), Socket(j, <<m>>)>>
           /\ accepts' = [accepts EXCEPT ![j] = Append(@, Len(socks) + 2)]
           /\ proc' = [[proc EXCEPT ![i].asks = Tail(@)] EXCEPT ![i].peers =
                         WithSocket(@, SlotOf(t, m.peer), Len(socks) + 1)]
  BY DEF NetAsks
<1>4. [proc EXCEPT ![i].asks = Tail(@)] = [proc EXCEPT ![i] = p]
  BY DEF PeerInv, TypeInv
<1>5. CASE UNCHANGED <<state, accepts, socks>> /\ proc' = [proc EXCEPT ![i].asks = Tail(@)]
  <2>1. SocksGrow(socks, socks') /\ Len(socks') = Len(socks) /\ Shuts(socks, socks', {})
    BY <1>5, PeerFacts DEF Shuts
  <2> HIDE DEF p, m
  <2>2. state' \in {state, [state EXCEPT ![i] = "killed"]} /\ UNCHANGED <<trackerSide, posted, host, accepts>>
        /\ proc' = [proc EXCEPT ![i] = p]
    BY <1>1, <1>4, <1>5
  <2> QED
    BY <1>1, <1>2, <2>1, <2>2, PlainStep
<1>6. CASE /\ KnownId(t, m.peer) /\ Connected(e) /\ Send(i, e.sock, m) /\ UNCHANGED accepts
           /\ proc' = [proc EXCEPT ![i].asks = Tail(@)]
  <2>1. e.sock \in 1 .. Len(socks)
    BY <1>6, ByIdIs DEF Connected
  <2> HIDE DEF p, e, m
  <2>2. SocksGrow(socks, socks') /\ Len(socks') = Len(socks) /\ Shuts(socks, socks', {})
        /\ state' \in {state, [state EXCEPT ![i] = "killed"]}
    BY <1>2, <1>6, <2>1, SendIs
  <2>3. UNCHANGED <<trackerSide, posted, host, accepts>> /\ proc' = [proc EXCEPT ![i] = p]
    BY <1>1, <1>4, <1>6
  <2> QED
    BY <1>1, <1>2, <2>2, <2>3, PlainStep
<1>7. CASE /\ KnownId(t, m.peer) /\ ~Connected(e) /\ UNCHANGED state
           /\ \E j \in ProcessesAt(e.host) :
             /\ socks' = socks \o <<Socket(i, <<>>), Socket(j, <<m>>)>>
             /\ accepts' = [accepts EXCEPT ![j] = Append(@, Len(socks) + 2)]
             /\ proc' = [[proc EXCEPT ![i].asks = Tail(@)] EXCEPT ![i].peers =
                           WithSocket(@, SlotOf(t, m.peer), Len(socks) + 1)]
  <2>1. PICK j \in ProcessesAt(e.host) :
             /\ socks' = socks \o <<Socket(i, <<>>), Socket(j, <<m>>)>>
             /\ accepts' = [accepts EXCEPT ![j] = Append(@, Len(socks) + 2)]
             /\ proc' = [[proc EXCEPT ![i].asks = Tail(@)] EXCEPT ![i].peers =
                           WithSocket(@, SlotOf(t, m.peer), Len(socks) + 1)]
    BY <1>7
  <2>2. UNCHANGED <<trackerSide, posted, host, state>>
    BY <1>1, <1>7
  <2> HIDE DEF m
  <2> QED
    BY <1>1, <1>2, <1>7, <2>1, <2>2, NetConnects
<1> QED
  BY <1>3, <1>5, <1>6, <1>7

LEMMA NetAnswersKeeps ==
  ASSUME PeerInv, NEW i \in Processes, NetAnswers(i)
  PROVE  PeerInv'
<1> DEFINE t == proc[i].peers
           m == Head(proc[i].answers)
           p == [proc[i] EXCEPT !.answers = Tail(@)]
           e == ById(t, m.peer)
<1>1. /\ i \in Started /\ proc[i].answers # <<>> /\ UNCHANGED <<trackerSide, posted, host, accepts>>
      /\ proc' = [proc EXCEPT ![i].answers = Tail(@)]
  BY DEF NetAnswers, Up
<1>2. p \in Procs /\ p.peers = proc[i].peers /\ p.heard = proc[i].heard /\ m \in Tokens
  <2>1. proc[i] \in Procs /\ proc[i].answers \in Seq(Messages)
    BY ProcFacts, ProcParts
  <2>2. Tail(proc[i].answers) \in Seq(Messages) /\ m \in Messages
    BY <1>1, <2>1, HeadTailProperties
  <2> QED
    BY <2>1, <2>2, WithQueue, TokenIs
<1>3. \/ UNCHANGED <<state, socks>>
      \/ KnownId(t, m.peer) /\ e.sock > 0 /\ Send(i, e.sock, m)
  BY DEF NetAnswers
<1>4. proc' = [proc EXCEPT ![i] = p]
  BY <1>1 DEF PeerInv, TypeInv
<1>5. /\ SocksGrow(socks, socks') /\ Len(socks') = Len(socks) /\ Shuts(socks, socks', {})
      /\ state' \in {state, [state EXCEPT ![i] = "killed"]}
  <2>1. CASE UNCHANGED <<state, socks>>
    BY <2>1, PeerFacts DEF Shuts
  <2>2. CASE KnownId(t, m.peer) /\ e.sock > 0 /\ Send(i, e.sock, m)
    <3>1. e.sock \in 1 .. Len(socks)
      BY <2>2, ByIdIs
    <3> HIDE DEF e, m
    <3> QED
      BY <1>2, <2>2, <3>1, SendIs
  <2> QED
    BY <1>3, <2>1, <2>2
<1> HIDE DEF p
<1> QED
  BY <1>1, <1>2, <1>4, <1>5, PlainStep

LEMMA LogicAsksKeeps ==
  ASSUME PeerInv, NEW i \in Processes, NEW d \in Processes, LogicAsks(i, d)
  PROVE  PeerInv'
<1> DEFINE x == Append(proc[i].asked, d)
           m == [type |-> "ask", job |-> Len(proc[i].asked) + 1, origin |-> i, peer |-> d]
           y == Append(proc[i].asks, m)
           v == [proc[i] EXCEPT !.asked = x]
           p == [v EXCEPT !.asks = y]
<1>1. /\ i \in Started /\ UNCHANGED <<trackerSide, posted, host, state, accepts, socks>>
      /\ Len(proc[i].asked) < MaxAsks
      /\ proc' = [proc EXCEPT ![i].asked = Append(@, d), ![i].asks = Append(@, m)]
  BY DEF LogicAsks, Up
<1>2. proc[i] \in Procs /\ proc[i].asked \in Seq(Processes) /\ proc[i].asks \in Seq(Messages)
      /\ Len(proc[i].asked) \in Nat /\ MaxAsks \in Nat
  BY ProcFacts, ProcParts, LenProperties, PeerNetworkAssumption
<1>3. m \in Messages
  BY <1>1, <1>2 DEF Messages
<1>4. proc' = [proc EXCEPT ![i] = p]
  <2> HIDE DEF m
  <2>1. DOMAIN proc = Processes /\ proc = [j \in Processes |-> proc[j]]
    BY DEF PeerInv, TypeInv
  <2>2. proc' = [[proc EXCEPT ![i].asked = Append(@, d)] EXCEPT ![i].asks = Append(@, m)]
    BY <1>1
  <2>3. [proc EXCEPT ![i].asked = Append(@, d)] = [proc EXCEPT ![i] = v]
    BY <2>1
  <2>4. v.asks = proc[i].asks
    BY <1>2 DEF Procs
  <2> DEFINE Q == [proc EXCEPT ![i] = v]
  <2>5. proc' = [Q EXCEPT ![i].asks = Append(@, m)]
    BY <2>2, <2>3
  <2> HIDE DEF v, p
  <2>6. Q[i] = v /\ [Q EXCEPT ![i] = p] = [proc EXCEPT ![i] = p]
    BY <2>1
  <2> HIDE DEF Q
  <2>7. proc' = [Q EXCEPT ![i] = p]
    BY <2>4, <2>5, <2>6 DEF p
  <2> QED
    BY <2>6, <2>7
<1>5. x \in Seq(Processes) /\ y \in Seq(Messages)
  BY <1>2, <1>3, AppendProperties
<1> HIDE DEF x, y
<1>6. v \in Procs /\ v.peers = proc[i].peers /\ v.heard = proc[i].heard
  BY <1>2, <1>5, WithAsked
<1> HIDE DEF v
<1>7. p \in Procs /\ p.peers = proc[i].peers /\ p.heard = proc[i].heard
  BY <1>5, <1>6, WithQueue
<1> HIDE DEF p
<1>8. SocksGrow(socks, socks') /\ Len(socks') = Len(socks) /\ Shuts(socks, socks', {})
      /\ state' \in {state, [state EXCEPT ![i] = "killed"]}
  BY <1>1, PeerFacts DEF Shuts
<1> QED
  BY <1>1, <1>4, <1>7, <1>8, PlainStep

LEMMA LogicAnswersKeeps ==
  ASSUME PeerInv, NEW i \in Processes, LogicAnswers(i)
  PROVE  PeerInv'
<1> DEFINE m == Head(proc[i].todo)
           y == IF KnownId(proc[i].peers, m.peer)
                  THEN Append(proc[i].answers, [m EXCEPT !.type = "answer"]) ELSE proc[i].answers
           v == [proc[i] EXCEPT !.todo = Tail(@)]
           p == [v EXCEPT !.answers = y]
<1>1. /\ i \in Started /\ proc[i].todo # <<>> /\ UNCHANGED <<trackerSide, posted, host, state, accepts, socks>>
      /\ proc' = [proc EXCEPT ![i].todo = Tail(@),
                    ![i].answers = IF KnownId(proc[i].peers, m.peer)
                                     THEN Append(@, [m EXCEPT !.type = "answer"]) ELSE @]
  BY DEF LogicAnswers, Up
<1>2. proc[i] \in Procs /\ proc[i].todo \in Seq(Messages) /\ proc[i].answers \in Seq(Messages)
  BY ProcFacts, ProcParts
<1>3. m \in Messages /\ Tail(proc[i].todo) \in Seq(Messages)
  BY <1>1, <1>2, HeadTailProperties
<1>4. proc' = [proc EXCEPT ![i] = p]
  <2> HIDE DEF m
  <2>1. DOMAIN proc = Processes /\ proc = [j \in Processes |-> proc[j]]
    BY DEF PeerInv, TypeInv
  <2>2. proc' = [[proc EXCEPT ![i].todo = Tail(@)] EXCEPT
                   ![i].answers = IF KnownId(proc[i].peers, m.peer)
                                    THEN Append(@, [m EXCEPT !.type = "answer"]) ELSE @]
    BY <1>1
  <2>3. [proc EXCEPT ![i].todo = Tail(@)] = [proc EXCEPT ![i] = v]
    BY <2>1
  <2>4. v.answers = proc[i].answers
    BY <1>2 DEF Procs
  <2> DEFINE Q == [proc EXCEPT ![i] = v]
  <2>5. proc' = [Q EXCEPT ![i].answers = IF KnownId(proc[i].peers, m.peer)
                                    THEN Append(@, [m EXCEPT !.type = "answer"]) ELSE @]
    BY <2>2, <2>3
  <2> HIDE DEF v, p
  <2>6. Q[i] = v /\ [Q EXCEPT ![i] = p] = [proc EXCEPT ![i] = p]
    BY <2>1
  <2> HIDE DEF Q
  <2>7. proc' = [Q EXCEPT ![i] = p]
    BY <2>4, <2>5, <2>6 DEF p
  <2> QED
    BY <2>6, <2>7
<1>5. y \in Seq(Messages)
  BY <1>2, <1>3, RenamedIs, AppendProperties
<1> HIDE DEF m, y
<1>6. v \in Procs /\ v.peers = proc[i].peers /\ v.heard = proc[i].heard
  BY <1>2, <1>3, WithQueue
<1> HIDE DEF v
<1>7. p \in Procs /\ p.peers = proc[i].peers /\ p.heard = proc[i].heard
  BY <1>5, <1>6, WithQueue
<1> HIDE DEF p
<1>8. SocksGrow(socks, socks') /\ Len(socks') = Len(socks) /\ Shuts(socks, socks', {})
      /\ state' \in {state, [state EXCEPT ![i] = "killed"]}
  BY <1>1, PeerFacts DEF Shuts
<1> QED
  BY <1>1, <1>4, <1>7, <1>8, PlainStep

(* The sockets of process i closed, all of them; what its ends were linked *)
(* to hears of it where H.                                                 *)
EndSocket(S, i, H, s) ==
  IF S[s].of = i THEN [S[s] EXCEPT !.shut = TRUE, !.in = <<>>]
  ELSE IF s \in H THEN [S[s] EXCEPT !.in = Append(@, EOF)]
  ELSE S[s]
ClosesAll(S, R, i, H) ==
  /\ SocksGrow(S, R) /\ Len(R) = Len(S)
  /\ \A s \in 1 .. Len(S) :
       /\ R[s].shut = IF S[s].of = i THEN TRUE ELSE S[s].shut
       /\ R[s].in = IF S[s].of = i THEN <<>> ELSE IF s \in H THEN Append(S[s].in, EOF) ELSE S[s].in

LEMMA ClosesAllIs ==
  ASSUME NEW S \in Seq(SocketSet), NEW i, NEW H, NEW R, R = [s \in DOMAIN S |-> EndSocket(S, i, H, s)]
  PROVE  ClosesAll(S, R, i, H)
<1> DEFINE E(s) == EndSocket(S, i, H, s)
<1>1. Len(S) \in Nat /\ DOMAIN S = 1 .. Len(S)
      /\ \A s \in 1 .. Len(S) : S[s] \in SocketSet /\ S[s].in \in Seq(Tokens)
  BY SocketIs DEF Lines
<1>2. ASSUME NEW s \in 1 .. Len(S)
      PROVE  /\ E(s) \in SocketSet /\ E(s).of = S[s].of
             /\ E(s).shut = IF S[s].of = i THEN TRUE ELSE S[s].shut
             /\ E(s).in = IF S[s].of = i THEN <<>> ELSE IF s \in H THEN Append(S[s].in, EOF) ELSE S[s].in
  <2> DEFINE e == S[s]
             d == [e EXCEPT !.shut = TRUE]
  <2>1. e \in SocketSet /\ e.in \in Seq(Tokens)
    BY <1>1
  <2> HIDE DEF e
  <2>2. <<>> \in Lines /\ Append(e.in, EOF) \in Lines
    BY <2>1, TokenIs, AppendProperties, EmptySeq DEF Lines
  <2>3. CASE e.of = i
    <3>1. E(s) = [d EXCEPT !.in = <<>>]
      BY <2>3 DEF EndSocket, e
    <3>2. d \in SocketSet /\ d.of = e.of /\ d.shut = TRUE
      BY <2>1 DEF SocketSet
    <3> HIDE DEF d
    <3>3. [d EXCEPT !.in = <<>>] \in SocketSet /\ [d EXCEPT !.in = <<>>].of = d.of
          /\ [d EXCEPT !.in = <<>>].shut = d.shut /\ [d EXCEPT !.in = <<>>].in = <<>>
      BY <2>2, <3>2 DEF SocketSet
    <3> HIDE DEF E
    <3> QED
      BY <2>3, <3>1, <3>2, <3>3 DEF e
  <2>4. CASE e.of # i /\ s \in H
    <3>1. E(s) = [e EXCEPT !.in = Append(e.in, EOF)]
      BY <2>4 DEF EndSocket, e
    <3> DEFINE l == Append(e.in, EOF)
    <3> HIDE DEF E, l
    <3>2. E(s) \in SocketSet /\ E(s).of = e.of /\ E(s).shut = e.shut /\ E(s).in = l
      BY <2>1, <2>2, <3>1 DEF SocketSet, l
    <3> QED
      BY <2>4, <3>2 DEF e, l
  <2>5. CASE e.of # i /\ s \notin H
    <3>1. E(s) = e
      BY <2>5 DEF EndSocket, e
    <3> HIDE DEF E
    <3> QED
      BY <2>1, <2>5, <3>1 DEF e
  <2> QED
    BY <2>3, <2>4, <2>5
<1>3. R = [s \in 1 .. Len(S) |-> E(s)]
  BY <1>1
<1> HIDE DEF E
<1>4. R \in [1 .. Len(S) -> SocketSet] /\ \A s \in 1 .. Len(S) : R[s] = E(s)
  BY <1>2, <1>3
<1>5. R \in Seq(SocketSet) /\ Len(R) = Len(S)
  BY <1>1, <1>4
<1>6. SocksGrow(S, R)
  <2>1. \A s \in 1 .. Len(S) : R[s].of = S[s].of
    BY <1>2, <1>4
  <2> QED
    BY <1>1, <1>5, <2>1 DEF SocksGrow
<1>7. ASSUME NEW s \in 1 .. Len(S)
      PROVE  /\ R[s].shut = IF S[s].of = i THEN TRUE ELSE S[s].shut
             /\ R[s].in = IF S[s].of = i THEN <<>> ELSE IF s \in H THEN Append(S[s].in, EOF) ELSE S[s].in
  <2>1. R[s] = E(s)
    BY <1>4
  <2> QED
    BY <1>2, <2>1
<1> QED
  BY <1>5, <1>6, <1>7 DEF ClosesAll

(* What is left of a process. *)
LEMMA EndedIs ==
  ASSUME PeerInv, NEW i \in Processes
  PROVE  LET p == [Process EXCEPT !.asked = proc[i].asked] IN
         /\ p \in Procs /\ p.peers = NewTable(InitialSize) /\ p.asked = proc[i].asked
         /\ p.asks = <<>> /\ p.todo = <<>> /\ p.answers = <<>> /\ p.got = <<>>
<1> DEFINE t == NewTable(InitialSize)
<1>1. t \in Tables
  BY PeerNetworkAssumption, NewTableIs
<1>2. proc[i].asked \in Seq(Processes)
  BY ProcFacts, ProcParts
<1>3. Process = [peers |-> t, heard |-> {}, asked |-> <<>>, asks |-> <<>>, todo |-> <<>>,
                 answers |-> <<>>, got |-> <<>>]
  BY DEF Process
<1> HIDE DEF t
<1>4. <<>> \in Seq(Processes) /\ <<>> \in Seq(Messages)
  OBVIOUS
<1>5. /\ Process \in Procs /\ Process.peers = t /\ Process.asks = <<>> /\ Process.todo = <<>>
      /\ Process.answers = <<>> /\ Process.got = <<>>
  BY <1>1, <1>3, <1>4 DEF Procs
<1> QED
  BY <1>2, <1>5, WithAsked DEF t

LEMMA EndsKeeps ==
  ASSUME PeerInv, NEW i \in Processes, Ends(i)
  PROVE  PeerInv'
<1> DEFINE H == {s \in DOMAIN socks : Mate(s) \in SocketsOf(i) /\ WatchedSocket(s)}
           p == [Process EXCEPT !.asked = proc[i].asked]
           t == NewTable(InitialSize)
<1>1. /\ i \in Started /\ state' = [state EXCEPT ![i] = "gone"]
      /\ proc' = [proc EXCEPT ![i] = p]
      /\ posted' = [posted EXCEPT ![i] = <<>>] /\ accepts' = [accepts EXCEPT ![i] = <<>>]
      /\ socks' = [s \in DOMAIN socks |-> EndSocket(socks, i, H, s)]
      /\ UNCHANGED <<trackerSide, host>>
  BY DEF Ends, Open, EndSocket
<1> HIDE DEF H
<1>2. TypeInv /\ SocksOK(socks, host) /\ PostedInv /\ socks \in Seq(SocketSet)
  BY DEF PeerInv, SocksOK
<1>3. /\ SocksGrow(socks, socks') /\ Len(socks') = Len(socks)
      /\ \A s \in 1 .. Len(socks) : socks[s].of # i => socks'[s].shut = socks[s].shut
  <2>1. ClosesAll(socks, socks', i, H)
    BY <1>1, <1>2, ClosesAllIs
  <2> QED
    BY <2>1 DEF ClosesAll
<1>4. SocksOK(socks', host)
  BY <1>2, <1>3, SocksKeep
<1>5. p \in Procs /\ p.peers = t
  BY EndedIs
<1> HIDE DEF p
<1>6. DOMAIN proc' = Processes /\ proc' = [j \in Processes |-> proc'[j]] /\ proc'[i] = p
      /\ \A j \in Processes : j # i => proc'[j] = proc[j]
  BY <1>1, <1>2, PutAt DEF TypeInv
<1>7. DOMAIN accepts' = Processes /\ accepts' = [j \in Processes |-> accepts'[j]] /\ accepts'[i] = <<>>
      /\ \A j \in Processes : j # i => accepts'[j] = accepts[j]
  BY <1>1, <1>2 DEF TypeInv
<1>8. /\ posted' \in [Processes -> Seq(Seq(Items))]
      /\ \A j \in Processes : \A n \in 1 .. Len(posted'[j]) : BufferOK(posted'[j][n], host)
  <2>1. posted \in [Processes -> Seq(Seq(Items))] /\ <<>> \in Seq(Seq(Items))
    BY <1>2 DEF TypeInv
  <2>2. posted'[i] = <<>> /\ \A j \in Processes : j # i => posted'[j] = posted[j]
    BY <1>1, <2>1
  <2>3. posted' \in [Processes -> Seq(Seq(Items))]
    BY <1>1, <2>1
  <2>4. ASSUME NEW j \in Processes, NEW n \in 1 .. Len(posted'[j]) PROVE BufferOK(posted'[j][n], host)
    <3>1. j # i
      BY <2>2
    <3>2. posted'[j] = posted[j]
      BY <2>2, <3>1
    <3> QED
      BY <1>2, <3>2 DEF PostedInv
  <2> QED
    BY <2>3, <2>4
<1>9. /\ state' \in Seq(States) /\ Len(state') = Len(state) /\ \A j \in Started : j # i => state'[j] = state[j]
      /\ StateOf(i)' = "gone"
  <2>1. state \in Seq(States) /\ i \in 1 .. Len(state) /\ "gone" \in States /\ DOMAIN host' = DOMAIN host
        /\ Started = 1 .. Len(state) /\ Len(state) \in Nat
    BY <1>1, <1>2, PeerFacts DEF TypeInv, States
  <2>2. StateOf(i)' = state'[i]
    BY <2>1 DEF StateOf, Started
  <2> QED
    BY <1>1, <2>1, <2>2, ExceptSeq
<1>10. TableOK(t, host) /\ Used(t) = {}
  BY PeerNetworkAssumption, NewTableOK, NewTableIs
<1> HIDE DEF t
<1>11. ProcOK(proc'[i], accepts'[i], i, socks', host, StateOf(i)')
  <2>1. Plugged(t, <<>>, i, socks', host)
    BY <1>10 DEF Plugged
  <2>2. Heard(p, "gone")
    BY DEF Heard
  <2>3. <<>> \in Seq(Nat)
    OBVIOUS
  <2> QED
    BY <1>5, <1>6, <1>7, <1>9, <1>10, <2>1, <2>2, <2>3 DEF ProcOK
<1> QED
  BY <1>1, <1>3, <1>4, <1>6, <1>7, <1>8, <1>9, <1>11, ProcessStep

LEMMA PeerNextKeeps ==
  ASSUME PeerInv, [PeerNext]_peerVars
  PROVE  PeerInv'
<1>1. CASE UNCHANGED peerVars
  <2>1. /\ UNCHANGED <<host, state, proc, accepts, socks>> /\ UNCHANGED <<roster, most, told, posted>>
    BY <1>1 DEF peerVars, trackerSide
  <2>2. RosterOK(roster', most', host) /\ TypeInv /\ PostedInv
    BY <2>1 DEF PeerInv
  <2> QED
    BY <2>1, <2>2, TrackerStep DEF TypeInv, PostedInv
<1>2. CASE \E h \in Hosts : Starts(h)
  BY <1>2, StartsKeeps
<1>3. ASSUME NEW i \in Processes,
             \/ TrackerTells(i) \/ TrackerLoses(i)
             \/ NetAccepts(i) \/ NetTable(i) \/ NetReads(i) \/ NetAsks(i) \/ NetAnswers(i)
             \/ \E d \in Processes : LogicAsks(i, d)
             \/ LogicAnswers(i) \/ Ends(i)
      PROVE  PeerInv'
  BY <1>3, TrackerTellsKeeps, TrackerLosesKeeps, NetAcceptsKeeps, NetTableKeeps, NetReadsKeeps,
     NetAsksKeeps, NetAnswersKeeps, LogicAsksKeeps, LogicAnswersKeeps, EndsKeeps
<1> QED
  BY <1>1, <1>2, <1>3 DEF PeerNext

(* The invariant of the peer tables holds throughout. *)
THEOREM PeerTables == PeerSpec => []PeerInv
<1>1. PeerInit => PeerInv
  BY PeerInitInv
<1>2. PeerInv /\ [PeerNext]_peerVars => PeerInv'
  BY PeerNextKeeps
<1> QED
  BY <1>1, <1>2, PTL DEF PeerSpec

(* The invariant says what the runs check of the tables. *)
LEMMA TablesSay ==
  ASSUME PeerInv
  PROVE  PeerTypeOK
<1>1. ASSUME NEW i \in Started
      PROVE  LET p == proc[i] IN
             /\ ~HasJunk(p.peers) /\ Ids(p.peers) \subseteq Started
             /\ \A e \in Entries(p.peers) : e.sock > 0 => e.sock \in SocketsOf(i)
             /\ \A e, f \in Entries(p.peers) : e.sock > 0 /\ e.sock = f.sock => e = f
             /\ \A n \in DOMAIN p.asks : p.asks[n] \in Messages
             /\ \A n \in DOMAIN p.answers : p.answers[n] \in Messages
  <2> DEFINE p == proc[i]
             t == p.peers
  <2>1. i \in Processes
    BY PeerFacts
  <2>2. p \in Procs /\ TableOK(t, host) /\ t \in Tables
    BY <2>1, ProcFacts
  <2>3. ~HasJunk(t) /\ Ids(t) \subseteq Started
    <3>1. Ids(t) = {t.slots[k].id : k \in Used(t)}
      BY <2>2, EntryIs
    <3> QED
      BY <2>2, <3>1 DEF TableOK, Named, Started
  <2>4. Entries(t) = {t.slots[k] : k \in Used(t)}
    BY <2>2, EntryIs
  <2>5. ASSUME NEW k \in Used(t), t.slots[k].sock > 0
        PROVE  /\ t.slots[k].sock \in SocketsOf(i)
               /\ \A l \in Used(t) : t.slots[k].sock = t.slots[l].sock => k = l
    <3>1. /\ t.slots[k].sock \in 1 .. Len(socks) /\ Own(socks, i, t.slots[k].sock)
          /\ \A l \in Used(t) : l # k => t.slots[l].sock # t.slots[k].sock
      BY <2>1, <2>5, SlotSocket
    <3> QED
      BY <3>1, PeerFacts DEF SocketsOf, Own
  <2>6. /\ \A e \in Entries(t) : e.sock > 0 => e.sock \in SocketsOf(i)
        /\ \A e, f \in Entries(t) : e.sock > 0 /\ e.sock = f.sock => e = f
    BY <2>4, <2>5
  <2>7. p.asks \in Seq(Messages) /\ p.answers \in Seq(Messages)
    BY <2>2, ProcParts
  <2>8. /\ \A n \in DOMAIN p.asks : p.asks[n] \in Messages
        /\ \A n \in DOMAIN p.answers : p.answers[n] \in Messages
    BY <2>7, LenProperties, ElementOfSeq
  <2> QED
    BY <2>3, <2>6, <2>8
<1>2. Ids(roster) \subseteq Started /\ roster.count = Cardinality(Ids(roster))
  <2>1. roster \in Tables /\ Unique(roster) /\ Named(roster, host) /\ Counted(roster)
    BY DEF PeerInv, RosterOK
  <2>2. Ids(roster) = {roster.slots[k].id : k \in Used(roster)}
    BY <2>1, EntryIs
  <2>3. Ids(roster) = IdsIn(roster, Used(roster))
    BY <2>2 DEF IdsIn
  <2>4. Cardinality(Ids(roster)) = Cardinality(Used(roster))
    BY <2>1, <2>3, IdCount
  <2> QED
    BY <2>1, <2>2, <2>4 DEF Named, Counted, Started
<1> QED
  BY <1>1, <1>2 DEF PeerTypeOK

(* The tables that the network threads of tracker and clients keep are     *)
(* well formed, whatever messages, connections and losses come in between: *)
(* every id in one is that of a process that was started, every socket in  *)
(* one is an open connection of the process itself and stands in one slot  *)
(* (network_client.c), and the tracker's count is that of its peers        *)
(* (peer_table.c).                                                         *)
THEOREM PeerTableTypes == PeerSpec => []PeerTypeOK
<1>1. PeerInv => PeerTypeOK
  BY TablesSay
<1> QED
  BY <1>1, PeerTables, PTL

(* What the logic thread of a client was told of arrivals and departures   *)
(* adds up to the peer table of its network thread: diff_tables, on two    *)
(* tables of any size, loses none and makes none up.                       *)
THEOREM LogicKnowsPeers == PeerSpec => []HeardIsTable
<1>1. PeerInv => HeardIsTable
  BY PeerFacts, ProcFacts DEF HeardIsTable, Heard, StateOf, Up
<1> QED
  BY <1>1, PeerTables, PTL

(* Neither the tracker nor a client takes for a peer what it never set,    *)
(* but for the two cases that JunkNeedsCrowd names: the tracker once had   *)
(* as many peers as its first table has slots, or two thirds of the peers  *)
(* a client knew are gone from the next table it gets (the tables that     *)
(* diff_tables fills have the size of the new one).                        *)
THEOREM CrowdsBringJunk == PeerSpec => []JunkNeedsCrowd
<1>1. PeerInv => JunkNeedsCrowd
  <2>1. ASSUME PeerInv PROVE HasJunk(roster) => most >= InitialSize
    <3>1. most \in Nat /\ InitialSize \in Nat /\ (HasJunk(roster) => InitialSize <= most)
      BY <2>1, PeerNetworkAssumption DEF PeerInv, RosterOK
    <3> QED
      BY <3>1
  <2>2. ASSUME PeerInv, NEW i \in Started, state[i] = "astray"
        PROVE  Cardinality(proc[i].heard \ Ids(proc[i].peers)) >= 2 * Cardinality(Ids(proc[i].peers))
    BY <2>2, PeerFacts, ProcFacts DEF Heard, StateOf
  <2> QED
    BY <2>1, <2>2 DEF JunkNeedsCrowd
<1> QED
  BY <1>1, PeerTables, PTL

-----------------------------------------------------------------------------
(***************************************************************************)
(* Requests and answers.  Each stands in one line: a queue of a process,   *)
(* or what waits at a socket.                                              *)
(***************************************************************************)
Kinds == {"asks", "todo", "answers", "got"}
Sockets == Nat \ {0}
Places == (Kinds \X Processes) \cup ({"in"} \X Sockets)

Queue(p, k) ==
  IF k = "asks" THEN p.asks ELSE IF k = "todo" THEN p.todo ELSE IF k = "answers" THEN p.answers ELSE p.got
In(S, s) == IF s \in 1 .. Len(S) THEN S[s].in ELSE <<>>
Line(p, P, S) == IF p[1] = "in" THEN In(S, p[2]) ELSE Queue(P[p[2]], p[1])
LinesOf(P, S) == [p \in Places |-> Line(p, P, S)]

Full(P) == DOMAIN P = Processes /\ \A i \in Processes : P[i] \in Procs

LEMMA LinesAre ==
  ASSUME NEW P, Full(P), NEW S \in Seq(SocketSet)
  PROVE  /\ LinesOf(P, S) \in [Places -> Lines]
         /\ \A k \in Kinds, i \in Processes : <<k, i>> \in Places /\ LinesOf(P, S)[<<k, i>>] = Queue(P[i], k)
         /\ \A s \in Sockets : <<"in", s>> \in Places /\ LinesOf(P, S)[<<"in", s>>] = In(S, s)
<1>1. \A k \in Kinds : k # "in"
  BY DEF Kinds
<1>2. \A k \in Kinds, i \in Processes : Queue(P[i], k) \in Lines
  <2>1. SUFFICES ASSUME NEW k \in Kinds, NEW i \in Processes PROVE Queue(P[i], k) \in Lines
    OBVIOUS
  <2>2. /\ P[i].asks \in Seq(Messages) /\ P[i].todo \in Seq(Messages)
        /\ P[i].answers \in Seq(Messages) /\ P[i].got \in Seq(Messages)
    BY ProcParts DEF Full
  <2>3. Queue(P[i], k) \in Seq(Messages)
    BY <2>2 DEF Queue
  <2> QED
    BY <2>3 DEF Lines, Tokens
<1>3. \A s \in Sockets : In(S, s) \in Lines
  BY SocketIs DEF In, Lines
<1>4. ASSUME NEW p \in Places PROVE Line(p, P, S) \in Lines
  <2>1. CASE p \in Kinds \X Processes
    <3>1. PICK k \in Kinds, i \in Processes : p = <<k, i>>
      BY <2>1
    <3>2. Line(p, P, S) = Queue(P[i], k)
      BY <1>1, <3>1 DEF Line
    <3> QED
      BY <1>2, <3>2
  <2>2. CASE p \in {"in"} \X Sockets
    <3>1. PICK s \in Sockets : p = <<"in", s>>
      BY <2>2
    <3>2. Line(p, P, S) = In(S, s)
      BY <3>1 DEF Line
    <3> QED
      BY <1>3, <3>2
  <2> QED
    BY <2>1, <2>2 DEF Places
<1>5. LinesOf(P, S) \in [Places -> Lines] /\ \A p \in Places : LinesOf(P, S)[p] = Line(p, P, S)
  BY <1>4 DEF LinesOf
<1>6. ASSUME NEW k \in Kinds, NEW i \in Processes
      PROVE  <<k, i>> \in Places /\ LinesOf(P, S)[<<k, i>>] = Queue(P[i], k)
  <2>1. <<k, i>> \in Places /\ <<k, i>>[1] = k /\ <<k, i>>[2] = i
    BY DEF Places
  <2> QED
    BY <1>1, <1>5, <2>1 DEF Line
<1>7. ASSUME NEW s \in Sockets PROVE <<"in", s>> \in Places /\ LinesOf(P, S)[<<"in", s>>] = In(S, s)
  <2>1. <<"in", s>> \in Places /\ <<"in", s>>[1] = "in" /\ <<"in", s>>[2] = s
    BY DEF Places
  <2> QED
    BY <1>5, <2>1 DEF Line
<1> QED
  BY <1>5, <1>6, <1>7

(* A line with nothing new but the end of the stream. *)
LessAt(p, q, r) == r = q \/ r = <<>> \/ (p[1] = "in" /\ r = Append(q, EOF))

(* Nothing new, but in the queues K of process i and at the sockets of X. *)
LEMMA PlacesLess ==
  ASSUME NEW P, Full(P), NEW S \in Seq(SocketSet), NEW Q, Full(Q), NEW R \in Seq(SocketSet),
         NEW i \in Processes, NEW K, NEW X,
         \A j \in Processes : j # i => Q[j] = P[j],
         \A k \in Kinds \ K : Queue(Q[i], k) = Queue(P[i], k) \/ Queue(Q[i], k) = <<>>,
         \A s \in Sockets \ X : Less(In(S, s), In(R, s)),
         NEW p \in Places, \A k \in K : p # <<k, i>>, \A s \in X : p # <<"in", s>>
  PROVE  LessAt(p, LinesOf(P, S)[p], LinesOf(Q, R)[p])
<1>1. CASE p \in Kinds \X Processes
  <2>1. PICK k \in Kinds, j \in Processes : p = <<k, j>>
    BY <1>1
  <2>2. LinesOf(P, S)[p] = Queue(P[j], k) /\ LinesOf(Q, R)[p] = Queue(Q[j], k)
    BY <2>1, LinesAre
  <2>3. Queue(Q[j], k) = Queue(P[j], k) \/ Queue(Q[j], k) = <<>>
    BY <2>1
  <2> QED
    BY <2>2, <2>3 DEF LessAt
<1>2. CASE p \in {"in"} \X Sockets
  <2>1. PICK s \in Sockets : p = <<"in", s>>
    BY <1>2
  <2>2. LinesOf(P, S)[p] = In(S, s) /\ LinesOf(Q, R)[p] = In(R, s)
    BY <2>1, LinesAre
  <2>3. Less(In(S, s), In(R, s)) /\ p[1] = "in"
    BY <2>1
  <2> QED
    BY <2>2, <2>3 DEF LessAt, Less
<1> QED
  BY <1>1, <1>2 DEF Places

(* Each job in one place. *)
SameJob(m, n) == m \in Messages /\ n \in Messages /\ m.origin = n.origin /\ m.job = n.job
Once(F) ==
  \A p, q \in Places : \A n \in 1 .. Len(F[p]), l \in 1 .. Len(F[q]) :
    SameJob(F[p][n], F[q][l]) => p = q /\ n = l

LEMMA LessIs ==
  ASSUME NEW p, NEW q \in Lines, NEW r \in Lines, LessAt(p, q, r), NEW n \in 1 .. Len(r)
  PROVE  \/ n \in 1 .. Len(q) /\ r[n] = q[n]
         \/ r[n] = EOF /\ p[1] = "in"
<1>1. CASE r = q
  BY <1>1
<1>2. CASE r = <<>>
  BY <1>2
<1>3. CASE p[1] = "in" /\ r = Append(q, EOF)
  <2>1. /\ Len(r) = Len(q) + 1 /\ Len(q) \in Nat /\ r[Len(q) + 1] = EOF
        /\ \A l \in 1 .. Len(q) : r[l] = q[l]
    BY <1>3, TokenIs, AppendProperties, LenProperties DEF Lines
  <2> QED
    BY <1>3, <2>1
<1> QED
  BY <1>1, <1>2, <1>3 DEF LessAt

LEMMA OnceLess ==
  ASSUME NEW F \in [Places -> Lines], NEW G \in [Places -> Lines], Once(F),
         \A p \in Places : LessAt(p, F[p], G[p])
  PROVE  Once(G)
<1>1. SUFFICES ASSUME NEW p \in Places, NEW q \in Places, NEW n \in 1 .. Len(G[p]), NEW l \in 1 .. Len(G[q]),
                      SameJob(G[p][n], G[q][l])
               PROVE  p = q /\ n = l
  BY DEF Once
<1>2. G[p][n] # EOF /\ G[q][l] # EOF
  BY <1>1, TokenIs DEF SameJob
<1>3. n \in 1 .. Len(F[p]) /\ G[p][n] = F[p][n] /\ l \in 1 .. Len(F[q]) /\ G[q][l] = F[q][l]
  <2>1. F[p] \in Lines /\ G[p] \in Lines /\ F[q] \in Lines /\ G[q] \in Lines
    OBVIOUS
  <2>2. LessAt(p, F[p], G[p]) /\ LessAt(q, F[q], G[q])
    OBVIOUS
  <2>3. (n \in 1 .. Len(F[p]) /\ G[p][n] = F[p][n]) \/ (G[p][n] = EOF /\ p[1] = "in")
    BY <2>1, <2>2, LessIs
  <2>4. (l \in 1 .. Len(F[q]) /\ G[q][l] = F[q][l]) \/ (G[q][l] = EOF /\ q[1] = "in")
    BY <2>1, <2>2, LessIs
  <2> QED
    BY <1>2, <2>3, <2>4
<1> QED
  BY <1>1, <1>3 DEF Once

(* The first of line a goes to the end of line b, or is dropped.           *)
Moved(F, G, a, b, x) ==
  /\ a \in Places /\ b \in Places /\ a # b /\ F[a] # <<>> /\ G[a] = Tail(F[a])
  /\ G[b] = F[b] \/ (G[b] = Append(F[b], x) /\ x \in Messages /\ SameJob(x, Head(F[a])))
  /\ \A p \in Places : p # a /\ p # b => LessAt(p, F[p], G[p])

(* Where an element of the new lines was. *)
Before(F, a, b, p, n) ==
  IF p = a THEN <<a, n + 1>> ELSE IF p = b /\ n = Len(F[b]) + 1 THEN <<a, 1>> ELSE <<p, n>>

LEMMA MovedIs ==
  ASSUME NEW F \in [Places -> Lines], NEW G \in [Places -> Lines], NEW a, NEW b, NEW x, Moved(F, G, a, b, x),
         NEW p \in Places, NEW n \in 1 .. Len(G[p])
  PROVE  \/ p = a /\ n + 1 \in 1 .. Len(F[a]) /\ G[p][n] = F[a][n + 1]
         \/ p = b /\ n = Len(F[b]) + 1 /\ 1 \in 1 .. Len(F[a]) /\ G[p][n] = x /\ G[b] = Append(F[b], x)
            /\ F[a][1] = Head(F[a]) /\ SameJob(x, F[a][1]) /\ x \in Messages
         \/ p # a /\ n \in 1 .. Len(F[p]) /\ G[p][n] = F[p][n]
         \/ p # a /\ p # b /\ G[p][n] = EOF /\ p[1] = "in"
<1>1. a \in Places /\ b \in Places /\ a # b /\ F[a] \in Seq(Tokens) /\ F[b] \in Seq(Tokens) /\ F[p] \in Lines
      /\ G[p] \in Lines
  BY DEF Moved, Lines
<1>2. /\ Len(F[a]) \in Nat \ {0} /\ Head(F[a]) = F[a][1] /\ G[a] = Tail(F[a]) /\ 1 \in 1 .. Len(F[a])
      /\ Len(Tail(F[a])) = Len(F[a]) - 1 /\ \A l \in 1 .. Len(Tail(F[a])) : Tail(F[a])[l] = F[a][l + 1]
  BY <1>1, HeadTailProperties, EmptySeq DEF Moved
<1>3. CASE p = a
  BY <1>2, <1>3
<1>4. CASE p = b /\ G[b] = F[b]
  BY <1>1, <1>4
<1>5. CASE p = b /\ G[b] = Append(F[b], x) /\ x \in Messages /\ SameJob(x, Head(F[a]))
  <2>1. x \in Tokens
    BY <1>5, TokenIs
  <2>2. /\ Len(G[b]) = Len(F[b]) + 1 /\ Len(F[b]) \in Nat /\ G[b][Len(F[b]) + 1] = x
        /\ \A l \in 1 .. Len(F[b]) : G[b][l] = F[b][l]
    BY <1>1, <1>5, <2>1, AppendProperties, LenProperties
  <2>3. n = Len(F[b]) + 1 \/ n \in 1 .. Len(F[b])
    BY <1>5, <2>2
  <2> QED
    BY <1>1, <1>2, <1>5, <2>2, <2>3
<1>6. CASE p # a /\ p # b
  <2>1. LessAt(p, F[p], G[p])
    BY <1>6 DEF Moved
  <2> QED
    BY <1>1, <1>6, <2>1, LessIs
<1> QED
  BY <1>3, <1>4, <1>5, <1>6 DEF Moved

LEMMA OnceMoved ==
  ASSUME NEW F \in [Places -> Lines], NEW G \in [Places -> Lines], Once(F),
         NEW a, NEW b, NEW x, Moved(F, G, a, b, x)
  PROVE  Once(G)
<1>1. SUFFICES ASSUME NEW p \in Places, NEW q \in Places, NEW n \in 1 .. Len(G[p]), NEW l \in 1 .. Len(G[q]),
                      SameJob(G[p][n], G[q][l])
               PROVE  p = q /\ n = l
  BY DEF Once
<1>2. G[p][n] # EOF /\ G[q][l] # EOF
  BY <1>1, TokenIs DEF SameJob
<1>3. a \in Places /\ b \in Places /\ a # b
  BY DEF Moved
<1>4. ASSUME NEW r \in Places, NEW k \in 1 .. Len(G[r]), G[r][k] # EOF
      PROVE  LET c == Before(F, a, b, r, k) IN
             /\ c[1] \in Places /\ c[2] \in 1 .. Len(F[c[1]])
             /\ \A m : SameJob(G[r][k], m) => SameJob(F[c[1]][c[2]], m)
             /\ \A m : SameJob(m, G[r][k]) => SameJob(m, F[c[1]][c[2]])
  <2>1. CASE r = a /\ k + 1 \in 1 .. Len(F[a]) /\ G[r][k] = F[a][k + 1]
    <3>1. Before(F, a, b, r, k) = <<a, k + 1>>
      BY <2>1 DEF Before
    <3> QED
      BY <1>3, <2>1, <3>1
  <2>2. CASE r = b /\ k = Len(F[b]) + 1 /\ 1 \in 1 .. Len(F[a]) /\ G[r][k] = x /\ SameJob(x, F[a][1])
    <3>1. Before(F, a, b, r, k) = <<a, 1>>
      BY <1>3, <2>2 DEF Before
    <3> QED
      BY <1>3, <2>2, <3>1 DEF SameJob
  <2>3. CASE r # a /\ k \in 1 .. Len(F[r]) /\ G[r][k] = F[r][k]
    <3>1. F[r] \in Seq(Tokens)
      BY DEF Lines
    <3>2. Len(F[r]) \in Nat
      BY <3>1, LenProperties
    <3>3. Before(F, a, b, r, k) = <<r, k>>
      BY <2>3, <3>2 DEF Before
    <3> QED
      BY <2>3, <3>3
  <2> QED
    BY <1>4, <2>1, <2>2, <2>3, MovedIs
<1> DEFINE c == Before(F, a, b, p, n)
           d == Before(F, a, b, q, l)
<1>5. c = d
  <2>1. /\ c[1] \in Places /\ c[2] \in 1 .. Len(F[c[1]]) /\ d[1] \in Places /\ d[2] \in 1 .. Len(F[d[1]])
        /\ SameJob(F[c[1]][c[2]], F[d[1]][d[2]])
    BY <1>1, <1>2, <1>4
  <2>2. c[1] = d[1] /\ c[2] = d[2]
    BY <2>1 DEF Once
  <2>3. c = <<c[1], c[2]>> /\ d = <<d[1], d[2]>>
    BY DEF Before
  <2> QED
    BY <2>2, <2>3
<1> QED
  <2>1. n \in Int /\ l \in Int /\ n > 0 /\ l > 0
    <3>1. G[p] \in Seq(Tokens) /\ G[q] \in Seq(Tokens)
      BY DEF Lines
    <3>2. Len(G[p]) \in Nat /\ Len(G[q]) \in Nat
      BY <3>1, LenProperties
    <3> QED
      BY <3>2
  <2> QED
    BY <1>3, <1>5, <2>1 DEF Before

(* A new job in line a. *)
Fresh(F, G, a, m) ==
  /\ a \in Places /\ m \in Messages /\ G[a] = Append(F[a], m)
  /\ \A p \in Places : p # a => G[p] = F[p]
  /\ \A p \in Places : \A n \in 1 .. Len(F[p]) : ~SameJob(F[p][n], m)

LEMMA FreshIs ==
  ASSUME NEW F \in [Places -> Lines], NEW G \in [Places -> Lines], NEW a, NEW m, Fresh(F, G, a, m),
         NEW p \in Places, NEW n \in 1 .. Len(G[p])
  PROVE  \/ n \in 1 .. Len(F[p]) /\ G[p][n] = F[p][n]
         \/ p = a /\ n = Len(F[a]) + 1 /\ G[p][n] = m
<1>1. CASE p # a
  BY <1>1 DEF Fresh
<1>2. CASE p = a
  <2>1. F[a] \in Seq(Tokens) /\ m \in Tokens /\ G[a] = Append(F[a], m)
    BY TokenIs DEF Fresh, Lines
  <2>2. /\ Len(G[a]) = Len(F[a]) + 1 /\ Len(F[a]) \in Nat /\ G[a][Len(F[a]) + 1] = m
        /\ \A l \in 1 .. Len(F[a]) : G[a][l] = F[a][l]
    BY <2>1, AppendProperties, LenProperties
  <2> QED
    BY <1>2, <2>2
<1> QED
  BY <1>1, <1>2

LEMMA OnceFresh ==
  ASSUME NEW F \in [Places -> Lines], NEW G \in [Places -> Lines], Once(F), NEW a, NEW m, Fresh(F, G, a, m)
  PROVE  Once(G)
<1>1. SUFFICES ASSUME NEW p \in Places, NEW q \in Places, NEW n \in 1 .. Len(G[p]), NEW l \in 1 .. Len(G[q]),
                      SameJob(G[p][n], G[q][l])
               PROVE  p = q /\ n = l
  BY DEF Once
<1>2. \/ n \in 1 .. Len(F[p]) /\ G[p][n] = F[p][n]
      \/ p = a /\ n = Len(F[a]) + 1 /\ G[p][n] = m
  BY FreshIs
<1>3. \/ l \in 1 .. Len(F[q]) /\ G[q][l] = F[q][l]
      \/ q = a /\ l = Len(F[a]) + 1 /\ G[q][l] = m
  BY FreshIs
<1>4. \A r \in Places : \A k \in 1 .. Len(F[r]) : ~SameJob(F[r][k], m) /\ ~SameJob(m, F[r][k])
  BY DEF Fresh, SameJob
<1> QED
  BY <1>1, <1>2, <1>3, <1>4 DEF Once

-----------------------------------------------------------------------------
(* What may stand in each line: requests that their origin, or a process   *)
(* on its host, sent; answers on their way there, or come.                 *)
OfHost(m, x, P, h) == m.origin \in DOMAIN h /\ h[m.origin] = x /\ m.job \in 1 .. Len(P[m.origin].asked)
Fits(k, i, m, P, S, h) ==
  /\ k = "asks" => m.type = "ask" /\ m.origin = i /\ i \in DOMAIN h /\ OfHost(m, h[i], P, h)
  /\ k = "todo" => m.type = "ask" /\ m.peer \in DOMAIN h /\ OfHost(m, h[m.peer], P, h)
  /\ k = "answers" => m.type = "answer" /\ m.peer \in DOMAIN h /\ OfHost(m, h[m.peer], P, h)
  /\ k = "got" => m.type = "answer" /\ i \in DOMAIN h /\ OfHost(m, h[i], P, h)
  /\ k = "in" => \/ m = EOF
                 \/ m \in Messages /\ m.type = "ask" /\ OfHost(m, h[S[Mate(i)].of], P, h)
                 \/ m \in Messages /\ m.type = "answer" /\ OfHost(m, h[S[i].of], P, h)
AllFit(P, S, h) ==
  LET F == LinesOf(P, S) IN
  \A p \in Places : \A n \in 1 .. Len(F[p]) : Fits(p[1], p[2], F[p][n], P, S, h)
LinesOK(P, S, h) == AllFit(P, S, h) /\ Once(LinesOf(P, S))

AskedGrow(P, Q) == \A i \in Processes : Len(P[i].asked) <= Len(Q[i].asked)

(* What all steps have in common. *)
Grow(P, S, h, Q, R, g) ==
  /\ Full(P) /\ Full(Q) /\ SocksOK(S, h) /\ SocksOK(R, g) /\ SocksGrow(S, R) /\ HostsGrow(h, g)
  /\ DOMAIN h \subseteq Processes /\ AskedGrow(P, Q)

LEMMA GrowFacts ==
  ASSUME NEW P, NEW S, NEW h, NEW Q, NEW R, NEW g, Grow(P, S, h, Q, R, g)
  PROVE  /\ S \in Seq(SocketSet) /\ R \in Seq(SocketSet) /\ Full(P) /\ Full(Q)
         /\ Len(S) \in Nat /\ Len(R) \in Nat /\ Len(S) <= Len(R)
         /\ LinesOf(P, S) \in [Places -> Lines] /\ LinesOf(Q, R) \in [Places -> Lines]
<1>1. S \in Seq(SocketSet) /\ R \in Seq(SocketSet) /\ Full(P) /\ Full(Q) /\ Len(S) <= Len(R)
  BY DEF Grow, SocksOK, SocksGrow
<1> QED
  BY <1>1, LinesAre, SocketIs

LEMMA OfHostGrows ==
  ASSUME NEW P, NEW S, NEW h, NEW Q, NEW R, NEW g, Grow(P, S, h, Q, R, g), NEW m, NEW x, OfHost(m, x, P, h)
  PROVE  OfHost(m, x, Q, g)
<1>1. m.origin \in DOMAIN h /\ h[m.origin] = x /\ m.job \in 1 .. Len(P[m.origin].asked) /\ m.origin \in Processes
  BY DEF OfHost, Grow
<1>2. m.origin \in DOMAIN g /\ g[m.origin] = x
  BY <1>1 DEF Grow, HostsGrow
<1>3. Len(P[m.origin].asked) <= Len(Q[m.origin].asked)
  BY <1>1 DEF Grow, AskedGrow
<1>4. Len(P[m.origin].asked) \in Nat /\ Len(Q[m.origin].asked) \in Nat
  <2>1. P[m.origin].asked \in Seq(Processes) /\ Q[m.origin].asked \in Seq(Processes)
    BY <1>1, ProcParts DEF Grow, Full
  <2> QED
    BY <2>1, LenProperties
<1>5. m.job \in 1 .. Len(Q[m.origin].asked)
  BY <1>1, <1>3, <1>4
<1> QED
  BY <1>2, <1>5 DEF OfHost

LEMMA FitsGrows ==
  ASSUME NEW P, NEW S, NEW h, NEW Q, NEW R, NEW g, Grow(P, S, h, Q, R, g), NEW k, NEW i, NEW m,
         k = "in" => i \in 1 .. Len(S), Fits(k, i, m, P, S, h)
  PROVE  Fits(k, i, m, Q, R, g)
<1>1. /\ DOMAIN h \subseteq DOMAIN g /\ \A j \in DOMAIN h : g[j] = h[j]
      /\ SocksOK(S, h) /\ S \in Seq(SocketSet) /\ Len(S) % 2 = 0
  BY DEF Grow, HostsGrow, SocksOK
<1>2. CASE k = "in"
  <2>1. i \in 1 .. Len(S) /\ Mate(i) \in 1 .. Len(S)
    BY <1>1, <1>2, MateIs
  <2>2. \A s \in 1 .. Len(S) : R[s].of = S[s].of /\ S[s].of \in DOMAIN h
    BY DEF Grow, SocksGrow, SocksOK
  <2>3. g[R[i].of] = h[S[i].of] /\ g[R[Mate(i)].of] = h[S[Mate(i)].of]
    BY <1>1, <2>1, <2>2
  <2>4. CASE m = EOF
    BY <1>2, <2>4 DEF Fits
  <2>5. CASE m \in Messages /\ m.type = "ask" /\ OfHost(m, h[S[Mate(i)].of], P, h)
    <3>1. OfHost(m, g[R[Mate(i)].of], Q, g)
      BY <2>3, <2>5, OfHostGrows
    <3> QED
      BY <1>2, <2>5, <3>1 DEF Fits
  <2>6. CASE m \in Messages /\ m.type = "answer" /\ OfHost(m, h[S[i].of], P, h)
    <3>1. OfHost(m, g[R[i].of], Q, g)
      BY <2>3, <2>6, OfHostGrows
    <3> QED
      BY <1>2, <2>6, <3>1 DEF Fits
  <2> QED
    BY <1>2, <2>4, <2>5, <2>6 DEF Fits
<1>3. CASE k = "asks" \/ k = "got"
  <2>1. i \in DOMAIN h /\ OfHost(m, h[i], P, h) /\ g[i] = h[i] /\ i \in DOMAIN g
    BY <1>1, <1>3 DEF Fits
  <2>2. OfHost(m, g[i], Q, g)
    BY <2>1, OfHostGrows
  <2> QED
    BY <1>3, <2>1, <2>2 DEF Fits
<1>4. CASE k = "todo" \/ k = "answers"
  <2>1. m.peer \in DOMAIN h /\ OfHost(m, h[m.peer], P, h) /\ g[m.peer] = h[m.peer] /\ m.peer \in DOMAIN g
    BY <1>1, <1>4 DEF Fits
  <2>2. OfHost(m, g[m.peer], Q, g)
    BY <2>1, OfHostGrows
  <2> QED
    BY <1>4, <2>1, <2>2 DEF Fits
<1>5. CASE k \notin {"in", "asks", "got", "todo", "answers"}
  BY <1>5 DEF Fits
<1> QED
  BY <1>2, <1>3, <1>4, <1>5

(* What stood in a line fits it still. *)
LEMMA StillFits ==
  ASSUME NEW P, NEW S, NEW h, NEW Q, NEW R, NEW g, Grow(P, S, h, Q, R, g), AllFit(P, S, h),
         NEW p \in Places, NEW n \in 1 .. Len(LinesOf(P, S)[p])
  PROVE  Fits(p[1], p[2], LinesOf(P, S)[p][n], Q, R, g)
<1> DEFINE F == LinesOf(P, S)
<1>1. Fits(p[1], p[2], F[p][n], P, S, h)
  BY DEF AllFit
<1>2. p[1] = "in" => p[2] \in 1 .. Len(S)
  <2>1. SUFFICES ASSUME p[1] = "in", p[2] \notin 1 .. Len(S) PROVE FALSE
    OBVIOUS
  <2>2. PICK s \in Sockets : p = <<"in", s>>
    BY <2>1 DEF Places, Kinds
  <2>3. F[p] = <<>>
    BY <2>1, <2>2, GrowFacts, LinesAre DEF In
  <2> QED
    BY <2>3
<1> HIDE DEF F
<1>3. Fits(p[1], p[2], F[p][n], Q, R, g)
  BY <1>1, <1>2, FitsGrows
<1> QED
  BY <1>3 DEF F

LEMMA LinesLess ==
  ASSUME NEW P, NEW S, NEW h, NEW Q, NEW R, NEW g, Grow(P, S, h, Q, R, g), LinesOK(P, S, h),
         \A p \in Places : LessAt(p, LinesOf(P, S)[p], LinesOf(Q, R)[p])
  PROVE  LinesOK(Q, R, g)
<1> DEFINE F == LinesOf(P, S)
           G == LinesOf(Q, R)
<1>1. F \in [Places -> Lines] /\ G \in [Places -> Lines]
  BY GrowFacts
<1>2. Once(F) /\ AllFit(P, S, h)
  BY DEF LinesOK
<1>3. Once(G)
  BY <1>1, <1>2, OnceLess
<1>4. ASSUME NEW p \in Places, NEW n \in 1 .. Len(G[p]) PROVE Fits(p[1], p[2], G[p][n], Q, R, g)
  <2>1. \/ n \in 1 .. Len(F[p]) /\ G[p][n] = F[p][n]
        \/ G[p][n] = EOF /\ p[1] = "in"
    <3>1. F[p] \in Lines /\ G[p] \in Lines /\ LessAt(p, F[p], G[p])
      BY <1>1
    <3> HIDE DEF F, G
    <3> QED
      BY <3>1, LessIs
  <2>2. CASE n \in 1 .. Len(F[p]) /\ G[p][n] = F[p][n]
    <3>1. Fits(p[1], p[2], F[p][n], Q, R, g)
      BY <1>2, <2>2, StillFits
    <3> QED
      BY <2>2, <3>1
  <2>3. CASE G[p][n] = EOF /\ p[1] = "in"
    BY <2>3 DEF Fits
  <2> QED
    BY <2>1, <2>2, <2>3
<1>5. AllFit(Q, R, g)
  BY <1>4 DEF AllFit
<1> QED
  BY <1>3, <1>5 DEF LinesOK

LEMMA LinesMoved ==
  ASSUME NEW P, NEW S, NEW h, NEW Q, NEW R, NEW g, Grow(P, S, h, Q, R, g), LinesOK(P, S, h),
         NEW a, NEW b, NEW x, Moved(LinesOf(P, S), LinesOf(Q, R), a, b, x), Fits(b[1], b[2], x, Q, R, g)
  PROVE  LinesOK(Q, R, g)
<1> DEFINE F == LinesOf(P, S)
           G == LinesOf(Q, R)
<1>1. F \in [Places -> Lines] /\ G \in [Places -> Lines]
  BY GrowFacts
<1>2. Once(F) /\ AllFit(P, S, h)
  BY DEF LinesOK
<1>3. Once(G)
  BY <1>1, <1>2, OnceMoved
<1>4. ASSUME NEW p \in Places, NEW n \in 1 .. Len(G[p]) PROVE Fits(p[1], p[2], G[p][n], Q, R, g)
  <2>1. \/ p = a /\ n + 1 \in 1 .. Len(F[a]) /\ G[p][n] = F[a][n + 1]
        \/ p = b /\ G[p][n] = x
        \/ n \in 1 .. Len(F[p]) /\ G[p][n] = F[p][n]
        \/ G[p][n] = EOF /\ p[1] = "in"
    <3>1. Moved(F, G, a, b, x)
      OBVIOUS
    <3> HIDE DEF F, G
    <3> QED
      BY <1>1, <3>1, MovedIs
  <2>2. CASE n \in 1 .. Len(F[p]) /\ G[p][n] = F[p][n]
    <3>1. Fits(p[1], p[2], F[p][n], Q, R, g)
      BY <1>2, <2>2, StillFits
    <3> QED
      BY <2>2, <3>1
  <2>3. CASE p = a /\ n + 1 \in 1 .. Len(F[a]) /\ G[p][n] = F[a][n + 1]
    <3> DEFINE l == n + 1
    <3>1. l \in 1 .. Len(F[p]) /\ G[p][n] = F[p][l]
      BY <2>3
    <3> HIDE DEF l
    <3>2. Fits(p[1], p[2], F[p][l], Q, R, g)
      BY <1>2, <3>1, StillFits
    <3> QED
      BY <3>1, <3>2
  <2>4. CASE p = b /\ G[p][n] = x
    BY <2>4
  <2>5. CASE G[p][n] = EOF /\ p[1] = "in"
    BY <2>5 DEF Fits
  <2> QED
    BY <2>1, <2>2, <2>3, <2>4, <2>5
<1>5. AllFit(Q, R, g)
  BY <1>4 DEF AllFit
<1> QED
  BY <1>3, <1>5 DEF LinesOK

LEMMA LinesFresh ==
  ASSUME NEW P, NEW S, NEW h, NEW Q, NEW R, NEW g, Grow(P, S, h, Q, R, g), LinesOK(P, S, h),
         NEW a, NEW x, Fresh(LinesOf(P, S), LinesOf(Q, R), a, x), Fits(a[1], a[2], x, Q, R, g)
  PROVE  LinesOK(Q, R, g)
<1> DEFINE F == LinesOf(P, S)
           G == LinesOf(Q, R)
<1>1. F \in [Places -> Lines] /\ G \in [Places -> Lines]
  BY GrowFacts
<1>2. Once(F) /\ AllFit(P, S, h)
  BY DEF LinesOK
<1>3. Once(G)
  BY <1>1, <1>2, OnceFresh
<1>4. ASSUME NEW p \in Places, NEW n \in 1 .. Len(G[p]) PROVE Fits(p[1], p[2], G[p][n], Q, R, g)
  <2>1. \/ n \in 1 .. Len(F[p]) /\ G[p][n] = F[p][n]
        \/ p = a /\ G[p][n] = x
    <3>1. Fresh(F, G, a, x)
      OBVIOUS
    <3> HIDE DEF F, G
    <3> QED
      BY <1>1, <3>1, FreshIs
  <2>2. CASE n \in 1 .. Len(F[p]) /\ G[p][n] = F[p][n]
    <3>1. Fits(p[1], p[2], F[p][n], Q, R, g)
      BY <1>2, <2>2, StillFits
    <3> QED
      BY <2>2, <3>1
  <2>3. CASE p = a /\ G[p][n] = x
    BY <2>3
  <2> QED
    BY <2>1, <2>2, <2>3
<1>5. AllFit(Q, R, g)
  BY <1>4 DEF AllFit
<1> QED
  BY <1>3, <1>5 DEF LinesOK

-----------------------------------------------------------------------------
(* What the steps make of what waits at the sockets. *)
LEMMA InIs ==
  ASSUME NEW S \in Seq(SocketSet), NEW R, Len(R) = Len(S)
  PROVE  /\ \A u : In(S, u) = IF u \in 1 .. Len(S) THEN S[u].in ELSE <<>>
         /\ \A u : In(R, u) = IF u \in 1 .. Len(S) THEN R[u].in ELSE <<>>
BY DEF In

LEMMA ClosesIn ==
  ASSUME NEW S \in Seq(SocketSet), NEW R, NEW s, NEW w, Closes(S, R, s, w), NEW u
  PROVE  Less(In(S, u), In(R, u))
<1>1. CASE u \in 1 .. Len(S)
  <2>1. In(S, u) = S[u].in /\ In(R, u) = R[u].in
    BY <1>1, InIs DEF Closes
  <2>2. R[u].in = IF u = s THEN <<>> ELSE IF w /\ u = Mate(s) THEN Append(S[u].in, EOF) ELSE S[u].in
    BY <1>1 DEF Closes
  <2> QED
    BY <2>1, <2>2 DEF Less
<1>2. CASE u \notin 1 .. Len(S)
  BY <1>2, InIs DEF Closes, Less
<1> QED
  BY <1>1, <1>2

LEMMA DropsIn ==
  ASSUME NEW S \in Seq(SocketSet), NEW R, NEW X, Drops(S, R, X), NEW u
  PROVE  Less(In(S, u), In(R, u))
<1>1. CASE u \in 1 .. Len(S)
  BY <1>1, InIs DEF Drops, Less
<1>2. CASE u \notin 1 .. Len(S)
  BY <1>2, InIs DEF Drops, Less
<1> QED
  BY <1>1, <1>2

LEMMA ClosesAllIn ==
  ASSUME NEW S \in Seq(SocketSet), NEW R, NEW i, NEW H, ClosesAll(S, R, i, H), NEW u
  PROVE  Less(In(S, u), In(R, u))
<1>1. CASE u \in 1 .. Len(S)
  <2>1. In(S, u) = S[u].in /\ In(R, u) = R[u].in
    BY <1>1, InIs DEF ClosesAll
  <2>2. R[u].in = IF S[u].of = i THEN <<>> ELSE IF u \in H THEN Append(S[u].in, EOF) ELSE S[u].in
    BY <1>1 DEF ClosesAll
  <2> QED
    BY <2>1, <2>2 DEF Less
<1>2. CASE u \notin 1 .. Len(S)
  BY <1>2, InIs DEF ClosesAll, Less
<1> QED
  BY <1>1, <1>2

LEMMA GetsIn ==
  ASSUME NEW S \in Seq(SocketSet), NEW R, NEW s \in 1 .. Len(S), NEW m, NEW w, Gets(S, R, s, m, w)
  PROVE  /\ \A u : u # s => Less(In(S, u), In(R, u))
         /\ In(R, s) = IF w THEN Append(In(S, s), m) ELSE In(S, s)
<1>1. Len(R) = Len(S) /\ \A u \in 1 .. Len(S) : R[u].in = IF w /\ u = s THEN Append(S[u].in, m) ELSE S[u].in
  BY DEF Gets
<1>2. In(R, s) = R[s].in /\ In(S, s) = S[s].in
  BY <1>1, InIs
<1>3. ASSUME NEW u, u # s PROVE In(R, u) = In(S, u)
  <2>1. CASE u \in 1 .. Len(S)
    BY <1>1, <1>3, <2>1, InIs
  <2>2. CASE u \notin 1 .. Len(S)
    BY <1>1, <2>2, InIs
  <2> QED
    BY <2>1, <2>2
<1> QED
  BY <1>1, <1>2, <1>3 DEF Less

LEMMA ReadsIn ==
  ASSUME NEW S \in Seq(SocketSet), NEW R, NEW s \in 1 .. Len(S), Reads(S, R, s)
  PROVE  /\ \A u : u # s => Less(In(S, u), In(R, u))
         /\ In(S, s) = S[s].in /\ In(R, s) = Tail(In(S, s))
<1>1. Len(R) = Len(S) /\ \A u \in 1 .. Len(S) : R[u].in = IF u = s THEN Tail(S[u].in) ELSE S[u].in
  BY DEF Reads
<1>2. In(R, s) = R[s].in /\ In(S, s) = S[s].in
  BY <1>1, InIs
<1>3. ASSUME NEW u, u # s PROVE In(R, u) = In(S, u)
  <2>1. CASE u \in 1 .. Len(S)
    BY <1>1, <1>3, <2>1, InIs
  <2>2. CASE u \notin 1 .. Len(S)
    BY <1>1, <2>2, InIs
  <2> QED
    BY <2>1, <2>2
<1> QED
  BY <1>1, <1>2, <1>3 DEF Less

LEMMA ConnectsIn ==
  ASSUME NEW S \in Seq(SocketSet), NEW R, NEW i, NEW j, NEW m, Connects(S, R, i, j, m)
  PROVE  /\ \A u : u # Len(S) + 2 => In(R, u) = In(S, u)
         /\ In(S, Len(S) + 2) = <<>> /\ In(R, Len(S) + 2) = Append(<<>>, m)
<1> DEFINE n == Len(S)
<1>1. n \in Nat /\ Len(R) = n + 2 /\ R[n + 1].in = <<>> /\ R[n + 2].in = <<m>>
      /\ \A u \in 1 .. n : R[u].in = S[u].in
  BY SocketIs DEF Connects
<1>2. /\ \A u : In(S, u) = IF u \in 1 .. n THEN S[u].in ELSE <<>>
      /\ \A u : In(R, u) = IF u \in 1 .. n + 2 THEN R[u].in ELSE <<>>
  BY <1>1 DEF In
<1> HIDE DEF n
<1>3. n + 2 \in 1 .. n + 2 /\ n + 1 \in 1 .. n + 2 /\ n + 2 \notin 1 .. n /\ n + 1 \notin 1 .. n
  BY <1>1
<1>4. In(S, n + 2) = <<>> /\ In(R, n + 2) = <<m>>
  BY <1>1, <1>2, <1>3
<1>5. ASSUME NEW u, u # n + 2 PROVE In(R, u) = In(S, u)
  <2>1. CASE u \in 1 .. n
    BY <1>1, <1>2, <2>1
  <2>2. CASE u = n + 1
    BY <1>1, <1>2, <1>3, <2>2
  <2>3. CASE u \notin 1 .. n + 2
    BY <1>1, <1>2, <2>3
  <2> QED
    BY <1>1, <1>5, <2>1, <2>2, <2>3
<1>6. Append(<<>>, m) = <<m>>
  OBVIOUS
<1> QED
  BY <1>4, <1>5, <1>6 DEF n

-----------------------------------------------------------------------------
LinesInv == LinesOK(proc, socks, host)

LEMMA GrowIs ==
  ASSUME PeerInv, PeerInv', SocksGrow(socks, socks'), HostsGrow(host, host'), AskedGrow(proc, proc')
  PROVE  Grow(proc, socks, host, proc', socks', host')
<1>1. Full(proc) /\ SocksOK(socks, host) /\ DOMAIN host \subseteq Processes
  BY PeerFacts, ProcFacts DEF Full, PeerInv, Started
<1>2. Full(proc') /\ SocksOK(socks', host')
  BY DEF PeerInv, TypeInv, ProcInv, ProcOK, Full
<1> QED
  BY <1>1, <1>2 DEF Grow

(* A step of process i that moves no message. *)
LEMMA LinesStay ==
  ASSUME PeerInv, PeerInv', LinesInv, NEW i \in Processes, SocksGrow(socks, socks'), HostsGrow(host, host'),
         \A j \in Processes : j # i => proc'[j] = proc[j],
         proc'[i].asked = proc[i].asked,
         \A k \in Kinds : Queue(proc'[i], k) = Queue(proc[i], k) \/ Queue(proc'[i], k) = <<>>,
         \A s \in Sockets : Less(In(socks, s), In(socks', s))
  PROVE  LinesInv'
<1>1. AskedGrow(proc, proc')
  <2>1. ASSUME NEW j \in Processes PROVE Len(proc[j].asked) <= Len(proc'[j].asked)
    <3>1. proc'[j].asked = proc[j].asked /\ proc[j].asked \in Seq(Processes)
      BY ProcFacts, ProcParts
    <3> QED
      BY <3>1, LenProperties
  <2> QED
    BY <2>1 DEF AskedGrow
<1> DEFINE P == proc
           S == socks
           Q == proc'
           R == socks'
<1>2. Grow(P, S, host, Q, R, host')
  BY <1>1, GrowIs
<1>3. /\ \A j \in Processes : j # i => Q[j] = P[j]
      /\ \A k \in Kinds : Queue(Q[i], k) = Queue(P[i], k) \/ Queue(Q[i], k) = <<>>
      /\ \A s \in Sockets : Less(In(S, s), In(R, s))
  OBVIOUS
<1>4. LinesOK(P, S, host)
  BY DEF LinesInv
<1> HIDE DEF P, S, Q, R
<1>5. ASSUME NEW p \in Places PROVE LessAt(p, LinesOf(P, S)[p], LinesOf(Q, R)[p])
  <2> DEFINE K == {}
             X == {}
  <2>1. /\ \A k \in Kinds \ K : Queue(Q[i], k) = Queue(P[i], k) \/ Queue(Q[i], k) = <<>>
        /\ \A s \in Sockets \ X : Less(In(S, s), In(R, s))
        /\ \A k \in K : p # <<k, i>>
        /\ \A s \in X : p # <<"in", s>>
    BY <1>3
  <2> HIDE DEF K, X
  <2> QED
    BY <1>2, <1>3, <2>1, GrowFacts, PlacesLess
<1>6. LinesOK(Q, R, host')
  BY <1>2, <1>4, <1>5, LinesLess
<1> QED
  BY <1>6 DEF LinesInv, Q, R

(* A step of process i that moves the first message of line a to line b,   *)
(* or drops it; K and X are the queues and sockets a and b are.            *)
LEMMA LinesMove ==
  ASSUME PeerInv, PeerInv', LinesInv, NEW i \in Processes, SocksGrow(socks, socks'), UNCHANGED host,
         \A j \in Processes : j # i => proc'[j] = proc[j],
         proc'[i].asked = proc[i].asked, NEW K, NEW X, NEW a, NEW b, NEW x,
         \A k \in Kinds \ K : Queue(proc'[i], k) = Queue(proc[i], k),
         \A s \in Sockets \ X : Less(In(socks, s), In(socks', s)),
         \A k \in K : <<k, i>> \in {a, b}, \A s \in X : <<"in", s>> \in {a, b},
         a \in Places, b \in Places, a # b,
         LinesOf(proc, socks)[a] # <<>>, LinesOf(proc', socks')[a] = Tail(LinesOf(proc, socks)[a]),
         \/ LinesOf(proc', socks')[b] = LinesOf(proc, socks)[b]
         \/ /\ LinesOf(proc', socks')[b] = Append(LinesOf(proc, socks)[b], x)
            /\ SameJob(x, Head(LinesOf(proc, socks)[a])) /\ x \in Messages,
         Fits(b[1], b[2], x, proc, socks', host)
  PROVE  LinesInv'
<1>1. AskedGrow(proc, proc') /\ AskedGrow(proc', proc)
  <2>1. ASSUME NEW j \in Processes
        PROVE  Len(proc[j].asked) <= Len(proc'[j].asked) /\ Len(proc'[j].asked) <= Len(proc[j].asked)
    <3>1. proc'[j].asked = proc[j].asked /\ proc[j].asked \in Seq(Processes)
      BY ProcFacts, ProcParts
    <3> QED
      BY <3>1, LenProperties
  <2> QED
    BY <2>1 DEF AskedGrow
<1> DEFINE P == proc
           S == socks
           Q == proc'
           R == socks'
           h == host
<1>2. Grow(P, S, h, Q, R, h) /\ SocksOK(R, h) /\ Grow(P, R, h, Q, R, h)
  <2>1. Grow(P, S, h, Q, R, h)
    BY <1>1, PeerFacts, GrowIs
  <2> HIDE DEF P, S, Q, R, h
  <2>2. SocksOK(R, h) /\ SocksGrow(R, R)
    BY <2>1, GrowFacts DEF Grow, SocksGrow
  <2> QED
    BY <2>1, <2>2 DEF Grow
<1>3. /\ \A j \in Processes : j # i => Q[j] = P[j]
      /\ \A k \in Kinds \ K : Queue(Q[i], k) = Queue(P[i], k) \/ Queue(Q[i], k) = <<>>
      /\ \A s \in Sockets \ X : Less(In(S, s), In(R, s))
  OBVIOUS
<1>4. LinesOK(P, S, h)
  BY DEF LinesInv
<1>5. Fits(b[1], b[2], x, P, R, h)
  OBVIOUS
<1> DEFINE F == LinesOf(P, S)
           G == LinesOf(Q, R)
<1>6. /\ a \in Places /\ b \in Places /\ a # b /\ F[a] # <<>> /\ G[a] = Tail(F[a])
      /\ G[b] = F[b] \/ (G[b] = Append(F[b], x) /\ x \in Messages /\ SameJob(x, Head(F[a])))
  OBVIOUS
<1> HIDE DEF P, S, Q, R, h, F, G
<1>7. ASSUME NEW p \in Places, p # a, p # b PROVE LessAt(p, F[p], G[p])
  <2>1. (\A k \in K : p # <<k, i>>) /\ \A s \in X : p # <<"in", s>>
    BY <1>7
  <2>2. S \in Seq(SocketSet) /\ R \in Seq(SocketSet) /\ Full(P) /\ Full(Q)
    BY <1>2, GrowFacts
  <2>3. /\ \A k \in K : p # <<k, i>>
        /\ \A s \in X : p # <<"in", s>>
        /\ p \in Places /\ i \in Processes
    BY <2>1
  <2>4. LessAt(p, LinesOf(P, S)[p], LinesOf(Q, R)[p])
    BY ONLY <1>3, <2>2, <2>3, PlacesLess
  <2> QED
    BY <2>4 DEF F, G
<1>8. Moved(F, G, a, b, x)
  BY <1>6, <1>7 DEF Moved
<1>9. CASE G[b] = Append(F[b], x)
  <2>1. b[1] = "in" => b[2] \in 1 .. Len(R)
    <3>1. SUFFICES ASSUME b[1] = "in", b[2] \notin 1 .. Len(R) PROVE FALSE
      OBVIOUS
    <3>2. PICK s \in Sockets : b = <<"in", s>>
      BY <1>6, <3>1 DEF Places, Kinds
    <3>3. G[b] = <<>>
      BY <1>2, <3>1, <3>2, GrowFacts, LinesAre DEF In, G
    <3>4. F[b] \in Seq(Tokens)
      BY <1>2, <1>6, GrowFacts DEF F, Lines
    <3> DEFINE y == F[b]
    <3>5. y \in Seq(Tokens) /\ Append(y, x) = <<>>
      BY <1>9, <3>3, <3>4
    <3> HIDE DEF y
    <3>6. Len(y) \in Nat /\ Len(Append(y, x)) = Len(y) + 1
      BY <3>5, LenProperties
    <3> QED
      BY <3>5, <3>6
  <2>2. Fits(b[1], b[2], x, Q, R, h)
    BY <1>2, <1>5, <2>1, FitsGrows
  <2>3. LinesOK(Q, R, h)
    BY <1>2, <1>4, <1>8, <2>2, LinesMoved DEF F, G
  <2> QED
    BY <2>3 DEF LinesInv, Q, R, h
<1>10. CASE G[b] = F[b]
  <2> DEFINE y == EOF
  <2>1. Moved(F, G, a, b, y)
    BY <1>8, <1>10 DEF Moved
  <2>2. Once(G) /\ F \in [Places -> Lines] /\ G \in [Places -> Lines]
    <3>1. F \in [Places -> Lines] /\ G \in [Places -> Lines] /\ Once(F)
      BY <1>2, <1>4, GrowFacts DEF F, G, LinesOK
    <3> QED
      BY <1>8, <3>1, OnceMoved
  <2>3. ASSUME NEW p \in Places, NEW n \in 1 .. Len(G[p]) PROVE Fits(p[1], p[2], G[p][n], Q, R, h)
    <3>1. \/ p = a /\ n + 1 \in 1 .. Len(F[a]) /\ G[p][n] = F[a][n + 1]
          \/ n \in 1 .. Len(F[p]) /\ G[p][n] = F[p][n]
          \/ G[p][n] = EOF /\ p[1] = "in"
      <4>1. CASE p = b
        BY <1>10, <4>1
      <4>2. CASE p # b
        BY <1>8, <2>2, <4>2, MovedIs
      <4> QED
        BY <4>1, <4>2
    <3>2. AllFit(P, S, h)
      BY <1>4 DEF LinesOK
    <3>3. CASE n \in 1 .. Len(F[p]) /\ G[p][n] = F[p][n]
      <4>1. Fits(p[1], p[2], F[p][n], Q, R, h)
        BY <1>2, <3>2, <3>3, StillFits DEF F
      <4> QED
        BY <3>3, <4>1
    <3>4. CASE p = a /\ n + 1 \in 1 .. Len(F[a]) /\ G[p][n] = F[a][n + 1]
      <4> DEFINE l == n + 1
      <4>1. l \in 1 .. Len(F[p]) /\ G[p][n] = F[p][l]
        BY <3>4
      <4> HIDE DEF l
      <4>2. Fits(p[1], p[2], F[p][l], Q, R, h)
        BY <1>2, <3>2, <4>1, StillFits DEF F
      <4> QED
        BY <4>1, <4>2
    <3>5. CASE G[p][n] = EOF /\ p[1] = "in"
      BY <3>5 DEF Fits
    <3> QED
      BY <3>1, <3>3, <3>4, <3>5
  <2>4. LinesOK(Q, R, h)
    BY <2>2, <2>3 DEF LinesOK, AllFit, G
  <2> QED
    BY <2>4 DEF LinesInv, Q, R, h
<1> QED
  BY <1>6, <1>9, <1>10

-----------------------------------------------------------------------------
(* The lines after each step. *)
LEMMA SameQueues ==
  ASSUME NEW p, NEW q, p.asks = q.asks, p.todo = q.todo, p.answers = q.answers, p.got = q.got
  PROVE  \A k \in Kinds : Queue(p, k) = Queue(q, k)
BY DEF Queue

LEMMA TrackerLines ==
  ASSUME PeerInv, PeerInv', LinesInv, HostsGrow(host, host'), UNCHANGED <<proc, socks>>
  PROVE  LinesInv'
<1>1. AskedGrow(proc, proc')
  <2>1. ASSUME NEW j \in Processes PROVE Len(proc[j].asked) <= Len(proc'[j].asked)
    <3>1. proc'[j].asked = proc[j].asked /\ proc[j].asked \in Seq(Processes)
      BY ProcFacts, ProcParts
    <3> QED
      BY <3>1, LenProperties
  <2> QED
    BY <2>1 DEF AskedGrow
<1> DEFINE P == proc
           S == socks
           Q == proc'
           R == socks'
<1>2. Grow(P, S, host, Q, R, host')
  BY <1>1, PeerFacts, GrowIs
<1>3. Q = P /\ R = S
  OBVIOUS
<1>4. LinesOK(P, S, host)
  BY DEF LinesInv
<1> HIDE DEF P, S, Q, R
<1>5. \A p \in Places : LessAt(p, LinesOf(P, S)[p], LinesOf(Q, R)[p])
  BY <1>3 DEF LessAt
<1>6. LinesOK(Q, R, host')
  BY <1>2, <1>4, <1>5, LinesLess
<1> QED
  BY <1>6 DEF LinesInv, Q, R

LEMMA StartsLines ==
  ASSUME PeerInv, PeerInv', LinesInv, NEW h \in Hosts, Starts(h)
  PROVE  LinesInv'
<1>1. host' = Append(host, h) /\ UNCHANGED <<proc, socks>>
  BY DEF Starts
<1>2. HostsGrow(host, host')
  <2>1. host \in Seq(Hosts) /\ Len(host) \in Nat /\ DOMAIN host = 1 .. Len(host)
    BY PeerFacts
  <2>2. /\ Append(host, h) \in Seq(Hosts) /\ Len(Append(host, h)) = Len(host) + 1
        /\ \A i \in 1 .. Len(host) : Append(host, h)[i] = host[i]
    BY <2>1, AppendProperties
  <2>3. DOMAIN Append(host, h) = 1 .. Len(host) + 1
    BY <2>2, LenProperties
  <2> QED
    BY <1>1, <2>1, <2>2, <2>3 DEF HostsGrow
<1> QED
  BY <1>1, <1>2, TrackerLines

(* A step of process i that changes its table, and not its queues. *)
LEMMA TableLines ==
  ASSUME PeerInv, PeerInv', LinesInv, NEW i \in Processes, UNCHANGED host, SocksGrow(socks, socks'),
         NEW p, p.asked = proc[i].asked, p.asks = proc[i].asks, p.todo = proc[i].todo,
         p.answers = proc[i].answers, p.got = proc[i].got, proc' = [proc EXCEPT ![i] = p],
         \A s \in Sockets : Less(In(socks, s), In(socks', s))
  PROVE  LinesInv'
<1>1. proc'[i] = p /\ \A j \in Processes : j # i => proc'[j] = proc[j]
  BY PutAt DEF PeerInv, TypeInv
<1>2. \A k \in Kinds : Queue(proc'[i], k) = Queue(proc[i], k)
  BY <1>1, SameQueues
<1>3. HostsGrow(host, host')
  BY PeerFacts
<1> QED
  BY <1>1, <1>2, <1>3, LinesStay

LEMMA NetAcceptsLines ==
  ASSUME PeerInv, PeerInv', LinesInv, NEW i \in Processes, NetAccepts(i)
  PROVE  LinesInv'
<1> DEFINE q == accepts[i]
           s == Head(q)
           t == proc[i].peers
           K == CallersSlots(t, host[socks[Mate(s)].of])
           k == First(K)
           u == WithSocket(t, k, s)
           p == [proc[i] EXCEPT !.peers = u]
<1>1. /\ q # <<>> /\ UNCHANGED host
      /\ \/ K = {} /\ socks' = Shut(s) /\ UNCHANGED proc
         \/ /\ K # {} /\ proc' = [proc EXCEPT ![i].peers = WithSocket(@, k, s)]
            /\ socks' = Drained(socks, {t.slots[k].sock} \ {-1})
  BY DEF NetAccepts
<1>2. TypeInv /\ socks \in Seq(SocketSet) /\ Len(socks) % 2 = 0
  BY DEF PeerInv, SocksOK
<1>3. proc[i] \in Procs /\ q \in Seq(Nat) /\ t \in Tables /\ Plugged(t, q, i, socks, host)
  BY ProcFacts
<1>4. s \in 1 .. Len(socks)
  BY <1>1, <1>3, BacklogIs DEF Own
<1>5. proc = [proc EXCEPT ![i] = proc[i]]
  BY <1>2 DEF TypeInv
<1> HIDE DEF q, s
<1>6. CASE K = {} /\ socks' = Shut(s) /\ UNCHANGED proc
  <2>1. Closes(socks, socks', s, WatchedSocket(Mate(s)))
    BY <1>2, <1>4, <1>6, ShutIs
  <2>2. SocksGrow(socks, socks') /\ \A x \in Sockets : Less(In(socks, x), In(socks', x))
    BY <1>2, <2>1, ClosesIn DEF Closes
  <2> DEFINE r == proc[i]
  <2>3. proc' = [proc EXCEPT ![i] = r]
    BY <1>5, <1>6
  <2> QED
    BY <1>1, <2>2, <2>3, TableLines
<1>7. CASE /\ K # {} /\ proc' = [proc EXCEPT ![i].peers = WithSocket(@, k, s)]
           /\ socks' = Drained(socks, {t.slots[k].sock} \ {-1})
  <2>1. proc' = [proc EXCEPT ![i] = p]
    BY <1>7
  <2>2. p.asked = proc[i].asked /\ p.asks = proc[i].asks /\ p.todo = proc[i].todo
        /\ p.answers = proc[i].answers /\ p.got = proc[i].got
    BY <1>3 DEF Procs
  <2> HIDE DEF p
  <2> DEFINE X == {t.slots[k].sock} \ {-1}
  <2>3. socks' = Drained(socks, X)
    BY <1>7
  <2> HIDE DEF X
  <2>4. Drops(socks, socks', X)
    BY <1>2, <2>3, DrainedIs
  <2>5. SocksGrow(socks, socks') /\ \A x \in Sockets : Less(In(socks, x), In(socks', x))
    BY <1>2, <2>4, DropsIn DEF Drops
  <2> QED
    BY <1>1, <2>1, <2>2, <2>5, TableLines
<1> QED
  BY <1>1, <1>6, <1>7

LEMMA NetTableLines ==
  ASSUME PeerInv, PeerInv', LinesInv, NEW i \in Processes, NetTable(i)
  PROVE  LinesInv'
<1>1. /\ UNCHANGED host /\ socks' = Drained(socks, InTable(i))
      /\ \E new, H : proc' = [proc EXCEPT ![i].peers = new, ![i].heard = H]
  BY DEF NetTable
<1>2. PICK new, H : proc' = [proc EXCEPT ![i].peers = new, ![i].heard = H]
  BY <1>1
<1> DEFINE v == [proc[i] EXCEPT !.peers = new]
           p == [v EXCEPT !.heard = H]
<1>3. proc' = [proc EXCEPT ![i] = p]
  <2>1. proc' = [[proc EXCEPT ![i].peers = new] EXCEPT ![i].heard = H]
    BY <1>2
  <2>2. DOMAIN proc = Processes /\ proc = [j \in Processes |-> proc[j]]
    BY DEF PeerInv, TypeInv
  <2> QED
    BY <2>1, <2>2
<1>4. p.asked = proc[i].asked /\ p.asks = proc[i].asks /\ p.todo = proc[i].todo
      /\ p.answers = proc[i].answers /\ p.got = proc[i].got
  <2>1. proc[i] \in Procs
    BY ProcFacts
  <2> QED
    BY <2>1 DEF Procs
<1>5. SocksGrow(socks, socks') /\ \A x \in Sockets : Less(In(socks, x), In(socks', x))
  <2>1. socks \in Seq(SocketSet)
    BY PeerFacts
  <2> DEFINE X == InTable(i)
  <2>2. Drops(socks, socks', X)
    BY <1>1, <2>1, DrainedIs
  <2> HIDE DEF X
  <2> DEFINE R == socks'
  <2>3. Drops(socks, R, X)
    BY <2>2
  <2> HIDE DEF R
  <2>4. \A x : Less(In(socks, x), In(R, x))
    BY <2>1, <2>3, DropsIn
  <2>5. SocksGrow(socks, R)
    BY <2>3 DEF Drops
  <2> QED
    BY <2>4, <2>5 DEF R
<1> HIDE DEF p, v
<1> QED
  BY <1>1, <1>3, <1>4, <1>5, TableLines

LEMMA EndsLines ==
  ASSUME PeerInv, PeerInv', LinesInv, NEW i \in Processes, Ends(i)
  PROVE  LinesInv'
<1> DEFINE H == {s \in DOMAIN socks : Mate(s) \in SocketsOf(i) /\ WatchedSocket(s)}
           p == [Process EXCEPT !.asked = proc[i].asked]
<1>1. /\ proc' = [proc EXCEPT ![i] = p] /\ UNCHANGED host
      /\ socks' = [s \in DOMAIN socks |-> EndSocket(socks, i, H, s)]
  BY DEF Ends, EndSocket
<1> HIDE DEF H
<1>2. TypeInv /\ socks \in Seq(SocketSet)
  BY DEF PeerInv, SocksOK
<1>3. ClosesAll(socks, socks', i, H)
  BY <1>1, <1>2, ClosesAllIs
<1>4. SocksGrow(socks, socks') /\ \A x \in Sockets : Less(In(socks, x), In(socks', x))
  <2>1. \A x \in Sockets : Less(In(socks, x), In(socks', x))
    BY <1>2, <1>3, ClosesAllIn
  <2>2. SocksGrow(socks, socks')
    BY <1>3 DEF ClosesAll
  <2> QED
    BY <2>1, <2>2
<1>5. p.asked = proc[i].asked /\ \A k \in Kinds : Queue(p, k) = <<>>
  <2>1. p.asked = proc[i].asked /\ p.asks = <<>> /\ p.todo = <<>> /\ p.answers = <<>> /\ p.got = <<>>
    BY EndedIs
  <2> HIDE DEF p
  <2> QED
    BY <2>1 DEF Queue
<1> HIDE DEF p
<1>6. proc'[i] = p /\ \A j \in Processes : j # i => proc'[j] = proc[j]
  BY <1>1, <1>2, PutAt DEF TypeInv
<1>7. HostsGrow(host, host')
  BY <1>1, PeerFacts
<1> QED
  BY <1>4, <1>5, <1>6, <1>7, LinesStay

LEMMA LinesThen ==
  ASSUME PeerInv, PeerInv'
  PROVE  /\ Full(proc) /\ Full(proc') /\ socks \in Seq(SocketSet) /\ socks' \in Seq(SocketSet)
         /\ \A k \in Kinds, i \in Processes :
              /\ <<k, i>> \in Places
              /\ LinesOf(proc, socks)[<<k, i>>] = Queue(proc[i], k)
              /\ LinesOf(proc', socks')[<<k, i>>] = Queue(proc'[i], k)
         /\ \A s \in Sockets :
              /\ <<"in", s>> \in Places
              /\ LinesOf(proc, socks)[<<"in", s>>] = In(socks, s)
              /\ LinesOf(proc', socks')[<<"in", s>>] = In(socks', s)
<1> DEFINE P == proc
           S == socks
           Q == proc'
           R == socks'
<1>1. Full(P) /\ S \in Seq(SocketSet)
  BY PeerFacts, ProcFacts DEF Full
<1>2. Full(Q) /\ R \in Seq(SocketSet)
  BY DEF PeerInv, TypeInv, ProcInv, ProcOK, Full, SocksOK
<1> HIDE DEF P, S, Q, R
<1>3. /\ \A k \in Kinds, i \in Processes : <<k, i>> \in Places /\ LinesOf(P, S)[<<k, i>>] = Queue(P[i], k)
      /\ \A s \in Sockets : <<"in", s>> \in Places /\ LinesOf(P, S)[<<"in", s>>] = In(S, s)
  BY <1>1, LinesAre
<1>4. /\ \A k \in Kinds, i \in Processes : <<k, i>> \in Places /\ LinesOf(Q, R)[<<k, i>>] = Queue(Q[i], k)
      /\ \A s \in Sockets : <<"in", s>> \in Places /\ LinesOf(Q, R)[<<"in", s>>] = In(R, s)
  BY <1>2, LinesAre
<1> QED
  BY <1>1, <1>2, <1>3, <1>4 DEF P, S, Q, R

(* The first of a line fits it. *)
LEMMA HeadFits ==
  ASSUME PeerInv, LinesInv, NEW p \in Places, LinesOf(proc, socks)[p] # <<>>
  PROVE  Fits(p[1], p[2], Head(LinesOf(proc, socks)[p]), proc, socks, host)
<1> DEFINE F == LinesOf(proc, socks)
           q == F[p]
<1>1. F \in [Places -> Lines]
  <2>1. Full(proc) /\ socks \in Seq(SocketSet)
    BY PeerFacts, ProcFacts DEF Full
  <2> QED
    BY <2>1, LinesAre
<1>2. q \in Seq(Tokens) /\ q # <<>>
  <2> HIDE DEF F
  <2> QED
    BY <1>1 DEF Lines, F
<1>3. \A n \in 1 .. Len(q) : Fits(p[1], p[2], q[n], proc, socks, host)
  BY DEF LinesInv, LinesOK, AllFit
<1> HIDE DEF F, q
<1>4. Head(q) = q[1] /\ 1 \in 1 .. Len(q)
  BY <1>2, HeadTailProperties, EmptySeq
<1>5. Fits(p[1], p[2], Head(q), proc, socks, host)
  BY <1>3, <1>4
<1> QED
  BY <1>5 DEF q, F

(* What process i finds at the socket in slot k: a request of the host     *)
(* that the slot names, or an answer to one of its own host.               *)
LEMMA ReadFits ==
  ASSUME PeerInv, LinesInv, NEW i \in Processes, NEW k \in Used(proc[i].peers),
         proc[i].peers.slots[k].sock > 0, socks[proc[i].peers.slots[k].sock].in # <<>>
  PROVE  LET e == proc[i].peers.slots[k]
             m == Head(socks[e.sock].in) IN
         /\ e.id \in DOMAIN host /\ e.id \in Processes /\ i \in DOMAIN host
         /\ \/ m = EOF
            \/ m \in Messages /\ m.type = "ask" /\ OfHost(m, host[e.id], proc, host)
            \/ m \in Messages /\ m.type = "answer" /\ OfHost(m, host[i], proc, host)
<1> DEFINE t == proc[i].peers
           e == t.slots[k]
           s == e.sock
           p == <<"in", s>>
           m == Head(socks[s].in)
<1>1. s \in 1 .. Len(socks) /\ Own(socks, i, s) /\ s # -1
  BY SlotSocket
<1>2. t \in Tables /\ TableOK(t, host) /\ Plugged(t, accepts[i], i, socks, host)
  BY ProcFacts
<1>3. host[socks[Mate(s)].of] = e.host /\ e.host = host[e.id] /\ e.id \in DOMAIN host
  BY <1>1, <1>2 DEF Plugged, TableOK, Named
<1>4. socks[s].of = i /\ i \in DOMAIN host
  BY <1>1 DEF Own, PeerInv, SocksOK
<1>5. e.id \in Processes
  BY <1>3, PeerFacts DEF Started
<1>6. p \in Places /\ LinesOf(proc, socks)[p] = socks[s].in
  <2>1. Full(proc) /\ socks \in Seq(SocketSet) /\ Len(socks) \in Nat
    BY PeerFacts, ProcFacts DEF Full
  <2>2. s \in Sockets
    BY <1>1, <2>1 DEF Sockets
  <2> HIDE DEF s
  <2>3. p \in Places /\ LinesOf(proc, socks)[p] = In(socks, s)
    BY <2>1, <2>2, LinesAre
  <2> QED
    BY <1>1, <2>3 DEF In
<1>7. Fits(p[1], p[2], m, proc, socks, host)
  <2>1. socks[s].in # <<>>
    OBVIOUS
  <2> HIDE DEF s, p
  <2> QED
    BY <1>6, <2>1, HeadFits
<1>8. p[1] = "in" /\ p[2] = s
  OBVIOUS
<1> HIDE DEF m, p, s, e, t
<1>9. \/ m = EOF
      \/ m \in Messages /\ m.type = "ask" /\ OfHost(m, host[socks[Mate(s)].of], proc, host)
      \/ m \in Messages /\ m.type = "answer" /\ OfHost(m, host[socks[s].of], proc, host)
  BY <1>7, <1>8 DEF Fits
<1> QED
  BY <1>3, <1>4, <1>5, <1>9 DEF m, s, e, t

(* A message read from socket s becomes x, the last in queue c of process  *)
(* i.                                                                      *)
LEMMA ReadLines ==
  ASSUME PeerInv, PeerInv', LinesInv, NEW i \in Processes, UNCHANGED host, NEW s \in 1 .. Len(socks),
         socks[s].in # <<>>, Reads(socks, socks', s), NEW x \in Messages,
         SameJob(x, Head(socks[s].in)), NEW c \in Kinds, Fits(c, i, x, proc, socks', host),
         \A j \in Processes : j # i => proc'[j] = proc[j], proc'[i].asked = proc[i].asked,
         Queue(proc'[i], c) = Append(Queue(proc[i], c), x),
         \A k \in Kinds : k # c => Queue(proc'[i], k) = Queue(proc[i], k)
  PROVE  LinesInv'
<1> DEFINE a == <<"in", s>>
           b == <<c, i>>
           K == {c}
           X == {s}
           F == LinesOf(proc, socks)
           G == LinesOf(proc', socks')
<1>1. /\ \A j \in Processes : j # i => proc'[j] = proc[j]
      /\ Queue(proc'[i], c) = Append(Queue(proc[i], c), x)
      /\ \A k \in Kinds : k # c => Queue(proc'[i], k) = Queue(proc[i], k)
  OBVIOUS
<1>2. SocksGrow(socks, socks')
  BY DEF Reads
<1>3. s \in Sockets /\ socks \in Seq(SocketSet)
  BY PeerFacts DEF Sockets
<1>4. a \in Places /\ F[a] = In(socks, s) /\ G[a] = In(socks', s)
      /\ b \in Places /\ F[b] = Queue(proc[i], c) /\ G[b] = Queue(proc'[i], c)
  BY <1>3, LinesThen
<1>5. /\ \A u : u # s => Less(In(socks, u), In(socks', u))
      /\ In(socks, s) = socks[s].in /\ In(socks', s) = Tail(In(socks, s))
  <2> DEFINE R == socks'
  <2>1. Reads(socks, R, s)
    OBVIOUS
  <2> HIDE DEF R
  <2>2. /\ \A u : u # s => Less(In(socks, u), In(R, u))
        /\ In(socks, s) = socks[s].in /\ In(R, s) = Tail(In(socks, s))
    BY <1>3, <2>1, ReadsIn
  <2> QED
    BY <2>2 DEF R
<1>6. a # b
  BY DEF Kinds
<1>7. /\ \A k \in Kinds \ K : Queue(proc'[i], k) = Queue(proc[i], k)
      /\ \A u \in Sockets \ X : Less(In(socks, u), In(socks', u))
      /\ \A k \in K : <<k, i>> \in {a, b}
      /\ \A u \in X : <<"in", u>> \in {a, b}
      /\ b[1] = c /\ b[2] = i
  BY <1>1, <1>5
<1>8. proc'[i].asked = proc[i].asked
  OBVIOUS
<1>9. F[a] # <<>> /\ G[a] = Tail(F[a]) /\ G[b] = Append(F[b], x) /\ SameJob(x, Head(F[a]))
  BY <1>1, <1>4, <1>5
<1>10. Fits(b[1], b[2], x, proc, socks', host)
  BY <1>7
<1>11. /\ F[a] # <<>> /\ G[a] = Tail(F[a])
       /\ \/ G[b] = F[b]
          \/ G[b] = Append(F[b], x) /\ SameJob(x, Head(F[a])) /\ x \in Messages
  BY <1>9
<1> HIDE DEF a, b, K, X
<1>12. LinesInv'
  BY <1>1, <1>2, <1>4, <1>6, <1>7, <1>8, <1>10, <1>11, LinesMove
<1> QED
  BY <1>12

LEMMA NetReadsLines ==
  ASSUME PeerInv, PeerInv', LinesInv, NEW i \in Processes, NetReads(i)
  PROVE  LinesInv'
<1> DEFINE t == proc[i].peers
<1>1. socks \in Seq(SocketSet) /\ Len(socks) % 2 = 0 /\ proc[i] \in Procs /\ UNCHANGED host
  BY ProcFacts DEF PeerInv, SocksOK, NetReads
<1>2. PICK k \in Used(t) :
       LET e == t.slots[k] IN
       /\ e.sock > 0 /\ socks[e.sock].in # <<>>
       /\ LET m == Head(socks[e.sock].in)
              p == CASE m.type = "eof" -> [proc[i] EXCEPT !.peers = WithSocket(@, k, -1)]
                     [] m.type = "ask" -> [proc[i] EXCEPT !.todo = Append(@, [m EXCEPT !.peer = e.id])]
                     [] m.type = "answer" -> [proc[i] EXCEPT !.got = Append(@, m)]
          IN  /\ proc' = [proc EXCEPT ![i] = p]
              /\ IF m.type = "eof"
                   THEN socks' = Shut(e.sock) /\ cut' = cut \cup Cuts({e.sock})
                   ELSE socks' = [socks EXCEPT ![e.sock].in = Tail(@)] /\ UNCHANGED cut
  BY DEF NetReads
<1> DEFINE e == t.slots[k]
           s == e.sock
           m == Head(socks[s].in)
           r == [m EXCEPT !.peer = e.id]
<1>3. s \in 1 .. Len(socks)
  BY <1>2, SlotSocket
<1>4. socks[s].in # <<>> /\ m \in Tokens /\ Reads(socks, [socks EXCEPT ![s].in = Tail(@)], s)
  BY <1>1, <1>2, <1>3, ReadsIs
<1>5. /\ e.id \in DOMAIN host /\ e.id \in Processes /\ i \in DOMAIN host
      /\ \/ m = EOF
         \/ m \in Messages /\ m.type = "ask" /\ OfHost(m, host[e.id], proc, host)
         \/ m \in Messages /\ m.type = "answer" /\ OfHost(m, host[i], proc, host)
  BY <1>2, ReadFits
<1>6. proc[i].todo \in Seq(Messages) /\ proc[i].got \in Seq(Messages)
  BY <1>1, ProcParts
<1>7. CASE m = EOF
  <2> DEFINE p == [proc[i] EXCEPT !.peers = WithSocket(t, k, -1)]
  <2>1. m.type = "eof"
    BY <1>7, TokenIs
  <2>2. proc' = [proc EXCEPT ![i] = p] /\ socks' = Shut(s)
    BY <1>2, <2>1
  <2>3. p.asked = proc[i].asked /\ p.asks = proc[i].asks /\ p.todo = proc[i].todo
        /\ p.answers = proc[i].answers /\ p.got = proc[i].got
    BY <1>1 DEF Procs
  <2> HIDE DEF p, s
  <2>4. Closes(socks, socks', s, WatchedSocket(Mate(s)))
    BY <1>1, <1>3, <2>2, ShutIs
  <2>5. SocksGrow(socks, socks') /\ \A x \in Sockets : Less(In(socks, x), In(socks', x))
    BY <1>1, <2>4, ClosesIn DEF Closes
  <2> QED
    BY <1>1, <2>2, <2>3, <2>5, TableLines
<1>8. CASE m \in Messages /\ m.type = "ask" /\ OfHost(m, host[e.id], proc, host)
  <2> DEFINE p == [proc[i] EXCEPT !.todo = Append(proc[i].todo, r)]
             c == "todo"
  <2>1. proc' = [proc EXCEPT ![i] = p] /\ socks' = [socks EXCEPT ![s].in = Tail(@)]
    BY <1>2, <1>8
  <2>0. proc'[i] = p /\ \A j \in Processes : j # i => proc'[j] = proc[j]
    <3> HIDE DEF p
    <3> QED
      BY <2>1, PutAt DEF PeerInv, TypeInv
  <2>2. Reads(socks, socks', s)
    BY <1>4, <2>1
  <2> HIDE DEF s, m, e
  <2>3. r \in Messages /\ r.type = "ask" /\ r.job = m.job /\ r.origin = m.origin /\ r.peer = e.id
    BY <1>5, <1>8, RenamedIs
  <2> HIDE DEF r
  <2>4. SameJob(r, m) /\ OfHost(r, host[e.id], proc, host)
    BY <1>8, <2>3 DEF SameJob, OfHost
  <2>5. Append(proc[i].todo, r) \in Seq(Messages)
    BY <1>6, <2>3, AppendProperties
  <2>6. /\ p.asked = proc[i].asked /\ p.asks = proc[i].asks /\ p.todo = Append(proc[i].todo, r)
        /\ p.answers = proc[i].answers /\ p.got = proc[i].got
    BY <1>1, <2>5, WithQueue
  <2> HIDE DEF p
  <2>7. c \in Kinds /\ Queue(p, c) = Append(Queue(proc[i], c), r)
        /\ \A l \in Kinds : l # c => Queue(p, l) = Queue(proc[i], l)
    BY <2>6 DEF Kinds, Queue
  <2>8. Fits(c, i, r, proc, socks', host)
    BY <1>5, <2>3, <2>4 DEF Fits
  <2>9. SameJob(r, Head(socks[s].in))
    BY <2>4 DEF m
  <2> HIDE DEF c
  <2>10. /\ socks[s].in # <<>> /\ UNCHANGED host /\ s \in 1 .. Len(socks)
         /\ Reads(socks, socks', s) /\ r \in Messages /\ SameJob(r, Head(socks[s].in))
         /\ c \in Kinds /\ Fits(c, i, r, proc, socks', host)
         /\ proc'[i].asked = proc[i].asked /\ Queue(proc'[i], c) = Append(Queue(proc[i], c), r)
         /\ \A l \in Kinds : l # c => Queue(proc'[i], l) = Queue(proc[i], l)
         /\ \A j \in Processes : j # i => proc'[j] = proc[j]
    BY <2>0, <1>1, <1>3, <1>4, <2>1, <2>2, <2>3, <2>6, <2>7, <2>8, <2>9
  <2> QED
    BY <2>10, ReadLines
<1>9. CASE m \in Messages /\ m.type = "answer" /\ OfHost(m, host[i], proc, host)
  <2> DEFINE p == [proc[i] EXCEPT !.got = Append(proc[i].got, m)]
             c == "got"
  <2>1. proc' = [proc EXCEPT ![i] = p] /\ socks' = [socks EXCEPT ![s].in = Tail(@)]
    BY <1>2, <1>9
  <2>0. proc'[i] = p /\ \A j \in Processes : j # i => proc'[j] = proc[j]
    <3> HIDE DEF p
    <3> QED
      BY <2>1, PutAt DEF PeerInv, TypeInv
  <2>2. Reads(socks, socks', s)
    BY <1>4, <2>1
  <2>3. SameJob(m, Head(socks[s].in)) /\ m \in Messages /\ m.type = "answer"
    BY <1>9 DEF SameJob
  <2> HIDE DEF s, m, e
  <2>4. Append(proc[i].got, m) \in Seq(Messages)
    BY <1>6, <2>3, AppendProperties
  <2>5. /\ p.asked = proc[i].asked /\ p.asks = proc[i].asks /\ p.todo = proc[i].todo
        /\ p.answers = proc[i].answers /\ p.got = Append(proc[i].got, m)
    BY <1>1, <2>4, WithQueue
  <2> HIDE DEF p
  <2>6. c \in Kinds /\ Queue(p, c) = Append(Queue(proc[i], c), m)
        /\ \A l \in Kinds : l # c => Queue(p, l) = Queue(proc[i], l)
    BY <2>5 DEF Kinds, Queue
  <2>7. Fits(c, i, m, proc, socks', host)
    BY <1>5, <1>9, <2>3 DEF Fits
  <2> HIDE DEF c
  <2>10. /\ socks[s].in # <<>> /\ UNCHANGED host /\ s \in 1 .. Len(socks)
         /\ Reads(socks, socks', s) /\ m \in Messages /\ SameJob(m, Head(socks[s].in))
         /\ c \in Kinds /\ Fits(c, i, m, proc, socks', host)
         /\ proc'[i].asked = proc[i].asked /\ Queue(proc'[i], c) = Append(Queue(proc[i], c), m)
         /\ \A l \in Kinds : l # c => Queue(proc'[i], l) = Queue(proc[i], l)
         /\ \A j \in Processes : j # i => proc'[j] = proc[j]
    BY <2>0, <1>1, <1>3, <1>4, <2>1, <2>2, <2>3, <2>5, <2>6, <2>7
  <2> QED
    BY <2>10, ReadLines
<1> QED
  BY <1>5, <1>7, <1>8, <1>9

(* The first request at process i becomes answer x, or is dropped. *)
LEMMA LogicAnswersIs ==
  ASSUME PeerInv, NEW i \in Processes, LogicAnswers(i)
  PROVE  LET m == Head(proc[i].todo)
             x == [m EXCEPT !.type = "answer"] IN
         /\ Up(i) /\ proc[i].todo # <<>> /\ UNCHANGED <<roster, posted, host, state, accepts, socks, cut>>
         /\ m \in Messages /\ x \in Messages /\ x.type = "answer"
         /\ x.job = m.job /\ x.origin = m.origin /\ x.peer = m.peer
         /\ proc'[i].peers = proc[i].peers /\ proc'[i].asked = proc[i].asked /\ proc'[i].asks = proc[i].asks
         /\ proc'[i].todo = Tail(proc[i].todo) /\ proc'[i].got = proc[i].got
         /\ proc'[i].answers = IF KnownId(proc[i].peers, m.peer) THEN Append(proc[i].answers, x) ELSE proc[i].answers
         /\ \A j \in Processes : j # i => proc'[j] = proc[j]
<1> DEFINE m == Head(proc[i].todo)
           x == [m EXCEPT !.type = "answer"]
           y == IF KnownId(proc[i].peers, m.peer) THEN Append(proc[i].answers, x) ELSE proc[i].answers
           v == [proc[i] EXCEPT !.todo = Tail(@)]
           p == [v EXCEPT !.answers = y]
<1>1. /\ Up(i) /\ proc[i].todo # <<>> /\ UNCHANGED <<roster, posted, host, state, accepts, socks, cut>>
      /\ proc' = [proc EXCEPT ![i].todo = Tail(@),
                    ![i].answers = IF KnownId(proc[i].peers, m.peer)
                                     THEN Append(@, [m EXCEPT !.type = "answer"]) ELSE @]
  BY DEF LogicAnswers, trackerSide
<1>2. proc[i] \in Procs /\ proc[i].todo \in Seq(Messages) /\ proc[i].answers \in Seq(Messages)
  BY ProcFacts, ProcParts
<1>3. m \in Messages /\ Tail(proc[i].todo) \in Seq(Messages)
  BY <1>1, <1>2, HeadTailProperties
<1>4. proc' = [proc EXCEPT ![i] = p]
  <2> HIDE DEF m
  <2>1. DOMAIN proc = Processes /\ proc = [j \in Processes |-> proc[j]]
    BY DEF PeerInv, TypeInv
  <2>2. proc' = [[proc EXCEPT ![i].todo = Tail(@)] EXCEPT
                   ![i].answers = IF KnownId(proc[i].peers, m.peer)
                                    THEN Append(@, [m EXCEPT !.type = "answer"]) ELSE @]
    BY <1>1
  <2>3. [proc EXCEPT ![i].todo = Tail(@)] = [proc EXCEPT ![i] = v]
    BY <2>1
  <2>4. v.answers = proc[i].answers
    BY <1>2 DEF Procs
  <2> DEFINE Q == [proc EXCEPT ![i] = v]
  <2>5. proc' = [Q EXCEPT ![i].answers = IF KnownId(proc[i].peers, m.peer)
                                    THEN Append(@, [m EXCEPT !.type = "answer"]) ELSE @]
    BY <2>2, <2>3
  <2> HIDE DEF v, p
  <2>6. Q[i] = v /\ [Q EXCEPT ![i] = p] = [proc EXCEPT ![i] = p]
    BY <2>1
  <2> HIDE DEF Q
  <2>7. proc' = [Q EXCEPT ![i] = p]
    BY <2>4, <2>5, <2>6 DEF p
  <2> QED
    BY <2>6, <2>7
<1> HIDE DEF m
<1>5. x \in Messages /\ x.type = "answer" /\ x.job = m.job /\ x.origin = m.origin /\ x.peer = m.peer
  BY <1>3, RenamedIs
<1> HIDE DEF x
<1>6. y \in Seq(Messages)
  BY <1>2, <1>5, AppendProperties
<1> HIDE DEF y
<1>7. /\ p.peers = proc[i].peers /\ p.asked = proc[i].asked /\ p.asks = proc[i].asks
      /\ p.todo = Tail(proc[i].todo) /\ p.answers = y /\ p.got = proc[i].got
  <2>1. /\ v \in Procs /\ v.peers = proc[i].peers /\ v.asked = proc[i].asked /\ v.asks = proc[i].asks
        /\ v.todo = Tail(proc[i].todo) /\ v.got = proc[i].got
    BY <1>2, <1>3, WithQueue
  <2> HIDE DEF v
  <2> QED
    BY <1>6, <2>1, WithQueue
<1> HIDE DEF v, p
<1>8. proc'[i] = p /\ \A j \in Processes : j # i => proc'[j] = proc[j]
  BY <1>4, PutAt DEF PeerInv, TypeInv
<1> QED
  BY <1>1, <1>3, <1>5, <1>7, <1>8 DEF m, x, y

LEMMA LogicAnswersLines ==
  ASSUME PeerInv, PeerInv', LinesInv, NEW i \in Processes, LogicAnswers(i)
  PROVE  LinesInv'
<1> DEFINE m == Head(proc[i].todo)
           x == [m EXCEPT !.type = "answer"]
           a == <<"todo", i>>
           b == <<"answers", i>>
           F == LinesOf(proc, socks)
           G == LinesOf(proc', socks')
           K == {"todo", "answers"}
           X == {}
<1>1. /\ proc[i].todo # <<>> /\ UNCHANGED <<host, socks>>
      /\ m \in Messages /\ x \in Messages /\ x.type = "answer"
      /\ x.job = m.job /\ x.origin = m.origin /\ x.peer = m.peer
      /\ proc'[i].asked = proc[i].asked /\ proc'[i].asks = proc[i].asks
      /\ proc'[i].todo = Tail(proc[i].todo) /\ proc'[i].got = proc[i].got
      /\ proc'[i].answers \in {proc[i].answers, Append(proc[i].answers, x)}
  BY LogicAnswersIs
<1>2. \A j \in Processes : j # i => proc'[j] = proc[j]
  BY LogicAnswersIs
<1> HIDE DEF x
<1>3. /\ a \in Places /\ F[a] = proc[i].todo /\ G[a] = proc'[i].todo
      /\ b \in Places /\ F[b] = proc[i].answers /\ G[b] = proc'[i].answers
  <2>1. "todo" \in Kinds /\ "answers" \in Kinds
    BY DEF Kinds
  <2>2. /\ a \in Places /\ F[a] = Queue(proc[i], "todo") /\ G[a] = Queue(proc'[i], "todo")
        /\ b \in Places /\ F[b] = Queue(proc[i], "answers") /\ G[b] = Queue(proc'[i], "answers")
    BY <2>1, LinesThen
  <2> QED
    BY <2>2 DEF Queue
<1>4. Fits("todo", i, m, proc, socks, host)
  <2>1. Fits(a[1], a[2], Head(F[a]), proc, socks, host)
    BY <1>1, <1>3, HeadFits
  <2>2. a[1] = "todo" /\ a[2] = i /\ Head(F[a]) = m
    BY <1>3
  <2> HIDE DEF a, m, F
  <2> QED
    BY <2>1, <2>2
<1> HIDE DEF m
<1>5. SameJob(x, m) /\ Fits("answers", i, x, proc, socks', host)
  BY <1>1, <1>4 DEF SameJob, Fits, OfHost
<1>6. /\ F[a] # <<>> /\ G[a] = Tail(F[a])
      /\ \/ G[b] = F[b]
         \/ G[b] = Append(F[b], x) /\ SameJob(x, Head(F[a])) /\ x \in Messages
  BY <1>1, <1>3, <1>5 DEF m
<1>7. /\ \A k \in Kinds \ K : Queue(proc'[i], k) = Queue(proc[i], k)
      /\ \A u \in Sockets \ X : Less(In(socks, u), In(socks', u))
      /\ \A k \in K : <<k, i>> \in {a, b}
      /\ \A u \in X : <<"in", u>> \in {a, b}
      /\ b[1] = "answers" /\ b[2] = i /\ a # b
  <2>1. \A k \in Kinds \ K : Queue(proc'[i], k) = Queue(proc[i], k)
    BY <1>1 DEF Queue, Kinds
  <2>2. \A u : In(socks', u) = In(socks, u)
    BY <1>1
  <2> QED
    BY <2>1, <2>2 DEF Less
<1>8. Fits(b[1], b[2], x, proc, socks', host) /\ proc'[i].asked = proc[i].asked
      /\ SocksGrow(socks, socks') /\ UNCHANGED host
  BY <1>1, <1>5, <1>7, PeerFacts
<1> HIDE DEF a, b, K, X
<1>9. LinesInv'
  BY <1>2, <1>3, <1>6, <1>7, <1>8, LinesMove
<1> QED
  BY <1>9

(* Every message in a line is about a request that was made. *)
LEMMA FitsJob ==
  ASSUME NEW P, NEW S, NEW h, AllFit(P, S, h), NEW p \in Places, NEW n \in 1 .. Len(LinesOf(P, S)[p]),
         LinesOf(P, S)[p][n] \in Messages
  PROVE  LinesOf(P, S)[p][n].job \in 1 .. Len(P[LinesOf(P, S)[p][n].origin].asked)
<1> DEFINE m == LinesOf(P, S)[p][n]
<1>1. Fits(p[1], p[2], m, P, S, h)
  BY DEF AllFit
<1>2. p[1] \in {"asks", "todo", "answers", "got", "in"} /\ m # EOF
  BY TokenIs DEF Places, Kinds
<1> HIDE DEF m
<1>3. \E x : OfHost(m, x, P, h)
  BY <1>1, <1>2 DEF Fits
<1>4. m.job \in 1 .. Len(P[m.origin].asked)
  BY <1>3 DEF OfHost
<1> QED
  BY <1>4 DEF m

(* A new job. *)
LEMMA LogicAsksIs ==
  ASSUME PeerInv, NEW i \in Processes, NEW d \in Processes, LogicAsks(i, d)
  PROVE  LET c == Len(proc[i].asked) + 1
             m == [type |-> "ask", job |-> c, origin |-> i, peer |-> d] IN
         /\ Up(i) /\ KnownId(proc[i].peers, d) /\ UNCHANGED <<roster, posted, host, state, accepts, socks, cut>>
         /\ Len(proc[i].asked) \in Nat
         /\ m \in Messages /\ m.type = "ask" /\ m.job = c /\ m.origin = i /\ m.peer = d
         /\ proc'[i].asked = Append(proc[i].asked, d) /\ Len(proc'[i].asked) = c
         /\ proc'[i].asks = Append(proc[i].asks, m) /\ proc'[i].peers = proc[i].peers
         /\ proc'[i].todo = proc[i].todo /\ proc'[i].answers = proc[i].answers /\ proc'[i].got = proc[i].got
         /\ \A j \in Processes : j # i => proc'[j] = proc[j]
<1> DEFINE x == Append(proc[i].asked, d)
           c == Len(proc[i].asked) + 1
           m == [type |-> "ask", job |-> c, origin |-> i, peer |-> d]
           y == Append(proc[i].asks, m)
           v == [proc[i] EXCEPT !.asked = x]
           p == [v EXCEPT !.asks = y]
<1>1. /\ Up(i) /\ KnownId(proc[i].peers, d) /\ UNCHANGED <<roster, posted, host, state, accepts, socks, cut>>
      /\ Len(proc[i].asked) < MaxAsks
      /\ proc' = [proc EXCEPT ![i].asked = Append(@, d), ![i].asks = Append(@, m)]
  BY DEF LogicAsks, trackerSide
<1>2. proc[i] \in Procs /\ proc[i].asked \in Seq(Processes) /\ proc[i].asks \in Seq(Messages)
      /\ Len(proc[i].asked) \in Nat /\ MaxAsks \in Nat
  BY ProcFacts, ProcParts, LenProperties, PeerNetworkAssumption
<1>3. m \in Messages /\ m.type = "ask" /\ m.job = c /\ m.origin = i /\ m.peer = d
  BY <1>1, <1>2 DEF Messages
<1>4. proc' = [proc EXCEPT ![i] = p]
  <2> HIDE DEF m
  <2>1. DOMAIN proc = Processes /\ proc = [j \in Processes |-> proc[j]]
    BY DEF PeerInv, TypeInv
  <2>2. proc' = [[proc EXCEPT ![i].asked = Append(@, d)] EXCEPT ![i].asks = Append(@, m)]
    BY <1>1
  <2>3. [proc EXCEPT ![i].asked = Append(@, d)] = [proc EXCEPT ![i] = v]
    BY <2>1
  <2>4. v.asks = proc[i].asks
    BY <1>2 DEF Procs
  <2> DEFINE Q == [proc EXCEPT ![i] = v]
  <2>5. proc' = [Q EXCEPT ![i].asks = Append(@, m)]
    BY <2>2, <2>3
  <2> HIDE DEF v, p
  <2>6. Q[i] = v /\ [Q EXCEPT ![i] = p] = [proc EXCEPT ![i] = p]
    BY <2>1
  <2> HIDE DEF Q
  <2>7. proc' = [Q EXCEPT ![i] = p]
    BY <2>4, <2>5, <2>6 DEF p
  <2> QED
    BY <2>6, <2>7
<1> HIDE DEF m
<1>5. x \in Seq(Processes) /\ Len(x) = c /\ y \in Seq(Messages)
  BY <1>2, <1>3, AppendProperties
<1> HIDE DEF x, y
<1>6. /\ p.peers = proc[i].peers /\ p.asked = x /\ p.asks = y /\ p.todo = proc[i].todo
      /\ p.answers = proc[i].answers /\ p.got = proc[i].got
  <2>1. /\ v \in Procs /\ v.peers = proc[i].peers /\ v.asked = x /\ v.todo = proc[i].todo
        /\ v.answers = proc[i].answers /\ v.got = proc[i].got
    BY <1>2, <1>5, WithAsked
  <2> HIDE DEF v
  <2> QED
    BY <1>5, <2>1, WithQueue
<1> HIDE DEF v, p
<1>7. proc'[i] = p /\ \A j \in Processes : j # i => proc'[j] = proc[j]
  BY <1>4, PutAt DEF PeerInv, TypeInv
<1> QED
  BY <1>1, <1>2, <1>3, <1>5, <1>6, <1>7 DEF m, x, y

LEMMA LogicAsksLines ==
  ASSUME PeerInv, PeerInv', LinesInv, NEW i \in Processes, NEW d \in Processes, LogicAsks(i, d)
  PROVE  LinesInv'
<1> DEFINE c == Len(proc[i].asked) + 1
           m == [type |-> "ask", job |-> c, origin |-> i, peer |-> d]
           y == Append(proc[i].asks, m)
           a == <<"asks", i>>
<1>1. /\ i \in Started /\ UNCHANGED <<host, socks>> /\ Len(proc[i].asked) \in Nat
      /\ m \in Messages /\ m.type = "ask" /\ m.job = c /\ m.origin = i
      /\ Len(proc'[i].asked) = c /\ proc'[i].asks = y /\ proc'[i].todo = proc[i].todo
      /\ proc'[i].answers = proc[i].answers /\ proc'[i].got = proc[i].got
      /\ \A j \in Processes : j # i => proc'[j] = proc[j]
  BY LogicAsksIs DEF Up
<1> HIDE DEF m, y
<1>2. AskedGrow(proc, proc')
  <2>1. ASSUME NEW j \in Processes PROVE Len(proc[j].asked) <= Len(proc'[j].asked)
    <3>1. CASE j = i
      BY <1>1, <3>1
    <3>2. CASE j # i
      <4>1. proc[j].asked \in Seq(Processes) /\ proc'[j] = proc[j]
        BY <1>1, <3>2, ProcFacts, ProcParts
      <4> QED
        BY <4>1, LenProperties
    <3> QED
      BY <3>1, <3>2
  <2> QED
    BY <2>1 DEF AskedGrow
<1> DEFINE P == proc
           S == socks
           Q == proc'
           R == socks'
           h == host
           F == LinesOf(P, S)
           G == LinesOf(Q, R)
<1>3. Grow(P, S, h, Q, R, h)
  <2>1. HostsGrow(host, host') /\ SocksGrow(socks, socks') /\ UNCHANGED host
    BY <1>1, PeerFacts
  <2> QED
    BY <1>2, <2>1, GrowIs
<1>4. LinesOK(P, S, h) /\ AllFit(P, S, h)
  BY DEF LinesInv, LinesOK
<1>5. /\ \A k \in Kinds, j \in Processes : F[<<k, j>>] = Queue(P[j], k) /\ G[<<k, j>>] = Queue(Q[j], k)
      /\ \A s \in Sockets : F[<<"in", s>>] = In(S, s) /\ G[<<"in", s>>] = In(R, s)
  BY LinesThen
<1>6. a \in Places /\ F[a] = proc[i].asks /\ G[a] = y
  <2>1. "asks" \in Kinds
    BY DEF Kinds
  <2>2. F[a] = Queue(P[i], "asks") /\ G[a] = Queue(Q[i], "asks")
    BY <1>5, <2>1
  <2> QED
    BY <1>1, <2>1, <2>2 DEF Queue, Places
<1>7. ASSUME NEW q \in Places, q # a PROVE G[q] = F[q]
  <2>1. CASE q \in Kinds \X Processes
    <3>1. PICK k \in Kinds, j \in Processes : q = <<k, j>>
      BY <2>1
    <3>2. Queue(Q[j], k) = Queue(P[j], k)
      <4>1. CASE j # i
        BY <1>1, <4>1
      <4>2. CASE j = i /\ k # "asks"
        BY <1>1, <4>2 DEF Queue
      <4> QED
        BY <1>7, <3>1, <4>1, <4>2
    <3> QED
      BY <1>5, <3>1, <3>2
  <2>2. CASE q \in {"in"} \X Sockets
    <3>1. PICK s \in Sockets : q = <<"in", s>>
      BY <2>2
    <3>2. R = S
      BY <1>1
    <3> QED
      BY <1>5, <3>1, <3>2
  <2> QED
    BY <2>1, <2>2 DEF Places
<1>8. ASSUME NEW q \in Places, NEW n \in 1 .. Len(F[q]) PROVE ~SameJob(F[q][n], m)
  <2>1. SUFFICES ASSUME SameJob(F[q][n], m) PROVE FALSE
    OBVIOUS
  <2>2. F[q][n] \in Messages /\ F[q][n].origin = i /\ F[q][n].job = c
    BY <1>1, <2>1 DEF SameJob
  <2>3. F[q][n].job \in 1 .. Len(P[F[q][n].origin].asked)
    BY <1>4, <2>2, FitsJob
  <2>4. c \in 1 .. Len(proc[i].asked)
    BY <2>2, <2>3
  <2> QED
    BY <1>1, <2>4
<1>9. Fits("asks", i, m, Q, R, h) /\ a[1] = "asks" /\ a[2] = i
  <2>1. i \in DOMAIN h
    BY <1>1 DEF Started
  <2>2. c \in 1 .. Len(Q[i].asked)
    BY <1>1
  <2> QED
    BY <1>1, <2>1, <2>2 DEF Fits, OfHost
<1>10. G[a] = Append(F[a], m)
  BY <1>6 DEF y
<1> HIDE DEF a, P, S, Q, R, h, F, G
<1>11. Fresh(F, G, a, m)
  BY <1>1, <1>6, <1>7, <1>8, <1>10 DEF Fresh
<1>12. LinesOK(Q, R, h)
  BY <1>3, <1>4, <1>9, <1>11, LinesFresh DEF F, G
<1> QED
  BY <1>1, <1>12 DEF LinesInv, Q, R, h

(* The first of queue c of process i goes to socket s, or is dropped. *)
LEMMA SendLines ==
  ASSUME PeerInv, PeerInv', LinesInv, NEW i \in Processes, UNCHANGED host, SocksGrow(socks, socks'),
         NEW c \in Kinds, Queue(proc[i], c) # <<>>,
         \A j \in Processes : j # i => proc'[j] = proc[j], proc'[i].asked = proc[i].asked,
         Queue(proc'[i], c) = Tail(Queue(proc[i], c)),
         \A k \in Kinds : k # c => Queue(proc'[i], k) = Queue(proc[i], k),
         NEW s \in Sockets, \A u : u # s => Less(In(socks, u), In(socks', u)), NEW x,
         \/ In(socks', s) = In(socks, s)
         \/ /\ In(socks', s) = Append(In(socks, s), x)
            /\ x = Head(Queue(proc[i], c)) /\ x \in Messages,
         Fits("in", s, x, proc, socks', host)
  PROVE  LinesInv'
<1> DEFINE a == <<c, i>>
           b == <<"in", s>>
           K == {c}
           X == {s}
           F == LinesOf(proc, socks)
           G == LinesOf(proc', socks')
<1>1. /\ \A j \in Processes : j # i => proc'[j] = proc[j]
      /\ proc'[i].asked = proc[i].asked
      /\ Queue(proc'[i], c) = Tail(Queue(proc[i], c))
      /\ \A k \in Kinds : k # c => Queue(proc'[i], k) = Queue(proc[i], k)
  OBVIOUS
<1>2. a \in Places /\ F[a] = Queue(proc[i], c) /\ G[a] = Queue(proc'[i], c)
      /\ b \in Places /\ F[b] = In(socks, s) /\ G[b] = In(socks', s)
  BY LinesThen
<1>3. a # b
  BY DEF Kinds
<1>4. /\ \A k \in Kinds \ K : Queue(proc'[i], k) = Queue(proc[i], k)
      /\ \A u \in Sockets \ X : Less(In(socks, u), In(socks', u))
      /\ \A k \in K : <<k, i>> \in {a, b}
      /\ \A u \in X : <<"in", u>> \in {a, b}
      /\ b[1] = "in" /\ b[2] = s
  BY <1>1
<1>5. /\ F[a] # <<>> /\ G[a] = Tail(F[a])
      /\ \/ G[b] = F[b]
         \/ G[b] = Append(F[b], x) /\ SameJob(x, Head(F[a])) /\ x \in Messages
  BY <1>1, <1>2 DEF SameJob
<1>6. Fits(b[1], b[2], x, proc, socks', host)
  BY <1>4
<1> HIDE DEF a, b, K, X
<1>7. LinesInv'
  BY <1>1, <1>2, <1>3, <1>4, <1>5, <1>6, LinesMove
<1> QED
  BY <1>7

(* It goes to no socket. *)
LEMMA DropLines ==
  ASSUME PeerInv, PeerInv', LinesInv, NEW i \in Processes, UNCHANGED <<host, socks>>,
         NEW c \in Kinds, Queue(proc[i], c) # <<>>,
         \A j \in Processes : j # i => proc'[j] = proc[j], proc'[i].asked = proc[i].asked,
         Queue(proc'[i], c) = Tail(Queue(proc[i], c)),
         \A k \in Kinds : k # c => Queue(proc'[i], k) = Queue(proc[i], k)
  PROVE  LinesInv'
<1> DEFINE s == 1
           x == EOF
<1>1. s \in Sockets /\ Fits("in", s, x, proc, socks', host)
  BY DEF Sockets, Fits
<1>2. In(socks', s) = In(socks, s) /\ \A u : u # s => Less(In(socks, u), In(socks', u))
  BY DEF Less
<1>3. SocksGrow(socks, socks') /\ UNCHANGED host
  BY PeerFacts
<1>4. /\ \A j \in Processes : j # i => proc'[j] = proc[j]
      /\ proc'[i].asked = proc[i].asked
      /\ Queue(proc'[i], c) = Tail(Queue(proc[i], c)) /\ Queue(proc[i], c) # <<>>
      /\ \A k \in Kinds : k # c => Queue(proc'[i], k) = Queue(proc[i], k)
  OBVIOUS
<1> HIDE DEF s, x
<1>5. LinesInv'
  BY <1>1, <1>2, <1>3, <1>4, SendLines
<1> QED
  BY <1>5

(* It goes to the other end of socket s. *)
LEMMA SentLines ==
  ASSUME PeerInv, PeerInv', LinesInv, NEW i \in Processes, UNCHANGED host,
         NEW c \in Kinds, Queue(proc[i], c) # <<>>,
         \A j \in Processes : j # i => proc'[j] = proc[j], proc'[i].asked = proc[i].asked,
         Queue(proc'[i], c) = Tail(Queue(proc[i], c)),
         \A k \in Kinds : k # c => Queue(proc'[i], k) = Queue(proc[i], k),
         NEW s \in 1 .. Len(socks), Send(i, s, Head(Queue(proc[i], c))),
         Head(Queue(proc[i], c)) \in Messages,
         Fits("in", Mate(s), Head(Queue(proc[i], c)), proc, socks, host)
  PROVE  LinesInv'
<1> DEFINE x == Head(Queue(proc[i], c))
           u == Mate(s)
           w == WatchedSocket(u)
           R == socks'
<1>1. x \in Messages /\ x \in Tokens /\ Send(i, s, x) /\ Fits("in", u, x, proc, socks, host)
  BY TokenIs
<1> HIDE DEF x
<1>2. u \in 1 .. Len(socks) /\ Gets(socks, R, u, x, w) /\ SocksGrow(socks, R)
  BY <1>1, SendIs
<1>3. socks \in Seq(SocketSet) /\ Len(socks) \in Nat /\ Len(socks) % 2 = 0
  BY PeerFacts DEF PeerInv, SocksOK
<1>4. u \in Sockets /\ Mate(u) \in 1 .. Len(socks)
  <2>1. Mate(u) \in 1 .. Len(socks)
    BY <1>2, <1>3, MateIs
  <2> HIDE DEF u
  <2> QED
    BY <1>2, <1>3, <2>1 DEF Sockets
<1> HIDE DEF u, w, R
<1>5. /\ \A l : l # u => Less(In(socks, l), In(R, l))
      /\ In(R, u) = IF w THEN Append(In(socks, u), x) ELSE In(socks, u)
  BY <1>2, <1>3, GetsIn
<1>6. Fits("in", u, x, proc, R, host)
  <2>1. R[u].of = socks[u].of /\ R[Mate(u)].of = socks[Mate(u)].of
    BY <1>2, <1>4 DEF SocksGrow
  <2> QED
    BY <1>1, <2>1 DEF Fits
<1>7. /\ \A j \in Processes : j # i => proc'[j] = proc[j]
      /\ proc'[i].asked = proc[i].asked /\ UNCHANGED host
      /\ Queue(proc'[i], c) = Tail(Queue(proc[i], c)) /\ Queue(proc[i], c) # <<>>
      /\ \A k \in Kinds : k # c => Queue(proc'[i], k) = Queue(proc[i], k)
  OBVIOUS
<1>8. /\ \/ In(socks', u) = In(socks, u)
         \/ /\ In(socks', u) = Append(In(socks, u), x)
            /\ x = Head(Queue(proc[i], c)) /\ x \in Messages
      /\ \A l : l # u => Less(In(socks, l), In(socks', l))
      /\ Fits("in", u, x, proc, socks', host) /\ SocksGrow(socks, socks')
  <2>1. x = Head(Queue(proc[i], c))
    BY DEF x
  <2> QED
    BY <1>1, <1>2, <1>5, <1>6, <2>1 DEF R
<1> QED
  BY <1>4, <1>7, <1>8, SendLines

LEMMA NetAnswersLines ==
  ASSUME PeerInv, PeerInv', LinesInv, NEW i \in Processes, NetAnswers(i)
  PROVE  LinesInv'
<1> DEFINE t == proc[i].peers
           m == Head(proc[i].answers)
           p == [proc[i] EXCEPT !.answers = Tail(@)]
           e == ById(t, m.peer)
           c == "answers"
           a == <<c, i>>
<1>1. /\ proc[i].answers # <<>> /\ UNCHANGED host
      /\ proc' = [proc EXCEPT ![i].answers = Tail(@)]
      /\ \/ UNCHANGED <<state, socks>>
         \/ KnownId(t, m.peer) /\ e.sock > 0 /\ Send(i, e.sock, m)
  BY DEF NetAnswers
<1>2. proc[i] \in Procs /\ proc[i].answers \in Seq(Messages)
  BY ProcFacts, ProcParts
<1>3. Tail(proc[i].answers) \in Seq(Messages) /\ m \in Messages
  BY <1>1, <1>2, HeadTailProperties
<1>4. proc' = [proc EXCEPT ![i] = p]
  BY <1>1 DEF PeerInv, TypeInv
<1>5. /\ p.asked = proc[i].asked /\ p.asks = proc[i].asks /\ p.todo = proc[i].todo
      /\ p.answers = Tail(proc[i].answers) /\ p.got = proc[i].got
  BY <1>2, <1>3, WithQueue
<1>6. proc'[i] = p /\ \A j \in Processes : j # i => proc'[j] = proc[j]
  <2> HIDE DEF p
  <2> QED
    BY <1>4, PutAt DEF PeerInv, TypeInv
<1>7. c \in Kinds /\ Queue(proc[i], c) = proc[i].answers /\ Queue(proc'[i], c) = Tail(Queue(proc[i], c))
      /\ \A k \in Kinds : k # c => Queue(proc'[i], k) = Queue(proc[i], k)
  <2> HIDE DEF p, m, e
  <2> QED
    BY <1>5, <1>6 DEF Kinds, Queue
<1>8. Fits(c, i, m, proc, socks, host)
  <2>1. a \in Places /\ LinesOf(proc, socks)[a] = proc[i].answers
    BY <1>7, LinesThen
  <2>2. Fits(a[1], a[2], Head(LinesOf(proc, socks)[a]), proc, socks, host)
    BY <1>1, <2>1, HeadFits
  <2>3. a[1] = c /\ a[2] = i /\ Head(LinesOf(proc, socks)[a]) = m
    BY <2>1
  <2> HIDE DEF a, m, c
  <2> QED
    BY <2>2, <2>3
<1> HIDE DEF p, a
<1>9. /\ \A j \in Processes : j # i => proc'[j] = proc[j]
      /\ proc'[i].asked = proc[i].asked /\ UNCHANGED host /\ c \in Kinds
      /\ Queue(proc'[i], c) = Tail(Queue(proc[i], c)) /\ Queue(proc[i], c) # <<>>
      /\ \A k \in Kinds : k # c => Queue(proc'[i], k) = Queue(proc[i], k)
  BY <1>1, <1>5, <1>6, <1>7
<1>10. CASE UNCHANGED <<state, socks>>
  <2>1. UNCHANGED <<host, socks>>
    BY <1>1, <1>10
  <2> HIDE DEF c
  <2> QED
    BY <1>9, <2>1, DropLines
<1>11. CASE KnownId(t, m.peer) /\ e.sock > 0 /\ Send(i, e.sock, m)
  <2> DEFINE s == e.sock
             k == SlotOf(t, m.peer)
  <2>1. /\ s \in 1 .. Len(socks) /\ k \in Used(t) /\ e = t.slots[k] /\ e.host = host[m.peer]
    BY <1>11, ByIdIs
  <2>2. host[socks[Mate(s)].of] = host[m.peer]
    <3>1. Plugged(t, accepts[i], i, socks, host) /\ Len(socks) \in Nat
      BY ProcFacts, PeerFacts
    <3>2. s # -1
      BY <2>1, <3>1
    <3> HIDE DEF t, k, m
    <3>3. host[socks[Mate(t.slots[k].sock)].of] = t.slots[k].host
      BY <2>1, <3>1, <3>2 DEF Plugged
    <3> HIDE DEF e
    <3> QED
      BY <2>1, <3>3
  <2> HIDE DEF m, e, s, t, k
  <2>3. Fits("in", Mate(s), m, proc, socks, host)
    BY <1>3, <1>8, <2>2 DEF Fits, c
  <2>4. Send(i, s, m) /\ m = Head(Queue(proc[i], c))
    BY <1>7, <1>11 DEF s, m
  <2> HIDE DEF c
  <2> QED
    BY <1>3, <1>9, <2>1, <2>3, <2>4, SentLines
<1> QED
  BY <1>1, <1>10, <1>11

LEMMA NetAsksLines ==
  ASSUME PeerInv, PeerInv', LinesInv, NEW i \in Processes, NetAsks(i)
  PROVE  LinesInv'
<1> DEFINE t == proc[i].peers
           m == Head(proc[i].asks)
           p == [proc[i] EXCEPT !.asks = Tail(@)]
           e == ById(t, m.peer)
           n == Len(socks)
           u == WithSocket(t, SlotOf(t, m.peer), n + 1)
           v == [p EXCEPT !.peers = u]
           c == "asks"
           a == <<c, i>>
<1>1. i \in Started /\ proc[i].asks # <<>> /\ UNCHANGED host
  BY DEF NetAsks, Up
<1>2. /\ p \in Procs /\ p.peers = t /\ p.asked = proc[i].asked /\ p.todo = proc[i].todo
      /\ p.answers = proc[i].answers /\ p.got = proc[i].got
      /\ p.asks = Tail(proc[i].asks) /\ m \in Messages /\ m \in Tokens
  BY <1>1, AsksIs, TokenIs
<1>3. \/ UNCHANGED <<state, accepts, socks>> /\ proc' = [proc EXCEPT ![i].asks = Tail(@)]
      \/ /\ KnownId(t, m.peer) /\ Connected(e) /\ Send(i, e.sock, m) /\ UNCHANGED accepts
         /\ proc' = [proc EXCEPT ![i].asks = Tail(@)]
      \/ /\ KnownId(t, m.peer) /\ ~Connected(e)
         /\ \E j \in ProcessesAt(e.host) :
           /\ socks' = socks \o <<Socket(i, <<>>), Socket(j, <<m>>)>>
           /\ proc' = [[proc EXCEPT ![i].asks = Tail(@)] EXCEPT ![i].peers = WithSocket(@, SlotOf(t, m.peer), n + 1)]
  BY DEF NetAsks
<1>4. [proc EXCEPT ![i].asks = Tail(@)] = [proc EXCEPT ![i] = p]
  BY DEF PeerInv, TypeInv
<1>5. c \in Kinds /\ Queue(proc[i], c) = proc[i].asks
  BY DEF Kinds, Queue
<1>6. Fits(c, i, m, proc, socks, host)
  <2>1. a \in Places /\ LinesOf(proc, socks)[a] = proc[i].asks
    BY <1>5, LinesThen
  <2>2. Fits(a[1], a[2], Head(LinesOf(proc, socks)[a]), proc, socks, host)
    BY <1>1, <2>1, HeadFits
  <2>3. a[1] = c /\ a[2] = i /\ Head(LinesOf(proc, socks)[a]) = m
    BY <2>1
  <2> HIDE DEF a, m, c
  <2> QED
    BY <2>2, <2>3
<1>7. m.type = "ask" /\ OfHost(m, host[i], proc, host)
  <2> HIDE DEF m
  <2> QED
    BY <1>6 DEF Fits
<1> HIDE DEF a
<1>8. ASSUME NEW q, q.asked = p.asked, q.asks = p.asks, q.todo = p.todo, q.answers = p.answers, q.got = p.got,
             proc' = [proc EXCEPT ![i] = q]
      PROVE  /\ \A j \in Processes : j # i => proc'[j] = proc[j]
             /\ proc'[i].asked = proc[i].asked /\ UNCHANGED host /\ c \in Kinds
             /\ Queue(proc'[i], c) = Tail(Queue(proc[i], c)) /\ Queue(proc[i], c) # <<>>
             /\ \A k \in Kinds : k # c => Queue(proc'[i], k) = Queue(proc[i], k)
  <2> HIDE DEF p, m, e, u, v, t
  <2>1. proc'[i] = q /\ \A j \in Processes : j # i => proc'[j] = proc[j]
    BY <1>8, PutAt DEF PeerInv, TypeInv
  <2>2. /\ q.asked = proc[i].asked /\ q.asks = Tail(proc[i].asks) /\ q.todo = proc[i].todo
        /\ q.answers = proc[i].answers /\ q.got = proc[i].got
    BY <1>2, <1>8
  <2>3. Queue(proc'[i], c) = Tail(Queue(proc[i], c)) /\ \A k \in Kinds : k # c => Queue(proc'[i], k) = Queue(proc[i], k)
    BY <2>1, <2>2 DEF Kinds, Queue
  <2> QED
    BY <1>1, <1>5, <2>1, <2>2, <2>3
<1>9. CASE UNCHANGED <<state, accepts, socks>> /\ proc' = [proc EXCEPT ![i].asks = Tail(@)]
  <2>1. UNCHANGED <<host, socks>> /\ proc' = [proc EXCEPT ![i] = p]
    BY <1>1, <1>4, <1>9
  <2> HIDE DEF c, p, m, e, t
  <2>2. /\ \A j \in Processes : j # i => proc'[j] = proc[j]
        /\ proc'[i].asked = proc[i].asked /\ UNCHANGED host /\ c \in Kinds
        /\ Queue(proc'[i], c) = Tail(Queue(proc[i], c)) /\ Queue(proc[i], c) # <<>>
        /\ \A k \in Kinds : k # c => Queue(proc'[i], k) = Queue(proc[i], k)
    BY <1>8, <2>1
  <2>3. UNCHANGED <<host, socks>>
    BY <2>1
  <2> QED
    BY <2>2, <2>3, DropLines
<1>10. CASE /\ KnownId(t, m.peer) /\ Connected(e) /\ Send(i, e.sock, m) /\ UNCHANGED accepts
            /\ proc' = [proc EXCEPT ![i].asks = Tail(@)]
  <2> DEFINE s == e.sock
  <2>1. s \in 1 .. Len(socks) /\ Own(socks, i, s)
    BY <1>10, ByIdIs DEF Connected
  <2>2. proc' = [proc EXCEPT ![i] = p]
    BY <1>4, <1>10
  <2> HIDE DEF c, p, m, e, t
  <2>3. /\ \A j \in Processes : j # i => proc'[j] = proc[j]
        /\ proc'[i].asked = proc[i].asked /\ UNCHANGED host /\ c \in Kinds
        /\ Queue(proc'[i], c) = Tail(Queue(proc[i], c)) /\ Queue(proc[i], c) # <<>>
        /\ \A k \in Kinds : k # c => Queue(proc'[i], k) = Queue(proc[i], k)
    BY <1>8, <2>2
  <2>4. Mate(Mate(s)) = s /\ socks[s].of = i
    <3>1. socks \in Seq(SocketSet) /\ Len(socks) % 2 = 0
      BY DEF PeerInv, SocksOK
    <3> HIDE DEF s
    <3> QED
      BY <2>1, <3>1, MateIs DEF Own
  <2>5. Fits("in", Mate(s), m, proc, socks, host)
    <3> HIDE DEF s
    <3> QED
      BY <1>2, <1>7, <2>4 DEF Fits
  <2>6. Send(i, s, m) /\ m = Head(Queue(proc[i], c))
    BY <1>5, <1>10 DEF m
  <2> HIDE DEF s
  <2> QED
    BY <1>2, <2>1, <2>3, <2>5, <2>6, SentLines
<1>11. ASSUME KnownId(t, m.peer), NEW j \in ProcessesAt(e.host),
              socks' = socks \o <<Socket(i, <<>>), Socket(j, <<m>>)>>,
              proc' = [[proc EXCEPT ![i].asks = Tail(@)] EXCEPT ![i].peers = WithSocket(@, SlotOf(t, m.peer), n + 1)]
       PROVE  LinesInv'
  <2> DEFINE k == SlotOf(t, m.peer)
             R == socks'
             s == n + 2
  <2>1. j \in Processes
    BY PeerFacts DEF ProcessesAt
  <2>2. proc' = [proc EXCEPT ![i] = v]
    <3>1. DOMAIN proc = Processes /\ proc = [l \in Processes |-> proc[l]]
      BY DEF PeerInv, TypeInv
    <3> HIDE DEF p, k, n
    <3>2. proc' = [[proc EXCEPT ![i] = p] EXCEPT ![i].peers = WithSocket(@, k, n + 1)]
      BY <1>4, <1>11 DEF k, n
    <3>3. [proc EXCEPT ![i] = p][i] = p
      BY <3>1
    <3> HIDE DEF t
    <3> QED
      BY <1>2, <3>1, <3>2, <3>3 DEF k
  <2> HIDE DEF p, c
  <2>3. v.asked = p.asked /\ v.asks = p.asks /\ v.todo = p.todo /\ v.answers = p.answers /\ v.got = p.got
    BY <1>2 DEF Procs
  <2> HIDE DEF v, u
  <2>4. /\ \A l \in Processes : l # i => proc'[l] = proc[l]
        /\ proc'[i].asked = proc[i].asked /\ UNCHANGED host /\ c \in Kinds
        /\ Queue(proc'[i], c) = Tail(Queue(proc[i], c)) /\ Queue(proc[i], c) # <<>>
        /\ \A l \in Kinds : l # c => Queue(proc'[i], l) = Queue(proc[i], l)
    BY <1>8, <2>2, <2>3
  <2>5. socks \in Seq(SocketSet) /\ n % 2 = 0 /\ n \in Nat
    BY PeerFacts DEF PeerInv, SocksOK
  <2>6. Connects(socks, R, i, j, m)
    BY <1>2, <1>11, <2>1, <2>5, ConnectsIs
  <2>7. s \in Sockets
    BY <2>5 DEF Sockets
  <2> HIDE DEF R, m, k, t, e
  <2>8. /\ \A l : l # s => In(R, l) = In(socks, l)
        /\ In(socks, s) = <<>> /\ In(R, s) = Append(<<>>, m)
    BY <2>5, <2>6, ConnectsIn
  <2>9. R[Mate(s)].of = i /\ SocksGrow(socks, R)
    BY <2>6 DEF Connects
  <2>10. Fits("in", s, m, proc, R, host)
    BY <1>2, <1>7, <2>9 DEF Fits
  <2>11. m = Head(Queue(proc[i], c))
    BY <1>5 DEF m
  <2> HIDE DEF s
  <2>12. /\ \/ In(socks', s) = In(socks, s)
            \/ /\ In(socks', s) = Append(In(socks, s), m)
               /\ m = Head(Queue(proc[i], c)) /\ m \in Messages
         /\ \A l : l # s => Less(In(socks, l), In(socks', l))
         /\ Fits("in", s, m, proc, socks', host) /\ SocksGrow(socks, socks')
    BY <1>2, <2>8, <2>9, <2>10, <2>11 DEF R, Less
  <2> QED
    BY <2>4, <2>7, <2>12, SendLines
<1>12. CASE /\ KnownId(t, m.peer) /\ ~Connected(e)
            /\ \E j \in ProcessesAt(e.host) :
              /\ socks' = socks \o <<Socket(i, <<>>), Socket(j, <<m>>)>>
              /\ proc' = [[proc EXCEPT ![i].asks = Tail(@)] EXCEPT ![i].peers = WithSocket(@, SlotOf(t, m.peer), n + 1)]
  BY <1>11, <1>12
<1> QED
  BY <1>3, <1>9, <1>10, <1>12

LEMMA LinesInit ==
  ASSUME PeerInit
  PROVE  LinesInv
<1>1. proc = [i \in Processes |-> Process] /\ socks = <<>>
  BY DEF PeerInit
<1>2. /\ Process.asks = <<>> /\ Process.todo = <<>> /\ Process.answers = <<>> /\ Process.got = <<>>
  BY DEF Process
<1>3. Full(proc) /\ socks \in Seq(SocketSet)
  <2>1. PeerInv
    BY PeerInitInv
  <2> QED
    BY <2>1, PeerFacts, ProcFacts DEF Full
<1> DEFINE F == LinesOf(proc, socks)
<1>4. ASSUME NEW p \in Places PROVE F[p] = <<>>
  <2>1. CASE p \in Kinds \X Processes
    <3>1. PICK k \in Kinds, i \in Processes : p = <<k, i>>
      BY <2>1
    <3>2. F[p] = Queue(proc[i], k)
      BY <1>3, <3>1, LinesAre
    <3>3. proc[i] = Process
      BY <1>1
    <3> QED
      BY <1>2, <3>2, <3>3 DEF Queue
  <2>2. CASE p \in {"in"} \X Sockets
    <3>1. PICK s \in Sockets : p = <<"in", s>>
      BY <2>2
    <3>2. F[p] = In(socks, s)
      BY <1>3, <3>1, LinesAre
    <3>3. s \notin 1 .. Len(socks)
      BY <1>1
    <3> QED
      BY <3>2, <3>3 DEF In
  <2> QED
    BY <2>1, <2>2 DEF Places
<1>5. \A p \in Places : 1 .. Len(F[p]) = {}
  BY <1>4
<1> QED
  BY <1>5 DEF LinesInv, LinesOK, AllFit, Once

LEMMA PeerNextLines ==
  ASSUME PeerInv, LinesInv, [PeerNext]_peerVars
  PROVE  LinesInv'
<1>1. PeerInv'
  BY PeerNextKeeps
<1>2. CASE UNCHANGED peerVars
  <2>1. UNCHANGED <<proc, socks, host>>
    BY <1>2 DEF peerVars, trackerSide
  <2>2. HostsGrow(host, host')
    BY <2>1, PeerFacts
  <2> QED
    BY <1>1, <2>1, <2>2, TrackerLines
<1>3. CASE \E h \in Hosts : Starts(h)
  BY <1>1, <1>3, StartsLines
<1>4. ASSUME NEW i \in Processes, TrackerTells(i) \/ TrackerLoses(i) PROVE LinesInv'
  <2>1. UNCHANGED <<proc, socks>> /\ HostsGrow(host, host')
    BY <1>4, PeerFacts DEF TrackerTells, TrackerLoses
  <2> QED
    BY <1>1, <2>1, TrackerLines
<1>5. ASSUME NEW i \in Processes,
             \/ NetAccepts(i) \/ NetTable(i) \/ NetReads(i) \/ NetAsks(i) \/ NetAnswers(i)
             \/ \E d \in Processes : LogicAsks(i, d)
             \/ LogicAnswers(i) \/ Ends(i)
      PROVE  LinesInv'
  BY <1>1, <1>5, NetAcceptsLines, NetTableLines, NetReadsLines, NetAsksLines, NetAnswersLines,
     LogicAsksLines, LogicAnswersLines, EndsLines
<1> QED
  BY <1>2, <1>3, <1>4, <1>5 DEF PeerNext

(* The answers that have come. *)
LEMMA LinesSay ==
  ASSUME PeerInv, LinesInv
  PROVE  AnswersAreOwn
<1>1. SUFFICES ASSUME NEW i \in Started
               PROVE  LET got == proc[i].got IN
                      /\ \A n \in DOMAIN got : host[got[n].origin] = host[i]
                                               /\ got[n].job \in DOMAIN proc[got[n].origin].asked
                      /\ \A n, l \in DOMAIN got :
                           got[n].job = got[l].job /\ got[n].origin = got[l].origin => n = l
  BY DEF AnswersAreOwn
<1> DEFINE got == proc[i].got
           p == <<"got", i>>
           F == LinesOf(proc, socks)
<1>2. i \in Processes
  BY PeerFacts
<1>3. got \in Seq(Messages) /\ DOMAIN got = 1 .. Len(got)
  <2>1. got \in Seq(Messages)
    BY <1>2, ProcFacts, ProcParts
  <2> HIDE DEF got
  <2> QED
    BY <2>1, LenProperties
<1>4. p \in Places /\ F[p] = got /\ p[1] = "got" /\ p[2] = i
  <2>1. Full(proc) /\ socks \in Seq(SocketSet)
    BY PeerFacts, ProcFacts DEF Full
  <2>2. "got" \in Kinds
    BY DEF Kinds
  <2>3. p \in Places /\ F[p] = Queue(proc[i], "got")
    BY <1>2, <2>1, <2>2, LinesAre
  <2> QED
    BY <2>3 DEF Queue
<1>5. AllFit(proc, socks, host) /\ Once(F)
  BY DEF LinesInv, LinesOK
<1>6. \A n \in 1 .. Len(got) : Fits("got", i, got[n], proc, socks, host)
  <2>1. \A n \in 1 .. Len(F[p]) : Fits(p[1], p[2], F[p][n], proc, socks, host)
    BY <1>4, <1>5 DEF AllFit
  <2> HIDE DEF p, F, got
  <2> QED
    BY <1>4, <2>1
<1> HIDE DEF p, F, got
<1>7. ASSUME NEW n \in 1 .. Len(got)
      PROVE  /\ host[got[n].origin] = host[i]
             /\ got[n].job \in DOMAIN proc[got[n].origin].asked
  <2>1. OfHost(got[n], host[i], proc, host)
    BY <1>6 DEF Fits
  <2>2. got[n] \in Messages
    BY <1>3, ElementOfSeq
  <2>3. got[n].origin \in Processes
    BY <2>2, TokenIs
  <2>4. proc[got[n].origin].asked \in Seq(Processes)
    BY <2>3, ProcFacts, ProcParts
  <2>5. DOMAIN proc[got[n].origin].asked = 1 .. Len(proc[got[n].origin].asked)
    BY <2>4, LenProperties
  <2> QED
    BY <2>1, <2>5 DEF OfHost
<1>8. ASSUME NEW n \in 1 .. Len(got), NEW l \in 1 .. Len(got),
             got[n].job = got[l].job, got[n].origin = got[l].origin
      PROVE  n = l
  <2>1. got[n] \in Messages /\ got[l] \in Messages
    BY <1>3, ElementOfSeq
  <2>2. SameJob(F[p][n], F[p][l])
    BY <1>4, <1>8, <2>1 DEF SameJob
  <2> QED
    BY <1>4, <1>5, <2>2 DEF Once
<1> QED
  BY <1>3, <1>7, <1>8 DEF got

(* A request or its answer is in one place at a time, in a queue of a      *)
(* process or on a connection, and an answer that a client gets            *)
(* (receive_chunk) is to a request that was made by itself or by a client  *)
(* that ran before it on its host, and is not the second one to it:        *)
(* neither the tables and connections that replace each other nor the ends *)
(* of processes bring an answer to another host, or twice.                 *)
THEOREM AnswersReachAskers == PeerSpec => []AnswersAreOwn
<1>1. PeerInit => PeerInv /\ LinesInv
  BY PeerInitInv, LinesInit
<1>2. PeerInv /\ LinesInv /\ [PeerNext]_peerVars => (PeerInv /\ LinesInv)'
  BY PeerNextKeeps, PeerNextLines
<1>3. PeerInv /\ LinesInv => AnswersAreOwn
  BY LinesSay
<1> QED
  BY <1>1, <1>2, <1>3, PTL DEF PeerSpec
=============================================================================
