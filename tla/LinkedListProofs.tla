--------------------------- MODULE LinkedListProofs ---------------------------
(***************************************************************************)
(* Theorems about LinkedList: the nodes and the iterator implement the     *)
(* sequence with a place in it of CursorList, for every set of elements    *)
(* and every bound on the length.                                          *)
(***************************************************************************)
EXTENDS LinkedList, Induction, FiniteSetTheorems, SequenceTheorems, TLAPS

-----------------------------------------------------------------------------
(* A sequence without its p-th element, and with x before its p-th one. *)
Cut(s, p) == [k \in 1 .. (Len(s) - 1) |-> IF k < p THEN s[k] ELSE s[k + 1]]
Put(s, p, x) == [k \in 1 .. (Len(s) + 1) |-> IF k < p THEN s[k] ELSE IF k = p THEN x ELSE s[k - 1]]

(* What Cut makes of a sequence, and SubSeq, as one predicate. *)
IsCut(q, S, s, p) ==
  /\ q \in Seq(S) /\ Len(q) = Len(s) - 1
  /\ \A k \in 1 .. (Len(s) - 1) : q[k] = IF k < p THEN s[k] ELSE s[k + 1]
IsPart(q, S, s, m, n) ==
  /\ q \in Seq(S) /\ Len(q) = n - m + 1
  /\ \A k \in 1 .. (n - m + 1) : q[k] = s[m + k - 1]

LEMMA CutIs ==
  ASSUME NEW S, NEW s \in Seq(S), NEW p \in 1 .. Len(s)
  PROVE  IsCut(Cut(s, p), S, s, p)
<1> DEFINE n == Len(s) - 1
           E(k) == IF k < p THEN s[k] ELSE s[k + 1]
           q == Cut(s, p)
<1>1. n \in Nat /\ \A k \in 1 .. Len(s) : s[k] \in S
  BY ElementOfSeq
<1>2. \A k \in 1 .. n : E(k) \in S
  BY <1>1
<1>3. q = [k \in 1 .. n |-> E(k)]
  BY DEF Cut
<1> HIDE DEF E, q
<1>4. q \in [1 .. n -> S] /\ \A k \in 1 .. n : q[k] = E(k)
  BY <1>2, <1>3
<1>5. q \in Seq(S) /\ Len(q) = n
  BY <1>1, <1>4
<1>6. IsCut(q, S, s, p)
  BY <1>4, <1>5 DEF IsCut, E
<1> QED
  BY <1>6 DEF q

LEMMA CutType ==
  ASSUME NEW S, NEW s \in Seq(S), NEW p \in 1 .. Len(s)
  PROVE  /\ Cut(s, p) \in Seq(S) /\ Len(Cut(s, p)) = Len(s) - 1
         /\ \A k \in 1 .. (Len(s) - 1) : Cut(s, p)[k] = IF k < p THEN s[k] ELSE s[k + 1]
BY CutIs DEF IsCut

LEMMA PartIs ==
  ASSUME NEW S, NEW s \in Seq(S), NEW m \in 1 .. (Len(s) + 1), NEW n \in 0 .. Len(s), m <= n + 1
  PROVE  IsPart(SubSeq(s, m, n), S, s, m, n)
<1> DEFINE q == SubSeq(s, m, n)
<1>1. m \in Int /\ n \in Int /\ \A i \in m .. n : s[i] \in S
  <2>1. \A i \in m .. n : i \in 1 .. Len(s)
    OBVIOUS
  <2> QED
    BY <2>1, ElementOfSeq
<1>2. q \in Seq(S) /\ Len(q) = IF m <= n THEN n - m + 1 ELSE 0
  BY <1>1, SubSeqProperties
<1>3. \A k \in 1 .. (n - m + 1) : q[k] = s[m + k - 1]
  BY <1>1, SubSeqProperties
<1>4. Len(q) = n - m + 1
  BY <1>2
<1> HIDE DEF q
<1>5. IsPart(q, S, s, m, n)
  BY <1>2, <1>3, <1>4 DEF IsPart
<1> QED
  BY <1>5 DEF q

(* What Put makes of a sequence, as one predicate. *)
IsPut(q, S, s, p, x) ==
  /\ q \in Seq(S) /\ Len(q) = Len(s) + 1
  /\ \A k \in 1 .. (Len(s) + 1) :
       q[k] = IF k < p THEN s[k] ELSE IF k = p THEN x ELSE s[k - 1]

LEMMA PutIs ==
  ASSUME NEW S, NEW s \in Seq(S), NEW p \in 1 .. (Len(s) + 1), NEW x \in S
  PROVE  IsPut(Put(s, p, x), S, s, p, x)
<1> DEFINE n == Len(s) + 1
           E(k) == IF k < p THEN s[k] ELSE IF k = p THEN x ELSE s[k - 1]
           q == Put(s, p, x)
<1>1. n \in Nat /\ \A k \in 1 .. Len(s) : s[k] \in S
  BY ElementOfSeq
<1>2. \A k \in 1 .. n : E(k) \in S
  BY <1>1
<1>3. q = [k \in 1 .. n |-> E(k)]
  BY DEF Put
<1> HIDE DEF E, q
<1>4. q \in [1 .. n -> S] /\ \A k \in 1 .. n : q[k] = E(k)
  BY <1>2, <1>3
<1>5. q \in Seq(S) /\ Len(q) = n
  BY <1>1, <1>4
<1>6. IsPut(q, S, s, p, x)
  BY <1>4, <1>5 DEF IsPut, E
<1> QED
  BY <1>6 DEF q

LEMMA RemoveAtIs ==
  ASSUME NEW S, NEW s \in Seq(S), NEW p \in 1 .. Len(s)
  PROVE  Cursor!RemoveAt(s, p) = Cut(s, p)
<1> DEFINE a == SubSeq(s, 1, p - 1)
           b == SubSeq(s, p + 1, Len(s))
<1>1. /\ a \in Seq(S) /\ Len(a) = p - 1 /\ \A k \in 1 .. (p - 1) : a[k] = s[k]
      /\ b \in Seq(S) /\ Len(b) = Len(s) - p /\ \A k \in 1 .. (Len(s) - p) : b[k] = s[p + k]
  <2>1. IsPart(a, S, s, 1, p - 1)
    BY PartIs
  <2>2. IsPart(b, S, s, p + 1, Len(s))
    BY PartIs
  <2> HIDE DEF a, b
  <2>3. p \in Nat /\ Len(s) \in Nat
    OBVIOUS
  <2>4. a \in Seq(S) /\ Len(a) = p - 1 /\ \A k \in 1 .. (p - 1) : a[k] = s[k]
    BY <2>1, <2>3 DEF IsPart
  <2>5. b \in Seq(S) /\ Len(b) = Len(s) - p /\ \A k \in 1 .. (Len(s) - p) : b[k] = s[p + k]
    BY <2>2, <2>3 DEF IsPart
  <2> QED
    BY <2>4, <2>5
<1> HIDE DEF a, b
<1>2. /\ a \o b \in Seq(S) /\ Len(a \o b) = Len(s) - 1
      /\ \A k \in 1 .. (Len(s) - 1) : (a \o b)[k] = IF k <= p - 1 THEN a[k] ELSE b[k - (p - 1)]
  BY <1>1, ConcatProperties
<1> DEFINE c == Cut(s, p)
<1>3. /\ c \in Seq(S) /\ Len(c) = Len(s) - 1 /\ p \in Nat /\ Len(s) \in Nat
      /\ \A k \in 1 .. (Len(s) - 1) : c[k] = IF k < p THEN s[k] ELSE s[k + 1]
  BY CutType
<1> HIDE DEF c
<1>4. ASSUME NEW k \in 1 .. (Len(s) - 1) PROVE (a \o b)[k] = c[k]
  <2>1. CASE k < p
    <3>1. k \in 1 .. (p - 1) /\ k <= p - 1
      BY <1>3, <2>1
    <3> QED
      BY <1>1, <1>2, <1>3, <2>1, <3>1
  <2>2. CASE ~(k < p)
    <3>1. k - (p - 1) \in 1 .. (Len(s) - p) /\ ~(k <= p - 1) /\ p + (k - (p - 1)) = k + 1
      BY <1>3, <2>2
    <3> QED
      BY <1>1, <1>2, <1>3, <2>2, <3>1
  <2> QED
    BY <2>1, <2>2
<1> DEFINE d == a \o b
<1>5. d \in Seq(S) /\ Len(d) = Len(c) /\ \A k \in 1 .. Len(d) : d[k] = c[k]
  BY <1>2, <1>3, <1>4
<1> HIDE DEF d
<1>6. d = c
  BY <1>3, <1>5, SeqEqual
<1> QED
  BY <1>6 DEF Cursor!RemoveAt, a, b, c, d

LEMMA InsertAtIs ==
  ASSUME NEW S, NEW s \in Seq(S), NEW p \in 1 .. (Len(s) + 1), NEW x \in S
  PROVE  Cursor!InsertAt(s, p, x) = Put(s, p, x)
<1> DEFINE a == SubSeq(s, 1, p - 1)
           b == SubSeq(s, p, Len(s))
           c == a \o <<x>>
<1>1. /\ a \in Seq(S) /\ Len(a) = p - 1 /\ \A k \in 1 .. (p - 1) : a[k] = s[k]
      /\ b \in Seq(S) /\ Len(b) = Len(s) + 1 - p /\ \A k \in 1 .. (Len(s) + 1 - p) : b[k] = s[p + k - 1]
  <2>1. IsPart(a, S, s, 1, p - 1)
    BY PartIs
  <2>2. IsPart(b, S, s, p, Len(s))
    BY PartIs
  <2> HIDE DEF a, b
  <2>3. p \in Nat /\ Len(s) \in Nat
    OBVIOUS
  <2>4. a \in Seq(S) /\ Len(a) = p - 1 /\ \A k \in 1 .. (p - 1) : a[k] = s[k]
    BY <2>1, <2>3 DEF IsPart
  <2>5. b \in Seq(S) /\ Len(b) = Len(s) + 1 - p /\ \A k \in 1 .. (Len(s) + 1 - p) : b[k] = s[p + k - 1]
    BY <2>2, <2>3 DEF IsPart
  <2> QED
    BY <2>4, <2>5
<1> HIDE DEF a, b
<1>2. c \in Seq(S) /\ Len(c) = p /\ \A k \in 1 .. p : c[k] = IF k = p THEN x ELSE a[k]
  BY <1>1
<1> HIDE DEF c
<1> DEFINE d == c \o b
           e == Put(s, p, x)
<1>3. /\ d \in Seq(S) /\ Len(d) = Len(c) + Len(b)
      /\ \A k \in 1 .. (Len(c) + Len(b)) : d[k] = IF k <= Len(c) THEN c[k] ELSE b[k - Len(c)]
  BY <1>1, <1>2, ConcatProperties
<1>4. /\ e \in Seq(S) /\ Len(e) = Len(s) + 1 /\ p \in Nat /\ Len(s) \in Nat
      /\ \A k \in 1 .. (Len(s) + 1) :
           e[k] = IF k < p THEN s[k] ELSE IF k = p THEN x ELSE s[k - 1]
  <2>1. IsPut(e, S, s, p, x)
    BY PutIs
  <2> HIDE DEF e
  <2> QED
    BY <2>1 DEF IsPut
<1> HIDE DEF d, e
<1>5. Len(d) = Len(s) + 1 /\ \A k \in 1 .. (Len(s) + 1) : d[k] = IF k <= p THEN c[k] ELSE b[k - p]
  BY <1>1, <1>2, <1>3, <1>4
<1>6. ASSUME NEW k \in 1 .. (Len(s) + 1) PROVE d[k] = e[k]
  <2>1. CASE k <= p
    <3>1. k \in 1 .. p /\ (k # p => k \in 1 .. (p - 1) /\ k < p)
      BY <1>4, <2>1
    <3>2. k = p => d[k] = x /\ e[k] = x
      BY <1>2, <1>4, <1>5, <2>1, <3>1
    <3>3. k # p => d[k] = s[k] /\ e[k] = s[k]
      BY <1>1, <1>2, <1>4, <1>5, <2>1, <3>1
    <3> QED
      BY <3>2, <3>3
  <2>2. CASE ~(k <= p)
    <3>1. k - p \in 1 .. (Len(s) + 1 - p) /\ ~(k < p) /\ k # p /\ p + (k - p) - 1 = k - 1
      BY <1>4, <2>2
    <3> QED
      BY <1>1, <1>4, <1>5, <2>2, <3>1
  <2> QED
    BY <2>1, <2>2
<1>7. d = e
  BY <1>3, <1>4, <1>5, <1>6, SeqEqual
<1> QED
  BY <1>7 DEF Cursor!InsertAt, a, b, c, d, e

LEMMA AppendIs ==
  ASSUME NEW S, NEW s \in Seq(S), NEW x \in S
  PROVE  Append(s, x) = Put(s, Len(s) + 1, x)
<1> DEFINE d == Append(s, x)
           e == Put(s, Len(s) + 1, x)
<1>1. /\ e \in Seq(S) /\ Len(e) = Len(s) + 1 /\ Len(s) \in Nat
      /\ \A k \in 1 .. (Len(s) + 1) :
           e[k] = IF k < Len(s) + 1 THEN s[k] ELSE IF k = Len(s) + 1 THEN x ELSE s[k - 1]
  <2>1. Len(s) + 1 \in 1 .. (Len(s) + 1) /\ Len(s) \in Nat
    OBVIOUS
  <2>2. IsPut(e, S, s, Len(s) + 1, x)
    BY <2>1, PutIs
  <2> HIDE DEF e
  <2> QED
    BY <2>1, <2>2 DEF IsPut
<1>2. /\ d \in Seq(S) /\ Len(d) = Len(s) + 1 /\ d[Len(s) + 1] = x
      /\ \A k \in 1 .. Len(s) : d[k] = s[k]
  BY AppendProperties
<1> HIDE DEF d, e
<1>3. ASSUME NEW k \in 1 .. (Len(s) + 1) PROVE d[k] = e[k]
  <2>1. k = Len(s) + 1 \/ (k \in 1 .. Len(s) /\ k < Len(s) + 1)
    BY <1>1
  <2> QED
    BY <1>1, <1>2, <2>1
<1>4. d = e
  BY <1>1, <1>2, <1>3, SeqEqual
<1> QED
  BY <1>4 DEF d, e

(* The first place an element has in a sequence. *)
FirstAt(s, x, p) == p \in 1 .. Len(s) /\ s[p] = x /\ \A k \in 1 .. Len(s) : s[k] = x => p <= k

LEMMA RemoveFirstIs ==
  ASSUME NEW S, NEW s \in Seq(S), NEW x
  PROVE  /\ ~Cursor!Contains(s, x) => Cursor!RemoveFirst(s, x) = s
         /\ \A p : FirstAt(s, x, p) => Cursor!RemoveFirst(s, x) = Cut(s, p)
<1>1. ~Cursor!Contains(s, x) => Cursor!RemoveFirst(s, x) = s
  BY DEF Cursor!Contains, Cursor!RemoveFirst
<1>2. ASSUME NEW p, FirstAt(s, x, p)
      PROVE  Cursor!RemoveFirst(s, x) = Cut(s, p)
  <2> DEFINE I == {i \in 1 .. Len(s) : s[i] = x}
  <2>1. p \in I /\ \A k \in I : p <= k
    BY <1>2 DEF FirstAt
  <2>2. Cursor!Min(I) = p
    <3>1. I \subseteq Int
      OBVIOUS
    <3> HIDE DEF I
    <3>2. \A q \in I : (\A k \in I : q <= k) => q = p
      BY <2>1, <3>1
    <3> QED
      BY <2>1, <3>2 DEF Cursor!Min
  <2>3. Cursor!SelectInSeq(s, LAMBDA v : v = x) = p
    BY <2>1, <2>2 DEF Cursor!SelectInSeq
  <2>4. Cursor!RemoveFirst(s, x) = Cursor!RemoveAt(s, p)
    BY <2>1, <2>3 DEF Cursor!RemoveFirst
  <2> QED
    BY <1>2, <2>4, RemoveAtIs DEF FirstAt
<1> QED
  BY <1>1, <1>2

-----------------------------------------------------------------------------
(* A chain: the nodes w, in their order, with the elements s. *)
Link(w, k, x) ==
  Node(IF k = Len(w) THEN Nil ELSE w[k + 1], IF k = 1 THEN Nil ELSE w[k - 1], x)

Chained(nd, rt, lst, w, s) ==
  /\ w \in Seq(1 .. MaxNodes) /\ s \in Seq(Values) /\ Len(s) = Len(w)
  /\ \A j, k \in 1 .. Len(w) : w[j] = w[k] => j = k
  /\ DOMAIN nd = {w[k] : k \in 1 .. Len(w)}
  /\ \A k \in 1 .. Len(w) : nd[w[k]] = Link(w, k, s[k])
  /\ rt = IF Len(w) = 0 THEN Nil ELSE w[1]
  /\ lst = IF Len(w) = 0 THEN Nil ELSE w[Len(w)]

(* Way and Walk, of any nodes. *)
WayOf(nd, rt, n) ==
  LET To[k \in 1 .. n] == IF k = 1 THEN rt ELSE nd[To[k - 1]].forward
  IN  [k \in 1 .. n |-> To[k]]
WalkOf(nd, rt, n) == [k \in 1 .. n |-> nd[WayOf(nd, rt, n)[k]].element]

LEMMA ChainNodes ==
  ASSUME NEW nd, NEW rt, NEW lst, NEW w, NEW s, Chained(nd, rt, lst, w, s)
  PROVE  /\ Len(w) \in Nat
         /\ \A k \in 1 .. Len(w) :
              /\ w[k] \in 1 .. MaxNodes /\ w[k] # Nil /\ w[k] \in DOMAIN nd /\ s[k] \in Values
              /\ nd[w[k]].forward = IF k = Len(w) THEN Nil ELSE w[k + 1]
              /\ nd[w[k]].back = IF k = 1 THEN Nil ELSE w[k - 1]
              /\ nd[w[k]].element = s[k]
<1>1. Len(w) \in Nat /\ \A k \in 1 .. Len(w) : w[k] \in 1 .. MaxNodes /\ s[k] \in Values
  <2>1. w \in Seq(1 .. MaxNodes) /\ s \in Seq(Values) /\ Len(s) = Len(w)
    BY DEF Chained
  <2>2. \A k \in 1 .. Len(w) : w[k] \in 1 .. MaxNodes
    BY <2>1, ElementOfSeq
  <2>3. \A k \in 1 .. Len(s) : s[k] \in Values
    BY <2>1, ElementOfSeq
  <2> QED
    BY <2>1, <2>2, <2>3
<1>2. \A k \in 1 .. Len(w) : w[k] \in DOMAIN nd
  BY DEF Chained
<1>3. \A k \in 1 .. Len(w) :
        /\ nd[w[k]].forward = IF k = Len(w) THEN Nil ELSE w[k + 1]
        /\ nd[w[k]].back = IF k = 1 THEN Nil ELSE w[k - 1]
        /\ nd[w[k]].element = s[k]
  <2> TAKE k \in 1 .. Len(w)
  <2>1. nd[w[k]] = Link(w, k, s[k])
    BY DEF Chained
  <2> QED
    BY <2>1 DEF Link, Node
<1> QED
  BY <1>1, <1>2, <1>3, LinkedListAssumption

(* What satisfies the equation of the way from root is the chain. *)
LEMMA FollowsIs ==
  ASSUME NEW nd, NEW rt, NEW lst, NEW w, NEW s, Chained(nd, rt, lst, w, s),
         NEW f, f = [k \in 1 .. Len(w) |-> IF k = 1 THEN rt ELSE nd[f[k - 1]].forward]
  PROVE  \A k \in 1 .. Len(w) : f[k] = w[k]
<1> DEFINE T == {k \in 1 .. Len(w) : f[k] # w[k]}
<1>1. SUFFICES ASSUME T # {} PROVE FALSE
  OBVIOUS
<1>2. PICK k \in T : \A j \in T : k <= j
  <2>1. T \subseteq Nat
    OBVIOUS
  <2> QED
    BY <1>1, <2>1, LeastOf
<1>3. Len(w) \in Nat /\ k \in 1 .. Len(w) /\ f[k] # w[k]
  BY ChainNodes
<1>4. f[k] = IF k = 1 THEN rt ELSE nd[f[k - 1]].forward
  BY <1>3
<1>5. CASE k = 1
  BY <1>3, <1>4, <1>5 DEF Chained
<1>6. CASE k # 1
  <2>1. k - 1 \in 1 .. Len(w) /\ ~(k <= k - 1) /\ k - 1 # Len(w) /\ (k - 1) + 1 = k
    BY <1>3, <1>6
  <2>2. f[k - 1] = w[k - 1]
    BY <1>2, <2>1
  <2>3. nd[w[k - 1]].forward = w[k]
    BY <2>1, ChainNodes
  <2> QED
    BY <1>3, <1>4, <1>6, <2>2, <2>3
<1> QED
  BY <1>5, <1>6

LEMMA WayOfIs ==
  ASSUME NEW nd, NEW rt, NEW lst, NEW w, NEW s, Chained(nd, rt, lst, w, s)
  PROVE  WayOf(nd, rt, Len(w)) = w /\ WalkOf(nd, rt, Len(w)) = s
<1> DEFINE n == Len(w)
           F(f) == f = [k \in 1 .. n |-> IF k = 1 THEN rt ELSE nd[f[k - 1]].forward]
           To == CHOOSE f : F(f)
<1>1. /\ w = [k \in 1 .. n |-> w[k]] /\ s = [k \in 1 .. n |-> s[k]]
      /\ n \in Nat
  BY LenProperties DEF Chained
<1>2. \A k \in 1 .. n : w[k] = IF k = 1 THEN rt ELSE nd[w[k - 1]].forward
  <2> TAKE k \in 1 .. n
  <2>1. CASE k = 1
    BY <1>1, <2>1 DEF Chained
  <2>2. CASE k # 1
    <3>1. k - 1 \in 1 .. n /\ k - 1 # n /\ (k - 1) + 1 = k
      BY <1>1, <2>2
    <3> QED
      BY <2>2, <3>1, ChainNodes
  <2> QED
    BY <2>1, <2>2
<1>3. F(w)
  BY <1>1, <1>2
<1>4. F(To)
  <2> HIDE DEF F
  <2> QED
    BY <1>3
<1>5. WayOf(nd, rt, n) = [k \in 1 .. n |-> To[k]]
  BY DEF WayOf
<1> HIDE DEF To
<1>6. \A k \in 1 .. n : To[k] = w[k]
  BY <1>4, FollowsIs
<1>7. WayOf(nd, rt, n) = w
  BY <1>1, <1>5, <1>6
<1>8. WalkOf(nd, rt, n) = [k \in 1 .. n |-> nd[w[k]].element]
  BY <1>7 DEF WalkOf
<1> QED
  BY <1>1, <1>7, <1>8, ChainNodes

-----------------------------------------------------------------------------
(* Taking a node out of a chain. *)

(* The element of w that is left at place k, and where it was. *)
Was(k, p) == IF k < p THEN k ELSE k + 1

(* WithoutNode, of any nodes. *)
Unlinked(nd, n) ==
  LET f == nd[n].forward  b == nd[n].back
  IN  [k \in DOMAIN nd \ {n} |->
         [nd[k] EXCEPT !.forward = IF k = b THEN f ELSE @,
                       !.back = IF k = f THEN b ELSE @]]

Relinked(m, f, b) == [m EXCEPT !.forward = f, !.back = b]

LEMMA RelinkNode ==
  ASSUME NEW f, NEW b, NEW x, NEW u, NEW v, NEW m, m = Node(f, b, x)
  PROVE  Relinked(m, u, v) = Node(u, v, x) /\ m.forward = f /\ m.back = b
<1>1. Relinked(m, u, v) = [[m EXCEPT !.forward = u] EXCEPT !.back = v]
  BY DEF Relinked
<1>2. [m EXCEPT !.forward = u] = Node(u, b, x)
  BY DEF Node
<1>3. [Node(u, b, x) EXCEPT !.back = v] = Node(u, v, x)
  BY DEF Node
<1>4. m.forward = f /\ m.back = b
  BY DEF Node
<1> QED
  BY <1>1, <1>2, <1>3, <1>4

LEMMA UnlinkedNode ==
  ASSUME NEW nd, NEW rt, NEW lst, NEW w, NEW s, Chained(nd, rt, lst, w, s),
         NEW p \in 1 .. Len(w), NEW k \in 1 .. (Len(w) - 1)
  PROVE  /\ w[Was(k, p)] \in DOMAIN nd \ {w[p]}
         /\ Unlinked(nd, w[p])[w[Was(k, p)]] = Link(Cut(w, p), k, Cut(s, p)[k])
<1> DEFINE n == Len(w)
           j == Was(k, p)
           f == IF p = n THEN Nil ELSE w[p + 1]
           b == IF p = 1 THEN Nil ELSE w[p - 1]
           fj == IF j = n THEN Nil ELSE w[j + 1]
           bj == IF j = 1 THEN Nil ELSE w[j - 1]
           c == Cut(w, p)
<1>1. n \in Nat /\ p \in 1 .. n /\ k \in 1 .. (n - 1) /\ j \in 1 .. n /\ j # p
      /\ j = IF k < p THEN k ELSE k + 1
  BY ChainNodes DEF Was
<1>2. w \in Seq(1 .. MaxNodes) /\ s \in Seq(Values) /\ Len(s) = n
      /\ \A i, l \in 1 .. n : w[i] = w[l] => i = l
  BY DEF Chained
<1>3. nd[w[p]].forward = f /\ nd[w[p]].back = b
  BY ChainNodes
<1>4. nd[w[j]] = Node(fj, bj, s[j])
  <2>1. nd[w[j]] = Link(w, j, s[j])
    BY <1>1 DEF Chained
  <2> QED
    BY <2>1 DEF Link
<1>5. w[j] \in DOMAIN nd \ {w[p]}
  BY <1>1, <1>2, ChainNodes
<1>6. Unlinked(nd, w[p])[w[j]] = Node(IF w[j] = b THEN f ELSE fj, IF w[j] = f THEN b ELSE bj, s[j])
  <2> DEFINE y == IF w[j] = b THEN f ELSE nd[w[j]].forward
             z == IF w[j] = f THEN b ELSE nd[w[j]].back
             m == nd[w[j]]
             sj == s[j]
  <2> HIDE DEF j, f, b, fj, bj
  <2>1. Unlinked(nd, w[p])[w[j]] = Relinked(m, y, z)
    BY <1>3, <1>5 DEF Unlinked, Relinked
  <2>2. m = Node(fj, bj, sj)
    BY <1>4
  <2> HIDE DEF y, z, m, sj
  <2>3. m.forward = fj /\ m.back = bj /\ Relinked(m, y, z) = Node(y, z, sj)
    BY <2>2, RelinkNode
  <2>4. Unlinked(nd, w[p])[w[j]] = Node(y, z, sj)
    BY <2>1, <2>3 DEF m
  <2> QED
    BY <2>3, <2>4 DEF y, z, m, sj
<1>7. /\ Len(c) = n - 1 /\ \A i \in 1 .. (n - 1) : c[i] = IF i < p THEN w[i] ELSE w[i + 1]
      /\ Cut(s, p)[k] = s[j]
  <2>1. Len(c) = n - 1 /\ \A i \in 1 .. (n - 1) : c[i] = IF i < p THEN w[i] ELSE w[i + 1]
    BY <1>2, CutType
  <2>2. p \in 1 .. Len(s) /\ k \in 1 .. (Len(s) - 1)
    BY <1>2
  <2>3. Cut(s, p)[k] = IF k < p THEN s[k] ELSE s[k + 1]
    BY <1>2, <2>2, CutType
  <2> QED
    BY <1>1, <2>1, <2>3
<1> HIDE DEF c
<1>8. (IF w[j] = b THEN f ELSE fj) = IF k = n - 1 THEN Nil ELSE c[k + 1]
  <2>1. w[j] = b <=> j = p - 1 /\ p # 1
    BY <1>1, <1>2, ChainNodes
  <2>2. CASE j = p - 1
    <3>1. p # 1 /\ k = p - 1 /\ (p = n <=> k = n - 1)
      BY <1>1, <2>2
    <3>2. p # n => k + 1 \in 1 .. (n - 1) /\ ~(k + 1 < p) /\ (k + 1) + 1 = p + 1
      BY <1>1, <3>1
    <3> QED
      BY <1>7, <2>1, <2>2, <3>1, <3>2
  <2>3. CASE j # p - 1
    <3>1. j = n <=> k = n - 1
      BY <1>1, <2>3
    <3>2. j # n => k + 1 \in 1 .. (n - 1) /\ (IF k + 1 < p THEN k + 1 ELSE (k + 1) + 1) = j + 1
      BY <1>1, <2>3, <3>1
    <3>3. j # n => c[k + 1] = w[j + 1]
      BY <1>7, <3>2
    <3> QED
      BY <2>1, <2>3, <3>1, <3>3
  <2> QED
    BY <2>2, <2>3
<1>9. (IF w[j] = f THEN b ELSE bj) = IF k = 1 THEN Nil ELSE c[k - 1]
  <2>1. w[j] = f <=> j = p + 1
    BY <1>1, <1>2, ChainNodes
  <2>2. CASE j = p + 1
    <3>1. k = p /\ (p = 1 <=> k = 1)
      BY <1>1, <2>2
    <3>2. p # 1 => k - 1 \in 1 .. (n - 1) /\ k - 1 < p /\ k - 1 = p - 1
      BY <1>1, <3>1
    <3> QED
      BY <1>7, <2>1, <2>2, <3>1, <3>2
  <2>3. CASE j # p + 1
    <3>1. j = 1 <=> k = 1
      BY <1>1, <2>3
    <3>2. j # 1 => k - 1 \in 1 .. (n - 1) /\ (IF k - 1 < p THEN k - 1 ELSE (k - 1) + 1) = j - 1
      BY <1>1, <2>3, <3>1
    <3>3. j # 1 => c[k - 1] = w[j - 1]
      BY <1>7, <3>2
    <3> QED
      BY <2>1, <2>3, <3>1, <3>3
  <2> QED
    BY <2>2, <2>3
<1>10. Link(c, k, s[j]) = Node(IF k = n - 1 THEN Nil ELSE c[k + 1], IF k = 1 THEN Nil ELSE c[k - 1], s[j])
  BY <1>7 DEF Link
<1> QED
  BY <1>5, <1>6, <1>7, <1>8, <1>9, <1>10 DEF c

LEMMA UnlinkedIs ==
  ASSUME NEW nd, NEW rt, NEW lst, NEW w, NEW s, Chained(nd, rt, lst, w, s),
         NEW p \in 1 .. Len(w)
  PROVE  Chained(Unlinked(nd, w[p]),
                 IF nd[w[p]].back = Nil THEN nd[w[p]].forward ELSE rt,
                 IF nd[w[p]].forward = Nil THEN nd[w[p]].back ELSE lst,
                 Cut(w, p), Cut(s, p))
<1> DEFINE n == Len(w)
           c == Cut(w, p)
           e == Cut(s, p)
           u == Unlinked(nd, w[p])
<1>1. /\ w \in Seq(1 .. MaxNodes) /\ s \in Seq(Values) /\ Len(s) = n /\ n \in Nat /\ p \in 1 .. n
      /\ \A i, l \in 1 .. n : w[i] = w[l] => i = l
      /\ DOMAIN nd = {w[k] : k \in 1 .. n}
  BY DEF Chained
<1>2. /\ c \in Seq(1 .. MaxNodes) /\ Len(c) = n - 1
      /\ \A k \in 1 .. (n - 1) : c[k] = w[Was(k, p)] /\ Was(k, p) \in 1 .. n /\ Was(k, p) # p
  <2>1. /\ c \in Seq(1 .. MaxNodes) /\ Len(c) = n - 1
        /\ \A k \in 1 .. (n - 1) : c[k] = IF k < p THEN w[k] ELSE w[k + 1]
    BY <1>1, CutType
  <2>2. \A k \in 1 .. (n - 1) : Was(k, p) \in 1 .. n /\ Was(k, p) # p
    BY <1>1 DEF Was
  <2> QED
    BY <2>1, <2>2 DEF Was
<1>3. e \in Seq(Values) /\ Len(e) = n - 1
  <2>1. p \in 1 .. Len(s)
    BY <1>1
  <2> QED
    BY <1>1, <2>1, CutType
<1>4. \A i, k \in 1 .. (n - 1) : c[i] = c[k] => i = k
  <2> TAKE i, k \in 1 .. (n - 1)
  <2>1. Was(i, p) = Was(k, p) => i = k
    BY <1>1 DEF Was
  <2> QED
    BY <1>1, <1>2, <2>1
<1>5. DOMAIN u = {c[k] : k \in 1 .. (n - 1)}
  <2>1. DOMAIN u = DOMAIN nd \ {w[p]}
    BY DEF Unlinked
  <2>2. ASSUME NEW j \in 1 .. n, j # p PROVE \E k \in 1 .. (n - 1) : w[j] = c[k]
    <3> DEFINE k == IF j < p THEN j ELSE j - 1
    <3>1. k \in 1 .. (n - 1) /\ Was(k, p) = j
      BY <1>1, <2>2 DEF Was
    <3> QED
      BY <1>2, <3>1
  <2>3. \A d \in DOMAIN u : \E k \in 1 .. (n - 1) : d = c[k]
    BY <1>1, <2>1, <2>2
  <2>4. \A k \in 1 .. (n - 1) : c[k] \in DOMAIN u
    BY <1>1, <1>2, <2>1
  <2> HIDE DEF c, u
  <2> QED
    BY <2>3, <2>4
<1>6. \A k \in 1 .. (n - 1) : u[c[k]] = Link(c, k, e[k])
  <2> TAKE k \in 1 .. (n - 1)
  <2>1. Unlinked(nd, w[p])[w[Was(k, p)]] = Link(Cut(w, p), k, Cut(s, p)[k])
    BY UnlinkedNode
  <2>2. c[k] = w[Was(k, p)]
    BY <1>2
  <2> QED
    BY <2>1, <2>2
<1>7. nd[w[p]].forward = (IF p = n THEN Nil ELSE w[p + 1])
      /\ nd[w[p]].back = (IF p = 1 THEN Nil ELSE w[p - 1])
      /\ rt = w[1] /\ lst = w[n] /\ \A k \in 1 .. n : w[k] # Nil
  <2>1. n # 0
    BY <1>1
  <2>2. rt = w[1] /\ lst = w[n]
    BY <2>1 DEF Chained
  <2> QED
    BY <2>2, ChainNodes
<1>8. (IF nd[w[p]].back = Nil THEN nd[w[p]].forward ELSE rt) = IF n - 1 = 0 THEN Nil ELSE c[1]
  <2>1. nd[w[p]].back = Nil <=> p = 1
    <3>1. p # 1 => p - 1 \in 1 .. n
      BY <1>1
    <3> QED
      BY <1>7, <3>1
  <2>2. n - 1 # 0 => c[1] = IF 1 < p THEN w[1] ELSE w[2]
    <3>1. n - 1 # 0 => 1 \in 1 .. (n - 1) /\ Was(1, p) = IF 1 < p THEN 1 ELSE 2
      BY <1>1 DEF Was
    <3> QED
      BY <1>2, <3>1
  <2>3. (n - 1 = 0 <=> n = 1) /\ (1 < p <=> p # 1) /\ (n = 1 => p = 1) /\ 1 + 1 = 2
    BY <1>1
  <2> HIDE DEF c
  <2>4. CASE p = 1
    BY <1>7, <2>1, <2>2, <2>3, <2>4
  <2>5. CASE p # 1
    BY <1>7, <2>1, <2>2, <2>3, <2>5
  <2> QED
    BY <2>4, <2>5
<1>9. (IF nd[w[p]].forward = Nil THEN nd[w[p]].back ELSE lst) = IF n - 1 = 0 THEN Nil ELSE c[n - 1]
  <2>1. nd[w[p]].forward = Nil <=> p = n
    <3>1. p # n => p + 1 \in 1 .. n
      BY <1>1
    <3> QED
      BY <1>7, <3>1
  <2>2. n - 1 # 0 => c[n - 1] = IF n = p THEN w[n - 1] ELSE w[n]
    <3>1. n - 1 # 0 => n - 1 \in 1 .. (n - 1) /\ Was(n - 1, p) = IF n = p THEN n - 1 ELSE n
      BY <1>1 DEF Was
    <3> QED
      BY <1>2, <3>1
  <2>3. (n - 1 = 0 <=> n = 1) /\ (n = 1 => p = 1)
    BY <1>1
  <2> HIDE DEF c
  <2>4. CASE p = n
    BY <1>7, <2>1, <2>2, <2>3, <2>4
  <2>5. CASE p # n
    BY <1>7, <2>1, <2>2, <2>3, <2>5
  <2> QED
    BY <2>4, <2>5
<1> HIDE DEF c, e, u
<1>10. Chained(u, IF nd[w[p]].back = Nil THEN nd[w[p]].forward ELSE rt,
               IF nd[w[p]].forward = Nil THEN nd[w[p]].back ELSE lst, c, e)
  BY <1>2, <1>3, <1>4, <1>5, <1>6, <1>8, <1>9 DEF Chained
<1> QED
  BY <1>10 DEF c, e, u

-----------------------------------------------------------------------------
(* Putting a node into a chain. *)

(* What the three calls that add an element do: the new node m stands      *)
(* between b and f, and these are told.                                    *)
Joined(nd, m, f, b, x) ==
  [k \in DOMAIN nd \cup {m} |->
     IF k = m THEN Node(f, b, x)
     ELSE Relinked(nd[k], IF k = b THEN m ELSE nd[k].forward, IF k = f THEN m ELSE nd[k].back)]

(* The nodes around place p, where the new node comes. *)
AtPlace(w, p) == IF p = Len(w) + 1 THEN Nil ELSE w[p]
BeforePlace(w, p) == IF p = 1 THEN Nil ELSE w[p - 1]

LEMMA PutIntoChain ==
  ASSUME NEW nd, NEW rt, NEW lst, NEW w, NEW s, Chained(nd, rt, lst, w, s),
         NEW m \in (1 .. MaxNodes) \ DOMAIN nd, NEW x \in Values,
         NEW p \in 1 .. (Len(w) + 1)
  PROVE  /\ Put(w, p, m) \in Seq(1 .. MaxNodes) /\ Len(Put(w, p, m)) = Len(w) + 1
         /\ Put(s, p, x) \in Seq(Values) /\ Len(Put(s, p, x)) = Len(w) + 1
         /\ \A i \in 1 .. (Len(w) + 1) :
              Put(w, p, m)[i] = IF i < p THEN w[i] ELSE IF i = p THEN m ELSE w[i - 1]
         /\ \A i \in 1 .. (Len(w) + 1) :
              Put(s, p, x)[i] = IF i < p THEN s[i] ELSE IF i = p THEN x ELSE s[i - 1]
<1>1. /\ w \in Seq(1 .. MaxNodes) /\ s \in Seq(Values) /\ Len(s) = Len(w)
      /\ p \in 1 .. (Len(s) + 1) /\ m \in 1 .. MaxNodes
  BY DEF Chained
<1> DEFINE S == 1 .. MaxNodes
<1>2. m \in S /\ w \in Seq(S)
  BY <1>1
<1> HIDE DEF S
<1>3. IsPut(Put(w, p, m), S, w, p, m)
  BY <1>2, PutIs
<1>4. IsPut(Put(s, p, x), Values, s, p, x)
  BY <1>1, PutIs
<1>5. /\ Put(w, p, m) \in Seq(S) /\ Len(Put(w, p, m)) = Len(w) + 1
      /\ \A i \in 1 .. (Len(w) + 1) :
           Put(w, p, m)[i] = IF i < p THEN w[i] ELSE IF i = p THEN m ELSE w[i - 1]
  BY <1>3 DEF IsPut
<1>6. /\ Put(s, p, x) \in Seq(Values) /\ Len(Put(s, p, x)) = Len(s) + 1
      /\ \A i \in 1 .. (Len(s) + 1) :
           Put(s, p, x)[i] = IF i < p THEN s[i] ELSE IF i = p THEN x ELSE s[i - 1]
  BY <1>4 DEF IsPut
<1> QED
  BY <1>1, <1>5, <1>6 DEF S

LEMMA JoinedOld ==
  ASSUME NEW nd, NEW rt, NEW lst, NEW w, NEW s, Chained(nd, rt, lst, w, s),
         NEW m \in (1 .. MaxNodes) \ DOMAIN nd, NEW x \in Values,
         NEW p \in 1 .. (Len(w) + 1), NEW j \in 1 .. Len(w)
  PROVE  LET k == Was(j, p) IN
         /\ k \in 1 .. (Len(w) + 1) /\ Put(w, p, m)[k] = w[j]
         /\ Joined(nd, m, AtPlace(w, p), BeforePlace(w, p), x)[w[j]]
              = Link(Put(w, p, m), k, Put(s, p, x)[k])
<1> DEFINE n == Len(w)
           k == Was(j, p)
           f == AtPlace(w, p)
           b == BeforePlace(w, p)
           fj == IF j = n THEN Nil ELSE w[j + 1]
           bj == IF j = 1 THEN Nil ELSE w[j - 1]
           c == Put(w, p, m)
           y == IF w[j] = b THEN m ELSE nd[w[j]].forward
           z == IF w[j] = f THEN m ELSE nd[w[j]].back
           old == nd[w[j]]
           sj == s[j]
<1>1. /\ n \in Nat /\ p \in 1 .. (n + 1) /\ j \in 1 .. n
      /\ k = (IF j < p THEN j ELSE j + 1) /\ k \in 1 .. (n + 1) /\ k # p
  BY ChainNodes DEF Was
<1>2. w \in Seq(1 .. MaxNodes) /\ s \in Seq(Values) /\ Len(s) = n
      /\ \A i, l \in 1 .. n : w[i] = w[l] => i = l
  BY DEF Chained
<1>3. w[j] \in DOMAIN nd /\ w[j] # Nil /\ w[j] # m
  BY <1>1, ChainNodes
<1>4. old = Node(fj, bj, sj)
  <2>1. nd[w[j]] = Link(w, j, s[j])
    BY <1>1 DEF Chained
  <2> QED
    BY <2>1 DEF Link
<1>5. Joined(nd, m, f, b, x)[w[j]] = Relinked(old, y, z)
  <2> HIDE DEF f, b
  <2> QED
    BY <1>3 DEF Joined
<1>6. /\ Len(c) = n + 1
      /\ \A i \in 1 .. (n + 1) : c[i] = IF i < p THEN w[i] ELSE IF i = p THEN m ELSE w[i - 1]
      /\ Put(s, p, x)[k] = s[j]
  <2>1. /\ Len(c) = n + 1
        /\ \A i \in 1 .. (n + 1) : c[i] = IF i < p THEN w[i] ELSE IF i = p THEN m ELSE w[i - 1]
    BY PutIntoChain
  <2>3. Put(s, p, x)[k] = IF k < p THEN s[k] ELSE IF k = p THEN x ELSE s[k - 1]
    BY <1>1, PutIntoChain
  <2>4. (IF k < p THEN k ELSE k - 1) = j
    BY <1>1
  <2> QED
    BY <1>1, <2>1, <2>3, <2>4
<1>7. Joined(nd, m, f, b, x)[w[j]] = Node(y, z, s[j]) /\ old.forward = fj /\ old.back = bj
  <2> HIDE DEF y, z, old, fj, bj, f, b, sj
  <2>1. Relinked(old, y, z) = Node(y, z, sj) /\ old.forward = fj /\ old.back = bj
    BY <1>4, RelinkNode
  <2> QED
    BY <1>5, <2>1 DEF sj
<1> HIDE DEF c
<1>8. c[k] = w[j]
  BY <1>1, <1>6
<1>9. y = IF k = n + 1 THEN Nil ELSE c[k + 1]
  <2>1. w[j] = b <=> j = p - 1
    <3>1. p # 1 => p - 1 \in 1 .. n
      BY <1>1
    <3> QED
      BY <1>1, <1>2, <1>3, <3>1 DEF BeforePlace
  <2>2. y = IF w[j] = b THEN m ELSE fj
    BY <1>7
  <2>3. CASE j = p - 1
    <3>1. k + 1 = p /\ k # n + 1 /\ k + 1 \in 1 .. (n + 1)
      BY <1>1, <2>3
    <3> QED
      BY <1>6, <2>1, <2>2, <2>3, <3>1
  <2>4. CASE j # p - 1
    <3>1. k = n + 1 <=> j = n
      BY <1>1, <2>4
    <3>2. j # n => k + 1 \in 1 .. (n + 1) /\ k + 1 # p /\ (IF k + 1 < p THEN k + 1 ELSE (k + 1) - 1) = j + 1
      BY <1>1, <2>4, <3>1
    <3>3. j # n => c[k + 1] = w[j + 1]
      BY <1>6, <3>2
    <3> QED
      BY <2>1, <2>2, <2>4, <3>1, <3>3
  <2> QED
    BY <2>3, <2>4
<1>10. z = IF k = 1 THEN Nil ELSE c[k - 1]
  <2>1. w[j] = f <=> j = p
    <3>1. p # n + 1 => p \in 1 .. n
      BY <1>1
    <3> QED
      BY <1>1, <1>2, <1>3, <3>1 DEF AtPlace
  <2>2. z = IF w[j] = f THEN m ELSE bj
    BY <1>7
  <2>3. CASE j = p
    <3>1. k - 1 = p /\ k # 1 /\ k - 1 \in 1 .. (n + 1) /\ ~(k - 1 < p)
      BY <1>1, <2>3
    <3> QED
      BY <1>6, <2>1, <2>2, <2>3, <3>1
  <2>4. CASE j # p
    <3>1. k = 1 <=> j = 1
      BY <1>1, <2>4
    <3>2. j # 1 => k - 1 \in 1 .. (n + 1) /\ k - 1 # p /\ (IF k - 1 < p THEN k - 1 ELSE (k - 1) - 1) = j - 1
      BY <1>1, <2>4, <3>1
    <3>3. j # 1 => c[k - 1] = w[j - 1]
      BY <1>6, <3>2
    <3> QED
      BY <2>1, <2>2, <2>4, <3>1, <3>3
  <2> QED
    BY <2>3, <2>4
<1>11. Link(c, k, s[j]) = Node(IF k = n + 1 THEN Nil ELSE c[k + 1], IF k = 1 THEN Nil ELSE c[k - 1], s[j])
  BY <1>6 DEF Link
<1> HIDE DEF y, z, f, b
<1> QED
  BY <1>1, <1>6, <1>7, <1>8, <1>9, <1>10, <1>11 DEF c, f, b

LEMMA JoinedNew ==
  ASSUME NEW nd, NEW rt, NEW lst, NEW w, NEW s, Chained(nd, rt, lst, w, s),
         NEW m \in (1 .. MaxNodes) \ DOMAIN nd, NEW x \in Values,
         NEW p \in 1 .. (Len(w) + 1)
  PROVE  /\ Put(w, p, m)[p] = m
         /\ Joined(nd, m, AtPlace(w, p), BeforePlace(w, p), x)[m]
              = Link(Put(w, p, m), p, Put(s, p, x)[p])
<1> DEFINE n == Len(w)
           c == Put(w, p, m)
           f == AtPlace(w, p)
           b == BeforePlace(w, p)
<1>1. /\ w \in Seq(1 .. MaxNodes) /\ s \in Seq(Values) /\ Len(s) = n /\ n \in Nat
      /\ p \in 1 .. (n + 1) /\ p \in 1 .. (Len(s) + 1)
  BY DEF Chained
<1>2. /\ Len(c) = n + 1
      /\ \A i \in 1 .. (n + 1) : c[i] = IF i < p THEN w[i] ELSE IF i = p THEN m ELSE w[i - 1]
  BY PutIntoChain
<1>3. Put(s, p, x)[p] = x
  <2>1. Put(s, p, x)[p] = IF p < p THEN s[p] ELSE IF p = p THEN x ELSE s[p - 1]
    BY <1>1, PutIntoChain
  <2> QED
    BY <1>1, <2>1
<1>4. Joined(nd, m, f, b, x)[m] = Node(f, b, x)
  <2> HIDE DEF f, b
  <2> QED
    BY DEF Joined
<1> HIDE DEF c
<1>5. c[p] = m
  BY <1>1, <1>2
<1>6. f = IF p = n + 1 THEN Nil ELSE c[p + 1]
  <2>1. p # n + 1 => p + 1 \in 1 .. (n + 1) /\ ~(p + 1 < p) /\ p + 1 # p /\ (p + 1) - 1 = p
    BY <1>1
  <2> QED
    BY <1>2, <2>1 DEF AtPlace
<1>7. b = IF p = 1 THEN Nil ELSE c[p - 1]
  <2>1. p # 1 => p - 1 \in 1 .. (n + 1) /\ p - 1 < p
    BY <1>1
  <2> QED
    BY <1>2, <2>1 DEF BeforePlace
<1>8. Link(c, p, x) = Node(IF p = n + 1 THEN Nil ELSE c[p + 1], IF p = 1 THEN Nil ELSE c[p - 1], x)
  BY <1>2 DEF Link
<1> HIDE DEF f, b
<1> QED
  BY <1>3, <1>4, <1>5, <1>6, <1>7, <1>8 DEF c, f, b

LEMMA JoinedIs ==
  ASSUME NEW nd, NEW rt, NEW lst, NEW w, NEW s, Chained(nd, rt, lst, w, s),
         NEW m \in (1 .. MaxNodes) \ DOMAIN nd, NEW x \in Values,
         NEW p \in 1 .. (Len(w) + 1)
  PROVE  Chained(Joined(nd, m, AtPlace(w, p), BeforePlace(w, p), x),
                 IF p = 1 THEN m ELSE rt, IF p = Len(w) + 1 THEN m ELSE lst,
                 Put(w, p, m), Put(s, p, x))
<1> DEFINE n == Len(w)
           c == Put(w, p, m)
           e == Put(s, p, x)
           u == Joined(nd, m, AtPlace(w, p), BeforePlace(w, p), x)
<1>1. /\ n \in Nat /\ p \in 1 .. (n + 1)
      /\ \A i, l \in 1 .. n : w[i] = w[l] => i = l
      /\ DOMAIN nd = {w[k] : k \in 1 .. n}
      /\ rt = (IF n = 0 THEN Nil ELSE w[1]) /\ lst = (IF n = 0 THEN Nil ELSE w[n])
  BY DEF Chained
<1>2. /\ c \in Seq(1 .. MaxNodes) /\ Len(c) = n + 1 /\ e \in Seq(Values) /\ Len(e) = n + 1
      /\ \A i \in 1 .. (n + 1) : c[i] = IF i < p THEN w[i] ELSE IF i = p THEN m ELSE w[i - 1]
  BY PutIntoChain
<1>3. /\ DOMAIN u = DOMAIN nd \cup {m}
      /\ m \notin DOMAIN nd
  BY DEF Joined
<1>4. \A k \in 1 .. (n + 1) : k = p \/ \E j \in 1 .. n : k = Was(j, p)
  <2> TAKE k \in 1 .. (n + 1)
  <2> DEFINE j == IF k < p THEN k ELSE k - 1
  <2>1. k # p => j \in 1 .. n /\ k = Was(j, p)
    BY <1>1 DEF Was
  <2> HIDE DEF j
  <2> QED
    BY <2>1
<1>5. \A j \in 1 .. n : /\ Was(j, p) \in 1 .. (n + 1) /\ c[Was(j, p)] = w[j]
                        /\ u[w[j]] = Link(c, Was(j, p), e[Was(j, p)])
  BY JoinedOld
<1>6. c[p] = m /\ u[m] = Link(c, p, e[p])
  BY JoinedNew
<1> HIDE DEF c, e, u
<1>7. \A j \in 1 .. n : w[j] \in DOMAIN nd /\ w[j] # m
  BY <1>1, <1>3
<1>8. \A i, k \in 1 .. (n + 1) : c[i] = c[k] => i = k
  <2> TAKE i, k \in 1 .. (n + 1)
  <2>1. CASE i = p
    BY <1>4, <1>5, <1>6, <1>7, <2>1
  <2>2. CASE k = p
    BY <1>4, <1>5, <1>6, <1>7, <2>2
  <2>3. CASE i # p /\ k # p
    <3>1. PICK a \in 1 .. n : i = Was(a, p)
      BY <1>4, <2>3
    <3>2. PICK d \in 1 .. n : k = Was(d, p)
      BY <1>4, <2>3
    <3>3. c[i] = w[a] /\ c[k] = w[d]
      BY <1>5, <3>1, <3>2
    <3> QED
      BY <1>1, <3>1, <3>2, <3>3
  <2> QED
    BY <2>1, <2>2, <2>3
<1>9. DOMAIN u = {c[k] : k \in 1 .. (n + 1)}
  <2>1. \A k \in 1 .. (n + 1) : c[k] \in DOMAIN u
    BY <1>3, <1>4, <1>5, <1>6, <1>7
  <2>2. \A d \in DOMAIN u : \E k \in 1 .. (n + 1) : d = c[k]
    BY <1>1, <1>3, <1>5, <1>6
  <2> QED
    BY <2>1, <2>2
<1>10. \A k \in 1 .. (n + 1) : u[c[k]] = Link(c, k, e[k])
  <2> TAKE k \in 1 .. (n + 1)
  <2>1. CASE k = p
    BY <1>6, <2>1
  <2>2. CASE k # p
    <3>1. PICK j \in 1 .. n : k = Was(j, p)
      BY <1>4, <2>2
    <3> QED
      BY <1>5, <3>1
  <2> QED
    BY <2>1, <2>2
<1>11. (IF p = 1 THEN m ELSE rt) = c[1] /\ (IF p = n + 1 THEN m ELSE lst) = c[n + 1] /\ n + 1 # 0
  <2>1. p # 1 => n # 0 /\ 1 < p /\ 1 \in 1 .. (n + 1)
    BY <1>1
  <2>2. p # n + 1 => n # 0 /\ ~(n + 1 < p) /\ n + 1 \in 1 .. (n + 1) /\ (n + 1) - 1 = n
    BY <1>1
  <2>3. p # 1 => c[1] = w[1] /\ rt = w[1]
    BY <1>1, <1>2, <2>1
  <2>4. p # n + 1 => c[n + 1] = w[n] /\ lst = w[n]
    BY <1>1, <1>2, <2>2
  <2> QED
    BY <1>1, <1>6, <2>3, <2>4
<1>12. Chained(u, IF p = 1 THEN m ELSE rt, IF p = n + 1 THEN m ELSE lst, c, e)
  BY <1>2, <1>8, <1>9, <1>10, <1>11 DEF Chained
<1> QED
  BY <1>12 DEF c, e, u

-----------------------------------------------------------------------------
(* The inductive invariant: the nodes are a chain, and the iterator stands *)
(* at place p of it, or before it.                                         *)
PlaceOf(nd, rt, n, l) == IF l = Nil THEN 0 ELSE CHOOSE k \in 1 .. n : WayOf(nd, rt, n)[k] = l

Shape(nd, rt, lst, n, l, i, w, s, p) ==
  /\ Chained(nd, rt, lst, w, s)
  /\ n = Len(w) /\ p \in 0 .. n
  /\ IF p = 0 THEN l = Nil ELSE l = w[p] /\ i = p - 1

Now(w, s, p) == Shape(nodes, root, last, size, ln, index, w, s, p)
ListInv == \E w, s, p : Now(w, s, p)

LEMMA ShapeIs ==
  ASSUME NEW nd, NEW rt, NEW lst, NEW n, NEW l, NEW i, NEW w, NEW s, NEW p,
         Shape(nd, rt, lst, n, l, i, w, s, p)
  PROVE  /\ WayOf(nd, rt, n) = w /\ WalkOf(nd, rt, n) = s /\ PlaceOf(nd, rt, n, l) = p
         /\ n \in Nat /\ p \in 0 .. n /\ (l = Nil <=> p = 0)
<1>1. Chained(nd, rt, lst, w, s) /\ n = Len(w) /\ p \in 0 .. n
      /\ (p = 0 => l = Nil) /\ (p # 0 => l = w[p])
  BY DEF Shape
<1>2. n \in Nat /\ WayOf(nd, rt, n) = w /\ WalkOf(nd, rt, n) = s
  BY <1>1, WayOfIs, ChainNodes
<1>3. p # 0 => p \in 1 .. n /\ l # Nil
  <2>1. p # 0 => p \in 1 .. n
    BY <1>1, <1>2
  <2> QED
    BY <1>1, <2>1, ChainNodes
<1>4. p # 0 => PlaceOf(nd, rt, n, l) = p
  <2> SUFFICES ASSUME p # 0 PROVE PlaceOf(nd, rt, n, l) = p
    OBVIOUS
  <2>1. \A k \in 1 .. n : w[k] = l <=> k = p
    BY <1>1, <1>3 DEF Chained
  <2>2. PlaceOf(nd, rt, n, l) = CHOOSE k \in 1 .. n : w[k] = l
    BY <1>2, <1>3 DEF PlaceOf
  <2> QED
    BY <1>3, <2>1, <2>2
<1>5. p = 0 => PlaceOf(nd, rt, n, l) = p
  BY <1>1 DEF PlaceOf
<1> QED
  BY <1>1, <1>2, <1>3, <1>4, <1>5

LEMMA Seen ==
  ASSUME NEW w, NEW s, NEW p, Now(w, s, p)
  PROVE  /\ Way = w /\ Walk = s /\ PlaceOfIterator = p
         /\ size \in Nat /\ p \in 0 .. size /\ (ln = Nil <=> p = 0)
<1>1. /\ WayOf(nodes, root, size) = w /\ WalkOf(nodes, root, size) = s
      /\ PlaceOf(nodes, root, size, ln) = p
      /\ size \in Nat /\ p \in 0 .. size /\ (ln = Nil <=> p = 0)
  BY ShapeIs DEF Now
<1>2. Way = WayOf(nodes, root, size)
  BY DEF Way, WayOf
<1>3. Walk = WalkOf(nodes, root, size) /\ PlaceOfIterator = PlaceOf(nodes, root, size, ln)
  BY <1>2 DEF Walk, WalkOf, PlaceOfIterator, PlaceOf
<1> QED
  BY <1>1, <1>2, <1>3

LEMMA SeenNext ==
  ASSUME NEW v, NEW t, NEW q, Shape(nodes', root', last', size', ln', index', v, t, q)
  PROVE  ListInv' /\ Walk' = t /\ PlaceOfIterator' = q
<1>1. WalkOf(nodes', root', size') = t /\ PlaceOf(nodes', root', size', ln') = q
  BY ShapeIs
<1>2. Way' = WayOf(nodes', root', size')
  BY DEF Way, WayOf
<1>3. Walk' = WalkOf(nodes', root', size') /\ PlaceOfIterator' = PlaceOf(nodes', root', size', ln')
  BY <1>2 DEF Walk, WalkOf, PlaceOfIterator, PlaceOf
<1>4. ListInv'
  BY DEF ListInv, Now
<1> QED
  BY <1>1, <1>3, <1>4

LEMMA Init_List == ListInit => ListInv /\ Cursor!Init
<1> SUFFICES ASSUME ListInit PROVE ListInv /\ Cursor!Init
  OBVIOUS
<1>1. Now(<<>>, <<>>, 0)
  <2>1. Chained(<<>>, Nil, Nil, <<>>, <<>>)
    <3>1. /\ <<>> \in Seq(1 .. MaxNodes) /\ <<>> \in Seq(Values) /\ Len(<<>>) = 0
          /\ 1 .. 0 = {} /\ DOMAIN <<>> = {}
      BY EmptySeq
    <3> QED
      BY <3>1 DEF Chained
  <2> QED
    BY <2>1, EmptySeq DEF ListInit, Now, Shape
<1>2. Walk = <<>> /\ PlaceOfIterator = 0
  BY <1>1, Seen
<1> QED
  BY <1>1, <1>2 DEF ListInit, ListInv, Cursor!Init

(* The list from either end: what WellLinked says. *)
LEMMA ChainCardinality ==
  ASSUME NEW nd, NEW rt, NEW lst, NEW w, NEW s, Chained(nd, rt, lst, w, s)
  PROVE  Cardinality(DOMAIN nd) = Len(w)
<1> DEFINE n == Len(w)
           D == DOMAIN nd
<1>1. n \in Nat /\ w = [k \in 1 .. n |-> w[k]] /\ \A k \in 1 .. n : w[k] \in D
  BY LenProperties, ChainNodes DEF Chained
<1>2. \A d \in D : \E k \in 1 .. n : w[k] = d
  BY DEF Chained
<1>3. \A j, k \in 1 .. n : w[j] = w[k] => j = k
  BY DEF Chained
<1> HIDE DEF D
<1>4. w \in [1 .. n -> D] /\ DOMAIN w = 1 .. n
  BY <1>1
<1>5. w \in Bijection(1 .. n, D)
  BY <1>2, <1>3, <1>4 DEF Bijection, Injection, Surjection, IsInjective
<1>6. Cardinality(D) = n
  BY <1>1, <1>5, FS_CountingElements DEF ExistsBijection
<1> QED
  BY <1>6 DEF D

LEMMA InvWellLinked == ListInv => WellLinked
<1> SUFFICES ASSUME ListInv PROVE WellLinked
  OBVIOUS
<1>1. PICK w, s, p : Now(w, s, p)
  BY DEF ListInv
<1>2. Way = w /\ PlaceOfIterator = p /\ size \in Nat /\ p \in 0 .. size /\ (ln = Nil <=> p = 0)
  BY <1>1, Seen
<1>3. Chained(nodes, root, last, w, s) /\ size = Len(w) /\ (p # 0 => ln = w[p] /\ index = p - 1)
  BY <1>1 DEF Now, Shape
<1>4. Cardinality(DOMAIN nodes) = size
  BY <1>3, ChainCardinality
<1>5. /\ (size = 0 => root = Nil) /\ (size # 0 => root = w[1] /\ last = w[size])
  BY <1>3 DEF Chained
<1>6. \A k \in 1 .. size : /\ w[k] # Nil /\ w[k] \in DOMAIN nodes
                           /\ nodes[w[k]].forward = IF k = size THEN Nil ELSE w[k + 1]
                           /\ nodes[w[k]].back = IF k = 1 THEN Nil ELSE w[k - 1]
  BY <1>3, ChainNodes
<1>7. (root = Nil) = (size = 0)
  BY <1>2, <1>5, <1>6
<1>8. ASSUME size > 0
      PROVE  /\ nodes[root].back = Nil /\ last = w[size] /\ nodes[last].forward = Nil
             /\ \A k \in 1 .. (size - 1) : nodes[w[k + 1]].back = w[k]
  <2>1. 1 \in 1 .. size /\ size \in 1 .. size /\ size # 0
    BY <1>2, <1>8
  <2>2. \A k \in 1 .. (size - 1) : k + 1 \in 1 .. size /\ k + 1 # 1 /\ (k + 1) - 1 = k
    BY <1>2
  <2> QED
    BY <1>5, <1>6, <2>1, <2>2
<1>9. ln # Nil => ln \in DOMAIN nodes /\ index = PlaceOfIterator - 1
  <2>1. p # 0 => p \in 1 .. size
    BY <1>2
  <2> QED
    BY <1>2, <1>3, <1>6, <2>1
<1> QED
  BY <1>2, <1>4, <1>7, <1>8, <1>9 DEF WellLinked

-----------------------------------------------------------------------------
(* One lemma for each call: it keeps the invariant, and is a step of       *)
(* CursorList.                                                             *)

(* malloc finds a node while there is room. *)
LEMMA FreshIs ==
  ASSUME NEW w, NEW s, NEW p, Now(w, s, p), Room
  PROVE  Fresh \in (1 .. MaxNodes) \ DOMAIN nodes
<1> DEFINE free == (1 .. MaxNodes) \ DOMAIN nodes
           f == [d \in 1 .. MaxNodes |-> CHOOSE k \in 1 .. size : w[k] = d]
<1>1. /\ size \in Nat /\ size < MaxNodes /\ MaxNodes \in Nat
      /\ DOMAIN nodes = {w[k] : k \in 1 .. size}
  BY Seen, LinkedListAssumption DEF Now, Shape, Chained, Room
<1>2. free # {}
  <2>1. SUFFICES ASSUME \A d \in 1 .. MaxNodes : d \in DOMAIN nodes PROVE FALSE
    OBVIOUS
  <2>2. \A d \in 1 .. MaxNodes : \E k \in 1 .. size : w[k] = d
    BY <1>1, <2>1
  <2>3. \A d \in 1 .. MaxNodes : f[d] \in 1 .. size /\ w[f[d]] = d
    BY <2>2
  <2>4. f \in [1 .. MaxNodes -> 1 .. size]
    BY <2>3
  <2>5. /\ IsFiniteSet(1 .. MaxNodes) /\ Cardinality(1 .. MaxNodes) = MaxNodes
        /\ IsFiniteSet(1 .. size) /\ Cardinality(1 .. size) = size
    BY <1>1, FS_Interval
  <2> HIDE DEF f
  <2>6. Cardinality(1 .. size) < Cardinality(1 .. MaxNodes)
    BY <1>1, <2>5
  <2>7. \E a, b \in 1 .. MaxNodes : a # b /\ f[a] = f[b]
    BY <2>4, <2>5, <2>6, FS_PigeonHole
  <2> QED
    BY <2>3, <2>7
<1>3. free \subseteq Nat
  BY <1>1
<1> HIDE DEF free
<1>4. \E m \in free : \A k \in free : m <= k
  BY <1>2, <1>3, LeastOf
<1>5. Fresh = CHOOSE m \in free : \A k \in free : m <= k
  BY DEF Fresh, free
<1>6. Fresh \in free
  BY <1>4, <1>5
<1> QED
  BY <1>6 DEF free

LEMMA NodeAt ==
  ASSUME NEW nd, NEW rt, NEW lst, NEW w, NEW s, Chained(nd, rt, lst, w, s), NEW d \in DOMAIN nd
  PROVE  /\ d # Nil /\ Relinked(nd[d], nd[d].forward, nd[d].back) = nd[d]
         /\ \A u : Relinked(nd[d], u, nd[d].back) = [nd[d] EXCEPT !.forward = u]
<1>1. PICK k \in 1 .. Len(w) : d = w[k]
  BY DEF Chained
<1>2. d # Nil
  BY <1>1, ChainNodes
<1> DEFINE f == IF k = Len(w) THEN Nil ELSE w[k + 1]
           b == IF k = 1 THEN Nil ELSE w[k - 1]
           m == nd[d]
           x == s[k]
<1>3. m = Node(f, b, x)
  BY <1>1 DEF Chained, Link
<1> HIDE DEF f, b, m, x
<1>4. m.forward = f /\ m.back = b
  BY <1>3, RelinkNode
<1>5. Relinked(m, f, b) = m
  BY <1>3, RelinkNode
<1>6. ASSUME NEW u PROVE Relinked(m, u, b) = [m EXCEPT !.forward = u]
  <2>1. Relinked(m, u, b) = Node(u, b, x)
    BY <1>3, RelinkNode
  <2>2. [m EXCEPT !.forward = u] = Node(u, b, x)
    BY <1>3 DEF Node
  <2> QED
    BY <2>1, <2>2
<1> QED
  BY <1>2, <1>4, <1>5, <1>6 DEF m

LEMMA ListAppend_List ==
  ASSUME ListInv, NEW x \in Values, ListAppend(x)
  PROVE  ListInv' /\ Cursor!Appends(x)
<1>1. PICK w, s, p : Now(w, s, p)
  BY DEF ListInv
<1>2. Walk = s /\ PlaceOfIterator = p /\ size \in Nat /\ p \in 0 .. size
  BY <1>1, Seen
<1>3. /\ Chained(nodes, root, last, w, s) /\ size = Len(w) /\ Len(s) = size
      /\ (p = 0 => ln = Nil) /\ (p # 0 => ln = w[p] /\ index = p - 1)
  BY <1>1 DEF Now, Shape, Chained
<1>4. PICK m : m = Fresh
  OBVIOUS
<1>5. m \in (1 .. MaxNodes) \ DOMAIN nodes
  BY <1>1, <1>4, FreshIs DEF ListAppend
<1> DEFINE n == Len(w)
           u == Joined(nodes, m, AtPlace(w, n + 1), BeforePlace(w, n + 1), x)
<1>6. AtPlace(w, n + 1) = Nil /\ BeforePlace(w, n + 1) = last
      /\ (n = 0 => root = Nil /\ DOMAIN nodes = {} /\ last = Nil)
      /\ (n # 0 => root # Nil /\ last \in DOMAIN nodes)
  <2>1. n \in Nat /\ (n + 1 = 1 <=> n = 0) /\ (n + 1) - 1 = n /\ (n # 0 => 1 \in 1 .. n /\ n \in 1 .. n)
    BY <1>2, <1>3
  <2>2. (n = 0 => root = Nil /\ last = Nil) /\ (n # 0 => root = w[1] /\ last = w[n])
    BY <1>3 DEF Chained
  <2>3. n = 0 => DOMAIN nodes = {}
    <3>1. DOMAIN nodes = {w[k] : k \in 1 .. n} /\ 1 .. 0 = {}
      BY <1>3 DEF Chained
    <3> QED
      BY <3>1
  <2>4. n # 0 => root # Nil /\ last \in DOMAIN nodes
    BY <1>3, <2>1, <2>2, ChainNodes
  <2> QED
    BY <2>1, <2>2, <2>3, <2>4 DEF AtPlace, BeforePlace
<1>7. u = [k \in DOMAIN nodes \cup {m} |->
             IF k = m THEN Node(Nil, last, x)
             ELSE Relinked(nodes[k], IF k = last THEN m ELSE nodes[k].forward,
                                     IF k = Nil THEN m ELSE nodes[k].back)]
  BY <1>6 DEF Joined
<1>8. nodes' = u /\ root' = IF n + 1 = 1 THEN m ELSE root
  <2> HIDE DEF u
  <2>1. CASE n = 0
    <3>1. nodes' = With(m, Node(Nil, Nil, x)) /\ root' = m
      BY <1>4, <1>6, <2>1 DEF ListAppend
    <3>2. With(m, Node(Nil, Nil, x)) = [k \in DOMAIN nodes \cup {m} |-> Node(Nil, Nil, x)]
      BY <1>6, <2>1 DEF With
    <3>3. u = [k \in DOMAIN nodes \cup {m} |-> Node(Nil, Nil, x)]
      BY <1>6, <1>7, <2>1
    <3> QED
      BY <2>1, <3>1, <3>2, <3>3
  <2>2. CASE n # 0
    <3> DEFINE z == With(m, Node(Nil, last, x))
               y == [z EXCEPT ![last].forward = m]
    <3>1. nodes' = y /\ root' = root /\ n + 1 # 1
      BY <1>2, <1>3, <1>4, <1>6, <2>2 DEF ListAppend
    <3>2. DOMAIN z = DOMAIN nodes \cup {m} /\ last \in DOMAIN z
          /\ \A k \in DOMAIN z : z[k] = IF k = m THEN Node(Nil, last, x) ELSE nodes[k]
      BY <1>6, <2>2 DEF With
    <3> HIDE DEF z
    <3>3. DOMAIN y = DOMAIN nodes \cup {m} /\ y = [k \in DOMAIN nodes \cup {m} |-> y[k]]
          /\ \A k \in DOMAIN y : y[k] = IF k = last THEN [z[k] EXCEPT !.forward = m] ELSE z[k]
      BY <3>2
    <3> HIDE DEF y
    <3>4. ASSUME NEW k \in DOMAIN nodes \cup {m} PROVE y[k] = u[k]
      <4>1. CASE k = m
        BY <1>5, <1>6, <1>7, <2>2, <3>2, <3>3, <4>1
      <4>2. CASE k # m
        <5>1. k \in DOMAIN nodes /\ z[k] = nodes[k]
          BY <3>2, <4>2
        <5>2. /\ k # Nil /\ Relinked(nodes[k], nodes[k].forward, nodes[k].back) = nodes[k]
              /\ Relinked(nodes[k], m, nodes[k].back) = [nodes[k] EXCEPT !.forward = m]
          BY <1>3, <5>1, NodeAt
        <5>3. u[k] = Relinked(nodes[k], IF k = last THEN m ELSE nodes[k].forward, nodes[k].back)
          BY <1>7, <4>2, <5>2
        <5>4. y[k] = IF k = last THEN [nodes[k] EXCEPT !.forward = m] ELSE nodes[k]
          BY <3>3, <5>1
        <5> QED
          BY <5>2, <5>3, <5>4
      <4> QED
        BY <4>1, <4>2
    <3>5. u = [k \in DOMAIN nodes \cup {m} |-> u[k]]
      BY <1>7
    <3>6. y = u
      BY <3>3, <3>4, <3>5
    <3> QED
      BY <3>1, <3>6
  <2> QED
    BY <2>1, <2>2
<1>9. n + 1 \in 1 .. (Len(w) + 1) /\ n + 1 \in 1 .. (Len(s) + 1) /\ n \in Nat
  BY <1>2, <1>3
<1>10. Chained(u, IF n + 1 = 1 THEN m ELSE root, IF n + 1 = Len(w) + 1 THEN m ELSE last,
               Put(w, n + 1, m), Put(s, n + 1, x))
  BY <1>3, <1>5, <1>9, JoinedIs
<1> HIDE DEF u
<1>11. last' = m /\ size' = size + 1 /\ UNCHANGED <<ln, index, returned>> /\ size < MaxNodes
  BY <1>4 DEF ListAppend, Room
<1>12. Len(Put(w, n + 1, m)) = n + 1 /\ (p # 0 => Put(w, n + 1, m)[p] = w[p])
  <2>1. p # 0 => p \in 1 .. (Len(w) + 1) /\ p < n + 1
    BY <1>2, <1>3
  <2> QED
    BY <1>3, <1>5, <1>9, <2>1, PutIntoChain
<1>13. Shape(nodes', root', last', size', ln', index', Put(w, n + 1, m), Put(s, n + 1, x), p)
  <2>1. Chained(nodes', root', last', Put(w, n + 1, m), Put(s, n + 1, x))
    BY <1>8, <1>10, <1>11
  <2>2. size' = n + 1 /\ p \in 0 .. (n + 1)
    BY <1>2, <1>3, <1>11
  <2>3. IF p = 0 THEN ln' = Nil ELSE ln' = Put(w, n + 1, m)[p] /\ index' = p - 1
    BY <1>3, <1>11, <1>12
  <2> QED
    BY <1>12, <2>1, <2>2, <2>3 DEF Shape
<1>14. ListInv' /\ Walk' = Put(s, n + 1, x) /\ PlaceOfIterator' = p
  BY <1>13, SeenNext
<1>15. Append(s, x) = Put(s, n + 1, x)
  <2>1. s \in Seq(Values)
    BY <1>3 DEF Chained
  <2> QED
    BY <1>3, <2>1, AppendIs
<1> QED
  BY <1>2, <1>3, <1>11, <1>14, <1>15 DEF Cursor!Appends

(* What an insertion at the iterator does is Joined, in whichever order it *)
(* tells the two nodes around the new one.                                 *)
RelinkedBack(m, f, b) == [m EXCEPT !.back = b, !.forward = f]

LEMMA RelinkBackSame ==
  ASSUME NEW f, NEW b, NEW x, NEW u, NEW v, NEW m, m = Node(f, b, x)
  PROVE  RelinkedBack(m, u, v) = Relinked(m, u, v)
<1>1. RelinkedBack(m, u, v) = [[m EXCEPT !.back = v] EXCEPT !.forward = u]
  BY DEF RelinkedBack
<1>2. [m EXCEPT !.back = v] = Node(f, v, x)
  BY DEF Node
<1>3. [Node(f, v, x) EXCEPT !.forward = u] = Node(u, v, x)
  BY DEF Node
<1>4. Relinked(m, u, v) = Node(u, v, x)
  BY RelinkNode
<1> QED
  BY <1>1, <1>2, <1>3, <1>4

JoinedBackFirst(j, m, f, b) ==
  [k \in DOMAIN j |-> [j[k] EXCEPT !.back = IF k = f THEN m ELSE @,
                                   !.forward = IF k = b THEN m ELSE @]]
JoinedForwardFirst(j, m, f, b) ==
  [k \in DOMAIN j |-> [j[k] EXCEPT !.forward = IF k = b THEN m ELSE @,
                                   !.back = IF k = f THEN m ELSE @]]

LEMMA JoinedWith ==
  ASSUME NEW w, NEW s, Chained(nodes, root, last, w, s),
         NEW m \in (1 .. MaxNodes) \ DOMAIN nodes, NEW x,
         NEW f \in DOMAIN nodes \cup {Nil}, NEW b \in DOMAIN nodes \cup {Nil},
         NEW j, j = With(m, Node(f, b, x))
  PROVE  /\ Joined(nodes, m, f, b, x) = JoinedBackFirst(j, m, f, b)
         /\ Joined(nodes, m, f, b, x) = JoinedForwardFirst(j, m, f, b)
<1> DEFINE D == DOMAIN nodes \cup {m}
           Y(k) == IF k = b THEN m ELSE j[k].forward
           Z(k) == IF k = f THEN m ELSE j[k].back
           u == Joined(nodes, m, f, b, x)
<1>1. m # f /\ m # b
  BY LinkedListAssumption
<1>2. DOMAIN j = D /\ \A k \in D : j[k] = IF k = m THEN Node(f, b, x) ELSE nodes[k]
  BY DEF With
<1>3. \A k \in D : \E f1, b1, x1 : j[k] = Node(f1, b1, x1)
  <2> TAKE k \in D
  <2>1. CASE k = m
    BY <1>2, <2>1
  <2>2. CASE k # m
    <3>1. PICK i \in 1 .. Len(w) : k = w[i]
      BY <2>2 DEF Chained
    <3>2. nodes[k] = Link(w, i, s[i])
      BY <3>1 DEF Chained
    <3>3. j[k] = nodes[k]
      BY <1>2, <2>2
    <3>4. Link(w, i, s[i]) = Node(IF i = Len(w) THEN Nil ELSE w[i + 1], IF i = 1 THEN Nil ELSE w[i - 1], s[i])
      BY DEF Link
    <3> QED
      BY <3>2, <3>3, <3>4
  <2> QED
    BY <2>1, <2>2
<1>4. \A k \in D : RelinkedBack(j[k], Y(k), Z(k)) = Relinked(j[k], Y(k), Z(k))
  <2> TAKE k \in D
  <2>1. PICK f1, b1, x1 : j[k] = Node(f1, b1, x1)
    BY <1>3
  <2> DEFINE y == Y(k)
             z == Z(k)
             d == j[k]
  <2>2. d = Node(f1, b1, x1)
    BY <2>1
  <2> HIDE DEF y, z, d
  <2>3. RelinkedBack(d, y, z) = Relinked(d, y, z)
    BY <2>2, RelinkBackSame
  <2> QED
    BY <2>3 DEF d, y, z
<1>5. \A k \in D : u[k] = Relinked(j[k], Y(k), Z(k))
  <2> TAKE k \in D
  <2>1. CASE k = m
    <3>1. u[k] = Node(f, b, x) /\ j[k] = Node(f, b, x)
      BY <1>2, <2>1 DEF Joined
    <3> DEFINE d == j[k]
    <3> HIDE DEF d
    <3>2. d = Node(f, b, x)
      BY <3>1 DEF d
    <3>3. Relinked(d, f, b) = Node(f, b, x) /\ d.forward = f /\ d.back = b
      BY <3>2, RelinkNode
    <3>4. Y(k) = f /\ Z(k) = b
      BY <1>1, <2>1, <3>3 DEF d
    <3> QED
      BY <3>1, <3>3, <3>4 DEF d
  <2>2. CASE k # m
    <3>1. j[k] = nodes[k]
      BY <1>2, <2>2
    <3> HIDE DEF Y, Z
    <3>2. u[k] = Relinked(nodes[k], IF k = b THEN m ELSE nodes[k].forward, IF k = f THEN m ELSE nodes[k].back)
      BY <2>2 DEF Joined
    <3> QED
      BY <3>1, <3>2 DEF Y, Z
  <2> QED
    BY <2>1, <2>2
<1>6. u = [k \in D |-> u[k]]
  BY DEF Joined
<1> HIDE DEF u, Y, Z, D
<1>7. u = [k \in DOMAIN j |-> RelinkedBack(j[k], Y(k), Z(k))]
  BY <1>2, <1>4, <1>5, <1>6
<1>8. u = [k \in DOMAIN j |-> Relinked(j[k], Y(k), Z(k))]
  BY <1>2, <1>5, <1>6
<1> QED
  BY <1>7, <1>8 DEF u, Y, Z, Relinked, RelinkedBack, JoinedBackFirst, JoinedForwardFirst

(* The iterator's node and its neighbours. *)
LEMMA AtIterator ==
  ASSUME NEW w, NEW s, NEW p, Now(w, s, p), ln # Nil
  PROVE  /\ Chained(nodes, root, last, w, s) /\ size = Len(w) /\ size \in Nat
         /\ s \in Seq(Values) /\ Len(s) = size
         /\ p \in 1 .. size /\ ln = w[p] /\ index = p - 1 /\ ln \in DOMAIN nodes
         /\ nodes[ln].element = s[p]
         /\ nodes[ln].forward = (IF p = size THEN Nil ELSE w[p + 1])
         /\ nodes[ln].back = (IF p = 1 THEN Nil ELSE w[p - 1])
         /\ nodes[ln].forward \in DOMAIN nodes \cup {Nil}
         /\ nodes[ln].back \in DOMAIN nodes \cup {Nil}
         /\ (nodes[ln].forward = Nil <=> p = size) /\ (nodes[ln].back = Nil <=> p = 1)
<1>1. size \in Nat /\ p \in 0 .. size /\ p # 0
  BY Seen
<1>2. Chained(nodes, root, last, w, s) /\ size = Len(w) /\ ln = w[p] /\ index = p - 1
  BY <1>1 DEF Now, Shape
<1>3. s \in Seq(Values) /\ Len(s) = size
  BY <1>2 DEF Chained
<1>4. \A k \in 1 .. size : w[k] \in DOMAIN nodes /\ w[k] # Nil
  BY <1>2, ChainNodes
<1>5. p \in 1 .. size /\ (p # size => p + 1 \in 1 .. size) /\ (p # 1 => p - 1 \in 1 .. size)
  BY <1>1
<1>6. /\ nodes[ln].element = s[p]
      /\ nodes[ln].forward = (IF p = size THEN Nil ELSE w[p + 1])
      /\ nodes[ln].back = (IF p = 1 THEN Nil ELSE w[p - 1])
  BY <1>2, <1>5, ChainNodes
<1> QED
  BY <1>1, <1>2, <1>3, <1>4, <1>5, <1>6

LEMMA InsertBefore_List ==
  ASSUME ListInv, NEW x \in Values, InsertBefore(x)
  PROVE  ListInv' /\ Cursor!InsertBefore(x)
<1>1. PICK w, s, p : Now(w, s, p)
  BY DEF ListInv
<1>2. Walk = s /\ PlaceOfIterator = p
  BY <1>1, Seen
<1>3. ln # Nil /\ Room
  BY DEF InsertBefore
<1>4. PICK m : m = Fresh
  OBVIOUS
<1>5. m \in (1 .. MaxNodes) \ DOMAIN nodes
  BY <1>1, <1>3, <1>4, FreshIs
<1>6. PICK b : b = nodes[ln].back
  OBVIOUS
<1>7. /\ Chained(nodes, root, last, w, s) /\ size = Len(w) /\ size \in Nat
      /\ s \in Seq(Values) /\ Len(s) = size
      /\ p \in 1 .. size /\ ln = w[p] /\ index = p - 1 /\ ln \in DOMAIN nodes
      /\ b = (IF p = 1 THEN Nil ELSE w[p - 1]) /\ b \in DOMAIN nodes \cup {Nil} /\ (b = Nil <=> p = 1)
  BY <1>1, <1>3, <1>6, AtIterator
<1>8. PICK j : j = With(m, Node(ln, b, x))
  OBVIOUS
<1>9. nodes' = Joined(nodes, m, ln, b, x)
  <2>1. nodes' = JoinedBackFirst(j, m, ln, b)
    BY <1>4, <1>6, <1>8 DEF InsertBefore, JoinedBackFirst
  <2>2. ln \in DOMAIN nodes \cup {Nil}
    BY <1>7
  <2>3. Joined(nodes, m, ln, b, x) = JoinedBackFirst(j, m, ln, b)
    BY <1>5, <1>7, <1>8, <2>2, JoinedWith
  <2> QED
    BY <2>1, <2>3
<1>10. /\ p \in 1 .. (Len(w) + 1) /\ p # Len(w) + 1
       /\ ln = AtPlace(w, p) /\ b = BeforePlace(w, p)
  BY <1>7 DEF AtPlace, BeforePlace
<1>11. Chained(nodes', IF p = 1 THEN m ELSE root, IF p = Len(w) + 1 THEN m ELSE last, Put(w, p, m), Put(s, p, x))
  BY <1>5, <1>7, <1>9, <1>10, JoinedIs
<1>12. /\ root' = (IF p = 1 THEN m ELSE root) /\ last' = last /\ size' = size + 1
       /\ index' = index + 1 /\ ln' = ln /\ returned' = returned /\ size < MaxNodes
  BY <1>4, <1>6, <1>7 DEF InsertBefore, Room
<1>13. Len(Put(w, p, m)) = size + 1 /\ Put(w, p, m)[p + 1] = w[p]
  <2>1. p + 1 \in 1 .. (Len(w) + 1) /\ ~(p + 1 < p) /\ p + 1 # p /\ (p + 1) - 1 = p
    BY <1>7
  <2>2. w \in Seq(1 .. MaxNodes) /\ m \in 1 .. MaxNodes
    BY <1>5, <1>7 DEF Chained
  <2>3. IsPut(Put(w, p, m), 1 .. MaxNodes, w, p, m)
    BY <1>10, <2>2, PutIs
  <2> QED
    BY <1>7, <2>1, <2>3 DEF IsPut
<1>14. Shape(nodes', root', last', size', ln', index', Put(w, p, m), Put(s, p, x), p + 1)
  <2>1. Chained(nodes', root', last', Put(w, p, m), Put(s, p, x))
    BY <1>10, <1>11, <1>12
  <2>2. p + 1 \in 0 .. size' /\ p + 1 # 0 /\ index' = (p + 1) - 1
    BY <1>7, <1>12
  <2> QED
    BY <1>7, <1>12, <1>13, <2>1, <2>2 DEF Shape
<1>15. ListInv' /\ Walk' = Put(s, p, x) /\ PlaceOfIterator' = p + 1
  BY <1>14, SeenNext
<1>16. Cursor!InsertAt(s, p, x) = Put(s, p, x)
  <2>1. p \in 1 .. (Len(s) + 1)
    BY <1>7
  <2> QED
    BY <1>7, <2>1, InsertAtIs
<1>17. p # 0
  BY <1>7
<1> QED
  BY <1>2, <1>7, <1>12, <1>15, <1>16, <1>17 DEF Cursor!InsertBefore

LEMMA InsertAfter_List ==
  ASSUME ListInv, NEW x \in Values, InsertAfter(x)
  PROVE  ListInv' /\ Cursor!InsertAfter(x)
<1>1. PICK w, s, p : Now(w, s, p)
  BY DEF ListInv
<1>2. Walk = s /\ PlaceOfIterator = p
  BY <1>1, Seen
<1>3. ln # Nil /\ Room
  BY DEF InsertAfter
<1>4. PICK m : m = Fresh
  OBVIOUS
<1>5. m \in (1 .. MaxNodes) \ DOMAIN nodes
  BY <1>1, <1>3, <1>4, FreshIs
<1>6. PICK f : f = nodes[ln].forward
  OBVIOUS
<1>7. /\ Chained(nodes, root, last, w, s) /\ size = Len(w) /\ size \in Nat
      /\ s \in Seq(Values) /\ Len(s) = size
      /\ p \in 1 .. size /\ ln = w[p] /\ index = p - 1 /\ ln \in DOMAIN nodes
      /\ f = (IF p = size THEN Nil ELSE w[p + 1]) /\ f \in DOMAIN nodes \cup {Nil} /\ (f = Nil <=> p = size)
  BY <1>1, <1>3, <1>6, AtIterator
<1>8. PICK j : j = With(m, Node(f, ln, x))
  OBVIOUS
<1>9. nodes' = Joined(nodes, m, f, ln, x)
  <2>1. nodes' = JoinedForwardFirst(j, m, f, ln)
    BY <1>4, <1>6, <1>8 DEF InsertAfter, JoinedForwardFirst
  <2>2. ln \in DOMAIN nodes \cup {Nil}
    BY <1>7
  <2>3. Joined(nodes, m, f, ln, x) = JoinedForwardFirst(j, m, f, ln)
    BY <1>5, <1>7, <1>8, <2>2, JoinedWith
  <2> QED
    BY <2>1, <2>3
<1>10. PICK q : q = p + 1
  OBVIOUS
<1>11. /\ q \in 1 .. (Len(w) + 1) /\ q # 1 /\ (q = Len(w) + 1 <=> p = size)
       /\ f = AtPlace(w, q) /\ ln = BeforePlace(w, q)
  <2>1. q \in 1 .. (Len(w) + 1) /\ q # 1 /\ (q = Len(w) + 1 <=> p = size) /\ q - 1 = p
    BY <1>7, <1>10
  <2> QED
    BY <1>7, <1>10, <2>1 DEF AtPlace, BeforePlace
<1>12. Chained(nodes', IF q = 1 THEN m ELSE root, IF q = Len(w) + 1 THEN m ELSE last, Put(w, q, m), Put(s, q, x))
  BY <1>5, <1>7, <1>9, <1>11, JoinedIs
<1>13. /\ root' = root /\ last' = (IF p = size THEN m ELSE last) /\ size' = size + 1
       /\ index' = index /\ ln' = ln /\ returned' = returned /\ size < MaxNodes
  BY <1>4, <1>6, <1>7 DEF InsertAfter, Room
<1>14. Len(Put(w, q, m)) = size + 1 /\ Put(w, q, m)[p] = w[p]
  <2>1. p \in 1 .. (Len(w) + 1) /\ p < q
    BY <1>7, <1>10
  <2>2. w \in Seq(1 .. MaxNodes) /\ m \in 1 .. MaxNodes
    BY <1>5, <1>7 DEF Chained
  <2>3. IsPut(Put(w, q, m), 1 .. MaxNodes, w, q, m)
    BY <1>11, <2>2, PutIs
  <2> QED
    BY <1>7, <2>1, <2>3 DEF IsPut
<1>15. Shape(nodes', root', last', size', ln', index', Put(w, q, m), Put(s, q, x), p)
  <2>1. Chained(nodes', root', last', Put(w, q, m), Put(s, q, x))
    BY <1>11, <1>12, <1>13
  <2>2. p \in 0 .. size' /\ p # 0
    BY <1>7, <1>13
  <2> QED
    BY <1>7, <1>13, <1>14, <2>1, <2>2 DEF Shape
<1>16. ListInv' /\ Walk' = Put(s, q, x) /\ PlaceOfIterator' = p
  BY <1>15, SeenNext
<1>17. Cursor!InsertAt(s, p + 1, x) = Put(s, q, x)
  <2>1. q \in 1 .. (Len(s) + 1)
    BY <1>7, <1>11
  <2>2. Cursor!InsertAt(s, q, x) = Put(s, q, x)
    BY <1>7, <2>1, InsertAtIs
  <2> QED
    BY <1>10, <2>2
<1>18. p # 0
  BY <1>7
<1> QED
  BY <1>2, <1>7, <1>13, <1>16, <1>17, <1>18 DEF Cursor!InsertAfter

(* linkednode_search finds the first node with the element. *)
LEMMA SearchIs ==
  ASSUME NEW w, NEW s, NEW p, Now(w, s, p), NEW x
  PROVE  /\ Chained(nodes, root, last, w, s) /\ size = Len(w) /\ s \in Seq(Values) /\ Len(s) = size
         /\ ~Cursor!Contains(s, x) => Search(x) = Nil
         /\ Cursor!Contains(s, x) =>
              \E q \in 1 .. size : FirstAt(s, x, q) /\ Search(x) = w[q] /\ w[q] # Nil
<1> DEFINE found == {k \in 1 .. size : s[k] = x}
<1>1. /\ Chained(nodes, root, last, w, s) /\ size = Len(w) /\ s \in Seq(Values) /\ Len(s) = size
  BY DEF Now, Shape, Chained
<1>2. Walk = s /\ Way = w /\ size \in Nat
  BY Seen
<1>3. Search(x) = IF found = {} THEN Nil ELSE w[CHOOSE k \in found : \A j \in found : k <= j]
  BY <1>2 DEF Search
<1>4. found # {} <=> Cursor!Contains(s, x)
  BY <1>1 DEF Cursor!Contains
<1>5. ASSUME found # {}
      PROVE  \E q \in 1 .. size : FirstAt(s, x, q) /\ Search(x) = w[q] /\ w[q] # Nil
  <2>1. found \subseteq Nat
    OBVIOUS
  <2> DEFINE q == CHOOSE k \in found : \A j \in found : k <= j
  <2>2. q \in found /\ \A j \in found : q <= j
    <3> HIDE DEF found
    <3>1. \E k \in found : \A j \in found : k <= j
      BY <1>5, <2>1, LeastOf
    <3> QED
      BY <3>1
  <2>3. Search(x) = w[q]
    BY <1>3, <1>5
  <2> HIDE DEF q
  <2>4. q \in 1 .. size /\ FirstAt(s, x, q)
    BY <1>1, <2>2 DEF FirstAt
  <2>5. w[q] # Nil
    BY <1>1, <2>4, ChainNodes
  <2> QED
    BY <2>3, <2>4, <2>5
<1> QED
  BY <1>1, <1>3, <1>4, <1>5

LEMMA TakesOutIs ==
  ASSUME NEW w, NEW s, Chained(nodes, root, last, w, s), size = Len(w),
         NEW q \in 1 .. size, TakesOut(w[q])
  PROVE  /\ Chained(nodes', root', last', Cut(w, q), Cut(s, q))
         /\ size' = Len(Cut(w, q)) /\ size' = size - 1 /\ returned' = s[q]
<1>1. nodes' = Unlinked(nodes, w[q])
  BY DEF TakesOut, WithoutNode, Unlinked
<1>2. /\ root' = (IF nodes[w[q]].back = Nil THEN nodes[w[q]].forward ELSE root)
      /\ last' = (IF nodes[w[q]].forward = Nil THEN nodes[w[q]].back ELSE last)
      /\ size' = size - 1 /\ returned' = nodes[w[q]].element
  BY DEF TakesOut
<1>3. Chained(nodes', root', last', Cut(w, q), Cut(s, q))
  BY <1>1, <1>2, UnlinkedIs
<1>4. nodes[w[q]].element = s[q]
  BY ChainNodes
<1>5. w \in Seq(1 .. MaxNodes)
  BY DEF Chained
<1>6. Len(Cut(w, q)) = size - 1
  BY <1>5, CutType
<1> QED
  BY <1>2, <1>3, <1>4, <1>6

LEMMA ListRemove_List ==
  ASSUME ListInv, NEW x \in Values, ListRemove(x)
  PROVE  ListInv' /\ Cursor!RemoveElement(x)
<1>1. PICK w, s, p : Now(w, s, p)
  BY DEF ListInv
<1>2. ln = Nil /\ ln' = Nil /\ index' = index
  BY DEF ListRemove
<1>3. Walk = s /\ PlaceOfIterator = 0 /\ p = 0 /\ size \in Nat
  BY <1>1, <1>2, Seen
<1>4. /\ Chained(nodes, root, last, w, s) /\ size = Len(w) /\ s \in Seq(Values) /\ Len(s) = size
      /\ ~Cursor!Contains(s, x) => Search(x) = Nil
      /\ Cursor!Contains(s, x) =>
           \E q \in 1 .. size : FirstAt(s, x, q) /\ Search(x) = w[q] /\ w[q] # Nil
  BY <1>1, SearchIs
<1>5. CASE ~Cursor!Contains(s, x)
  <2>1. returned' = Nil /\ UNCHANGED <<nodes, root, last, size>>
    BY <1>4, <1>5 DEF ListRemove
  <2>2. Shape(nodes', root', last', size', ln', index', w, s, p)
    BY <1>1, <1>2, <2>1 DEF Now
  <2>3. ListInv' /\ Walk' = s /\ PlaceOfIterator' = 0
    BY <1>3, <2>2, SeenNext
  <2>4. Cursor!RemoveFirst(s, x) = s
    BY <1>4, <1>5, RemoveFirstIs
  <2> QED
    BY <1>3, <1>5, <2>1, <2>3, <2>4 DEF Cursor!RemoveElement
<1>6. CASE Cursor!Contains(s, x)
  <2>1. PICK q \in 1 .. size : FirstAt(s, x, q) /\ Search(x) = w[q] /\ w[q] # Nil
    BY <1>4, <1>6
  <2>2. TakesOut(w[q])
    BY <2>1 DEF ListRemove
  <2>3. /\ Chained(nodes', root', last', Cut(w, q), Cut(s, q))
        /\ size' = Len(Cut(w, q)) /\ size' = size - 1 /\ returned' = s[q]
    BY <1>4, <2>2, TakesOutIs
  <2>4. 0 \in 0 .. size'
    BY <1>3, <2>1, <2>3
  <2>5. Shape(nodes', root', last', size', ln', index', Cut(w, q), Cut(s, q), 0)
    BY <1>2, <2>3, <2>4 DEF Shape
  <2>6. ListInv' /\ Walk' = Cut(s, q) /\ PlaceOfIterator' = 0
    BY <2>5, SeenNext
  <2>7. Cursor!RemoveFirst(s, x) = Cut(s, q) /\ returned' = x
    BY <1>4, <2>1, <2>3, RemoveFirstIs DEF FirstAt
  <2> QED
    BY <1>3, <1>6, <2>6, <2>7 DEF Cursor!RemoveElement
<1> QED
  BY <1>5, <1>6

LEMMA ListRemoveAll_List ==
  ASSUME ListInv, ListRemoveAll
  PROVE  ListInv' /\ Cursor!RemoveAll
<1>1. PICK w, s, p : Now(w, s, p)
  BY DEF ListInv
<1>2. /\ ln = Nil /\ ln' = Nil /\ nodes' = <<>> /\ root' = Nil /\ last' = Nil /\ size' = 0
      /\ returned' = returned
  BY DEF ListRemoveAll
<1>3. PlaceOfIterator = 0
  BY <1>1, <1>2, Seen
<1>4. Shape(nodes', root', last', size', ln', index', <<>>, <<>>, 0)
  <2>1. /\ <<>> \in Seq(1 .. MaxNodes) /\ <<>> \in Seq(Values) /\ Len(<<>>) = 0
        /\ 1 .. 0 = {} /\ DOMAIN <<>> = {}
    BY EmptySeq
  <2>2. Chained(<<>>, Nil, Nil, <<>>, <<>>)
    BY <2>1 DEF Chained
  <2> QED
    BY <1>2, <2>1, <2>2 DEF Shape
<1>5. ListInv' /\ Walk' = <<>> /\ PlaceOfIterator' = 0
  BY <1>4, SeenNext
<1> QED
  BY <1>2, <1>3, <1>5 DEF Cursor!RemoveAll

LEMMA IteratorRemove_List ==
  ASSUME ListInv, IteratorRemove
  PROVE  ListInv' /\ Cursor!RemoveHere
<1>1. PICK w, s, p : Now(w, s, p)
  BY DEF ListInv
<1>2. Walk = s /\ PlaceOfIterator = p /\ (ln = Nil <=> p = 0)
  BY <1>1, Seen
<1>3. CASE ln = Nil
  <2>1. returned' = Nil /\ UNCHANGED <<nodes, root, last, size, ln, index>>
    BY <1>3 DEF IteratorRemove
  <2>2. Shape(nodes', root', last', size', ln', index', w, s, p)
    BY <1>1, <2>1 DEF Now
  <2>3. ListInv' /\ Walk' = s /\ PlaceOfIterator' = p
    BY <2>2, SeenNext
  <2> QED
    BY <1>2, <1>3, <2>1, <2>3 DEF Cursor!RemoveHere, Cursor!Stays
<1>4. CASE ln # Nil
  <2>1. /\ Chained(nodes, root, last, w, s) /\ size = Len(w) /\ size \in Nat
        /\ s \in Seq(Values) /\ Len(s) = size
        /\ p \in 1 .. size /\ ln = w[p] /\ index = p - 1
        /\ nodes[ln].back = (IF p = 1 THEN Nil ELSE w[p - 1])
    BY <1>1, <1>4, AtIterator
  <2>2. TakesOut(w[p]) /\ ln' = nodes[ln].back /\ index' = index - 1
    BY <1>4, <2>1 DEF IteratorRemove
  <2>3. /\ Chained(nodes', root', last', Cut(w, p), Cut(s, p))
        /\ size' = Len(Cut(w, p)) /\ size' = size - 1 /\ returned' = s[p]
    BY <2>1, <2>2, TakesOutIs
  <2>4. p # 1 => Cut(w, p)[p - 1] = w[p - 1]
    <3>1. w \in Seq(1 .. MaxNodes) /\ p \in 1 .. Len(w)
      BY <2>1 DEF Chained
    <3>2. p # 1 => p - 1 \in 1 .. (Len(w) - 1) /\ p - 1 < p
      BY <2>1
    <3> QED
      BY <3>2 DEF Cut
  <2>5. Shape(nodes', root', last', size', ln', index', Cut(w, p), Cut(s, p), p - 1)
    <3>1. p - 1 \in 0 .. size' /\ (p - 1 = 0 <=> p = 1) /\ index' = (p - 1) - 1
      BY <2>1, <2>2, <2>3
    <3>2. IF p - 1 = 0 THEN ln' = Nil ELSE ln' = Cut(w, p)[p - 1] /\ index' = (p - 1) - 1
      BY <2>1, <2>2, <2>4, <3>1
    <3> QED
      BY <2>3, <3>1, <3>2 DEF Shape
  <2>6. ListInv' /\ Walk' = Cut(s, p) /\ PlaceOfIterator' = p - 1
    BY <2>5, SeenNext
  <2>7. Cursor!RemoveAt(s, p) = Cut(s, p)
    <3>1. p \in 1 .. Len(s)
      BY <2>1
    <3> QED
      BY <2>1, <3>1, RemoveAtIs
  <2> QED
    BY <1>2, <1>4, <2>3, <2>6, <2>7 DEF Cursor!RemoveHere
<1> QED
  BY <1>3, <1>4

LEMMA ListGet_List ==
  ASSUME ListInv, NEW x \in Values, ListGet(x)
  PROVE  ListInv' /\ Cursor!GetElement(x)
<1>1. PICK w, s, p : Now(w, s, p)
  BY DEF ListInv
<1>2. Walk = s /\ PlaceOfIterator = p
  BY <1>1, Seen
<1>3. /\ returned' = IF Search(x) = Nil THEN Nil ELSE nodes[Search(x)].element
      /\ UNCHANGED <<nodes, root, last, size, ln, index>>
  BY DEF ListGet
<1>4. Shape(nodes', root', last', size', ln', index', w, s, p)
  BY <1>1, <1>3 DEF Now
<1>5. ListInv' /\ Walk' = s /\ PlaceOfIterator' = p
  BY <1>4, SeenNext
<1>6. /\ Chained(nodes, root, last, w, s) /\ size = Len(w) /\ s \in Seq(Values) /\ Len(s) = size
      /\ ~Cursor!Contains(s, x) => Search(x) = Nil
      /\ Cursor!Contains(s, x) =>
           \E q \in 1 .. size : FirstAt(s, x, q) /\ Search(x) = w[q] /\ w[q] # Nil
  BY <1>1, SearchIs
<1>7. returned' = IF Cursor!Contains(s, x) THEN x ELSE Nil
  <2>1. CASE Cursor!Contains(s, x)
    <3>1. PICK q \in 1 .. size : FirstAt(s, x, q) /\ Search(x) = w[q] /\ w[q] # Nil
      BY <1>6, <2>1
    <3>2. nodes[w[q]].element = s[q]
      BY <1>6, ChainNodes
    <3> QED
      BY <1>3, <2>1, <3>1, <3>2 DEF FirstAt
  <2>2. CASE ~Cursor!Contains(s, x)
    BY <1>3, <1>6, <2>2
  <2> QED
    BY <2>1, <2>2
<1> QED
  BY <1>2, <1>5, <1>7 DEF Cursor!GetElement

(* The iterator moves to place q, or stays.                                *)
LEMMA Moves ==
  ASSUME NEW w, NEW s, NEW p, Now(w, s, p), NEW q \in 1 .. size,
         ln' = w[q], index' = q - 1, returned' = nodes[w[q]].element,
         UNCHANGED <<nodes, root, last, size>>
  PROVE  ListInv' /\ Cursor!StepTo(q)
<1>1. Chained(nodes, root, last, w, s) /\ size = Len(w)
  BY DEF Now, Shape
<1>2. Walk = s /\ size \in Nat
  BY Seen
<1>3. q \in 0 .. size /\ q # 0
  BY <1>2
<1>4. Shape(nodes', root', last', size', ln', index', w, s, q)
  BY <1>1, <1>3 DEF Shape
<1>5. ListInv' /\ Walk' = s /\ PlaceOfIterator' = q
  BY <1>4, SeenNext
<1>6. nodes[w[q]].element = s[q]
  BY <1>1, ChainNodes
<1> QED
  BY <1>2, <1>5, <1>6 DEF Cursor!StepTo

LEMMA StaysPut ==
  ASSUME ListInv, UNCHANGED <<nodes, root, last, size, ln, index>>
  PROVE  ListInv' /\ Walk' = Walk /\ PlaceOfIterator' = PlaceOfIterator
<1>1. PICK w, s, p : Now(w, s, p)
  BY DEF ListInv
<1>2. Shape(nodes', root', last', size', ln', index', w, s, p)
  BY <1>1 DEF Now
<1>3. ListInv' /\ Walk' = s /\ PlaceOfIterator' = p
  BY <1>2, SeenNext
<1> QED
  BY <1>1, <1>3, Seen

LEMMA IteratorNext_List ==
  ASSUME ListInv, IteratorNext
  PROVE  ListInv' /\ Cursor!StepsOn
<1>1. PICK w, s, p : Now(w, s, p)
  BY DEF ListInv
<1>2. Walk = s /\ PlaceOfIterator = p /\ size \in Nat /\ p \in 0 .. size /\ (ln = Nil <=> p = 0)
  BY <1>1, Seen
<1>3. Chained(nodes, root, last, w, s) /\ size = Len(w) /\ Len(s) = size
      /\ root = IF size = 0 THEN Nil ELSE w[1]
  BY <1>1 DEF Now, Shape, Chained
<1>4. PICK q : q = p + 1
  OBVIOUS
<1>5. p < size <=> q \in 1 .. size
  BY <1>2, <1>4
<1>6. /\ p < size => NextNode = w[q] /\ NextNode # Nil
      /\ ~(p < size) => NextNode = Nil
      /\ ln # Nil => index = p - 1
  <2>1. ln = Nil => p = 0 /\ q = 1 /\ (p < size <=> size # 0)
    BY <1>2, <1>4
  <2>2. p < size => w[q] # Nil
    BY <1>3, <1>5, ChainNodes
  <2>3. CASE ln = Nil
    <3>1. NextNode = root
      BY <2>3 DEF NextNode
    <3>2. /\ p < size => NextNode = w[q]
          /\ ~(p < size) => NextNode = Nil
      BY <1>3, <2>1, <2>3, <3>1
    <3> QED
      BY <2>2, <2>3, <3>2
  <2>4. CASE ln # Nil
    <3>1. /\ index = p - 1 /\ p \in 1 .. size
          /\ nodes[ln].forward = (IF p = size THEN Nil ELSE w[p + 1])
      BY <1>1, <2>4, AtIterator
    <3>2. NextNode = nodes[ln].forward
      BY <2>4 DEF NextNode
    <3>3. p < size <=> p # size
      BY <1>2, <3>1
    <3> QED
      BY <1>4, <2>2, <3>1, <3>2, <3>3
  <2> QED
    BY <2>3, <2>4
<1>7. CASE p < size
  <2>1. /\ ln' = w[q] /\ returned' = nodes[w[q]].element
        /\ index' = (IF ln = Nil THEN 0 ELSE index + 1)
        /\ UNCHANGED <<nodes, root, last, size>>
    BY <1>6, <1>7 DEF IteratorNext
  <2>2. index' = q - 1
    BY <1>2, <1>4, <1>6, <2>1
  <2>3. ListInv' /\ Cursor!StepTo(q)
    BY <1>1, <1>5, <1>7, <2>1, <2>2, Moves
  <2> QED
    BY <1>2, <1>3, <1>4, <1>7, <2>3 DEF Cursor!StepsOn
<1>8. CASE ~(p < size)
  <2>1. returned' = Nil /\ UNCHANGED <<nodes, root, last, size, ln, index>>
    BY <1>6, <1>8 DEF IteratorNext
  <2>2. ListInv' /\ Walk' = Walk /\ PlaceOfIterator' = PlaceOfIterator
    BY <2>1, StaysPut
  <2> QED
    BY <1>2, <1>3, <1>8, <2>1, <2>2 DEF Cursor!StepsOn, Cursor!Stays
<1> QED
  BY <1>7, <1>8

LEMMA IteratorPrevious_List ==
  ASSUME ListInv, IteratorPrevious
  PROVE  ListInv' /\ Cursor!StepsBack
<1>1. PICK w, s, p : Now(w, s, p)
  BY DEF ListInv
<1>2. Walk = s /\ PlaceOfIterator = p /\ size \in Nat /\ p \in 0 .. size /\ (ln = Nil <=> p = 0)
  BY <1>1, Seen
<1>3. Chained(nodes, root, last, w, s) /\ size = Len(w) /\ s \in Seq(Values) /\ Len(s) = size
      /\ (size = 0 => root = Nil) /\ (size # 0 => last = w[size])
  BY <1>1 DEF Now, Shape, Chained
<1>4. PICK to : to = IF ln = Nil THEN last ELSE nodes[ln].back
  OBVIOUS
<1>5. /\ root # Nil
      /\ IF to = Nil
           THEN returned' = Nil /\ UNCHANGED <<ln, index>>
           ELSE /\ ln' = to
                /\ index' = IF ln = Nil THEN size - 1 ELSE index - 1
                /\ returned' = nodes[to].element
      /\ UNCHANGED <<nodes, root, last, size>>
  BY <1>4 DEF IteratorPrevious
<1>6. size \in 1 .. size /\ s # <<>>
  <2>1. size # 0
    BY <1>3, <1>5
  <2> QED
    BY <1>2, <1>3, <2>1
<1>7. CASE ln = Nil
  <2>1. to = w[size] /\ to # Nil /\ p = 0
    <3>1. size # 0
      BY <1>6
    <3> QED
      BY <1>2, <1>3, <1>4, <1>6, <1>7, <3>1, ChainNodes
  <2>2. ListInv' /\ Cursor!StepTo(size)
    BY <1>1, <1>5, <1>6, <1>7, <2>1, Moves
  <2> QED
    BY <1>2, <1>3, <1>6, <2>1, <2>2 DEF Cursor!StepsBack
<1>8. CASE ln # Nil
  <2>1. /\ p \in 1 .. size /\ index = p - 1
        /\ to = (IF p = 1 THEN Nil ELSE w[p - 1]) /\ (to = Nil <=> p = 1)
    BY <1>1, <1>4, <1>8, AtIterator
  <2>2. CASE p = 1
    <3>1. returned' = Nil /\ UNCHANGED <<nodes, root, last, size, ln, index>>
      BY <1>5, <2>1, <2>2
    <3>2. ListInv' /\ Walk' = Walk /\ PlaceOfIterator' = PlaceOfIterator
      BY <3>1, StaysPut
    <3> QED
      BY <1>2, <1>6, <2>2, <3>1, <3>2 DEF Cursor!StepsBack, Cursor!Stays
  <2>3. CASE p # 1
    <3>1. p - 1 \in 1 .. size /\ p > 1 /\ p # 0 /\ index - 1 = (p - 1) - 1
      BY <1>2, <2>1, <2>3
    <3>2. /\ ln' = w[p - 1] /\ index' = (p - 1) - 1 /\ returned' = nodes[w[p - 1]].element
          /\ UNCHANGED <<nodes, root, last, size>>
      BY <1>5, <1>8, <2>1, <2>3, <3>1
    <3>3. ListInv' /\ Cursor!StepTo(p - 1)
      BY <1>1, <3>1, <3>2, Moves
    <3> QED
      BY <1>2, <1>6, <3>1, <3>3 DEF Cursor!StepsBack
  <2> QED
    BY <2>2, <2>3
<1> QED
  BY <1>7, <1>8

LEMMA IteratorCurrent_List ==
  ASSUME ListInv, IteratorCurrent
  PROVE  ListInv' /\ Cursor!Current
<1>1. PICK w, s, p : Now(w, s, p)
  BY DEF ListInv
<1>2. Walk = s /\ PlaceOfIterator = p /\ (ln = Nil <=> p = 0)
  BY <1>1, Seen
<1>3. /\ returned' = IF ln = Nil THEN Nil ELSE nodes[ln].element
      /\ UNCHANGED <<nodes, root, last, size, ln, index>>
  BY DEF IteratorCurrent
<1>4. ListInv' /\ Walk' = Walk /\ PlaceOfIterator' = PlaceOfIterator
  BY <1>3, StaysPut
<1>5. ln # Nil => nodes[ln].element = s[p]
  BY <1>1, AtIterator
<1> QED
  BY <1>2, <1>3, <1>4, <1>5 DEF Cursor!Current, Cursor!There

LEMMA IteratorReset_List ==
  ASSUME ListInv, IteratorReset
  PROVE  ListInv' /\ Cursor!Reset
<1>1. PICK w, s, p : Now(w, s, p)
  BY DEF ListInv
<1>2. Walk = s /\ size \in Nat
  BY <1>1, Seen
<1>3. ln' = Nil /\ UNCHANGED <<nodes, root, last, size, index, returned>>
  BY DEF IteratorReset
<1>4. Shape(nodes', root', last', size', ln', index', w, s, 0)
  BY <1>1, <1>2, <1>3 DEF Now, Shape
<1>5. ListInv' /\ Walk' = s /\ PlaceOfIterator' = 0
  BY <1>4, SeenNext
<1> QED
  BY <1>2, <1>3, <1>5 DEF Cursor!Reset

-----------------------------------------------------------------------------
LEMMA ListNext_Inv ==
  ASSUME ListInv, [ListNext]_listVars
  PROVE  ListInv' /\ [Cursor!Next]_<<Walk, PlaceOfIterator, returned>>
<1>1. ASSUME NEW x \in Values, ListAppend(x) PROVE ListInv' /\ Cursor!Next
  <2>1. ListInv' /\ Cursor!Appends(x)
    BY <1>1, ListAppend_List
  <2> QED
    BY <2>1 DEF Cursor!Next
<1>2. ASSUME NEW x \in Values, ListRemove(x) PROVE ListInv' /\ Cursor!Next
  <2>1. ListInv' /\ Cursor!RemoveElement(x)
    BY <1>2, ListRemove_List
  <2> QED
    BY <2>1 DEF Cursor!Next
<1>3. ASSUME NEW x \in Values, ListGet(x) PROVE ListInv' /\ Cursor!Next
  <2>1. ListInv' /\ Cursor!GetElement(x)
    BY <1>3, ListGet_List
  <2> QED
    BY <2>1 DEF Cursor!Next
<1>4. ASSUME NEW x \in Values, InsertBefore(x) PROVE ListInv' /\ Cursor!Next
  <2>1. ListInv' /\ Cursor!InsertBefore(x)
    BY <1>4, InsertBefore_List
  <2> QED
    BY <2>1 DEF Cursor!Next
<1>5. ASSUME NEW x \in Values, InsertAfter(x) PROVE ListInv' /\ Cursor!Next
  <2>1. ListInv' /\ Cursor!InsertAfter(x)
    BY <1>5, InsertAfter_List
  <2> QED
    BY <2>1 DEF Cursor!Next
<1>6. CASE ListRemoveAll
  BY <1>6, ListRemoveAll_List DEF Cursor!Next
<1>7. CASE IteratorNext
  BY <1>7, IteratorNext_List DEF Cursor!Next
<1>8. CASE IteratorPrevious
  BY <1>8, IteratorPrevious_List DEF Cursor!Next
<1>9. CASE IteratorCurrent
  BY <1>9, IteratorCurrent_List DEF Cursor!Next
<1>10. CASE IteratorReset
  BY <1>10, IteratorReset_List DEF Cursor!Next
<1>11. CASE IteratorRemove
  BY <1>11, IteratorRemove_List DEF Cursor!Next
<1>12. CASE UNCHANGED listVars
  <2>1. UNCHANGED <<nodes, root, last, size, ln, index>> /\ returned' = returned
    BY <1>12 DEF listVars
  <2>2. ListInv' /\ Walk' = Walk /\ PlaceOfIterator' = PlaceOfIterator
    BY <2>1, StaysPut
  <2> QED
    BY <2>1, <2>2
<1> QED
  BY <1>1, <1>2, <1>3, <1>4, <1>5, <1>6, <1>7, <1>8, <1>9, <1>10, <1>11, <1>12 DEF ListNext

(* The list is the same from either end, ends where its size says and      *)
(* holds every node in use, and the iterator stands on one of them at its  *)
(* index, after any sequence of the calls of LinkedList.c: unlinking at    *)
(* either end and joining at the iterator fix all four pointers.           *)
THEOREM ListWellLinked == ListSpec => []WellLinked
<1>1. ListInit => ListInv
  BY Init_List
<1>2. ListInv /\ [ListNext]_listVars => ListInv'
  BY ListNext_Inv
<1>3. ListInv => WellLinked
  BY InvWellLinked
<1> QED
  BY <1>1, <1>2, <1>3, PTL DEF ListSpec

(* LinkedList.c is the list of LinkedList.h: each call does to the         *)
(* sequence of elements and the place of the iterator in it what CursorList *)
(* says, and returns that, for lists of every length.                      *)
THEOREM ListImplementsCursor == ListSpec => ImplementsCursor
<1>1. ListInit => ListInv /\ Cursor!Init
  BY Init_List
<1>2. ListInv /\ [ListNext]_listVars => ListInv' /\ [Cursor!Next]_<<Walk, PlaceOfIterator, returned>>
  BY ListNext_Inv
<1> QED
  BY <1>1, <1>2, PTL DEF ListSpec, ImplementsCursor, Cursor!Spec
=============================================================================
