------------------------------ MODULE ClientProofs ------------------------------
(***************************************************************************)
(* Client: what queues, tables and files hold, and that no chunk of a file *)
(* being downloaded is forgotten, with any number of clients that come and *)
(* go; and, while none does, that jobs and chunks stay with their download *)
(* and that clients report their own users' edits only.                    *)
(***************************************************************************)
EXTENDS Client, Induction, SequenceTheorems, FiniteSetTheorems, TLAPS

-----------------------------------------------------------------------------
(* Sequences and their elements *)

LEMMA ElementsIn ==
  ASSUME NEW S, NEW s \in Seq(S)
  PROVE  /\ Elements(s) \subseteq S /\ DOMAIN s = 1 .. Len(s) /\ Len(s) \in Nat
         /\ \A i \in DOMAIN s : s[i] \in Elements(s)
BY LenProperties, ElementOfSeq DEF Elements

LEMMA ElementsEmpty == <<>> \in Seq({}) /\ Elements(<<>>) = {} /\ \A S : <<>> \in Seq(S)
BY EmptySeq DEF Elements

LEMMA ElementsAppend ==
  ASSUME NEW S, NEW s \in Seq(S), NEW e \in S
  PROVE  Append(s, e) \in Seq(S) /\ Elements(Append(s, e)) = Elements(s) \cup {e}
<1>1. /\ Append(s, e) \in Seq(S) /\ Len(Append(s, e)) = Len(s) + 1
      /\ \A i \in 1 .. Len(s) : Append(s, e)[i] = s[i]
      /\ Append(s, e)[Len(s) + 1] = e
  BY AppendProperties
<1>2. /\ Len(s) \in Nat /\ DOMAIN s = 1 .. Len(s)
      /\ DOMAIN Append(s, e) = (1 .. Len(s)) \cup {Len(s) + 1}
  BY <1>1, LenProperties
<1> QED
  BY <1>1, <1>2 DEF Elements

LEMMA ElementsTail ==
  ASSUME NEW S, NEW s \in Seq(S), s # <<>>
  PROVE  /\ Head(s) \in Elements(s) /\ Head(s) \in S /\ Tail(s) \in Seq(S)
         /\ Len(Tail(s)) = Len(s) - 1 /\ \A i \in 1 .. Len(Tail(s)) : Tail(s)[i] = s[i + 1]
         /\ Head(s) = s[1]
         /\ Elements(s) = {Head(s)} \cup Elements(Tail(s))
<1>1. /\ Head(s) \in S /\ Tail(s) \in Seq(S) /\ Len(Tail(s)) = Len(s) - 1
      /\ \A i \in 1 .. Len(Tail(s)) : Tail(s)[i] = s[i + 1]
  BY HeadTailProperties
<1>2. Len(s) \in Nat /\ Len(s) > 0 /\ DOMAIN s = 1 .. Len(s) /\ DOMAIN Tail(s) = 1 .. (Len(s) - 1)
  BY <1>1, LenProperties, EmptySeq
<1>3. Head(s) = s[1]
  OBVIOUS
<1>4. \A i \in 1 .. Len(s) : i = 1 \/ (i - 1 \in 1 .. (Len(s) - 1) /\ (i - 1) + 1 = i)
  BY <1>2
<1>5. \A i \in 1 .. (Len(s) - 1) : i + 1 \in 1 .. Len(s)
  BY <1>2
<1>6. Elements(s) \subseteq {Head(s)} \cup Elements(Tail(s))
  <2> SUFFICES ASSUME NEW i \in 1 .. Len(s), i # 1 PROVE s[i] \in Elements(Tail(s))
    BY <1>2, <1>3 DEF Elements
  <2>1. i - 1 \in 1 .. (Len(s) - 1) /\ (i - 1) + 1 = i
    BY <1>4
  <2>2. Tail(s)[i - 1] = s[i]
    BY <1>1, <2>1
  <2> QED
    BY <1>2, <2>1, <2>2 DEF Elements
<1>7. {Head(s)} \cup Elements(Tail(s)) \subseteq Elements(s)
  BY <1>1, <1>2, <1>3, <1>5 DEF Elements
<1> QED
  BY <1>1, <1>2, <1>3, <1>6, <1>7 DEF Elements

LEMMA ElementsConcat ==
  ASSUME NEW S, NEW s \in Seq(S), NEW t \in Seq(S)
  PROVE  s \o t \in Seq(S) /\ Elements(s \o t) = Elements(s) \cup Elements(t)
<1>1. /\ s \o t \in Seq(S) /\ Len(s \o t) = Len(s) + Len(t)
      /\ \A i \in 1 .. Len(s) + Len(t) : (s \o t)[i] = IF i <= Len(s) THEN s[i] ELSE t[i - Len(s)]
  BY ConcatProperties
<1>2. /\ Len(s) \in Nat /\ Len(t) \in Nat /\ DOMAIN s = 1 .. Len(s) /\ DOMAIN t = 1 .. Len(t)
      /\ DOMAIN (s \o t) = 1 .. Len(s) + Len(t)
  BY <1>1, LenProperties
<1>3. \A i \in 1 .. Len(s) : i \in 1 .. Len(s) + Len(t) /\ (s \o t)[i] = s[i]
  BY <1>1, <1>2
<1>4. \A i \in 1 .. Len(t) : i + Len(s) \in 1 .. Len(s) + Len(t) /\ (s \o t)[i + Len(s)] = t[i]
  <2> TAKE i \in 1 .. Len(t)
  <2>1. /\ i + Len(s) \in 1 .. Len(s) + Len(t) /\ ~ (i + Len(s) <= Len(s))
        /\ (i + Len(s)) - Len(s) = i
    BY <1>2
  <2> QED
    BY <1>1, <2>1
<1>5. Elements(s \o t) \subseteq Elements(s) \cup Elements(t)
  <2> SUFFICES ASSUME NEW i \in 1 .. Len(s) + Len(t)
               PROVE  (s \o t)[i] \in Elements(s) \cup Elements(t)
    BY <1>2 DEF Elements
  <2>1. CASE i <= Len(s)
    <3>1. i \in 1 .. Len(s)
      BY <1>2, <2>1
    <3> QED
      BY <1>2, <1>3, <3>1 DEF Elements
  <2>2. CASE ~ (i <= Len(s))
    <3>1. i - Len(s) \in 1 .. Len(t)
      BY <1>2, <2>2
    <3> QED
      BY <1>1, <1>2, <2>2, <3>1 DEF Elements
  <2> QED
    BY <2>1, <2>2
<1>6. Elements(s) \cup Elements(t) \subseteq Elements(s \o t)
  BY <1>2, <1>3, <1>4 DEF Elements
<1> QED
  BY <1>1, <1>5, <1>6

(* The outstanding requests without one of them. *)
LEMMA FirstGoneIs ==
  ASSUME NEW S, NEW q \in Seq(S), NEW id \in Elements(q)
  PROVE  /\ FirstGone(q, id) \in Seq(S) /\ Len(FirstGone(q, id)) = Len(q) - 1
         /\ Elements(FirstGone(q, id)) \subseteq Elements(q)
         /\ Elements(q) \subseteq Elements(FirstGone(q, id)) \cup {id}
         /\ (\A i, j \in DOMAIN q : q[i] = q[j] => i = j) =>
              /\ id \notin Elements(FirstGone(q, id))
              /\ \A i, j \in DOMAIN FirstGone(q, id) :
                   FirstGone(q, id)[i] = FirstGone(q, id)[j] => i = j
<1> DEFINE First(i) == q[i] = id /\ \A j \in 1 .. (i - 1) : q[j] # id
           k == CHOOSE i \in DOMAIN q : First(i)
           r == FirstGone(q, id)
<1>1. DOMAIN q = 1 .. Len(q) /\ Len(q) \in Nat /\ \A i \in 1 .. Len(q) : q[i] \in S
  BY LenProperties, ElementOfSeq
<1>2. \E i \in DOMAIN q : First(i)
  <2> DEFINE T == {i \in 1 .. Len(q) : q[i] = id}
  <2>1. T # {} /\ T \subseteq Nat
    BY <1>1 DEF Elements
  <2>2. PICK i \in T : \A j \in T : i <= j
    BY <2>1, LeastOf
  <2>3. i \in 1 .. Len(q) /\ q[i] = id
    OBVIOUS
  <2>4. ASSUME NEW j \in 1 .. (i - 1) PROVE q[j] # id
    <3>1. j \in 1 .. Len(q) /\ ~ (i <= j)
      BY <1>1, <2>3
    <3> QED
      BY <2>2, <3>1
  <2> QED
    BY <1>1, <2>3, <2>4
<1>3. k \in 1 .. Len(q) /\ q[k] = id
  BY <1>1, <1>2
<1>4. r = [i \in 1 .. (Len(q) - 1) |-> IF i < k THEN q[i] ELSE q[i + 1]]
  BY DEF FirstGone
<1> HIDE DEF k, r
<1>5. \A i \in 1 .. (Len(q) - 1) : i \in 1 .. Len(q) /\ i + 1 \in 1 .. Len(q)
  BY <1>1
<1>6. r \in [1 .. (Len(q) - 1) -> S] /\ Len(q) - 1 \in Nat
  BY <1>1, <1>3, <1>4, <1>5
<1>7. r \in Seq(S) /\ Len(r) = Len(q) - 1 /\ DOMAIN r = 1 .. (Len(q) - 1)
  BY <1>6
<1>8. Elements(r) \subseteq Elements(q)
  BY <1>1, <1>4, <1>5, <1>7 DEF Elements
<1>9. Elements(q) \subseteq Elements(r) \cup {id}
  <2> SUFFICES ASSUME NEW i \in 1 .. Len(q), i # k PROVE q[i] \in Elements(r)
    BY <1>1, <1>3 DEF Elements
  <2>1. CASE i < k
    <3>1. i \in 1 .. (Len(q) - 1)
      BY <1>1, <1>3, <2>1
    <3> QED
      BY <1>4, <1>7, <2>1, <3>1 DEF Elements
  <2>2. CASE ~ (i < k)
    <3>1. i - 1 \in 1 .. (Len(q) - 1) /\ ~ (i - 1 < k) /\ (i - 1) + 1 = i
      BY <1>1, <1>3, <2>2
    <3>2. r[i - 1] = q[i]
      BY <1>4, <3>1
    <3> QED
      BY <1>7, <3>1, <3>2 DEF Elements
  <2> QED
    BY <2>1, <2>2
<1>10. ASSUME \A i, j \in DOMAIN q : q[i] = q[j] => i = j
       PROVE  /\ id \notin Elements(r)
              /\ \A i, j \in DOMAIN r : r[i] = r[j] => i = j
  <2> DEFINE At(i) == IF i < k THEN i ELSE i + 1
  <2>1. \A i \in 1 .. (Len(q) - 1) : At(i) \in 1 .. Len(q) /\ At(i) # k /\ r[i] = q[At(i)]
    BY <1>1, <1>3, <1>4, <1>5
  <2>2. \A i, j \in 1 .. (Len(q) - 1) : At(i) = At(j) => i = j
    BY <1>1, <1>3
  <2> HIDE DEF At
  <2>3. id \notin Elements(r)
    BY <1>1, <1>3, <1>7, <1>10, <2>1 DEF Elements
  <2>4. ASSUME NEW i \in DOMAIN r, NEW j \in DOMAIN r, r[i] = r[j] PROVE i = j
    BY <1>1, <1>7, <1>10, <2>1, <2>2, <2>4
  <2> QED
    BY <2>3, <2>4
<1> QED
  BY <1>7, <1>8, <1>9, <1>10 DEF r

(* A cycle reaches everything. *)
LEMMA CyclesSurjective ==
  ASSUME NEW n \in Nat, NEW f \in Cycles(n)
  PROVE  f \in [1 .. n -> 1 .. n] /\ \A j \in 1 .. n : \E i \in 1 .. n : f[i] = j
<1> DEFINE R == {f[i] : i \in 1 .. n}
<1>1. /\ f \in [1 .. n -> 1 .. n]
      /\ \A S \in (SUBSET (1 .. n)) \ {{}, 1 .. n} : \E i \in S : f[i] \notin S
  BY DEF Cycles
<1>2. R \in SUBSET (1 .. n) /\ \A i \in R : f[i] \in R
  BY <1>1
<1>3. R \in {{}, 1 .. n}
  BY <1>1, <1>2
<1>4. R = 1 .. n
  <2>1. CASE n = 0
    BY <1>2, <2>1
  <2>2. CASE n # 0
    <3>1. 1 \in 1 .. n
      BY <2>2
    <3>2. f[1] \in R
      BY <3>1
    <3> QED
      BY <1>3, <3>2
  <2> QED
    BY <2>1, <2>2
<1> QED
  BY <1>1, <1>4

LEMMA ShufflesAre ==
  ASSUME NEW S, NEW q \in Seq(S), NEW s \in Shuffles(q)
  PROVE  s \in Seq(S) /\ Len(s) = Len(q) /\ Elements(s) = Elements(q)
<1>1. Len(q) \in Nat /\ DOMAIN q = 1 .. Len(q) /\ \A i \in 1 .. Len(q) : q[i] \in S
  BY LenProperties, ElementOfSeq
<1>2. PICK f \in Cycles(Len(q)) : s = [i \in DOMAIN q |-> q[f[i]]]
  BY DEF Shuffles
<1>3. /\ f \in [1 .. Len(q) -> 1 .. Len(q)]
      /\ \A j \in 1 .. Len(q) : \E i \in 1 .. Len(q) : f[i] = j
  BY <1>1, CyclesSurjective
<1>4. s \in [1 .. Len(q) -> S]
  BY <1>1, <1>2, <1>3
<1>5. s \in Seq(S) /\ Len(s) = Len(q) /\ DOMAIN s = 1 .. Len(q)
  BY <1>1, <1>4
<1>6. Elements(s) = Elements(q)
  BY <1>1, <1>2, <1>3, <1>5 DEF Elements
<1> QED
  BY <1>5, <1>6

LEMMA ChunksType ==
  ASSUME NEW v \in Versions
  PROVE  ChunksOf[v] \in Nat /\ Chunks(v) \subseteq Nat /\ v \in Nat /\ v # 0
BY FileTableAssumption, FileSystemAssumption DEF Chunks, Versions

LEMMA AllChunksAre ==
  ASSUME NEW v \in Versions
  PROVE  /\ AllChunks(v) \in Seq(Nat) /\ Elements(AllChunks(v)) = Chunks(v)
         /\ DOMAIN AllChunks(v) = 1 .. ChunksOf[v] /\ \A i \in 1 .. ChunksOf[v] : AllChunks(v)[i] = i - 1
<1>1. ChunksOf[v] \in Nat
  BY ChunksType
<1>2. /\ AllChunks(v) = [i \in 1 .. ChunksOf[v] |-> i - 1]
      /\ AllChunks(v) \in [1 .. ChunksOf[v] -> Nat]
  BY <1>1 DEF AllChunks
<1>3. AllChunks(v) \in Seq(Nat)
  BY <1>1, <1>2
<1>4. \A i \in Chunks(v) : i + 1 \in 1 .. ChunksOf[v] /\ (i + 1) - 1 = i
  BY <1>1 DEF Chunks
<1>5. \A i \in 1 .. ChunksOf[v] : i - 1 \in Chunks(v)
  BY <1>1 DEF Chunks
<1> QED
  BY <1>2, <1>3, <1>4, <1>5 DEF Elements

(* Whatever the order and number of the versions listed, the work queue of *)
(* a path has the chunks of the latest.                                    *)
LEMMA EnqueuedAre ==
  ASSUME NEW q \in Seq(Nat), NEW versions \in Seq(Versions), versions # <<>>,
         NEW w \in Enqueued(q, versions)
  PROVE  /\ Latest(versions) \in Versions
         /\ w \in Seq(Nat) /\ Chunks(Latest(versions)) \subseteq Elements(w)
<1> DEFINE N == Len(versions)
           Longer(A, n) == UNION {Shuffles(v \o AllChunks(versions[n])) : v \in A}
           After == CHOOSE After : After =
             [n \in 0 .. Len(versions) |->
                IF n = 0 THEN {q}
                ELSE UNION {Shuffles(v \o AllChunks(versions[n])) : v \in After[n - 1]}]
           S == SUBSET Seq(Nat)
           D == [A \in S |-> [n \in 1 .. N |-> Longer(A, n)]]
<1>1. N \in Nat /\ N # 0 /\ \A n \in 1 .. N : versions[n] \in Versions
  BY EmptySeq, LenProperties, ElementOfSeq
<1>2. ASSUME NEW A \in S, NEW n \in 1 .. N
      PROVE  Longer(A, n) \in S
  <2> SUFFICES ASSUME NEW v \in A, NEW x \in Shuffles(v \o AllChunks(versions[n]))
               PROVE  x \in Seq(Nat)
    OBVIOUS
  <2>1. v \in Seq(Nat) /\ AllChunks(versions[n]) \in Seq(Nat)
    BY <1>1, AllChunksAre
  <2>2. v \o AllChunks(versions[n]) \in Seq(Nat)
    BY <2>1, ElementsConcat
  <2> QED
    BY <2>2, ShufflesAre
<1> HIDE DEF Longer, S
<1>3. D \in [S -> [1 .. N -> S]] /\ {q} \in S
  BY <1>2 DEF S
<1>4. PICK f \in [0 .. N -> S] : f[0] = {q} /\ \A n \in 1 .. N : f[n] = D[f[n - 1]][n]
  <2> HIDE DEF D, N
  <2>1. PICK f : Iterates(f, S, {q}, N, D)
    BY <1>1, <1>3, Recursion
  <2> QED
    BY <2>1 DEF Iterates
<1>5. ASSUME NEW n \in 1 .. N
      PROVE  f[n] = Longer(f[n - 1], n)
  <2>1. n - 1 \in 0 .. N
    BY <1>1
  <2> QED
    BY <1>4, <2>1
<1>6. f = [n \in 0 .. Len(versions) |->
             IF n = 0 THEN {q}
             ELSE UNION {Shuffles(v \o AllChunks(versions[n])) : v \in f[n - 1]}]
  <2>1. \A n \in 0 .. N : n = 0 \/ n \in 1 .. N
    BY <1>1
  <2> QED
    BY <1>4, <1>5, <2>1 DEF Longer
<1>7. After = [n \in 0 .. Len(versions) |->
                 IF n = 0 THEN {q}
                 ELSE UNION {Shuffles(v \o AllChunks(versions[n])) : v \in After[n - 1]}]
  BY <1>6
<1>8. Enqueued(q, versions) = After[N]
  BY DEF Enqueued
<1> HIDE DEF After, N
<1>9. After[0] = {q} /\ \A n \in 1 .. N : After[n] = Longer(After[n - 1], n)
  <2>1. 0 \in 0 .. Len(versions) /\ \A n \in 1 .. N : n \in 0 .. Len(versions) /\ n # 0
    BY <1>1 DEF N
  <2> QED
    BY <1>7, <2>1 DEF Longer
<1> DEFINE T == {n \in 0 .. N : After[n] \notin S}
<1>10. T = {}
  <2> SUFFICES ASSUME T # {} PROVE FALSE
    OBVIOUS
  <2>1. T \subseteq Nat
    BY <1>1
  <2>2. PICK n \in T : \A m \in T : n <= m
    BY <2>1, LeastOf
  <2>3. n # 0
    BY <1>3, <1>9
  <2>4. n \in 1 .. N /\ n - 1 \in 0 .. N /\ ~ (n <= n - 1)
    BY <1>1, <2>3
  <2>5. After[n - 1] \in S
    BY <2>2, <2>4
  <2> QED
    BY <1>2, <1>9, <2>4, <2>5
<1>11. N \in 1 .. N /\ N - 1 \in 0 .. N
  BY <1>1
<1>12. w \in Longer(After[N - 1], N) /\ After[N - 1] \in S
  BY <1>8, <1>9, <1>10, <1>11
<1>13. PICK v \in Seq(Nat) : w \in Shuffles(v \o AllChunks(versions[N]))
  BY <1>12 DEF Longer, S
<1>14. Latest(versions) = versions[N] /\ versions[N] \in Versions
  BY <1>1, <1>11 DEF Latest, N
<1>15. /\ AllChunks(versions[N]) \in Seq(Nat)
       /\ Elements(AllChunks(versions[N])) = Chunks(versions[N])
  BY <1>14, AllChunksAre
<1>16. /\ v \o AllChunks(versions[N]) \in Seq(Nat)
       /\ Elements(v \o AllChunks(versions[N])) = Elements(v) \cup Elements(AllChunks(versions[N]))
  BY <1>15, ElementsConcat
<1>17. w \in Seq(Nat) /\ Elements(w) = Elements(v \o AllChunks(versions[N]))
  BY <1>13, <1>16, ShufflesAre
<1> QED
  BY <1>14, <1>15, <1>16, <1>17

-----------------------------------------------------------------------------
(* Partial functions *)

Partial(P, S) == UNION {[D -> S] : D \in SUBSET P}

LEMMA PartialIs ==
  ASSUME NEW P, NEW S, NEW f \in Partial(P, S)
  PROVE  DOMAIN f \subseteq P /\ f \in [DOMAIN f -> S] /\ \A x \in DOMAIN f : f[x] \in S
BY DEF Partial

LEMMA PartialMade ==
  ASSUME NEW P, NEW S, NEW D \in SUBSET P, NEW f \in [D -> S]
  PROVE  f \in Partial(P, S)
BY DEF Partial

LEMMA PartialMore ==
  ASSUME NEW P, NEW Q, NEW S, NEW T, P \subseteq Q, S \subseteq T
  PROVE  Partial(P, S) \subseteq Partial(Q, T)
<1> SUFFICES ASSUME NEW f \in Partial(P, S) PROVE f \in Partial(Q, T)
  OBVIOUS
<1>1. DOMAIN f \in SUBSET Q /\ f \in [DOMAIN f -> T]
  BY PartialIs
<1> QED
  BY <1>1, PartialMade

LEMMA PartialWithout ==
  ASSUME NEW P, NEW S, NEW f \in Partial(P, S), NEW D
  PROVE  /\ Without(f, D) \in Partial(P, S) /\ DOMAIN Without(f, D) = DOMAIN f \ D
         /\ \A x \in DOMAIN f \ D : Without(f, D)[x] = f[x]
<1>1. DOMAIN f \ D \in SUBSET P /\ Without(f, D) \in [DOMAIN f \ D -> S]
  BY PartialIs DEF Without
<1>2. Without(f, D) \in Partial(P, S)
  BY <1>1, PartialMade
<1> QED
  BY <1>2 DEF Without

LEMMA PartialWith ==
  ASSUME NEW P, NEW S, NEW f \in Partial(P, S), NEW g \in Partial(P, S)
  PROVE  /\ With(f, g) \in Partial(P, S) /\ DOMAIN With(f, g) = DOMAIN f \cup DOMAIN g
         /\ \A x \in DOMAIN f \cup DOMAIN g : With(f, g)[x] = IF x \in DOMAIN g THEN g[x] ELSE f[x]
<1>1. /\ DOMAIN f \cup DOMAIN g \in SUBSET P
      /\ With(f, g) \in [DOMAIN f \cup DOMAIN g -> S]
  BY PartialIs DEF With
<1>2. With(f, g) \in Partial(P, S)
  BY <1>1, PartialMade
<1> QED
  BY <1>2 DEF With

LEMMA PartialExcept ==
  ASSUME NEW P, NEW S, NEW f \in Partial(P, S), NEW x, NEW v \in S
  PROVE  /\ [f EXCEPT ![x] = v] \in Partial(P, S) /\ DOMAIN [f EXCEPT ![x] = v] = DOMAIN f
         /\ \A y \in DOMAIN f : [f EXCEPT ![x] = v][y] = IF y = x THEN v ELSE f[y]
<1>1. DOMAIN f \in SUBSET P /\ [f EXCEPT ![x] = v] \in [DOMAIN f -> S]
  BY PartialIs
<1>2. [f EXCEPT ![x] = v] \in Partial(P, S)
  BY <1>1, PartialMade
<1> QED
  BY <1>2

LEMMA SeqMore ==
  ASSUME NEW S, NEW T, S \subseteq T
  PROVE  Seq(S) \subseteq Seq(T)
BY SeqMonotonic

-----------------------------------------------------------------------------
(* What a client's directory and logic thread hold. *)

Images == SUBSET Stored
OnDisk == {f \in [ver : Versions, data : Partial(Nat, Int)] : DOMAIN f.data = Chunks(f.ver)}
Downloads ==
  {f \in [ver : Versions, data : Partial(Nat, Int), written : SUBSET Nat, path : BOOLEAN] :
     DOMAIN f.data = Chunks(f.ver) /\ f.written \subseteq DOMAIN f.data}
Job == [path : Files, chunk : Nat, ver : Nat]
Drawn(jobs, p) == {id \in DOMAIN jobs : jobs[id].path = p}
LogicPhases == {"del", "req", "chunk", "acq", "diff", "mst", "work", "scan"}

(* Nobody takes itself for an owner: own chunks have owner 0, and the      *)
(* tracker tells everybody but the sender.                                 *)
OwnerTables(Q) == Partial(Files, Partial(Nat, SUBSET Q))
Others(c) == (Peers \cup {0}) \ {c}

(* An entry of the file table: its outstanding requests are those of jobs  *)
(* for its path, and every chunk missing waits or is asked for.            *)
Distinct(q) == \A i, j \in DOMAIN q : q[i] = q[j] => i = j
Missing(f) == DOMAIN f.data \ f.written
Awaited(e, jobs, i) == i \in Elements(e.work) \/ \E id \in Elements(e.out) : jobs[id].chunk = i
EntryRecords == [work : Seq(Nat), out : Seq(Nat), file : Downloads \cup {NoFile}]
Fits(e, p, jobs) ==
  /\ e \in EntryRecords
  /\ e.out \in Seq(Drawn(jobs, p)) /\ Distinct(e.out) /\ Len(e.out) <= MaxPending
  /\ e.file.path => \A i \in Missing(e.file) : Awaited(e, jobs, i)

NodeRecords(c) ==
  [disk : Partial(Files, OnDisk), cur : Images, prev : Seq(Images),
   owners : OwnerTables(Others(c)), entry : Partial(Files, EntryRecords),
   jobs : Seq(Job), phase : LogicPhases]
Nodes(c) ==
  {s \in NodeRecords(c) : /\ DOMAIN s.owners = DOMAIN s.entry
                          /\ \A p \in DOMAIN s.entry : Fits(s.entry[p], p, s.jobs)}

LEMMA NodeMade ==
  ASSUME NEW c, NEW s \in Nodes(c),
         NEW disk \in Partial(Files, OnDisk), NEW cur \in Images, NEW prev \in Seq(Images),
         NEW phase \in LogicPhases
  PROVE  /\ [s EXCEPT !.disk = disk] \in Nodes(c)
         /\ [s EXCEPT !.cur = cur] \in Nodes(c)
         /\ [s EXCEPT !.disk = disk, !.cur = cur] \in Nodes(c)
         /\ [s EXCEPT !.prev = prev, !.phase = phase] \in Nodes(c)
         /\ [s EXCEPT !.cur = cur, !.phase = phase] \in Nodes(c)
         /\ [s EXCEPT !.phase = phase] \in Nodes(c)
BY DEF Nodes, NodeRecords

LEMMA NodeOwners ==
  ASSUME NEW c, NEW s \in Nodes(c), NEW owners \in OwnerTables(Others(c)),
         DOMAIN owners = DOMAIN s.owners
  PROVE  [s EXCEPT !.owners = owners] \in Nodes(c)
BY DEF Nodes, NodeRecords

LEMMA NodeTable ==
  ASSUME NEW c, NEW s \in Nodes(c), NEW owners \in OwnerTables(Others(c)),
         NEW entry, DOMAIN entry \subseteq Files, entry = [p \in DOMAIN entry |-> entry[p]],
         DOMAIN owners = DOMAIN entry, \A p \in DOMAIN entry : Fits(entry[p], p, s.jobs)
  PROVE  /\ [s EXCEPT !.owners = owners, !.entry = entry] \in Nodes(c)
         /\ DOMAIN owners = DOMAIN s.owners => [s EXCEPT !.entry = entry] \in Nodes(c)
<1>1. \A p \in DOMAIN entry : entry[p] \in EntryRecords
  BY DEF Fits
<1>2. entry \in [DOMAIN entry -> EntryRecords]
  BY <1>1
<1>3. entry \in Partial(Files, EntryRecords)
  BY <1>2, PartialMade
<1> QED
  BY <1>3 DEF Nodes, NodeRecords

LEMMA NodeIs ==
  ASSUME NEW c, NEW s \in Nodes(c)
  PROVE  /\ s.disk \in Partial(Files, OnDisk) /\ s.cur \in Images /\ s.prev \in Seq(Images)
         /\ s.owners \in OwnerTables(Others(c)) /\ s.entry \in Partial(Files, EntryRecords)
         /\ s.jobs \in Seq(Job) /\ s.phase \in LogicPhases
         /\ DOMAIN s.owners = DOMAIN s.entry
         /\ \A p \in DOMAIN s.entry : Fits(s.entry[p], p, s.jobs)
BY DEF Nodes, NodeRecords

(* Files: ChunkyFiles, directories and their listings. *)

LEMMA FlatFiles == /\ Files = Paths /\ 0 \notin Peers
                   /\ \A F \in Images : FilesOf(F) = F /\ PathsOf(F) \subseteq Files
                                        /\ (\A e \in F : e.path \in PathsOf(F) /\ e.ver \in Versions)
<1>1. Files = Paths /\ 0 \notin Peers
  BY ClientAssumption DEF Files
<1>2. ASSUME NEW F \in Images
      PROVE  FilesOf(F) = F /\ PathsOf(F) \subseteq Files
             /\ (\A e \in F : e.path \in PathsOf(F) /\ e.ver \in Versions)
  BY DEF Images, Stored, FilesOf, PathsOf
<1> QED
  BY <1>1, <1>2

LEMMA ScanIs ==
  ASSUME NEW disk \in Partial(Files, OnDisk)
  PROVE  Scan(disk) \in Images /\ PathsOf(Scan(disk)) = DOMAIN disk
<1>1. DOMAIN disk \subseteq Files /\ \A p \in DOMAIN disk : disk[p] \in OnDisk
  BY PartialIs
<1>2. \A p \in DOMAIN disk : [path |-> p, ver |-> disk[p].ver] \in Stored
  BY <1>1 DEF Stored, OnDisk
<1>3. Scan(disk) \in Images
  BY <1>2 DEF Scan, Images
<1>4. \A p \in DOMAIN disk : [path |-> p, ver |-> disk[p].ver].path = p
  OBVIOUS
<1>5. PathsOf(Scan(disk)) = {[path |-> p, ver |-> disk[p].ver].path : p \in DOMAIN disk}
  BY Zenon DEF Scan, PathsOf
<1> QED
  BY <1>3, <1>4, <1>5

LEMMA NoFileIs ==
  /\ NoFile.path = FALSE /\ NoFile \notin Downloads
  /\ \A f \in Downloads : f.ver \in Versions /\ f # NoFile
BY ChunksType DEF NoFile, Downloads

LEMMA ForWritingIs ==
  ASSUME NEW v \in Versions
  PROVE  /\ ForWriting(v) \in Downloads /\ Missing(ForWriting(v)) = Chunks(v)
         /\ ForWriting(v).ver = v /\ ForWriting(v).path /\ DOMAIN ForWriting(v).data = Chunks(v)
         /\ ForWriting(v).written = {} /\ Saved(ForWriting(v)) \in OnDisk
         /\ Saved(ForWriting(v)).ver = v
<1>1. [i \in Chunks(v) |-> Filler] \in [Chunks(v) -> Int] /\ Chunks(v) \in SUBSET Nat
  BY ChunksType DEF Filler
<1>2. [i \in Chunks(v) |-> Filler] \in Partial(Nat, Int)
  BY <1>1, PartialMade
<1>3. ForWriting(v) \in Downloads
  BY <1>2 DEF ForWriting, Downloads
<1>4. Saved(ForWriting(v)) \in OnDisk
  BY <1>2 DEF ForWriting, OnDisk, Saved
<1> QED
  BY <1>3, <1>4 DEF ForWriting, Missing, Saved

LEMMA ForReadingIs ==
  ASSUME NEW f \in OnDisk
  PROVE  ForReading(f) \in Downloads /\ ForReading(f).path = FALSE
BY DEF ForReading, Downloads, OnDisk

LEMMA GetChunkIs ==
  ASSUME NEW f \in Downloads \cup OnDisk, NEW i
  PROVE  GetChunk(f, i) \in Int
<1>1. f.data \in Partial(Nat, Int)
  BY DEF Downloads, OnDisk
<1> QED
  BY <1>1, PartialIs DEF GetChunk, Filler

LEMMA SetChunkIs ==
  ASSUME NEW f \in Downloads, NEW i \in DOMAIN f.data, NEW x \in Int
  PROVE  /\ SetChunk(f, i, x) \in Downloads /\ Missing(SetChunk(f, i, x)) = Missing(f) \ {i}
         /\ SetChunk(f, i, x).path = f.path /\ SetChunk(f, i, x).ver = f.ver
         /\ DOMAIN SetChunk(f, i, x).data = DOMAIN f.data
         /\ Saved(SetChunk(f, i, x)) \in OnDisk /\ Saved(SetChunk(f, i, x)).ver = f.ver
<1> DEFINE d == [f.data EXCEPT ![i] = x]
           w == f.written \cup {i}
           g == [ver |-> f.ver, data |-> d, written |-> w, path |-> f.path]
<1>1. f.data \in Partial(Nat, Int)
  BY DEF Downloads
<1>2. d \in Partial(Nat, Int) /\ DOMAIN d = DOMAIN f.data
  BY <1>1, PartialExcept
<1>3. i \in Nat /\ DOMAIN f.data \subseteq Nat
  BY <1>1, PartialIs
<1>4. /\ f \in [ver : Versions, data : Partial(Nat, Int), written : SUBSET Nat, path : BOOLEAN]
      /\ DOMAIN f.data = Chunks(f.ver) /\ f.written \subseteq DOMAIN f.data
  BY DEF Downloads
<1>5. SetChunk(f, i, x) = g
  <2>1. f = [ver |-> f.ver, data |-> f.data, written |-> f.written, path |-> f.path]
    BY <1>4
  <2>2. [f EXCEPT !.data[i] = x] = [ver |-> f.ver, data |-> d, written |-> f.written, path |-> f.path]
    BY <2>1
  <2> HIDE DEF d
  <2>3. SetChunk(f, i, x) = [[f EXCEPT !.data[i] = x] EXCEPT !.written = w]
    BY DEF SetChunk, d
  <2> QED
    BY <2>2, <2>3
<1> HIDE DEF d
<1>6. g \in Downloads
  BY <1>2, <1>3, <1>4 DEF Downloads
<1>7. Missing(g) = Missing(f) \ {i}
  BY <1>2 DEF Missing
<1>8. Saved(g) \in OnDisk
  BY <1>2, <1>4 DEF Saved, OnDisk
<1> QED
  BY <1>2, <1>5, <1>6, <1>7, <1>8 DEF Saved

(* The loop of main. *)
LEMMA NextPhaseIs ==
  ASSUME NEW ph \in LogicPhases
  PROVE  NextPhase(ph) \in LogicPhases
<1> DEFINE i == CHOOSE i \in DOMAIN Phases : Phases[i] = ph
<1>1. DOMAIN Phases = 1 .. 8 /\ Len(Phases) = 8
  BY DEF Phases
<1>2. \A j \in 1 .. 8 : Phases[j] \in LogicPhases
  BY DEF Phases, LogicPhases
<1>3. \E j \in 1 .. 8 : Phases[j] = ph
  BY DEF Phases, LogicPhases
<1>4. i \in 1 .. 8
  BY <1>1, <1>3
<1>5. NextPhase(ph) = IF i = 8 THEN Phases[1] ELSE Phases[i + 1]
  BY <1>1 DEF NextPhase
<1> HIDE DEF i
<1>6. 1 \in 1 .. 8 /\ (i # 8 => i + 1 \in 1 .. 8)
  BY <1>4
<1> QED
  BY <1>2, <1>5, <1>6

-----------------------------------------------------------------------------
(* Owners *)

(* g is the table ft with entries for all of adds. *)
Lists(g, ft, adds) ==
  /\ DOMAIN g = DOMAIN ft \cup PathsOf(adds)
  /\ \A p \in DOMAIN ft \ PathsOf(adds) : g[p] = ft[p]
  /\ \A p \in PathsOf(adds) : \E e \in adds : e.path = p /\ DOMAIN g[p] = Chunks(e.ver)

LEMMA OwnersAdded ==
  ASSUME NEW Q, NEW ft \in OwnerTables(Q), NEW adds \in Images, NEW peer \in Q
  PROVE  /\ AddFileSystem(ft, adds, peer) \in OwnerTables(Q)
         /\ Lists(AddFileSystem(ft, adds, peer), ft, adds)
<1> DEFINE g == AddFileSystem(ft, adds, peer)
           D == DOMAIN ft \cup PathsOf(adds)
           the(p) == CHOOSE e \in adds : e.path = p
<1>1. FilesOf(adds) = adds /\ PathsOf(adds) \subseteq Files /\ \A e \in adds : e.ver \in Versions
  BY FlatFiles
<1>2. g = [p \in D |-> IF p \in PathsOf(adds)
                         THEN [i \in 0 .. (ChunksOf[the(p).ver] - 1) |-> {peer}] ELSE ft[p]]
  BY <1>1 DEF AddFileSystem, NumChunks
<1>3. \A p \in PathsOf(adds) : the(p) \in adds /\ the(p).path = p
  BY DEF PathsOf
<1> HIDE DEF the, g
<1>4. ASSUME NEW p \in PathsOf(adds)
      PROVE  g[p] \in Partial(Nat, SUBSET Q) /\ DOMAIN g[p] = Chunks(the(p).ver)
  <2>1. g[p] = [i \in Chunks(the(p).ver) |-> {peer}]
    BY <1>2 DEF Chunks
  <2>2. g[p] \in [Chunks(the(p).ver) -> SUBSET Q] /\ Chunks(the(p).ver) \in SUBSET Nat
    BY <1>1, <1>3, <2>1, ChunksType
  <2> QED
    BY <2>1, <2>2, PartialMade
<1>5. \A p \in DOMAIN ft \ PathsOf(adds) : g[p] = ft[p]
  BY <1>2
<1>6. D \in SUBSET Files /\ g \in [D -> Partial(Nat, SUBSET Q)]
  BY <1>1, <1>2, <1>4, <1>5, PartialIs DEF OwnerTables
<1>7. g \in OwnerTables(Q)
  BY <1>6, PartialMade DEF OwnerTables
<1>8. DOMAIN g = D
  BY <1>2
<1> QED
  BY <1>3, <1>4, <1>5, <1>7, <1>8 DEF g, Lists

LEMMA OwnersRemoved ==
  ASSUME NEW Q, NEW ft \in OwnerTables(Q), NEW P
  PROVE  /\ RemovePaths(ft, P) \in OwnerTables(Q) /\ DOMAIN RemovePaths(ft, P) = DOMAIN ft \ P
         /\ \A p \in DOMAIN ft \ P : RemovePaths(ft, P)[p] = ft[p]
<1>1. RemovePaths(ft, P) = Without(ft, P)
  BY DEF RemovePaths, Without
<1>2. DOMAIN ft \ P \in SUBSET Files /\ Without(ft, P) \in [DOMAIN ft \ P -> Partial(Nat, SUBSET Q)]
  BY PartialIs DEF OwnerTables, Without
<1>3. Without(ft, P) \in OwnerTables(Q)
  BY <1>2, PartialMade DEF OwnerTables
<1> QED
  BY <1>1, <1>3 DEF Without

LEMMA OwnersSameChunks ==
  ASSUME NEW Q, NEW ft \in OwnerTables(Q), NEW g, DOMAIN g = DOMAIN ft,
         g = [p \in DOMAIN ft |-> g[p]],
         \A p \in DOMAIN ft : g[p] \in [DOMAIN ft[p] -> SUBSET Q]
  PROVE  g \in OwnerTables(Q)
<1>1. ASSUME NEW p \in DOMAIN ft PROVE g[p] \in Partial(Nat, SUBSET Q)
  <2>1. ft[p] \in Partial(Nat, SUBSET Q)
    BY PartialIs DEF OwnerTables
  <2>2. DOMAIN ft[p] \in SUBSET Nat
    BY <2>1, PartialIs
  <2> QED
    BY <2>2, PartialMade
<1>2. g \in [DOMAIN ft -> Partial(Nat, SUBSET Q)] /\ DOMAIN ft \in SUBSET Files
  BY <1>1, PartialIs DEF OwnerTables
<1> QED
  BY <1>2, PartialMade DEF OwnerTables

LEMMA OwnersAre ==
  ASSUME NEW Q, NEW ft \in OwnerTables(Q)
  PROVE  /\ DOMAIN ft \subseteq Files
         /\ \A p \in DOMAIN ft : DOMAIN ft[p] \subseteq Nat /\ ft[p] \in [DOMAIN ft[p] -> SUBSET Q]
<1> SUFFICES ASSUME NEW p \in DOMAIN ft
             PROVE  DOMAIN ft[p] \subseteq Nat /\ ft[p] \in [DOMAIN ft[p] -> SUBSET Q]
  BY PartialIs DEF OwnerTables
<1>1. ft[p] \in Partial(Nat, SUBSET Q)
  BY PartialIs DEF OwnerTables
<1> QED
  BY <1>1, PartialIs

LEMMA PeerRemoved ==
  ASSUME NEW Q, NEW ft \in OwnerTables(Q), NEW peer
  PROVE  /\ RemovePeer(ft, peer) \in OwnerTables(Q) /\ DOMAIN RemovePeer(ft, peer) = DOMAIN ft
         /\ \A p \in DOMAIN ft : DOMAIN RemovePeer(ft, peer)[p] = DOMAIN ft[p]
<1>1. ASSUME NEW p \in DOMAIN ft
      PROVE  RemovePeer(ft, peer)[p] \in [DOMAIN ft[p] -> SUBSET Q]
  BY OwnersAre DEF RemovePeer
<1>2. DOMAIN RemovePeer(ft, peer) = DOMAIN ft
  BY DEF RemovePeer
<1>3. RemovePeer(ft, peer) = [p \in DOMAIN ft |-> RemovePeer(ft, peer)[p]]
  BY DEF RemovePeer
<1>4. RemovePeer(ft, peer) \in OwnerTables(Q)
  BY <1>1, <1>2, <1>3, OwnersSameChunks
<1> QED
  BY <1>1, <1>2, <1>4

LEMMA GotIs ==
  ASSUME NEW Q, NEW ft \in OwnerTables(Q), NEW g, g.peer \in Q
  PROVE  /\ GotApplied(ft, g) \in OwnerTables(Q) /\ DOMAIN GotApplied(ft, g) = DOMAIN ft
         /\ \A p \in DOMAIN ft : DOMAIN GotApplied(ft, g)[p] = DOMAIN ft[p]
<1>1. CASE ~HasChunk(ft, g.path, g.chunk)
  BY <1>1 DEF GotApplied
<1>2. CASE HasChunk(ft, g.path, g.chunk)
  <2> DEFINE h == [ft EXCEPT ![g.path][g.chunk] = @ \cup {g.peer}]
  <2>1. GotApplied(ft, g) = h
    BY <1>2 DEF GotApplied, SetOwner
  <2>2. g.path \in DOMAIN ft /\ g.chunk \in DOMAIN ft[g.path]
    BY <1>2 DEF HasChunk
  <2>3. ASSUME NEW p \in DOMAIN ft
        PROVE  h[p] \in [DOMAIN ft[p] -> SUBSET Q]
    <3>1. CASE p # g.path
      BY <3>1, OwnersAre
    <3>2. CASE p = g.path
      <4>1. h[p] = [ft[p] EXCEPT ![g.chunk] = ft[p][g.chunk] \cup {g.peer}]
        BY <3>2
      <4>2. ft[p] \in [DOMAIN ft[p] -> SUBSET Q]
        BY OwnersAre
      <4> QED
        BY <2>2, <3>2, <4>1, <4>2
    <3> QED
      BY <3>1, <3>2
  <2>4. DOMAIN h = DOMAIN ft /\ h = [p \in DOMAIN ft |-> h[p]]
    OBVIOUS
  <2> HIDE DEF h
  <2>5. h \in OwnerTables(Q)
    BY <2>3, <2>4, OwnersSameChunks
  <2> QED
    BY <2>1, <2>3, <2>4, <2>5
<1> QED
  BY <1>1, <1>2

LEMMA OwnersMore ==
  ASSUME NEW Q, NEW R, Q \subseteq R
  PROVE  OwnerTables(Q) \subseteq OwnerTables(R)
<1>1. Partial(Nat, SUBSET Q) \subseteq Partial(Nat, SUBSET R)
  <2>1. SUBSET Q \subseteq SUBSET R
    OBVIOUS
  <2> QED
    BY <2>1, PartialMore
<1> QED
  BY <1>1, PartialMore DEF OwnerTables

-----------------------------------------------------------------------------
(* Entries of the file table *)

LEMMA FitsNew ==
  ASSUME NEW w \in Seq(Nat), NEW f \in Downloads \cup {NoFile}, f.path => Missing(f) \subseteq Elements(w),
         NEW p, NEW jobs
  PROVE  Fits([work |-> w, out |-> <<>>, file |-> f], p, jobs)
<1>1. /\ <<>> \in Seq(Nat) /\ <<>> \in Seq(Drawn(jobs, p)) /\ Len(<<>>) = 0 /\ Distinct(<<>>)
      /\ MaxPending \in Nat
  BY ElementsEmpty, ClientAssumption DEF Distinct
<1> QED
  BY <1>1 DEF Fits, EntryRecords, Awaited

LEMMA FitsNoWork == \A p, jobs : Fits(NoWork, p, jobs)
BY FitsNew, ElementsEmpty, NoFileIs DEF NoWork

LEMMA FitsIs ==
  ASSUME NEW e, NEW p, NEW jobs \in Seq(Job), Fits(e, p, jobs)
  PROVE  /\ e \in EntryRecords /\ e.work \in Seq(Nat) /\ e.out \in Seq(Nat)
         /\ e.file \in Downloads \cup {NoFile} /\ e = [work |-> e.work, out |-> e.out, file |-> e.file]
         /\ Distinct(e.out) /\ Len(e.out) <= MaxPending
         /\ \A id \in Elements(e.out) : id \in DOMAIN jobs /\ jobs[id].path = p
<1>1. e.out \in Seq(Drawn(jobs, p)) /\ e \in EntryRecords /\ Distinct(e.out) /\ Len(e.out) <= MaxPending
  BY DEF Fits
<1>2. Elements(e.out) \subseteq Drawn(jobs, p)
  BY <1>1, ElementsIn
<1> QED
  BY <1>1, <1>2 DEF EntryRecords, Drawn

(* A request drawn, in a longer list of jobs. *)
LEMMA FitsDrawn ==
  ASSUME NEW e, NEW p \in Files, NEW jobs \in Seq(Job), Fits(e, p, jobs), NEW job \in Job
  PROVE  /\ Fits(e, p, Append(jobs, job))
         /\ e.work # <<>> /\ Len(e.out) < MaxPending /\ job.path = p /\ job.chunk = Head(e.work) =>
              Fits([e EXCEPT !.work = Tail(@), !.out = Append(@, Len(jobs) + 1)], p, Append(jobs, job))
<1> DEFINE js == Append(jobs, job)
           n == Len(jobs) + 1
<1>1. /\ js \in Seq(Job) /\ DOMAIN js = DOMAIN jobs \cup {n} /\ n \notin DOMAIN jobs
      /\ js[n] = job /\ \A id \in DOMAIN jobs : js[id] = jobs[id]
      /\ n \in Nat
  <2>1. /\ js \in Seq(Job) /\ Len(js) = Len(jobs) + 1 /\ js[n] = job
        /\ \A i \in 1 .. Len(jobs) : js[i] = jobs[i]
    BY AppendProperties
  <2>2. /\ Len(jobs) \in Nat /\ DOMAIN jobs = 1 .. Len(jobs) /\ DOMAIN js = 1 .. (Len(jobs) + 1)
    BY <2>1, LenProperties
  <2> QED
    BY <2>1, <2>2
<1>2. /\ e \in EntryRecords /\ e.out \in Seq(Drawn(jobs, p)) /\ Distinct(e.out) /\ Len(e.out) <= MaxPending
      /\ e.file.path => \A i \in Missing(e.file) : Awaited(e, jobs, i)
  BY DEF Fits
<1> HIDE DEF js, n
<1>3. Drawn(jobs, p) \subseteq Drawn(js, p) /\ e.out \in Seq(Drawn(js, p))
  <2>1. Drawn(jobs, p) \subseteq Drawn(js, p)
    BY <1>1 DEF Drawn
  <2> QED
    BY <1>2, <2>1, SeqMore
<1>4. /\ Elements(e.out) \subseteq DOMAIN jobs /\ DOMAIN e.out = 1 .. Len(e.out) /\ Len(e.out) \in Nat
      /\ \A i \in DOMAIN e.out : e.out[i] \in DOMAIN jobs
  <2>1. Elements(e.out) \subseteq Drawn(jobs, p) /\ \A i \in DOMAIN e.out : e.out[i] \in Elements(e.out)
    BY <1>2, ElementsIn
  <2> QED
    BY <1>2, <2>1, LenProperties DEF Drawn
<1>5. \A i : Awaited(e, jobs, i) => Awaited(e, js, i)
  BY <1>1, <1>4 DEF Awaited
<1>6. Fits(e, p, js)
  BY <1>2, <1>3, <1>5 DEF Fits
<1>7. ASSUME e.work # <<>>, Len(e.out) < MaxPending, job.path = p, job.chunk = Head(e.work)
      PROVE  Fits([e EXCEPT !.work = Tail(@), !.out = Append(@, n)], p, js)
  <2> DEFINE g == [e EXCEPT !.work = Tail(@), !.out = Append(@, n)]
  <2>1. e.work \in Seq(Nat) /\ e.out \in Seq(Nat) /\ e.file \in Downloads \cup {NoFile}
    BY <1>2 DEF EntryRecords
  <2>2. g.work = Tail(e.work) /\ g.out = Append(e.out, n) /\ g.file = e.file /\ g \in EntryRecords
    <3>1. Tail(e.work) \in Seq(Nat) /\ Append(e.out, n) \in Seq(Nat)
      BY <1>1, <1>7, <2>1, ElementsTail, AppendProperties
    <3> QED
      BY <1>2, <3>1 DEF EntryRecords
  <2>3. n \in Drawn(js, p)
    BY <1>1, <1>7 DEF Drawn
  <2>4. /\ g.out \in Seq(Drawn(js, p)) /\ Elements(g.out) = Elements(e.out) \cup {n}
    BY <1>3, <2>2, <2>3, ElementsAppend
  <2>5. /\ Len(g.out) = Len(e.out) + 1 /\ g.out[Len(e.out) + 1] = n
        /\ \A i \in 1 .. Len(e.out) : g.out[i] = e.out[i]
        /\ DOMAIN g.out = 1 .. (Len(e.out) + 1)
    <3>1. /\ Len(g.out) = Len(e.out) + 1 /\ g.out[Len(e.out) + 1] = n
          /\ \A i \in 1 .. Len(e.out) : g.out[i] = e.out[i]
      BY <1>3, <2>2, <2>3, AppendProperties
    <3> QED
      BY <2>4, <3>1, LenProperties
  <2>6. Len(g.out) <= MaxPending
    BY <1>4, <1>7, <2>5, ClientAssumption
  <2>7. Distinct(g.out)
    <3> SUFFICES ASSUME NEW i \in 1 .. (Len(e.out) + 1), NEW j \in 1 .. (Len(e.out) + 1),
                        g.out[i] = g.out[j]
                 PROVE  i = j
      BY <2>5 DEF Distinct
    <3>1. \A k \in 1 .. (Len(e.out) + 1) : k = Len(e.out) + 1 \/ k \in 1 .. Len(e.out)
      BY <1>4
    <3>2. \A k \in 1 .. Len(e.out) : g.out[k] # n
      BY <1>1, <1>4, <2>5
    <3>3. i \in 1 .. Len(e.out) /\ j \in 1 .. Len(e.out) => i = j
      BY <1>2, <1>4, <2>5 DEF Distinct
    <3> QED
      BY <2>5, <3>1, <3>2, <3>3
  <2>8. Elements(e.work) = {Head(e.work)} \cup Elements(g.work)
    BY <1>7, <2>1, <2>2, ElementsTail
  <2>9. ASSUME NEW i, Awaited(e, js, i)
        PROVE  Awaited(g, js, i)
    BY <1>1, <1>7, <2>4, <2>8, <2>9 DEF Awaited
  <2> HIDE DEF g
  <2>10. g.file.path => \A i \in Missing(g.file) : Awaited(g, js, i)
    BY <1>2, <1>5, <2>2, <2>9
  <2>11. Fits(g, p, js)
    BY <2>2, <2>4, <2>6, <2>7, <2>10 DEF Fits
  <2> QED
    BY <2>11 DEF g
<1> QED
  BY <1>6, <1>7 DEF js, n

(* A request answered: its chunk is written, or waits again, or the file   *)
(* is no longer waited for.                                                *)
LEMMA FitsAnswered ==
  ASSUME NEW e, NEW p, NEW jobs \in Seq(Job), Fits(e, p, jobs), NEW id \in Elements(e.out),
         NEW w \in Seq(Nat), Elements(e.work) \subseteq Elements(w), NEW f \in Downloads \cup {NoFile},
         f.path => /\ e.file.path /\ Missing(f) \subseteq Missing(e.file)
                   /\ jobs[id].chunk \in Missing(f) => jobs[id].chunk \in Elements(w)
  PROVE  Fits([work |-> w, out |-> FirstGone(e.out, id), file |-> f], p, jobs)
<1> DEFINE o == FirstGone(e.out, id)
           g == [work |-> w, out |-> o, file |-> f]
<1>1. /\ e.out \in Seq(Drawn(jobs, p)) /\ e.out \in Seq(Nat) /\ Distinct(e.out) /\ Len(e.out) <= MaxPending
      /\ e.file.path => \A i \in Missing(e.file) : Awaited(e, jobs, i)
  BY DEF Fits, EntryRecords
<1>2. /\ o \in Seq(Drawn(jobs, p)) /\ Len(o) = Len(e.out) - 1
      /\ Elements(e.out) \subseteq Elements(o) \cup {id} /\ Distinct(o)
  BY <1>1, FirstGoneIs DEF Distinct
<1>3. o \in Seq(Nat)
  BY <1>1, FirstGoneIs
<1>4. Len(o) <= MaxPending
  BY <1>1, <1>2, LenProperties, ClientAssumption
<1> HIDE DEF o
<1>5. ASSUME f.path, NEW i \in Missing(f)
      PROVE  Awaited(g, jobs, i)
  <2>1. Awaited(e, jobs, i)
    BY <1>1, <1>5
  <2> QED
    BY <1>2, <1>5, <2>1 DEF Awaited
<1> QED
  BY <1>2, <1>3, <1>4, <1>5 DEF Fits, EntryRecords, o

-----------------------------------------------------------------------------
(* What the handlers make of a node *)

LEMMA RefreshedIs ==
  ASSUME NEW c, NEW s \in Nodes(c)
  PROVE  Refreshed(s) \in Nodes(c)
BY NodeIs, NodeMade, ScanIs DEF Refreshed

LEMMA UnlinkedIs ==
  ASSUME NEW c, NEW s \in Nodes(c), NEW P
  PROVE  Unlinked(s, P) \in Nodes(c)
<1>1. s.disk \in Partial(Files, OnDisk)
  BY NodeIs
<1>2. DOMAIN s.disk \ P \in SUBSET Files /\ Without(s.disk, P) \in [DOMAIN s.disk \ P -> OnDisk]
  BY <1>1, PartialIs DEF Without
<1>3. Without(s.disk, P) \in Partial(Files, OnDisk)
  BY <1>2, PartialMade
<1> QED
  BY <1>3, NodeIs, NodeMade DEF Unlinked

LEMMA ForgottenIs ==
  ASSUME NEW c, NEW s \in Nodes(c), NEW dels \in Images
  PROVE  /\ Forgotten(s, dels) \in Nodes(c) /\ Forgotten(s, dels).jobs = s.jobs
         /\ DOMAIN Forgotten(s, dels).entry = DOMAIN s.entry \ PathsOf(dels)
         /\ \A p \in DOMAIN s.entry \ PathsOf(dels) :
              Forgotten(s, dels).entry[p] = s.entry[p] /\ Forgotten(s, dels).owners[p] = s.owners[p]
         /\ Forgotten(s, dels).disk = s.disk /\ Forgotten(s, dels).cur = s.cur
<1> DEFINE o == RemovePaths(s.owners, PathsOf(dels))
           e == Without(s.entry, PathsOf(dels))
<1>1. /\ s.owners \in OwnerTables(Others(c)) /\ DOMAIN s.owners = DOMAIN s.entry
      /\ DOMAIN s.entry \subseteq Files /\ \A p \in DOMAIN s.entry : Fits(s.entry[p], p, s.jobs)
  BY NodeIs, PartialIs
<1>2. /\ o \in OwnerTables(Others(c)) /\ DOMAIN o = DOMAIN s.entry \ PathsOf(dels)
      /\ \A p \in DOMAIN s.entry \ PathsOf(dels) : o[p] = s.owners[p]
  BY <1>1, OwnersRemoved
<1>3. /\ DOMAIN e = DOMAIN s.entry \ PathsOf(dels) /\ e = [p \in DOMAIN e |-> e[p]]
      /\ \A p \in DOMAIN s.entry \ PathsOf(dels) : e[p] = s.entry[p]
  BY DEF Without
<1>4. Forgotten(s, dels) = [s EXCEPT !.owners = o, !.entry = e]
  BY FlatFiles DEF Forgotten, RemoveFileSystem
<1> HIDE DEF o, e
<1>5. [s EXCEPT !.owners = o, !.entry = e] \in Nodes(c)
  BY <1>1, <1>2, <1>3, NodeTable
<1> QED
  BY <1>2, <1>3, <1>4, <1>5 DEF Nodes, NodeRecords

LEMMA LearntIs ==
  ASSUME NEW c, NEW s \in Nodes(c), NEW adds \in Images, NEW peer \in Others(c), NEW entries,
         DOMAIN entries = PathsOf(adds), \A p \in PathsOf(adds) : Fits(entries[p], p, s.jobs)
  PROVE  /\ Learnt(s, adds, peer, entries) \in Nodes(c) /\ Learnt(s, adds, peer, entries).jobs = s.jobs
         /\ DOMAIN Learnt(s, adds, peer, entries).entry = DOMAIN s.entry \cup PathsOf(adds)
         /\ \A p \in DOMAIN s.entry \ PathsOf(adds) :
              /\ Learnt(s, adds, peer, entries).entry[p] = s.entry[p]
              /\ Learnt(s, adds, peer, entries).owners[p] = s.owners[p]
         /\ \A p \in PathsOf(adds) :
              /\ Learnt(s, adds, peer, entries).entry[p] = entries[p]
              /\ \E f \in adds : f.path = p /\
                   DOMAIN Learnt(s, adds, peer, entries).owners[p] = Chunks(f.ver)
         /\ Learnt(s, adds, peer, entries).disk = s.disk /\ Learnt(s, adds, peer, entries).cur = s.cur
<1> DEFINE o == AddFileSystem(s.owners, adds, peer)
           e == With(s.entry, entries)
<1>1. /\ s.owners \in OwnerTables(Others(c)) /\ DOMAIN s.owners = DOMAIN s.entry
      /\ DOMAIN s.entry \subseteq Files /\ \A p \in DOMAIN s.entry : Fits(s.entry[p], p, s.jobs)
  BY NodeIs, PartialIs
<1>2. /\ o \in OwnerTables(Others(c)) /\ DOMAIN o = DOMAIN s.entry \cup PathsOf(adds)
      /\ \A p \in DOMAIN s.entry \ PathsOf(adds) : o[p] = s.owners[p]
      /\ \A p \in PathsOf(adds) : \E f \in adds : f.path = p /\ DOMAIN o[p] = Chunks(f.ver)
  <2> DEFINE Q == Others(c)
  <2>1. s.owners \in OwnerTables(Q) /\ peer \in Q
    BY <1>1
  <2> HIDE DEF Q
  <2>2. o \in OwnerTables(Q) /\ Lists(o, s.owners, adds)
    BY <2>1, OwnersAdded
  <2> HIDE DEF o
  <2> QED
    BY <1>1, <2>2 DEF Q, Lists
<1>3. /\ DOMAIN e = DOMAIN s.entry \cup PathsOf(adds) /\ e = [p \in DOMAIN e |-> e[p]]
      /\ \A p \in DOMAIN s.entry \ PathsOf(adds) : e[p] = s.entry[p]
      /\ \A p \in PathsOf(adds) : e[p] = entries[p]
  BY DEF With
<1>4. Learnt(s, adds, peer, entries) = [s EXCEPT !.owners = o, !.entry = e]
  BY DEF Learnt
<1> HIDE DEF o, e
<1>5. PathsOf(adds) \subseteq Files
  BY FlatFiles
<1>6. [s EXCEPT !.owners = o, !.entry = e] \in Nodes(c)
  BY <1>1, <1>2, <1>3, <1>5, NodeTable
<1>7. s \in NodeRecords(c)
  BY DEF Nodes
<1>8. /\ [s EXCEPT !.owners = o, !.entry = e].owners = o /\ [s EXCEPT !.owners = o, !.entry = e].entry = e
      /\ [s EXCEPT !.owners = o, !.entry = e].jobs = s.jobs
      /\ [s EXCEPT !.owners = o, !.entry = e].disk = s.disk
      /\ [s EXCEPT !.owners = o, !.entry = e].cur = s.cur
  BY <1>7 DEF NodeRecords
<1> QED
  BY <1>2, <1>3, <1>4, <1>6, <1>8

(* The file table of a client that joined. *)
LEMMA ReceivedIs ==
  ASSUME NEW c, NEW s \in Nodes(c), NEW ft \in OwnerTables(Others(c))
  PROVE  Received(s, ft) \in Nodes(c) /\ Received(s, ft).cur = s.cur
<1> DEFINE e == [p \in DOMAIN ft |-> NoWork]
<1>1. DOMAIN e = DOMAIN ft /\ e = [p \in DOMAIN e |-> e[p]] /\ \A p \in DOMAIN e : Fits(e[p], p, s.jobs)
  BY FitsNoWork
<1>2. Received(s, ft) = [s EXCEPT !.owners = ft, !.entry = e] /\ DOMAIN ft \subseteq Files
  BY OwnersAre DEF Received
<1> HIDE DEF e
<1>3. Received(s, ft) \in Nodes(c)
  <2>1. DOMAIN e \subseteq Files /\ DOMAIN ft = DOMAIN e
    BY <1>1, <1>2
  <2>2. [s EXCEPT !.owners = ft, !.entry = e] \in Nodes(c)
    BY <1>1, <2>1, NodeTable
  <2> QED
    BY <1>2, <2>2
<1> QED
  BY <1>2, <1>3 DEF Nodes, NodeRecords

LEMMA EntryChanged ==
  ASSUME NEW c, NEW s \in Nodes(c), NEW p \in DOMAIN s.entry, NEW e, Fits(e, p, s.jobs)
  PROVE  [s EXCEPT !.entry[p] = e] \in Nodes(c)
<1> DEFINE f == [s.entry EXCEPT ![p] = e]
<1>1. /\ s.owners \in OwnerTables(Others(c)) /\ DOMAIN s.owners = DOMAIN s.entry
      /\ DOMAIN s.entry \subseteq Files /\ \A q \in DOMAIN s.entry : Fits(s.entry[q], q, s.jobs)
  BY NodeIs, PartialIs
<1>2. /\ DOMAIN f = DOMAIN s.entry /\ f = [q \in DOMAIN f |-> f[q]]
      /\ \A q \in DOMAIN f : Fits(f[q], q, s.jobs)
  BY <1>1
<1>3. [s EXCEPT !.owners = s.owners, !.entry = f] \in Nodes(c)
  BY <1>1, <1>2, NodeTable
<1>4. [s EXCEPT !.owners = s.owners, !.entry = f] = [s EXCEPT !.entry = f]
  BY DEF Nodes, NodeRecords
<1>5. [s EXCEPT !.entry[p] = e] = [s EXCEPT !.entry = f]
  OBVIOUS
<1> QED
  BY <1>3, <1>4, <1>5

Replaces(t, s, p, w, o, f) ==
  /\ t.entry[p] = [work |-> w, out |-> o, file |-> f] /\ t.entry[p].work = w /\ t.disk = s.disk
  /\ \A x : [t EXCEPT !.entry[p].work = x]
             = [s EXCEPT !.entry[p] = [work |-> x, out |-> o, file |-> f]]
  /\ \A x : [t EXCEPT !.entry[p].file = x]
             = [s EXCEPT !.entry[p] = [work |-> w, out |-> o, file |-> x]]
  /\ \A d, x : [t EXCEPT !.disk = d, !.entry[p].file = x]
             = [[s EXCEPT !.entry[p] = [work |-> w, out |-> o, file |-> x]] EXCEPT !.disk = d]

LEMMA EntryReplaced ==
  ASSUME NEW c, NEW s \in Nodes(c), NEW p \in DOMAIN s.entry, NEW w, NEW o, NEW f, NEW t,
         t = [s EXCEPT !.entry[p] = [work |-> w, out |-> o, file |-> f]]
  PROVE  Replaces(t, s, p, w, o, f)
<1> DEFINE r(a, b) == [work |-> a, out |-> o, file |-> b]
<1>1. /\ \A x : [r(w, f) EXCEPT !.work = x] = r(x, f)
      /\ \A x : [r(w, f) EXCEPT !.file = x] = r(w, x)
  OBVIOUS
<1> HIDE DEF r
<1>2. t = [s EXCEPT !.entry[p] = r(w, f)]
  BY DEF r
<1>3. s.entry = [q \in DOMAIN s.entry |-> s.entry[q]]
  BY NodeIs, PartialIs
<1>4. t.entry[p] = r(w, f) /\ t.disk = s.disk /\ t.entry = [s.entry EXCEPT ![p] = r(w, f)]
  BY <1>2 DEF Nodes, NodeRecords
<1>5. \A g : [t.entry EXCEPT ![p] = g] = [s.entry EXCEPT ![p] = g]
  BY <1>3, <1>4
<1>6. \A g : [t EXCEPT !.entry = g] = [s EXCEPT !.entry = g]
  BY <1>2
<1>7. \A d, g : [t EXCEPT !.disk = d, !.entry = g] = [[s EXCEPT !.entry = g] EXCEPT !.disk = d]
  BY <1>2 DEF Nodes, NodeRecords
<1>8. ASSUME NEW x
      PROVE  [t EXCEPT !.entry[p].work = x] = [s EXCEPT !.entry[p] = r(x, f)]
  <2>1. [t EXCEPT !.entry[p].work = x] = [t EXCEPT !.entry = [t.entry EXCEPT ![p] = [t.entry[p] EXCEPT !.work = x]]]
    OBVIOUS
  <2>2. @ = [s EXCEPT !.entry = [s.entry EXCEPT ![p] = [t.entry[p] EXCEPT !.work = x]]]
    BY <1>5, <1>6
  <2> QED
    BY <1>1, <1>4, <2>1, <2>2
<1>9. ASSUME NEW x
      PROVE  [t EXCEPT !.entry[p].file = x] = [s EXCEPT !.entry[p] = r(w, x)]
  <2>1. [t EXCEPT !.entry[p].file = x] = [t EXCEPT !.entry = [t.entry EXCEPT ![p] = [t.entry[p] EXCEPT !.file = x]]]
    OBVIOUS
  <2>2. @ = [s EXCEPT !.entry = [s.entry EXCEPT ![p] = [t.entry[p] EXCEPT !.file = x]]]
    BY <1>5, <1>6
  <2> QED
    BY <1>1, <1>4, <2>1, <2>2
<1>10. ASSUME NEW d, NEW x
       PROVE  [t EXCEPT !.disk = d, !.entry[p].file = x]
                = [[s EXCEPT !.entry[p] = r(w, x)] EXCEPT !.disk = d]
  <2> DEFINE g == [t.entry EXCEPT ![p] = [t.entry[p] EXCEPT !.file = x]]
  <2>1. [t EXCEPT !.disk = d].entry = t.entry
    BY <1>2 DEF Nodes, NodeRecords
  <2>2. [t EXCEPT !.disk = d, !.entry[p].file = x] = [t EXCEPT !.disk = d, !.entry = g]
    BY <2>1
  <2>3. g = [s.entry EXCEPT ![p] = r(w, x)]
    BY <1>1, <1>4, <1>5
  <2> HIDE DEF g
  <2>4. [t EXCEPT !.disk = d, !.entry = g] = [[s EXCEPT !.entry = g] EXCEPT !.disk = d]
    BY <1>7
  <2> QED
    BY <2>2, <2>3, <2>4
<1>11. r(w, f).work = w
  BY DEF r
<1> QED
  BY <1>4, <1>8, <1>9, <1>10, <1>11 DEF r, Replaces

(* receive_chunk, for an id that is outstanding. *)
LEMMA AnsweredIs ==
  ASSUME NEW c, NEW s \in Nodes(c), NEW m, m.path \in DOMAIN s.entry,
         m.id \in Elements(s.entry[m.path].out), s.jobs[m.id].chunk = m.chunk,
         m.chunk \in Nat, m.data \in Int
  PROVE  /\ s.entry[m.path].file = NoFile => JobDone(s, m) \in Nodes(c)
         /\ Requeued(JobDone(s, m), m.path, m.chunk) \in Nodes(c)
         /\ s.entry[m.path].file # NoFile /\ m.chunk \in DOMAIN s.entry[m.path].file.data =>
              LET g == SetChunk(s.entry[m.path].file, m.chunk, m.data)
              IN  /\ Completed(JobDone(s, m), m.path, g) \in Nodes(c)
                  /\ Refreshed([JobDone(s, m) EXCEPT !.entry[m.path].file = g]) \in Nodes(c)
<1> DEFINE p == m.path
           e == s.entry[p]
           o == FirstGone(e.out, m.id)
           With3(w, f) == [s EXCEPT !.entry[p] = [work |-> w, out |-> o, file |-> f]]
           t == JobDone(s, m)
<1>1. Fits(e, p, s.jobs) /\ s.jobs \in Seq(Job) /\ p \in Files
  BY NodeIs, PartialIs
<1>2. /\ e.work \in Seq(Nat) /\ e.out \in Seq(Nat) /\ e.file \in Downloads \cup {NoFile}
      /\ e = [work |-> e.work, out |-> e.out, file |-> e.file]
  BY <1>1, FitsIs
<1>3. ASSUME NEW w \in Seq(Nat), Elements(e.work) \subseteq Elements(w), NEW f \in Downloads \cup {NoFile},
             f.path => /\ e.file.path /\ Missing(f) \subseteq Missing(e.file)
                       /\ m.chunk \in Missing(f) => m.chunk \in Elements(w)
      PROVE  With3(w, f) \in Nodes(c)
  <2>1. Fits([work |-> w, out |-> o, file |-> f], p, s.jobs)
    BY <1>1, <1>3, FitsAnswered
  <2> QED
    BY <2>1, EntryChanged
<1>4. t = With3(e.work, e.file)
  <2>1. [e EXCEPT !.out = o] = [work |-> e.work, out |-> o, file |-> e.file]
    BY <1>2
  <2>2. t = [s EXCEPT !.entry[p] = [e EXCEPT !.out = o]]
    BY DEF JobDone
  <2> QED
    BY <2>1, <2>2
<1>b. Replaces(t, s, p, e.work, o, e.file)
  <2> HIDE DEF o, t
  <2> QED
    BY <1>4, EntryReplaced
<1>5. /\ t.entry[p].work = e.work /\ t.disk = s.disk
      /\ \A x : [t EXCEPT !.entry[p].work = x] = With3(x, e.file)
      /\ \A x : [t EXCEPT !.entry[p].file = x] = With3(e.work, x)
      /\ \A d, x : [t EXCEPT !.disk = d, !.entry[p].file = x] = [With3(e.work, x) EXCEPT !.disk = d]
  <2> HIDE DEF o, t
  <2> QED
    BY <1>b DEF Replaces
<1> HIDE DEF t, With3
<1>6. e.file = NoFile => t \in Nodes(c)
  BY <1>2, <1>3, <1>4, NoFileIs
<1>7. Requeued(t, p, m.chunk) \in Nodes(c)
  <2>1. /\ Append(e.work, m.chunk) \in Seq(Nat)
        /\ Elements(Append(e.work, m.chunk)) = Elements(e.work) \cup {m.chunk}
    BY <1>2, ElementsAppend
  <2>2. t.entry[p].work = e.work
    BY <1>5
  <2>3. Requeued(t, p, m.chunk) = [t EXCEPT !.entry[p].work = Append(e.work, m.chunk)]
    BY <2>2 DEF Requeued
  <2>4. Requeued(t, p, m.chunk) = With3(Append(e.work, m.chunk), e.file)
    BY <1>5, <2>3
  <2> QED
    BY <1>2, <1>3, <2>1, <2>4
<1>8. ASSUME e.file # NoFile, m.chunk \in DOMAIN e.file.data
      PROVE  LET g == SetChunk(e.file, m.chunk, m.data)
             IN  Completed(t, p, g) \in Nodes(c) /\ Refreshed([t EXCEPT !.entry[p].file = g]) \in Nodes(c)
  <2> DEFINE g == SetChunk(e.file, m.chunk, m.data)
             d == With(s.disk, [q \in {p} |-> Saved(g)])
  <2>1. e.file \in Downloads
    BY <1>2, <1>8
  <2>2. /\ g \in Downloads /\ Missing(g) = Missing(e.file) \ {m.chunk} /\ g.path = e.file.path
        /\ Saved(g) \in OnDisk
    BY <1>8, <2>1, SetChunkIs
  <2> HIDE DEF g
  <2>3. [t EXCEPT !.entry[p].file = g] = With3(e.work, g)
    BY <1>5
  <2>4. With3(e.work, g) \in Nodes(c)
    BY <1>2, <1>3, <2>2
  <2>5. d \in Partial(Files, OnDisk)
    <3>1. s.disk \in Partial(Files, OnDisk)
      BY NodeIs
    <3>2. DOMAIN s.disk \cup {p} \in SUBSET Files /\ d \in [DOMAIN s.disk \cup {p} -> OnDisk]
      BY <1>1, <2>2, <3>1, PartialIs DEF With
    <3> QED
      BY <3>2, PartialMade
  <2>6. Completed(t, p, g) = Refreshed([With3(e.work, NoFile) EXCEPT !.disk = d])
    <3>1. Completed(t, p, g) = Refreshed([t EXCEPT !.disk = d, !.entry[p].file = NoFile])
      BY <1>5 DEF Completed
    <3> HIDE DEF d
    <3> QED
      BY <1>5, <3>1
  <2> HIDE DEF d
  <2>7. With3(e.work, NoFile) \in Nodes(c)
    BY <1>2, <1>3, NoFileIs
  <2>8. [With3(e.work, NoFile) EXCEPT !.disk = d] \in Nodes(c)
    <3>1. \A u \in Nodes(c) : u.cur \in Images /\ u.prev \in Seq(Images) /\ u.phase \in LogicPhases
      BY NodeIs
    <3> QED
      BY <2>5, <2>7, <3>1, NodeMade
  <2> QED
    BY <2>3, <2>4, <2>6, <2>8, RefreshedIs DEF g
<1> QED
  BY <1>6, <1>7, <1>8 DEF t

-----------------------------------------------------------------------------
(* UpdateLocalFilesystem *)

Got == [type : {"acq"}, peer : Peers, path : Files, chunk : Nat]
OwnGots(c) == {g \in Got : g.peer = c}

LEMMA StoredFinite ==
  ASSUME NEW F \in Images
  PROVE  IsFiniteSet(F) /\ IsFiniteSet(UNION {Chunks(v) : v \in Versions})
<1>1. IsFiniteSet(Files) /\ IsFiniteSet(Versions)
  BY FS_Subset, FS_Interval, ClientAssumption, FileSystemAssumption DEF Files, Versions
<1>2. IsFiniteSet(Files \X Versions)
  BY <1>1, FS_Product
<1>3. IsFiniteSet(Stored)
  <2> DEFINE f == [x \in Files \X Versions |-> [path |-> x[1], ver |-> x[2]]]
  <2>1. f \in [Files \X Versions -> Stored]
    BY DEF Stored
  <2>2. ASSUME NEW e \in Stored PROVE \E x \in Files \X Versions : f[x] = e
    <3>1. <<e.path, e.ver>> \in Files \X Versions /\ f[<<e.path, e.ver>>] = e
      BY DEF Stored
    <3> QED
      BY <3>1
  <2> HIDE DEF f
  <2>3. f \in Surjection(Files \X Versions, Stored)
    BY <2>1, <2>2 DEF Surjection
  <2> QED
    BY <1>2, <2>3, FS_Surjection
<1>4. IsFiniteSet({Chunks(v) : v \in Versions})
  <2> DEFINE f == [v \in Versions |-> Chunks(v)]
  <2>1. f \in Surjection(Versions, {Chunks(v) : v \in Versions})
    BY DEF Surjection
  <2> QED
    BY <1>1, <2>1, FS_Surjection
<1>5. \A v \in Versions : IsFiniteSet(Chunks(v))
  BY FS_Interval, ChunksType DEF Chunks
<1>6. IsFiniteSet(UNION {Chunks(v) : v \in Versions})
  BY <1>4, <1>5, FS_UNION
<1>7. IsFiniteSet(F)
  BY <1>3, FS_Subset DEF Images
<1> QED
  BY <1>6, <1>7

LEMMA AnnouncementsAre ==
  ASSUME NEW c \in Peers, NEW cur \in Images
  PROVE  Announcements(c, cur) \in Seq(OwnGots(c))
<1> DEFINE U == UNION {Chunks(v) : v \in Versions}
           gots == {[type |-> "acq", peer |-> c, path |-> e.path, chunk |-> i] : e \in cur, i \in U}
           due == {g \in gots : \E e \in cur : e.path = g.path /\ g.chunk \in Chunks(e.ver)}
<1>1. gots \subseteq OwnGots(c)
  BY ChunksType, FlatFiles DEF OwnGots, Got, Images, Stored
<1>2. IsFiniteSet(cur \X U)
  BY StoredFinite, FS_Product
<1>3. IsFiniteSet(gots)
  <2> DEFINE f == [x \in cur \X U |-> [type |-> "acq", peer |-> c, path |-> x[1].path, chunk |-> x[2]]]
  <2>1. f \in [cur \X U -> gots]
    OBVIOUS
  <2>2. ASSUME NEW g \in gots PROVE \E x \in cur \X U : f[x] = g
    <3>1. PICK e \in cur, i \in U : g = [type |-> "acq", peer |-> c, path |-> e.path, chunk |-> i]
      OBVIOUS
    <3> HIDE DEF U
    <3>2. <<e, i>> \in cur \X U /\ f[<<e, i>>] = g
      BY <3>1
    <3> QED
      BY <3>2
  <2> HIDE DEF f, gots, U
  <2>3. f \in Surjection(cur \X U, gots)
    BY <2>1, <2>2 DEF Surjection
  <2> QED
    BY <1>2, <2>3, FS_Surjection
<1>4. due \subseteq gots /\ IsFiniteSet(due)
  <2>1. due \subseteq gots
    OBVIOUS
  <2> HIDE DEF gots, due
  <2> QED
    BY <1>3, <2>1, FS_Subset
<1>5. Announcements(c, cur) = CHOOSE q \in [1 .. Cardinality(due) -> due] : Elements(q) = due
  BY DEF Announcements
<1> HIDE DEF due, gots
<1>6. Cardinality(due) \in Nat /\ \E q \in [1 .. Cardinality(due) -> due] : Elements(q) = due
  <2>1. Cardinality(due) \in Nat /\ ExistsBijection(1 .. Cardinality(due), due)
    BY <1>4, FS_CardinalityType
  <2>2. PICK q \in [1 .. Cardinality(due) -> due] : \A d \in due : \E i \in 1 .. Cardinality(due) : q[i] = d
    BY <2>1 DEF ExistsBijection, Bijection, Surjection
  <2>3. Elements(q) = due
    BY <2>2 DEF Elements
  <2> QED
    BY <2>1, <2>3
<1>7. Announcements(c, cur) \in [1 .. Cardinality(due) -> due]
  BY <1>5, <1>6
<1>8. Announcements(c, cur) \in [1 .. Cardinality(due) -> OwnGots(c)]
  BY <1>1, <1>4, <1>7
<1> QED
  BY <1>6, <1>8

LEMMA MatchedIs ==
  ASSUME NEW c, NEW s \in Nodes(c), NEW dels \in Images
  PROVE  Matched(s, dels) \in Nodes(c) /\ Matched(s, dels).jobs = s.jobs
<1>1. CASE dels = {}
  BY <1>1 DEF Matched
<1>2. CASE dels # {}
  <2> DEFINE t == Unlinked(Forgotten(s, dels), PathsOf(dels))
  <2>1. Forgotten(s, dels) \in Nodes(c) /\ Forgotten(s, dels).jobs = s.jobs
    BY ForgottenIs
  <2>2. t \in Nodes(c) /\ t.jobs = s.jobs
    BY <2>1, UnlinkedIs DEF Unlinked, Nodes, NodeRecords
  <2> HIDE DEF t
  <2>3. Refreshed(t) \in Nodes(c) /\ Refreshed(t).jobs = s.jobs
    BY <2>2, RefreshedIs DEF Refreshed, Nodes, NodeRecords
  <2> QED
    BY <1>2, <2>3 DEF Matched, t
<1> QED
  BY <1>1, <1>2

(* Work for what is missing is put into entries the file table has. *)
LEMMA UpdatesLocalIs ==
  ASSUME NEW c \in Peers, NEW s \in Nodes(c), NEW new \in Images, UpdatesLocal(c, s, new),
         PathsOf(Additions(s.cur, new)) \subseteq DOMAIN Matched(s, Deletions(s.cur, new)).entry
  PROVE  /\ \E t \in Nodes(c) : t.jobs = s.jobs /\ node' = [node EXCEPT ![c] = t]
         /\ \E q \in Seq(OwnGots(c)) : up' = [up EXCEPT ![c].got = @ \o q]
<1> DEFINE adds == Additions(s.cur, new)
           left == Matched(s, Deletions(s.cur, new))
           Changed(vers, order) == [p \in DOMAIN left.entry |->
             IF p \in DOMAIN vers
               THEN [left.entry[p] EXCEPT !.work = order[p], !.file = ForWriting(Latest(vers[p]))]
               ELSE left.entry[p]]
<1>1. s.cur \in Images /\ adds \in Images /\ Deletions(s.cur, new) \in Images
  BY NodeIs DEF Additions, Deletions, Images
<1>2. left \in Nodes(c) /\ left.jobs = s.jobs
  BY <1>1, MatchedIs
<1>3. PICK vers \in Listings(adds) :
        \E order \in Orders([p \in DOMAIN vers |-> Enqueued(left.entry[p].work, vers[p])]) :
          /\ node' = [node EXCEPT ![c] = [left EXCEPT !.cur = new, !.entry = Changed(vers, order)]]
          /\ up' = [up EXCEPT ![c].got = @ \o Announcements(c, left.cur)]
  BY DEF UpdatesLocal, Become
<1>4. PICK order \in Orders([p \in DOMAIN vers |-> Enqueued(left.entry[p].work, vers[p])]) :
        /\ node' = [node EXCEPT ![c] = [left EXCEPT !.cur = new, !.entry = Changed(vers, order)]]
        /\ up' = [up EXCEPT ![c].got = @ \o Announcements(c, left.cur)]
  BY <1>3
<1>5. /\ DOMAIN vers = PathsOf(adds) /\ DOMAIN vers \subseteq DOMAIN left.entry
      /\ \A p \in DOMAIN vers : vers[p] \in Seq(Versions) /\ vers[p] # <<>>
  <2>1. vers \in [PathsOf(adds) -> UNION {[1 .. n -> Versions] : n \in 1 .. MaxVersion}]
    BY <1>3 DEF Listings
  <2>2. ASSUME NEW p \in PathsOf(adds) PROVE vers[p] \in Seq(Versions) /\ vers[p] # <<>>
    <3>1. PICK n \in 1 .. MaxVersion : vers[p] \in [1 .. n -> Versions]
      BY <2>1
    <3>2. n \in Nat /\ n # 0 /\ vers[p] \in Seq(Versions) /\ Len(vers[p]) = n
      BY <3>1, FileSystemAssumption
    <3> QED
      BY <3>2
  <2> QED
    BY <2>1, <2>2
<1>6. \A p \in DOMAIN vers : order[p] \in Enqueued(left.entry[p].work, vers[p])
  BY <1>4 DEF Orders
<1> HIDE DEF adds, left
<1>7. /\ \A p \in DOMAIN left.entry : Fits(left.entry[p], p, s.jobs)
      /\ left.owners \in OwnerTables(Others(c))
      /\ DOMAIN left.owners = DOMAIN left.entry /\ DOMAIN left.entry \subseteq Files /\ s.jobs \in Seq(Job)
  BY <1>2, NodeIs, PartialIs
<1>8. ASSUME NEW p \in DOMAIN left.entry
      PROVE  Fits(Changed(vers, order)[p], p, s.jobs)
  <2>1. CASE p \notin DOMAIN vers
    BY <1>7, <2>1
  <2>2. CASE p \in DOMAIN vers
    <3> DEFINE e == left.entry[p]
               f == ForWriting(Latest(vers[p]))
               g == [e EXCEPT !.work = order[p], !.file = f]
    <3>1. e \in EntryRecords /\ e.work \in Seq(Nat)
      BY <1>7, FitsIs
    <3>2. /\ Latest(vers[p]) \in Versions /\ order[p] \in Seq(Nat)
          /\ Chunks(Latest(vers[p])) \subseteq Elements(order[p])
      BY <1>5, <1>6, <2>2, <3>1, EnqueuedAre
    <3>3. f \in Downloads /\ Missing(f) = Chunks(Latest(vers[p]))
      BY <3>2, ForWritingIs
    <3> HIDE DEF f
    <3>4. g \in EntryRecords /\ g.out = e.out /\ g.file = f /\ g.work = order[p]
      BY <3>1, <3>2, <3>3 DEF EntryRecords
    <3>5. Fits(g, p, s.jobs)
      BY <1>7, <3>2, <3>3, <3>4 DEF Fits, Awaited
    <3> QED
      BY <2>2, <3>5 DEF f
  <2> QED
    BY <2>1, <2>2
<1> DEFINE e == Changed(vers, order)
<1>9. /\ DOMAIN e = DOMAIN left.entry /\ e = [p \in DOMAIN e |-> e[p]]
      /\ \A p \in DOMAIN e : Fits(e[p], p, left.jobs)
  BY <1>2, <1>8
<1> HIDE DEF e
<1>10. [left EXCEPT !.entry = e] \in Nodes(c)
  <2>1. DOMAIN left.owners = DOMAIN e /\ DOMAIN e \subseteq Files
    BY <1>7, <1>9
  <2> QED
    BY <1>2, <1>7, <1>9, <2>1, NodeTable
<1>11. [[left EXCEPT !.entry = e] EXCEPT !.cur = new] \in Nodes(c)
  <2> DEFINE u == [left EXCEPT !.entry = e]
  <2>1. u \in Nodes(c)
    BY <1>10
  <2> HIDE DEF u
  <2>2. [u EXCEPT !.cur = new] \in Nodes(c)
    BY <2>1, NodeIs, NodeMade
  <2> QED
    BY <2>2 DEF u
<1>12. [left EXCEPT !.cur = new, !.entry = e] = [[left EXCEPT !.entry = e] EXCEPT !.cur = new]
  BY <1>2 DEF Nodes, NodeRecords
<1>13. [left EXCEPT !.cur = new, !.entry = e].jobs = s.jobs
  BY <1>2 DEF Nodes, NodeRecords
<1>14. Announcements(c, left.cur) \in Seq(OwnGots(c))
  BY <1>2, NodeIs, AnnouncementsAre
<1> QED
  BY <1>4, <1>11, <1>12, <1>13, <1>14 DEF e

-----------------------------------------------------------------------------
(* What is under way.  The books of those that were ever up have the jobs  *)
(* of those that are: a request, and its answer, carry what the job of     *)
(* that number says.  Books nothing is missing from are Later.             *)

Books == [c \in joined |-> IF c \in alive THEN {node[c].jobs} ELSE {}]
Mine(B, c, m) ==
  c \in DOMAIN B /\ \A jobs \in B[c] : /\ m.id \in DOMAIN jobs
                                       /\ jobs[m.id].path = m.path /\ jobs[m.id].chunk = m.chunk
Later(B, C) == \A c, m : Mine(B, c, m) => Mine(C, c, m)

Request == [type : {"req"}, peer : Peers, path : Files, chunk : Nat, id : Nat]
AnswerOf == [type : {"send", "err"}, peer : Peers, path : Files, chunk : Nat, id : Nat, data : Int]
Diff == [type : {"diff"}, adds : Images, dels : Images, from : Peers]
Master == [type : {"mst"}, fs : Images]
Table == [type : {"peers"}, ids : SUBSET Peers]
Update == [adds : Images, dels : Images]

OwnRequests(B, c) == {m \in Request : m.peer # c /\ Mine(B, c, m)}
Asked(B) == {m \in Request : Mine(B, m.peer, m)}
Due(B) == {m \in AnswerOf : Mine(B, m.peer, m)}
Answers(B, c) == {m \in AnswerOf : Mine(B, c, m)}
Parcels(B, ends, c) == {m \in Request : \A d \in ends \ {c} : Mine(B, d, m)} \cup Answers(B, c) \cup {EOF}
Gots(c) == {g \in Got : g.peer # c}
Diffs(c) == {u \in Diff : u.from # c}
News(c) == Gots(c) \cup Diffs(c) \cup Master \cup Table

Ups(c) == [got : Seq(OwnGots(c)), upd : Seq(Update)]
ToLogics(B, c) ==
  [del : Seq(Peers), req : Seq(Asked(B)), chunk : Seq(Answers(B, c)), acq : Seq(Gots(c)),
   diff : Seq(Diffs(c)), mst : Seq(Master)]
ToNets(B, c) == [req : Seq(OwnRequests(B, c)), send : Seq(Due(B)), err : Seq(Due(B))]

(* A connection has two ends, and whoever knows it is one of them. *)
TwoEnds(E) == E = {} \/ \E a, b \in Peers : a # b /\ E = {a, b}
Carries(B, w) ==
  /\ DOMAIN w = 1 .. MaxConns
  /\ \A k \in 1 .. MaxConns :
       /\ TwoEnds(DOMAIN w[k])
       /\ \A c \in DOMAIN w[k] : w[k][c] \in Seq(Parcels(B, DOMAIN w[k], c))
Ending(w, c) == {k \in 1 .. MaxConns : c \in DOMAIN w[k]}
Plugged(w, socks, logs) ==
  /\ DOMAIN socks = Peers /\ DOMAIN logs = Peers
  /\ \A c \in Peers :
       /\ DOMAIN socks[c] \subseteq Peers
       /\ \A d \in DOMAIN socks[c] : socks[c][d] # 0 =>
            socks[c][d] \in 1 .. MaxConns /\ c # d /\ DOMAIN w[socks[c][d]] = {c, d}
       /\ logs[c] \in Seq(Ending(w, c))

TrackerInv ==
  /\ master \in Images /\ mft \in OwnerTables(joined) /\ DOMAIN mft \subseteq PathsOf(master)
  /\ members \subseteq joined
  /\ DOMAIN up = Peers /\ \A c \in Peers : up[c] \in Ups(c)
  /\ DOMAIN down = Peers /\ \A c \in Peers : down[c] \in Seq(News(c))
UserInv ==
  /\ author \in Seq(Peers) /\ DOMAIN undone = Peers /\ \A c \in Peers : undone[c] \in Images
  /\ joined \subseteq Peers /\ alive \subseteq joined
NodeInv == DOMAIN node = Peers /\ \A c \in Peers : node[c] \in Nodes(c)
QueueInv ==
  /\ DOMAIN toLogic = Peers /\ \A c \in Peers : toLogic[c] \in ToLogics(Books, c)
  /\ DOMAIN toNet = Peers /\ \A c \in Peers : toNet[c] \in ToNets(Books, c)
NetInv == Carries(Books, wire) /\ Plugged(wire, sock, backlog)
Inv == TrackerInv /\ UserInv /\ NodeInv /\ QueueInv /\ NetInv

LEMMA LaterSets ==
  ASSUME NEW B, NEW C, Later(B, C)
  PROVE  /\ \A c : ToLogics(B, c) \subseteq ToLogics(C, c) /\ ToNets(B, c) \subseteq ToNets(C, c)
         /\ \A w : Carries(B, w) => Carries(C, w)
<1>1. /\ \A c : OwnRequests(B, c) \subseteq OwnRequests(C, c) /\ Answers(B, c) \subseteq Answers(C, c)
      /\ Asked(B) \subseteq Asked(C) /\ Due(B) \subseteq Due(C)
  BY DEF Later, OwnRequests, Answers, Asked, Due
<1>2. \A E, c : Parcels(B, E, c) \subseteq Parcels(C, E, c)
  BY <1>1 DEF Later, Parcels
<1>3. /\ Seq(Asked(B)) \subseteq Seq(Asked(C)) /\ Seq(Due(B)) \subseteq Seq(Due(C))
      /\ \A c : Seq(OwnRequests(B, c)) \subseteq Seq(OwnRequests(C, c))
      /\ \A c : Seq(Answers(B, c)) \subseteq Seq(Answers(C, c))
      /\ \A E, c : Seq(Parcels(B, E, c)) \subseteq Seq(Parcels(C, E, c))
  BY <1>1, <1>2, SeqMore
<1>4. ASSUME NEW c
      PROVE  ToLogics(B, c) \subseteq ToLogics(C, c) /\ ToNets(B, c) \subseteq ToNets(C, c)
  BY <1>3 DEF ToLogics, ToNets
<1>5. ASSUME NEW w, Carries(B, w) PROVE Carries(C, w)
  BY <1>3, <1>5 DEF Carries
<1> QED
  BY <1>4, <1>5

LEMMA BooksSame ==
  ASSUME NodeInv, UserInv, UNCHANGED <<joined, alive>>, NEW c \in Peers, NEW t, t.jobs = node[c].jobs,
         node' = [node EXCEPT ![c] = t]
  PROVE  Books' = Books
<1>1. \A d \in alive : node'[d].jobs = node[d].jobs
  BY DEF NodeInv, UserInv
<1> QED
  BY <1>1 DEF Books

LEMMA BooksUnchanged ==
  ASSUME UNCHANGED <<joined, alive, node>>
  PROVE  Books' = Books
BY DEF Books

(* Queues *)
LEMMA Tails ==
  ASSUME NEW S, NEW q \in Seq(S), q # <<>>
  PROVE  Head(q) \in S /\ Tail(q) \in Seq(S)
BY HeadTailProperties

LEMMA TakenFrom ==
  ASSUME NEW B, NEW c, NEW q \in ToLogics(B, c)
  PROVE  /\ q.del # <<>> => Head(q.del) \in Peers /\ [q EXCEPT !.del = Tail(@)] \in ToLogics(B, c)
         /\ q.req # <<>> => Head(q.req) \in Asked(B) /\ [q EXCEPT !.req = Tail(@)] \in ToLogics(B, c)
         /\ q.chunk # <<>> =>
              Head(q.chunk) \in Answers(B, c) /\ [q EXCEPT !.chunk = Tail(@)] \in ToLogics(B, c)
         /\ q.acq # <<>> => Head(q.acq) \in Gots(c) /\ [q EXCEPT !.acq = Tail(@)] \in ToLogics(B, c)
         /\ q.diff # <<>> => Head(q.diff) \in Diffs(c) /\ [q EXCEPT !.diff = Tail(@)] \in ToLogics(B, c)
         /\ q.mst # <<>> => Head(q.mst) \in Master /\ [q EXCEPT !.mst = Tail(@)] \in ToLogics(B, c)
<1>1. /\ q.del \in Seq(Peers) /\ q.req \in Seq(Asked(B)) /\ q.chunk \in Seq(Answers(B, c))
      /\ q.acq \in Seq(Gots(c)) /\ q.diff \in Seq(Diffs(c)) /\ q.mst \in Seq(Master)
  BY DEF ToLogics
<1>2. /\ q.del # <<>> => Head(q.del) \in Peers /\ Tail(q.del) \in Seq(Peers)
      /\ q.req # <<>> => Head(q.req) \in Asked(B) /\ Tail(q.req) \in Seq(Asked(B))
      /\ q.chunk # <<>> => Head(q.chunk) \in Answers(B, c) /\ Tail(q.chunk) \in Seq(Answers(B, c))
      /\ q.acq # <<>> => Head(q.acq) \in Gots(c) /\ Tail(q.acq) \in Seq(Gots(c))
      /\ q.diff # <<>> => Head(q.diff) \in Diffs(c) /\ Tail(q.diff) \in Seq(Diffs(c))
      /\ q.mst # <<>> => Head(q.mst) \in Master /\ Tail(q.mst) \in Seq(Master)
  BY <1>1, Tails
<1> QED
  BY <1>2 DEF ToLogics

LEMMA PutInto ==
  ASSUME NEW B, NEW c, NEW q \in ToLogics(B, c)
  PROVE  /\ \A g \in Seq(Peers) : [q EXCEPT !.del = @ \o g] \in ToLogics(B, c)
         /\ \A m \in Asked(B) : [q EXCEPT !.req = Append(@, m)] \in ToLogics(B, c)
         /\ \A m \in Answers(B, c) : [q EXCEPT !.chunk = Append(@, m)] \in ToLogics(B, c)
         /\ \A m \in Gots(c) : [q EXCEPT !.acq = Append(@, m)] \in ToLogics(B, c)
         /\ \A m \in Diffs(c) : [q EXCEPT !.diff = Append(@, m)] \in ToLogics(B, c)
         /\ \A m \in Master : [q EXCEPT !.mst = Append(@, m)] \in ToLogics(B, c)
<1>1. /\ q.del \in Seq(Peers) /\ q.req \in Seq(Asked(B)) /\ q.chunk \in Seq(Answers(B, c))
      /\ q.acq \in Seq(Gots(c)) /\ q.diff \in Seq(Diffs(c)) /\ q.mst \in Seq(Master)
  BY DEF ToLogics
<1>2. /\ \A g \in Seq(Peers) : q.del \o g \in Seq(Peers)
      /\ \A m \in Asked(B) : Append(q.req, m) \in Seq(Asked(B))
      /\ \A m \in Answers(B, c) : Append(q.chunk, m) \in Seq(Answers(B, c))
      /\ \A m \in Gots(c) : Append(q.acq, m) \in Seq(Gots(c))
      /\ \A m \in Diffs(c) : Append(q.diff, m) \in Seq(Diffs(c))
      /\ \A m \in Master : Append(q.mst, m) \in Seq(Master)
  BY <1>1, AppendProperties, ConcatProperties
<1> QED
  BY <1>2 DEF ToLogics

LEMMA NetQueues ==
  ASSUME NEW B, NEW c, NEW q \in ToNets(B, c)
  PROVE  /\ q.req # <<>> => Head(q.req) \in OwnRequests(B, c) /\ [q EXCEPT !.req = Tail(@)] \in ToNets(B, c)
         /\ q.send # <<>> => Head(q.send) \in Due(B) /\ [q EXCEPT !.send = Tail(@)] \in ToNets(B, c)
         /\ q.err # <<>> => Head(q.err) \in Due(B) /\ [q EXCEPT !.err = Tail(@)] \in ToNets(B, c)
         /\ \A m \in OwnRequests(B, c) : [q EXCEPT !.req = Append(@, m)] \in ToNets(B, c)
         /\ \A m \in Due(B) : /\ [q EXCEPT !.send = Append(@, m)] \in ToNets(B, c)
                              /\ [q EXCEPT !.err = Append(@, m)] \in ToNets(B, c)
<1>1. q.req \in Seq(OwnRequests(B, c)) /\ q.send \in Seq(Due(B)) /\ q.err \in Seq(Due(B))
  BY DEF ToNets
<1>2. /\ q.req # <<>> => Head(q.req) \in OwnRequests(B, c) /\ Tail(q.req) \in Seq(OwnRequests(B, c))
      /\ q.send # <<>> => Head(q.send) \in Due(B) /\ Tail(q.send) \in Seq(Due(B))
      /\ q.err # <<>> => Head(q.err) \in Due(B) /\ Tail(q.err) \in Seq(Due(B))
      /\ \A m \in OwnRequests(B, c) : Append(q.req, m) \in Seq(OwnRequests(B, c))
      /\ \A m \in Due(B) : Append(q.send, m) \in Seq(Due(B)) /\ Append(q.err, m) \in Seq(Due(B))
  BY <1>1, Tails, AppendProperties
<1> QED
  BY <1>2 DEF ToNets

-----------------------------------------------------------------------------
(* Connections *)

(* v is w, but for messages nobody reads and connections nobody knows. *)
Thinned(v, w, socks, logs) ==
  /\ DOMAIN v = 1 .. MaxConns
  /\ \A k \in 1 .. MaxConns :
       /\ DOMAIN v[k] = DOMAIN w[k] \/ DOMAIN v[k] = {}
       /\ (\E c \in DOMAIN w[k] : Reads(socks, logs, k, c)) => DOMAIN v[k] = DOMAIN w[k]
       /\ \A c \in DOMAIN v[k] : v[k][c] \in {w[k][c], <<>>}

LEMMA TidiedIs ==
  ASSUME NEW w, NEW socks, NEW logs
  PROVE  Thinned(Tidied(w, socks, logs), w, socks, logs)
<1> DEFINE v == Tidied(w, socks, logs)
<1>1. DOMAIN v = 1 .. MaxConns
  BY DEF Tidied
<1>2. ASSUME NEW k \in 1 .. MaxConns
      PROVE  /\ DOMAIN v[k] = DOMAIN w[k] \/ DOMAIN v[k] = {}
             /\ (\E c \in DOMAIN w[k] : Reads(socks, logs, k, c)) => DOMAIN v[k] = DOMAIN w[k]
             /\ \A c \in DOMAIN v[k] : v[k][c] \in {w[k][c], <<>>}
  <2>1. CASE \E c \in DOMAIN w[k] : Reads(socks, logs, k, c)
    <3>1. v[k] = [c \in DOMAIN w[k] |-> IF Reads(socks, logs, k, c) THEN w[k][c] ELSE <<>>]
      BY <2>1 DEF Tidied
    <3> QED
      BY <3>1
  <2>2. CASE ~ \E c \in DOMAIN w[k] : Reads(socks, logs, k, c)
    <3>1. v[k] = NoPaths
      BY <2>2 DEF Tidied
    <3>2. DOMAIN v[k] = {}
      BY <3>1 DEF NoPaths
    <3> QED
      BY <2>2, <3>2
  <2> QED
    BY <2>1, <2>2
<1> QED
  BY <1>1, <1>2 DEF Thinned

LEMMA CarriesTidied ==
  ASSUME NEW B, NEW w, Carries(B, w), NEW socks, NEW logs
  PROVE  Carries(B, Tidied(w, socks, logs))
<1> DEFINE v == Tidied(w, socks, logs)
<1>1. Thinned(v, w, socks, logs)
  BY TidiedIs
<1> HIDE DEF v
<1>2. ASSUME NEW k \in 1 .. MaxConns
      PROVE  /\ TwoEnds(DOMAIN v[k])
             /\ \A c \in DOMAIN v[k] : v[k][c] \in Seq(Parcels(B, DOMAIN v[k], c))
  <2>1. CASE DOMAIN v[k] = {}
    BY <2>1 DEF TwoEnds
  <2>2. CASE DOMAIN v[k] = DOMAIN w[k]
    <3>1. TwoEnds(DOMAIN w[k]) /\ \A c \in DOMAIN w[k] : w[k][c] \in Seq(Parcels(B, DOMAIN w[k], c))
      BY DEF Carries
    <3>2. \A c \in DOMAIN v[k] : v[k][c] = w[k][c] \/ v[k][c] = <<>>
      BY <1>1 DEF Thinned
    <3>3. \A S : <<>> \in Seq(S)
      BY ElementsEmpty
    <3> QED
      BY <2>2, <3>1, <3>2, <3>3
  <2> QED
    BY <1>1, <2>1, <2>2 DEF Thinned
<1>3. DOMAIN v = 1 .. MaxConns
  BY <1>1 DEF Thinned
<1>4. Carries(B, v)
  BY <1>2, <1>3 DEF Carries
<1> QED
  BY <1>4 DEF v

(* What a table or an accept queue knows, stays. *)
LEMMA PluggedTidied ==
  ASSUME NEW w, NEW socks, NEW logs, Plugged(w, socks, logs)
  PROVE  Plugged(Tidied(w, socks, logs), socks, logs)
<1> DEFINE v == Tidied(w, socks, logs)
<1>1. Thinned(v, w, socks, logs)
  BY TidiedIs
<1> HIDE DEF v
<1>2. ASSUME NEW c \in Peers, NEW d \in DOMAIN socks[c], socks[c][d] # 0
      PROVE  socks[c][d] \in 1 .. MaxConns /\ c # d /\ DOMAIN v[socks[c][d]] = {c, d}
  <2>1. socks[c][d] \in 1 .. MaxConns /\ c # d /\ DOMAIN w[socks[c][d]] = {c, d}
    BY <1>2 DEF Plugged
  <2>2. Reads(socks, logs, socks[c][d], c)
    BY DEF Reads
  <2> QED
    BY <1>1, <2>1, <2>2 DEF Thinned
<1>3. ASSUME NEW c \in Peers
      PROVE  logs[c] \in Seq(Ending(v, c))
  <2>1. logs[c] \in Seq(Ending(w, c))
    BY DEF Plugged
  <2>2. /\ Elements(logs[c]) \subseteq Ending(w, c) /\ DOMAIN logs[c] = 1 .. Len(logs[c])
        /\ Len(logs[c]) \in Nat /\ \A i \in DOMAIN logs[c] : logs[c][i] \in Elements(logs[c])
    BY <2>1, ElementsIn
  <2>3. ASSUME NEW i \in 1 .. Len(logs[c])
        PROVE  logs[c][i] \in Ending(v, c)
    <3>1. logs[c][i] \in Ending(w, c) /\ Reads(socks, logs, logs[c][i], c)
      BY <2>2 DEF Reads
    <3>2. DOMAIN v[logs[c][i]] = DOMAIN w[logs[c][i]]
      BY <1>1, <3>1 DEF Thinned, Ending
    <3> QED
      BY <3>1, <3>2 DEF Ending
  <2>4. logs[c] = [i \in 1 .. Len(logs[c]) |-> logs[c][i]]
    BY <2>1
  <2> QED
    BY <2>2, <2>3, <2>4, IsASeq
<1>4. Plugged(v, socks, logs)
  BY <1>2, <1>3 DEF Plugged
<1> QED
  BY <1>4 DEF v

SameEnds(v, w) == \A k \in 1 .. MaxConns : DOMAIN v[k] = DOMAIN w[k]

LEMMA PluggedDomains ==
  ASSUME NEW v, NEW w, NEW socks, NEW logs, Plugged(w, socks, logs),
         SameEnds(v, w)
  PROVE  Plugged(v, socks, logs)
<1>1. \A c : Ending(v, c) = Ending(w, c)
  BY DEF Ending, SameEnds
<1> QED
  BY <1>1 DEF Plugged, SameEnds

LEMMA SentIs ==
  ASSUME NEW B, NEW w, Carries(B, w), NEW k, NEW d, NEW m,
         k \in 1 .. MaxConns /\ d \in DOMAIN w[k] => m \in Parcels(B, DOMAIN w[k], d)
  PROVE  /\ Carries(B, Sent(w, k, d, m))
         /\ SameEnds(Sent(w, k, d, m), w)
<1>1. CASE ~ (k \in 1 .. MaxConns /\ d \in DOMAIN w[k])
  <2>1. CASE d \notin DOMAIN w[k]
    BY <2>1 DEF Sent, SameEnds
  <2>2. CASE d \in DOMAIN w[k]
    <3>1. k \notin 1 .. MaxConns /\ DOMAIN w = 1 .. MaxConns
      BY <1>1, <2>2 DEF Carries
    <3> DEFINE v == [w EXCEPT ![k][d] = Append(@, m)]
    <3>2. DOMAIN v = DOMAIN w /\ \A j \in DOMAIN w : v[j] = w[j]
      BY <3>1
    <3>3. Sent(w, k, d, m) = v
      BY <2>2 DEF Sent
    <3> HIDE DEF v
    <3>4. Carries(B, v)
      BY <3>1, <3>2 DEF Carries
    <3> QED
      BY <3>1, <3>2, <3>3, <3>4 DEF SameEnds
  <2> QED
    BY <2>1, <2>2
<1>2. CASE k \in 1 .. MaxConns /\ d \in DOMAIN w[k]
  <2> DEFINE v == [w EXCEPT ![k][d] = Append(@, m)]
  <2>1. Sent(w, k, d, m) = v
    BY <1>2 DEF Sent
  <2>2. DOMAIN w = 1 .. MaxConns
    BY DEF Carries
  <2>3. /\ DOMAIN v = 1 .. MaxConns /\ SameEnds(v, w)
        /\ \A j \in 1 .. MaxConns : \A c \in DOMAIN w[j] :
             v[j][c] = IF j = k /\ c = d THEN Append(w[k][d], m) ELSE w[j][c]
    BY <1>2, <2>2 DEF SameEnds
  <2> HIDE DEF v
  <2>4. ASSUME NEW j \in 1 .. MaxConns, NEW c \in DOMAIN w[j]
        PROVE  v[j][c] \in Seq(Parcels(B, DOMAIN w[j], c))
    <3>1. w[j][c] \in Seq(Parcels(B, DOMAIN w[j], c))
      BY DEF Carries
    <3>2. CASE j = k /\ c = d
      <4>1. m \in Parcels(B, DOMAIN w[j], c)
        BY <1>2, <3>2
      <4>2. Append(w[j][c], m) \in Seq(Parcels(B, DOMAIN w[j], c))
        BY <3>1, <4>1, AppendProperties
      <4> QED
        BY <2>3, <3>2, <4>2
    <3> QED
      BY <2>3, <3>1, <3>2
  <2>5. Carries(B, v)
    BY <2>3, <2>4 DEF Carries, SameEnds
  <2> QED
    BY <2>1, <2>3, <2>5
<1> QED
  BY <1>1, <1>2

(* The network thread takes the first message of a connection. *)
LEMMA ReadIs ==
  ASSUME NEW B, NEW w, Carries(B, w), NEW k \in 1 .. MaxConns, NEW c \in DOMAIN w[k], w[k][c] # <<>>
  PROVE  /\ Head(w[k][c]) \in Parcels(B, DOMAIN w[k], c) /\ Carries(B, [w EXCEPT ![k][c] = Tail(@)])
         /\ SameEnds([w EXCEPT ![k][c] = Tail(@)], w)
<1> DEFINE v == [w EXCEPT ![k][c] = Tail(@)]
<1>1. w[k][c] \in Seq(Parcels(B, DOMAIN w[k], c)) /\ DOMAIN w = 1 .. MaxConns
  BY DEF Carries
<1>2. Head(w[k][c]) \in Parcels(B, DOMAIN w[k], c) /\ Tail(w[k][c]) \in Seq(Parcels(B, DOMAIN w[k], c))
  BY <1>1, Tails
<1>3. /\ DOMAIN v = 1 .. MaxConns /\ SameEnds(v, w)
      /\ \A j \in 1 .. MaxConns : \A d \in DOMAIN w[j] :
           v[j][d] = IF j = k /\ d = c THEN Tail(w[k][c]) ELSE w[j][d]
  BY <1>1 DEF SameEnds
<1> HIDE DEF v
<1>4. Carries(B, v)
  BY <1>2, <1>3 DEF Carries, SameEnds
<1> QED
  BY <1>2, <1>3, <1>4 DEF v

-----------------------------------------------------------------------------
(* The network thread *)

LEMMA NetworkFrame ==
  ASSUME Inv, UNCHANGED <<userVars, node, alive>>
  PROVE  UserInv' /\ NodeInv' /\ Books' = Books
         /\ (UNCHANGED <<master, mft, members, down, up>> => TrackerInv')
<1>1. Books' = Books
  BY BooksUnchanged DEF userVars
<1> QED
  BY <1>1 DEF Inv, UserInv, NodeInv, TrackerInv, userVars

LEMMA QueuesMove ==
  ASSUME QueueInv, Later(Books, Books'), NEW c \in Peers,
         NEW q \in ToLogics(Books, c), NEW r \in ToNets(Books', c),
         toLogic' \in {toLogic, [toLogic EXCEPT ![c] = q]}, toNet' \in {toNet, [toNet EXCEPT ![c] = r]}
  PROVE  QueueInv'
<1>1. \A d : ToLogics(Books, d) \subseteq ToLogics(Books', d) /\ ToNets(Books, d) \subseteq ToNets(Books', d)
  BY LaterSets
<1>2. /\ DOMAIN toLogic' = Peers /\ DOMAIN toNet' = Peers
      /\ \A d \in Peers : toLogic'[d] \in ToLogics(Books, d)
      /\ \A d \in Peers : toNet'[d] \in ToNets(Books, d) \/ toNet'[d] \in ToNets(Books', d)
  BY DEF QueueInv
<1> QED
  BY <1>1, <1>2 DEF QueueInv

LEMMA LaterSame == \A B : Later(B, B)
BY DEF Later

LEMMA QueuesStay ==
  ASSUME QueueInv, Later(Books, Books'), UNCHANGED <<toLogic, toNet>>
  PROVE  QueueInv'
BY LaterSets DEF QueueInv

LEMMA NetStays ==
  ASSUME NetInv, Later(Books, Books'), UNCHANGED <<sock, backlog, wire>>
  PROVE  NetInv'
BY LaterSets DEF NetInv

LEMMA OtherEndIs ==
  ASSUME NEW k, NEW c \in DOMAIN wire[k], TwoEnds(DOMAIN wire[k])
  PROVE  OtherEnd(k, c) # c /\ DOMAIN wire[k] = {c, OtherEnd(k, c)} /\ OtherEnd(k, c) \in Peers
<1>1. \E d \in DOMAIN wire[k] : d # c
  BY DEF TwoEnds
<1>2. OtherEnd(k, c) \in DOMAIN wire[k] /\ OtherEnd(k, c) # c
  BY <1>1 DEF OtherEnd
<1> QED
  BY <1>2 DEF TwoEnds

(* Networks whose tables and accept queues change, and then tidy up. *)
LEMMA NetTidies ==
  ASSUME Books' = Books, NEW w, Carries(Books, w), Plugged(w, sock', backlog'),
         wire' = Tidied(w, sock', backlog')
  PROVE  NetInv'
<1>1. Carries(Books, wire') /\ Plugged(wire', sock', backlog')
  BY CarriesTidied, PluggedTidied
<1> QED
  BY <1>1 DEF NetInv

LEMMA SockSet ==
  ASSUME NEW w, Plugged(w, sock, backlog), NEW c \in Peers, NEW d \in DOMAIN sock[c],
         NEW k \in 1 .. MaxConns, c # d, DOMAIN w[k] = {c, d}
  PROVE  Plugged(w, [sock EXCEPT ![c][d] = k], backlog)
<1> DEFINE s == [sock EXCEPT ![c][d] = k]
<1>1. DOMAIN sock = Peers
  BY DEF Plugged
<1>2. /\ DOMAIN s = Peers /\ \A x \in Peers : DOMAIN s[x] = DOMAIN sock[x]
      /\ \A x \in Peers : \A y \in DOMAIN sock[x] : s[x][y] = IF x = c /\ y = d THEN k ELSE sock[x][y]
  BY <1>1
<1> HIDE DEF s
<1>3. Plugged(w, s, backlog)
  BY <1>2 DEF Plugged
<1> QED
  BY <1>3 DEF s

LEMMA SockCleared ==
  ASSUME NEW w, Plugged(w, sock, backlog), NEW c \in Peers, NEW d \in DOMAIN sock[c]
  PROVE  Plugged(w, [sock EXCEPT ![c][d] = 0], backlog)
<1> DEFINE s == [sock EXCEPT ![c][d] = 0]
<1>1. DOMAIN sock = Peers
  BY DEF Plugged
<1>2. /\ DOMAIN s = Peers /\ \A x \in Peers : DOMAIN s[x] = DOMAIN sock[x]
      /\ \A x \in Peers : \A y \in DOMAIN sock[x] : s[x][y] = IF x = c /\ y = d THEN 0 ELSE sock[x][y]
  BY <1>1
<1> HIDE DEF s
<1>3. Plugged(w, s, backlog)
  BY <1>2 DEF Plugged
<1> QED
  BY <1>3 DEF s

LEMMA NetAcceptInv ==
  ASSUME Inv, NEW c \in Peers, NetAccept(c)
  PROVE  Inv'
<1> DEFINE k == Head(backlog[c])
           d == OtherEnd(k, c)
           known == d \in DOMAIN sock[c]
           w == IF known THEN wire ELSE Sent(wire, k, d, EOF)
           s == IF known THEN [sock EXCEPT ![c][d] = k] ELSE sock
           b == [backlog EXCEPT ![c] = Tail(@)]
<1>1. /\ UNCHANGED <<trackerVars, up, userVars, node, toLogic, toNet, alive>> /\ backlog[c] # <<>>
      /\ sock' = s /\ backlog' = b /\ wire' = Tidied(w, sock', backlog')
  BY DEF NetAccept
<1>2. TrackerInv' /\ UserInv' /\ NodeInv' /\ Books' = Books
  BY <1>1, NetworkFrame DEF trackerVars
<1>3. QueueInv'
  BY <1>1, <1>2, LaterSame, QueuesStay DEF Inv
<1>4. Carries(Books, wire) /\ Plugged(wire, sock, backlog)
  BY DEF Inv, NetInv
<1>5. k \in Ending(wire, c) /\ Tail(backlog[c]) \in Seq(Ending(wire, c)) /\ DOMAIN backlog = Peers
  BY <1>1, <1>4, Tails DEF Plugged
<1>6. k \in 1 .. MaxConns /\ d # c /\ DOMAIN wire[k] = {c, d}
  BY <1>4, <1>5, OtherEndIs DEF Ending, Carries
<1> HIDE DEF k, d
<1>7. Plugged(wire, sock, b)
  BY <1>4, <1>5 DEF Plugged
<1>8. Plugged(wire, s, b)
  <2>1. CASE ~known
    BY <1>7, <2>1
  <2>2. CASE known
    <3>1. Plugged(wire, [sock EXCEPT ![c][d] = k], backlog)
      BY <1>4, <1>6, <2>2, SockSet
    <3>2. Plugged(wire, [sock EXCEPT ![c][d] = k], b)
      BY <1>5, <3>1 DEF Plugged
    <3> QED
      BY <2>2, <3>2
  <2> QED
    BY <2>1, <2>2
<1>9. Carries(Books, w) /\ SameEnds(w, wire)
  <2>1. Carries(Books, Sent(wire, k, d, EOF))
        /\ SameEnds(Sent(wire, k, d, EOF), wire)
    <3>1. EOF \in Parcels(Books, DOMAIN wire[k], d)
      BY DEF Parcels
    <3> QED
      BY <1>4, <3>1, SentIs
  <2> QED
    BY <1>4, <2>1 DEF SameEnds
<1> HIDE DEF w, s, b
<1>10. Plugged(w, s, b)
  BY <1>8, <1>9, PluggedDomains
<1>11. NetInv'
  BY <1>1, <1>2, <1>9, <1>10, NetTidies
<1> QED
  BY <1>2, <1>3, <1>11 DEF Inv

LEMMA TakesTableInv ==
  ASSUME Inv, NEW c \in Peers, NEW ids \in SUBSET Peers, TakesTable(c, ids), Books' = Books,
         UNCHANGED <<toNet, backlog>>
  PROVE  QueueInv' /\ NetInv'
<1>1. PICK gone \in [1 .. Cardinality(Lost(c, ids)) -> Lost(c, ids)] :
        toLogic' = [toLogic EXCEPT ![c].del = @ \o gone]
  BY DEF TakesTable
<1>2. /\ Carries(Books, wire) /\ Plugged(wire, sock, backlog)
      /\ toLogic[c] \in ToLogics(Books, c) /\ toNet[c] \in ToNets(Books, c) /\ QueueInv
  BY DEF Inv, NetInv, QueueInv
<1>3. gone \in Seq(Peers)
  <2>1. Lost(c, ids) \subseteq Peers
    BY <1>2 DEF Lost, Plugged
  <2>2. IsFiniteSet(Lost(c, ids))
    BY <2>1, ClientAssumption, FS_Subset
  <2>3. Cardinality(Lost(c, ids)) \in Nat
    BY <2>2, FS_CardinalityType
  <2>4. gone \in [1 .. Cardinality(Lost(c, ids)) -> Peers]
    BY <2>1
  <2> QED
    BY <2>3, <2>4
<1>4. [toLogic[c] EXCEPT !.del = @ \o gone] \in ToLogics(Books, c)
  BY <1>2, <1>3, PutInto
<1>5. QueueInv'
  BY <1>1, <1>2, <1>4, LaterSame, QueuesMove
<1>6. sock' = [sock EXCEPT ![c] = NewTable(ids)] /\ wire' = Tidied(wire, sock', backlog')
  BY DEF TakesTable
<1>7. /\ DOMAIN sock' = Peers
      /\ \A x \in Peers \ {c} : sock'[x] = sock[x]
      /\ DOMAIN sock'[c] = ids /\ \A d \in ids : sock'[c][d] = 0
  BY <1>2, <1>6 DEF Plugged, NewTable
<1>8. Plugged(wire, sock', backlog')
  BY <1>2, <1>7 DEF Plugged
<1>9. NetInv'
  BY <1>2, <1>6, <1>8, NetTidies
<1> QED
  BY <1>5, <1>9

LEMMA NetTrackerInv ==
  ASSUME Inv, NEW c \in Peers, NetTracker(c)
  PROVE  Inv'
<1> DEFINE m == Head(down[c])
<1>1. /\ UNCHANGED <<master, mft, members, up, userVars, node, toNet, alive, backlog>>
      /\ down[c] # <<>> /\ down' = [down EXCEPT ![c] = Tail(@)]
      /\ IF m.type = "peers" THEN TakesTable(c, m.ids)
         ELSE /\ toLogic' = [toLogic EXCEPT ![c][m.type] = Append(@, m)]
              /\ UNCHANGED <<sock, wire>>
  BY DEF NetTracker
<1>2. UserInv' /\ NodeInv' /\ Books' = Books
  BY <1>1, NetworkFrame
<1>3. /\ TrackerInv /\ down[c] \in Seq(News(c)) /\ QueueInv /\ NetInv
      /\ toLogic[c] \in ToLogics(Books, c) /\ toNet[c] \in ToNets(Books, c)
  BY DEF Inv, TrackerInv, QueueInv
<1>4. m \in News(c) /\ Tail(down[c]) \in Seq(News(c))
  BY <1>1, <1>3, Tails
<1>5. TrackerInv'
  BY <1>1, <1>3, <1>4 DEF TrackerInv, userVars
<1> HIDE DEF m
<1>6. CASE m.type = "peers"
  <2>1. m.ids \in SUBSET Peers
    BY <1>4, <1>6 DEF News, Gots, Got, Diffs, Diff, Master, Table
  <2>2. QueueInv' /\ NetInv'
    BY <1>1, <1>2, <1>6, <2>1, TakesTableInv
  <2> QED
    BY <1>2, <1>5, <2>2 DEF Inv
<1>7. CASE m.type # "peers"
  <2>1. \/ m \in Gots(c) /\ m.type = "acq"
        \/ m \in Diffs(c) /\ m.type = "diff"
        \/ m \in Master /\ m.type = "mst"
    BY <1>4, <1>7 DEF News, Gots, Got, Diffs, Diff, Master, Table
  <2>2. NetInv'
    BY <1>1, <1>2, <1>3, <1>7, LaterSame, NetStays
  <2>3. [toLogic[c] EXCEPT ![m.type] = Append(@, m)] \in ToLogics(Books, c)
    BY <1>3, <2>1, PutInto
  <2>4. QueueInv'
    BY <1>1, <1>2, <1>3, <1>7, <2>3, LaterSame, QueuesMove
  <2> QED
    BY <1>2, <1>5, <2>2, <2>4 DEF Inv
<1> QED
  BY <1>6, <1>7

LEMMA NetPeerInv ==
  ASSUME Inv, NEW c \in Peers, NEW d \in Peers, NetPeer(c, d)
  PROVE  Inv'
<1> DEFINE k == sock[c][d]
           m == Head(wire[k][c])
           read == [wire EXCEPT ![k][c] = Tail(@)]
<1>1. /\ UNCHANGED <<trackerVars, up, userVars, node, toNet, alive, backlog>>
      /\ d \in DOMAIN sock[c] /\ k # 0 /\ wire[k][c] # <<>>
      /\ CASE m.type = "EOF" ->
                /\ sock' = [sock EXCEPT ![c][d] = 0]
                /\ wire' = Tidied(Sent(read, k, d, EOF), sock', backlog)
                /\ UNCHANGED toLogic
           [] m.type = "req" ->
                /\ toLogic' = [toLogic EXCEPT ![c].req = Append(@, [m EXCEPT !.peer = d])]
                /\ wire' = read /\ UNCHANGED sock
           [] m.type \in {"send", "err"} ->
                /\ toLogic' = [toLogic EXCEPT ![c].chunk = Append(@, m)]
                /\ wire' = read /\ UNCHANGED sock
  BY DEF NetPeer
<1>2. TrackerInv' /\ UserInv' /\ NodeInv' /\ Books' = Books
  BY <1>1, NetworkFrame DEF trackerVars
<1>3. /\ Carries(Books, wire) /\ Plugged(wire, sock, backlog) /\ QueueInv
      /\ toLogic[c] \in ToLogics(Books, c) /\ toNet[c] \in ToNets(Books, c)
  BY DEF Inv, NetInv, QueueInv
<1>4. k \in 1 .. MaxConns /\ c # d /\ DOMAIN wire[k] = {c, d}
  BY <1>1, <1>3 DEF Plugged
<1> HIDE DEF k
<1>5. /\ m \in Parcels(Books, {c, d}, c) /\ Carries(Books, read)
      /\ SameEnds(read, wire)
  <2>1. c \in DOMAIN wire[k]
    BY <1>4
  <2>2. /\ Head(wire[k][c]) \in Parcels(Books, DOMAIN wire[k], c) /\ Carries(Books, read)
        /\ SameEnds(read, wire)
    BY <1>1, <1>3, <1>4, <2>1, ReadIs
  <2> QED
    BY <1>4, <2>2
<1> HIDE DEF m, read
<1>6. \/ m = EOF /\ m.type = "EOF"
      \/ m \in Request /\ m.type = "req" /\ Mine(Books, d, m)
      \/ m \in Answers(Books, c) /\ m.type \in {"send", "err"}
  BY <1>4, <1>5 DEF Parcels, EOF, Request, Answers, AnswerOf
<1>7. Plugged(read, sock, backlog)
  BY <1>3, <1>5, PluggedDomains
<1>8. CASE m.type = "EOF"
  <2> DEFINE w == Sent(read, k, d, EOF)
  <2>1. sock' = [sock EXCEPT ![c][d] = 0] /\ wire' = Tidied(w, sock', backlog') /\ UNCHANGED toLogic
    BY <1>1, <1>8
  <2>2. Carries(Books, w) /\ SameEnds(w, read)
    <3>1. EOF \in Parcels(Books, DOMAIN read[k], d)
      BY DEF Parcels
    <3> QED
      BY <1>5, <3>1, SentIs
  <2> HIDE DEF w
  <2>3. Plugged(w, [sock EXCEPT ![c][d] = 0], backlog)
    BY <1>1, <1>7, <2>2, PluggedDomains, SockCleared
  <2>4. NetInv'
    BY <1>1, <1>2, <2>1, <2>2, <2>3, NetTidies
  <2>5. QueueInv'
    BY <1>1, <1>2, <1>3, <2>1, LaterSame, QueuesStay
  <2> QED
    BY <1>2, <2>4, <2>5 DEF Inv
<1>9. CASE m.type # "EOF"
  <2>1. wire' = read /\ UNCHANGED <<sock, backlog>>
    BY <1>1, <1>6, <1>9
  <2>2. NetInv'
    BY <1>2, <1>5, <1>7, <2>1 DEF NetInv
  <2>3. CASE m.type = "req"
    <3> DEFINE r == [m EXCEPT !.peer = d]
    <3>1. m \in Request /\ Mine(Books, d, m) /\ r \in Request /\ r.peer = d /\ r.id = m.id /\ r.path = m.path
          /\ r.chunk = m.chunk
      BY <1>6, <2>3 DEF Request, Answers, AnswerOf
    <3>2. r \in Asked(Books)
      BY <3>1 DEF Asked, Mine
    <3>3. toLogic' = [toLogic EXCEPT ![c].req = Append(@, r)]
      BY <1>1, <2>3
    <3> HIDE DEF r
    <3>4. [toLogic[c] EXCEPT !.req = Append(@, r)] \in ToLogics(Books, c)
      BY <1>3, <3>2, PutInto
    <3>5. QueueInv'
      BY <1>1, <1>2, <1>3, <3>3, <3>4, LaterSame, QueuesMove
    <3> QED
      BY <1>2, <2>2, <3>5 DEF Inv
  <2>4. CASE m.type \in {"send", "err"}
    <3>1. m \in Answers(Books, c)
      BY <1>6, <2>4
    <3>2. toLogic' = [toLogic EXCEPT ![c].chunk = Append(@, m)]
      BY <1>1, <2>4
    <3>3. [toLogic[c] EXCEPT !.chunk = Append(@, m)] \in ToLogics(Books, c)
      BY <1>3, <3>1, PutInto
    <3>4. QueueInv'
      BY <1>1, <1>2, <1>3, <3>2, <3>3, LaterSame, QueuesMove
    <3> QED
      BY <1>2, <2>2, <3>4 DEF Inv
  <2> QED
    BY <1>6, <1>9, <2>3, <2>4
<1> QED
  BY <1>8, <1>9

LEMMA NetRequestsInv ==
  ASSUME Inv, NEW c \in Peers, NetRequests(c)
  PROVE  Inv'
<1> DEFINE r == Head(toNet[c].req)
           d == r.peer
<1>1. /\ UNCHANGED <<trackerVars, up, userVars, node, toLogic, alive>>
      /\ toNet[c].req # <<>> /\ toNet' = [toNet EXCEPT ![c].req = Tail(@)]
      /\ IF d \notin DOMAIN sock[c] \/ (sock[c][d] = 0 /\ d \notin alive)
           THEN UNCHANGED <<sock, backlog, wire>>
         ELSE IF sock[c][d] # 0
           THEN /\ wire' = Tidied(Sent(wire, sock[c][d], d, r), sock, backlog)
                /\ UNCHANGED <<sock, backlog>>
           ELSE \E k \in Unused :
                  /\ sock' = [sock EXCEPT ![c][d] = k]
                  /\ backlog' = [backlog EXCEPT ![d] = Append(@, k)]
                  /\ wire' = [wire EXCEPT ![k] = [e \in {c, d} |-> IF e = d THEN <<r>> ELSE <<>>]]
  BY DEF NetRequests, NetTakes
<1>2. TrackerInv' /\ UserInv' /\ NodeInv' /\ Books' = Books
  BY <1>1, NetworkFrame DEF trackerVars
<1>3. /\ Carries(Books, wire) /\ Plugged(wire, sock, backlog) /\ QueueInv /\ NetInv
      /\ toLogic[c] \in ToLogics(Books, c) /\ toNet[c] \in ToNets(Books, c)
  BY DEF Inv, NetInv, QueueInv
<1>4. r \in OwnRequests(Books, c) /\ [toNet[c] EXCEPT !.req = Tail(@)] \in ToNets(Books, c)
  BY <1>1, <1>3, NetQueues
<1>5. QueueInv'
  BY <1>1, <1>2, <1>3, <1>4, LaterSame, QueuesMove
<1>6. r \in Request /\ d \in Peers /\ d # c /\ Mine(Books, c, r)
  BY <1>4 DEF OwnRequests, Request
<1> HIDE DEF r, d
<1>7. r \in Parcels(Books, {c, d}, d)
  BY <1>6 DEF Parcels
<1>8. CASE d \notin DOMAIN sock[c] \/ (sock[c][d] = 0 /\ d \notin alive)
  BY <1>1, <1>2, <1>3, <1>5, <1>8, LaterSame, NetStays DEF Inv
<1>9. CASE d \in DOMAIN sock[c] /\ sock[c][d] # 0
  <2> DEFINE k == sock[c][d]
             w == Sent(wire, k, d, r)
  <2>1. wire' = Tidied(w, sock', backlog') /\ UNCHANGED <<sock, backlog>>
    BY <1>1, <1>9
  <2>2. k \in 1 .. MaxConns /\ DOMAIN wire[k] = {c, d}
    BY <1>3, <1>9 DEF Plugged
  <2> HIDE DEF k
  <2>3. Carries(Books, w) /\ SameEnds(w, wire)
    <3>1. r \in Parcels(Books, DOMAIN wire[k], d)
      BY <1>7, <2>2
    <3> QED
      BY <1>3, <3>1, SentIs
  <2> HIDE DEF w
  <2>4. Plugged(w, sock', backlog')
    BY <1>3, <2>1, <2>3, PluggedDomains
  <2>5. NetInv'
    BY <1>2, <2>1, <2>3, <2>4, NetTidies
  <2> QED
    BY <1>2, <1>5, <2>5 DEF Inv
<1>10. CASE d \in DOMAIN sock[c] /\ sock[c][d] = 0 /\ d \in alive
  <2>1. PICK k \in Unused :
          /\ sock' = [sock EXCEPT ![c][d] = k]
          /\ backlog' = [backlog EXCEPT ![d] = Append(@, k)]
          /\ wire' = [wire EXCEPT ![k] = [e \in {c, d} |-> IF e = d THEN <<r>> ELSE <<>>]]
    BY <1>1, <1>10
  <2>2. k \in 1 .. MaxConns /\ DOMAIN wire[k] = {} /\ DOMAIN wire = 1 .. MaxConns
    BY <1>3 DEF Unused, Carries
  <2>3. /\ DOMAIN wire' = 1 .. MaxConns /\ DOMAIN wire'[k] = {c, d}
        /\ \A j \in (1 .. MaxConns) \ {k} : wire'[j] = wire[j]
        /\ wire'[k][d] = <<r>> /\ wire'[k][c] = <<>>
    BY <1>6, <2>1, <2>2
  <2>4. Carries(Books, wire')
    <3>1. <<r>> \in Seq(Parcels(Books, {c, d}, d)) /\ <<>> \in Seq(Parcels(Books, {c, d}, c))
      BY <1>7, ElementsEmpty
    <3>2. TwoEnds({c, d})
      BY <1>6 DEF TwoEnds
    <3>3. ASSUME NEW j \in 1 .. MaxConns
          PROVE  /\ TwoEnds(DOMAIN wire'[j])
                 /\ \A e \in DOMAIN wire'[j] : wire'[j][e] \in Seq(Parcels(Books, DOMAIN wire'[j], e))
      <4>1. CASE j = k
        BY <2>3, <3>1, <3>2, <4>1
      <4>2. CASE j # k
        BY <1>3, <2>3, <4>2 DEF Carries
      <4> QED
        BY <4>1, <4>2
    <3> QED
      BY <2>3, <3>3 DEF Carries
  <2>5. Plugged(wire', sock, backlog)
    <3>1. \A j \in 1 .. MaxConns : DOMAIN wire[j] # {} => DOMAIN wire'[j] = DOMAIN wire[j]
      BY <2>2, <2>3
    <3>2. \A e : Ending(wire, e) \subseteq Ending(wire', e)
      BY <3>1 DEF Ending
    <3>3. \A e : Seq(Ending(wire, e)) \subseteq Seq(Ending(wire', e))
      BY <3>2, SeqMore
    <3>4. ASSUME NEW a \in Peers, NEW b \in DOMAIN sock[a], sock[a][b] # 0
          PROVE  /\ sock[a][b] \in 1 .. MaxConns /\ a # b
                 /\ DOMAIN wire'[sock[a][b]] = {a, b}
      <4>1. sock[a][b] \in 1 .. MaxConns /\ a # b /\ DOMAIN wire[sock[a][b]] = {a, b}
        BY <1>3, <3>4 DEF Plugged
      <4> QED
        BY <3>1, <4>1
    <3> QED
      BY <1>3, <3>3, <3>4 DEF Plugged
  <2>6. Plugged(wire', sock', backlog)
    BY <1>6, <1>10, <2>1, <2>2, <2>3, <2>5, SockSet
  <2>7. Append(backlog[d], k) \in Seq(Ending(wire', d)) /\ DOMAIN backlog = Peers
    <3>1. backlog[d] \in Seq(Ending(wire', d)) /\ DOMAIN backlog = Peers
      BY <1>6, <2>5 DEF Plugged
    <3>2. k \in Ending(wire', d)
      BY <2>2, <2>3 DEF Ending
    <3> QED
      BY <3>1, <3>2, AppendProperties
  <2>8. /\ DOMAIN backlog' = Peers /\ backlog'[d] \in Seq(Ending(wire', d))
        /\ \A e \in Peers \ {d} : backlog'[e] = backlog[e]
    BY <1>6, <2>1, <2>7
  <2>9. Plugged(wire', sock', backlog')
    BY <2>6, <2>8 DEF Plugged
  <2>10. NetInv'
    BY <1>2, <2>4, <2>9 DEF NetInv
  <2> QED
    BY <1>2, <1>5, <2>10 DEF Inv
<1> QED
  BY <1>8, <1>9, <1>10

LEMMA NetAnswersInv ==
  ASSUME Inv, NEW c \in Peers, NEW q \in {"send", "err"}, NetAnswers(c, q)
  PROVE  Inv'
<1> DEFINE r == Head(toNet[c][q])
           d == r.peer
           k == sock[c][d]
           w == Sent(wire, k, d, r)
<1>1. /\ UNCHANGED <<trackerVars, up, userVars, node, toLogic, alive, sock, backlog>>
      /\ toNet[c][q] # <<>> /\ toNet' = [toNet EXCEPT ![c][q] = Tail(@)]
      /\ wire' = IF d \in DOMAIN sock[c] /\ k # 0 THEN Tidied(w, sock, backlog) ELSE wire
  BY DEF NetAnswers, NetTakes
<1>2. TrackerInv' /\ UserInv' /\ NodeInv' /\ Books' = Books
  BY <1>1, NetworkFrame DEF trackerVars
<1>3. /\ Carries(Books, wire) /\ Plugged(wire, sock, backlog) /\ QueueInv /\ NetInv
      /\ toLogic[c] \in ToLogics(Books, c) /\ toNet[c] \in ToNets(Books, c)
  BY DEF Inv, NetInv, QueueInv
<1>4. r \in Due(Books) /\ [toNet[c] EXCEPT ![q] = Tail(@)] \in ToNets(Books, c)
  BY <1>1, <1>3, NetQueues
<1>5. QueueInv'
  BY <1>1, <1>2, <1>3, <1>4, LaterSame, QueuesMove
<1>6. r \in Answers(Books, d)
  BY <1>4 DEF Due, Answers
<1>7. CASE ~ (d \in DOMAIN sock[c] /\ k # 0)
  BY <1>1, <1>2, <1>3, <1>5, <1>7, LaterSame, NetStays DEF Inv
<1>8. CASE d \in DOMAIN sock[c] /\ k # 0
  <2>1. Carries(Books, w) /\ SameEnds(w, wire)
    <3>1. r \in Parcels(Books, DOMAIN wire[k], d)
      BY <1>6 DEF Parcels
    <3> HIDE DEF r, d, k
    <3> QED
      BY <1>3, <3>1, SentIs
  <2>2. wire' = Tidied(w, sock', backlog')
    BY <1>1, <1>8
  <2> HIDE DEF w
  <2>3. Plugged(w, sock', backlog')
    BY <1>1, <1>3, <2>1, PluggedDomains
  <2>4. NetInv'
    BY <1>2, <2>1, <2>2, <2>3, NetTidies
  <2> QED
    BY <1>2, <1>5, <2>4 DEF Inv
<1> QED
  BY <1>7, <1>8

-----------------------------------------------------------------------------
(* Steps of one client *)

LEMMA NodeBecomes ==
  ASSUME NodeInv, UserInv, UNCHANGED <<joined, alive>>, NEW c \in Peers, NEW t \in Nodes(c),
         t.jobs = node[c].jobs, node' \in {node, [node EXCEPT ![c] = t]}
  PROVE  NodeInv' /\ Books' = Books
<1>1. Books' = Books
  BY BooksSame, BooksUnchanged
<1> QED
  BY <1>1 DEF NodeInv

LEMMA TrackerStays ==
  ASSUME TrackerInv, UNCHANGED <<trackerVars, joined>>, NEW c \in Peers, NEW u \in Ups(c),
         up' \in {up, [up EXCEPT ![c] = u]}
  PROVE  TrackerInv'
BY DEF TrackerInv, trackerVars

(* Of a step of a logic thread that gives out no job. *)
LEMMA LogicInv ==
  ASSUME Inv, NEW c \in Peers, UNCHANGED <<trackerVars, userVars, netVars>>,
         NEW t \in Nodes(c), t.jobs = node[c].jobs, node' \in {node, [node EXCEPT ![c] = t]},
         NEW q \in ToLogics(Books, c), toLogic' \in {toLogic, [toLogic EXCEPT ![c] = q]},
         NEW r \in ToNets(Books, c), toNet' \in {toNet, [toNet EXCEPT ![c] = r]},
         NEW u \in Ups(c), up' \in {up, [up EXCEPT ![c] = u]}
  PROVE  Inv'
<1>1. NodeInv' /\ Books' = Books
  BY NodeBecomes DEF Inv, userVars, netVars
<1>2. TrackerInv'
  BY TrackerStays DEF Inv, userVars
<1>3. UserInv'
  BY DEF Inv, UserInv, userVars, netVars
<1>4. QueueInv'
  BY <1>1, LaterSame, QueuesMove DEF Inv
<1>5. NetInv'
  BY <1>1, LaterSame, NetStays DEF Inv, netVars
<1> QED
  BY <1>1, <1>2, <1>3, <1>4, <1>5 DEF Inv

(* What a logic thread finds. *)
LEMMA Finds ==
  ASSUME Inv, NEW c \in Peers
  PROVE  /\ node[c] \in Nodes(c) /\ DOMAIN node = Peers
         /\ toLogic[c] \in ToLogics(Books, c) /\ toNet[c] \in ToNets(Books, c) /\ up[c] \in Ups(c)
BY DEF Inv, NodeInv, QueueInv, TrackerInv

-----------------------------------------------------------------------------
(* Users *)

LEMMA EditsInv ==
  ASSUME Inv, NEW c \in Peers, NEW p, NEW dir \in Partial(Files, OnDisk), Edits(c, p, dir),
         author' \in Seq(Peers)
  PROVE  Inv'
<1> DEFINE s == node[c]
           t == [s EXCEPT !.disk = dir, !.cur = IF c \in alive THEN @ ELSE Scan(dir)]
<1>1. /\ UNCHANGED <<trackerVars, up, joined, toLogic, toNet, netVars>>
      /\ node' = [node EXCEPT ![c] = t]
      /\ undone' = [undone EXCEPT ![c] = @ \cup {e \in Scan(s.disk) : e.path = p}]
  BY DEF Edits
<1>2. s \in Nodes(c)
  BY Finds
<1>3. t \in Nodes(c) /\ t.jobs = s.jobs
  <2>1. Scan(dir) \in Images /\ s.cur \in Images
    BY <1>2, ScanIs, NodeIs
  <2>2. \A cur \in Images : [s EXCEPT !.disk = dir, !.cur = cur] \in Nodes(c)
                            /\ [s EXCEPT !.disk = dir, !.cur = cur].jobs = s.jobs
    <3> SUFFICES ASSUME NEW cur \in Images
                 PROVE  [s EXCEPT !.disk = dir, !.cur = cur] \in Nodes(c)
                        /\ [s EXCEPT !.disk = dir, !.cur = cur].jobs = s.jobs
      OBVIOUS
    <3>1. [s EXCEPT !.disk = dir, !.cur = cur] \in Nodes(c)
      BY <1>2, NodeIs, NodeMade
    <3> QED
      BY <1>2, <3>1 DEF Nodes, NodeRecords
  <2> DEFINE x == IF c \in alive THEN s.cur ELSE Scan(dir)
  <2>3. x \in Images
    BY <2>1
  <2>4. t = [s EXCEPT !.disk = dir, !.cur = x]
    BY <1>2 DEF Nodes, NodeRecords
  <2> HIDE DEF x, t
  <2> QED
    BY <2>2, <2>3, <2>4
<1> HIDE DEF t
<1>4. NodeInv' /\ Books' = Books
  BY <1>1, <1>3, NodeBecomes DEF Inv, netVars
<1>5. UserInv'
  <2>1. Scan(s.disk) \in Images
    BY <1>2, NodeIs, ScanIs
  <2> HIDE DEF s
  <2>2. undone[c] \cup {e \in Scan(s.disk) : e.path = p} \in Images
    BY <2>1 DEF Inv, UserInv, Images
  <2> QED
    BY <1>1, <2>2 DEF Inv, UserInv, netVars
<1>6. TrackerInv'
  BY <1>1, Finds, TrackerStays DEF Inv
<1>7. QueueInv' /\ NetInv'
  BY <1>1, <1>4, LaterSame, QueuesStay, NetStays DEF Inv, netVars
<1> QED
  BY <1>4, <1>5, <1>6, <1>7 DEF Inv

LEMMA UserWritesInv ==
  ASSUME Inv, NEW c \in Peers, NEW p \in Files, UserWrites(c, p)
  PROVE  Inv'
<1> DEFINE v == Len(author) + 1
           file == [ver |-> v, data |-> Content(v)]
           new == [q \in {p} |-> file]
<1>1. v \in Versions /\ Edits(c, p, With(node[c].disk, new)) /\ author' = Append(author, c)
  BY DEF UserWrites, Inv, UserInv, Versions, FileSystemAssumption
<1>2. author' \in Seq(Peers)
  BY <1>1, AppendProperties DEF Inv, UserInv
<1> HIDE DEF v
<1>3. file \in OnDisk
  <2>1. Chunks(v) \subseteq Nat /\ v \in Int
    BY <1>1, ChunksType
  <2>2. Content(v) \in [Chunks(v) -> Int]
    BY <2>1 DEF Content
  <2>3. Content(v) \in Partial(Nat, Int) /\ DOMAIN Content(v) = Chunks(v)
    BY <2>1, <2>2, PartialMade
  <2> QED
    BY <1>1, <2>3 DEF OnDisk
<1>4. new \in Partial(Files, OnDisk)
  <2>1. new \in [{p} -> OnDisk] /\ {p} \in SUBSET Files
    BY <1>3
  <2> QED
    BY <2>1, PartialMade
<1> HIDE DEF new
<1>5. With(node[c].disk, new) \in Partial(Files, OnDisk)
  BY <1>4, Finds, NodeIs, PartialWith
<1> QED
  BY <1>1, <1>2, <1>5, EditsInv

LEMMA UserRemovesInv ==
  ASSUME Inv, NEW c \in Peers, NEW p \in Files, UserRemoves(c, p)
  PROVE  Inv'
<1>1. Edits(c, p, Without(node[c].disk, {p})) /\ author' \in Seq(Peers)
  BY DEF UserRemoves, Inv, UserInv
<1>2. Without(node[c].disk, {p}) \in Partial(Files, OnDisk)
  BY Finds, NodeIs, PartialWithout
<1> QED
  BY <1>1, <1>2, EditsInv

-----------------------------------------------------------------------------
(* Logic threads *)

LEMMA LogicPeerDeletedInv ==
  ASSUME Inv, NEW c \in Peers, LogicPeerDeleted(c)
  PROVE  Inv'
<1> DEFINE d == Head(toLogic[c].del)
           owners == RemovePeer(node[c].owners, d)
           t == [node[c] EXCEPT !.owners = owners]
           q == [toLogic[c] EXCEPT !.del = Tail(@)]
<1>1. /\ UNCHANGED <<trackerVars, userVars, netVars, up, toNet>>
      /\ toLogic[c].del # <<>> /\ toLogic' = [toLogic EXCEPT ![c] = q]
      /\ node' = [node EXCEPT ![c] = t]
  BY DEF LogicPeerDeleted, LogicTakes
<1>2. node[c] \in Nodes(c) /\ q \in ToLogics(Books, c)
  BY <1>1, Finds, TakenFrom
<1> HIDE DEF d, q
<1>3. node[c].owners \in OwnerTables(Others(c))
  BY <1>2, NodeIs
<1>4. owners \in OwnerTables(Others(c)) /\ DOMAIN owners = DOMAIN node[c].owners
  BY <1>3, PeerRemoved
<1> HIDE DEF owners
<1>5. t \in Nodes(c)
  BY <1>2, <1>4, NodeOwners
<1>6. t.jobs = node[c].jobs
  BY <1>2 DEF Nodes, NodeRecords
<1> HIDE DEF t
<1> QED
  BY <1>1, <1>2, <1>5, <1>6, Finds, LogicInv

LEMMA LogicChunkGotInv ==
  ASSUME Inv, NEW c \in Peers, LogicChunkGot(c)
  PROVE  Inv'
<1> DEFINE g == Head(toLogic[c].acq)
           owners == GotApplied(node[c].owners, g)
           t == [node[c] EXCEPT !.owners = owners]
           q == [toLogic[c] EXCEPT !.acq = Tail(@)]
<1>1. /\ UNCHANGED <<trackerVars, userVars, netVars, up, toNet>>
      /\ toLogic[c].acq # <<>> /\ toLogic' = [toLogic EXCEPT ![c] = q]
      /\ node' = [node EXCEPT ![c] = t]
  BY DEF LogicChunkGot, LogicTakes
<1>2. node[c] \in Nodes(c) /\ q \in ToLogics(Books, c) /\ g \in Gots(c)
  BY <1>1, Finds, TakenFrom
<1> HIDE DEF g, q
<1>3. node[c].owners \in OwnerTables(Others(c)) /\ g.peer \in Others(c)
  BY <1>2, NodeIs DEF Gots, Got, Others
<1>4. owners \in OwnerTables(Others(c)) /\ DOMAIN owners = DOMAIN node[c].owners
  BY <1>3, GotIs
<1> HIDE DEF owners
<1>5. t \in Nodes(c)
  BY <1>2, <1>4, NodeOwners
<1>6. t.jobs = node[c].jobs
  BY <1>2 DEF Nodes, NodeRecords
<1> HIDE DEF t
<1> QED
  BY <1>1, <1>2, <1>5, <1>6, Finds, LogicInv

(* An answer goes to a peer whose request it is. *)
LEMMA AnswerIs ==
  ASSUME Inv, NEW c \in Peers, NEW q \in {"send", "err"}, NEW r \in Asked(Books), NEW data \in Int,
         Answer(c, q, r, data)
  PROVE  \E n \in ToNets(Books, c) : toNet' \in {toNet, [toNet EXCEPT ![c] = n]}
<1> DEFINE m == [type |-> q, peer |-> r.peer, path |-> r.path, chunk |-> r.chunk,
                 id |-> r.id, data |-> data]
           n == [toNet[c] EXCEPT ![q] = Append(@, m)]
<1>1. toNet[c] \in ToNets(Books, c)
  BY Finds
<1>2. m \in Due(Books)
  BY DEF Asked, Request, Due, AnswerOf, Mine
<1>3. toNet' \in {toNet, [toNet EXCEPT ![c] = n]}
  BY DEF Answer
<1> HIDE DEF m
<1>4. n \in ToNets(Books, c)
  BY <1>1, <1>2, NetQueues
<1> QED
  BY <1>1, <1>3, <1>4

LEMMA LogicChunkRequestInv ==
  ASSUME Inv, NEW c \in Peers, LogicChunkRequest(c)
  PROVE  Inv'
<1> DEFINE r == Head(toLogic[c].req)
           p == r.path
           s == node[c]
           q == [toLogic[c] EXCEPT !.req = Tail(@)]
           t == [s EXCEPT !.entry[p].file = ForReading(s.disk[p])]
<1>1. /\ UNCHANGED <<trackerVars, userVars, netVars>>
      /\ toLogic[c].req # <<>> /\ toLogic' = [toLogic EXCEPT ![c] = q]
  BY DEF LogicChunkRequest, LogicTakes
<1>2. s \in Nodes(c) /\ q \in ToLogics(Books, c) /\ r \in Asked(Books)
  BY <1>1, Finds, TakenFrom
<1>3. \/ /\ p \in DOMAIN s.entry /\ s.entry[p].file # NoFile
         /\ Answer(c, "send", r, GetChunk(s.entry[p].file, r.chunk)) /\ UNCHANGED <<up, node>>
      \/ /\ p \in DOMAIN s.disk /\ Answer(c, "send", r, GetChunk(s.disk[p], r.chunk))
         /\ UNCHANGED up
         /\ \/ p \in DOMAIN s.entry /\ s.entry[p].file = NoFile /\ node' = [node EXCEPT ![c] = t]
            \/ UNCHANGED node
      \/ Answer(c, "err", r, Rejected) /\ UNCHANGED <<up, node>>
      \/ UNCHANGED <<up, node, toNet>>
  BY DEF LogicChunkRequest, Fails
<1> HIDE DEF r, q
<1>4. s.disk \in Partial(Files, OnDisk) /\ s.entry \in Partial(Files, EntryRecords) /\ s.jobs \in Seq(Job)
      /\ \A x \in DOMAIN s.entry : Fits(s.entry[x], x, s.jobs)
  BY <1>2, NodeIs
<1>5. UNCHANGED up /\ \E n \in ToNets(Books, c) : toNet' \in {toNet, [toNet EXCEPT ![c] = n]}
  <2>1. p \in DOMAIN s.entry /\ s.entry[p].file # NoFile => GetChunk(s.entry[p].file, r.chunk) \in Int
    BY <1>4, FitsIs, GetChunkIs
  <2>2. p \in DOMAIN s.disk => GetChunk(s.disk[p], r.chunk) \in Int
    BY <1>4, PartialIs, GetChunkIs
  <2>3. Rejected \in Int
    BY DEF Rejected
  <2>4. toNet[c] \in ToNets(Books, c)
    BY Finds
  <2> HIDE DEF p, s
  <2> QED
    BY <1>2, <1>3, <2>1, <2>2, <2>3, <2>4, AnswerIs
<1>6. node' \in {node, [node EXCEPT ![c] = t]} /\ (node' # node => t \in Nodes(c))
  <2>1. ASSUME p \in DOMAIN s.entry, s.entry[p].file = NoFile, p \in DOMAIN s.disk
        PROVE  t \in Nodes(c)
    <3> DEFINE f == ForReading(s.disk[p])
               e == [work |-> s.entry[p].work, out |-> s.entry[p].out, file |-> f]
    <3>1. f \in Downloads /\ f.path = FALSE
      BY <1>4, <2>1, PartialIs, ForReadingIs
    <3> HIDE DEF f
    <3>2. /\ s.entry[p] \in EntryRecords /\ Fits(s.entry[p], p, s.jobs)
          /\ s.entry[p] = [work |-> s.entry[p].work, out |-> s.entry[p].out, file |-> s.entry[p].file]
      BY <1>4, <2>1, FitsIs
    <3>3. Fits(e, p, s.jobs)
      BY <3>1, <3>2 DEF Fits, EntryRecords
    <3>4. [s.entry[p] EXCEPT !.file = f] = e
      BY <3>2 DEF EntryRecords
    <3>5. t = [s EXCEPT !.entry[p] = e]
      BY <3>4 DEF f
    <3> HIDE DEF e, t
    <3> QED
      BY <1>2, <2>1, <3>3, <3>5, EntryChanged
  <2> QED
    BY <1>3, <2>1
<1>7. (node' # node => t.jobs = s.jobs)
  BY <1>2, <1>6 DEF Nodes, NodeRecords
<1> HIDE DEF t
<1> QED
  BY <1>1, <1>2, <1>5, <1>6, <1>7, Finds, LogicInv

LEMMA LogicChunkInv ==
  ASSUME Inv, NEW c \in Peers, LogicChunk(c)
  PROVE  Inv'
<1> DEFINE m == Head(toLogic[c].chunk)
           p == m.path
           s == node[c]
           f == s.entry[p].file
           g == SetChunk(f, m.chunk, m.data)
           got == [type |-> "acq", peer |-> c, path |-> p, chunk |-> m.chunk]
           q == [toLogic[c] EXCEPT !.chunk = Tail(@)]
           u == [up[c] EXCEPT !.got = Append(@, got)]
           Whole == Completed(JobDone(s, m), p, g)
           More == Refreshed([JobDone(s, m) EXCEPT !.entry[p].file = g])
           Again == Requeued(JobDone(s, m), p, m.chunk)
<1>1. /\ UNCHANGED <<trackerVars, userVars, netVars>> /\ c \in alive
      /\ toLogic[c].chunk # <<>> /\ toLogic' = [toLogic EXCEPT ![c] = q]
  BY DEF LogicChunk, LogicTakes, Up
<1>2. s \in Nodes(c) /\ q \in ToLogics(Books, c) /\ m \in Answers(Books, c) /\ up[c] \in Ups(c)
  BY <1>1, Finds, TakenFrom
<1>3. \/ UNCHANGED <<up, node, toNet>>
      \/ /\ p \in DOMAIN s.entry /\ m.id \in Elements(s.entry[p].out) /\ UNCHANGED toNet
         /\ \/ f = NoFile /\ node' = [node EXCEPT ![c] = JobDone(s, m)] /\ UNCHANGED up
            \/ node' = [node EXCEPT ![c] = Again] /\ UNCHANGED up
            \/ /\ f # NoFile /\ m.chunk \in DOMAIN f.data /\ up' = [up EXCEPT ![c] = u]
               /\ node' \in {[node EXCEPT ![c] = Whole], [node EXCEPT ![c] = More]}
  BY DEF LogicChunk, Fails, Outstanding, Become
<1> HIDE DEF q, m
<1>4. m \in AnswerOf /\ m.chunk \in Nat /\ m.data \in Int /\ p \in Files /\ Mine(Books, c, m)
  BY <1>2 DEF Answers, AnswerOf
<1>5. m.id \in DOMAIN s.jobs /\ s.jobs[m.id].path = p /\ s.jobs[m.id].chunk = m.chunk
  <2>1. c \in DOMAIN Books /\ Books[c] = {s.jobs}
    BY <1>1 DEF Inv, UserInv, Books
  <2> QED
    BY <1>4, <2>1 DEF Mine
<1>6. u \in Ups(c)
  <2>1. got \in OwnGots(c)
    BY <1>4 DEF OwnGots, Got
  <2> HIDE DEF got
  <2>2. up[c].got \in Seq(OwnGots(c))
    BY <1>2 DEF Ups
  <2>3. Append(up[c].got, got) \in Seq(OwnGots(c))
    BY <2>1, <2>2, AppendProperties
  <2> QED
    BY <1>2, <2>3 DEF Ups
<1>7. JobDone(s, m).jobs = s.jobs /\ Again.jobs = s.jobs /\ Whole.jobs = s.jobs /\ More.jobs = s.jobs
  BY <1>2 DEF Nodes, NodeRecords, JobDone, Requeued, Completed, Refreshed
<1> HIDE DEF u
<1>8. CASE UNCHANGED <<up, node, toNet>>
  BY <1>1, <1>2, <1>8, Finds, LogicInv
<1>9. CASE ~ UNCHANGED <<up, node, toNet>>
  <2>1. p \in DOMAIN s.entry /\ m.id \in Elements(s.entry[p].out)
    BY <1>3, <1>9
  <2>2. /\ f = NoFile => JobDone(s, m) \in Nodes(c)
        /\ Again \in Nodes(c)
        /\ f # NoFile /\ m.chunk \in DOMAIN f.data => Whole \in Nodes(c) /\ More \in Nodes(c)
    BY <1>2, <1>4, <1>5, <2>1, AnsweredIs
  <2> DEFINE J == JobDone(s, m)
  <2>3. PICK t \in {J, Again, Whole, More} :
          t \in Nodes(c) /\ t.jobs = s.jobs /\ node' = [node EXCEPT ![c] = t]
    <3> HIDE DEF J, Again, Whole, More, f, g
    <3>1. \/ f = NoFile /\ node' = [node EXCEPT ![c] = J]
          \/ node' = [node EXCEPT ![c] = Again]
          \/ f # NoFile /\ m.chunk \in DOMAIN f.data /\ node' = [node EXCEPT ![c] = Whole]
          \/ f # NoFile /\ m.chunk \in DOMAIN f.data /\ node' = [node EXCEPT ![c] = More]
      BY <1>3, <1>9 DEF J
    <3>2. J.jobs = s.jobs /\ Again.jobs = s.jobs /\ Whole.jobs = s.jobs /\ More.jobs = s.jobs
      BY <1>7 DEF J
    <3>3. f = NoFile => J \in Nodes(c)
      BY <2>2 DEF J
    <3> QED
      BY <2>2, <3>1, <3>2, <3>3
  <2>4. up' \in {up, [up EXCEPT ![c] = u]} /\ UNCHANGED toNet
    BY <1>3, <1>9
  <2> QED
    BY <1>1, <1>2, <1>6, <2>3, <2>4, Finds, LogicInv
<1> QED
  BY <1>8, <1>9

(* A file to download, of whose chunks none has come. *)
LEMMA DownloadFits ==
  ASSUME NEW v \in Versions, NEW w \in Shuffles(AllChunks(v)), NEW p, NEW jobs
  PROVE  Fits(Download(v, w), p, jobs)
<1> DEFINE f == ForWriting(v)
<1>1. w \in Seq(Nat) /\ Elements(w) = Chunks(v)
  BY AllChunksAre, ShufflesAre
<1>2. f \in Downloads /\ Missing(f) = Chunks(v)
  BY ForWritingIs
<1> HIDE DEF f
<1>3. Fits([work |-> w, out |-> <<>>, file |-> f], p, jobs)
  BY <1>1, <1>2, FitsNew
<1> QED
  BY <1>3 DEF Download, f

LEMMA LogicDiffInv ==
  ASSUME Inv, NEW c \in Peers, LogicDiff(c)
  PROVE  Inv'
<1> DEFINE u == Head(toLogic[c].diff)
           gone == Forgotten(node[c], u.dels)
           left == Unlinked(gone, PathsOf(u.dels))
           q == [toLogic[c] EXCEPT !.diff = Tail(@)]
           Entry(e, order) == [p \in DOMAIN e |-> Download(e[p].ver, order[p])]
           Written(e) == [p \in {p \in DOMAIN e : ChunksOf[e[p].ver] = 0} |-> Saved(ForWriting(e[p].ver))]
           After(e, order) ==
             LET s == Learnt(left, u.adds, u.from, Entry(e, order))
             IN  [s EXCEPT !.disk = With(@, Written(e))]
<1>1. /\ UNCHANGED <<trackerVars, userVars, netVars, up, toNet>>
      /\ toLogic[c].diff # <<>> /\ toLogic' = [toLogic EXCEPT ![c] = q]
  BY DEF LogicDiff, LogicTakes
<1>20. PICK e \in Winners(u.adds) :
         \E order \in Orders([p \in DOMAIN e |-> Shuffles(AllChunks(e[p].ver))]) :
           node' = [node EXCEPT ![c] = Refreshed(After(e, order))]
  BY DEF LogicDiff, Become
<1>2. PICK order \in Orders([p \in DOMAIN e |-> Shuffles(AllChunks(e[p].ver))]) :
        node' = [node EXCEPT ![c] = Refreshed(After(e, order))]
  BY <1>20
<1>3. node[c] \in Nodes(c) /\ q \in ToLogics(Books, c) /\ u \in Diffs(c)
  BY <1>1, Finds, TakenFrom
<1> HIDE DEF u, q
<1>4. u.adds \in Images /\ u.dels \in Images /\ u.from \in Others(c)
  BY <1>3 DEF Diffs, Diff, Others
<1>5. gone \in Nodes(c) /\ gone.jobs = node[c].jobs
  BY <1>3, <1>4, ForgottenIs
<1> HIDE DEF gone
<1>6. left \in Nodes(c) /\ left.jobs = node[c].jobs
  <2>1. left \in Nodes(c)
    BY <1>5, UnlinkedIs
  <2> QED
    BY <1>5, <2>1 DEF Nodes, NodeRecords, Unlinked
<1> HIDE DEF left
<1>7. /\ DOMAIN e = PathsOf(u.adds) /\ DOMAIN e \subseteq Files
      /\ \A p \in DOMAIN e : e[p] \in u.adds /\ e[p].ver \in Versions
  <2>1. DOMAIN e = PathsOf(u.adds) /\ \A p \in DOMAIN e : e[p] \in u.adds
    BY <1>2 DEF Winners
  <2> QED
    BY <1>4, <2>1, FlatFiles
<1>8. ASSUME NEW p \in PathsOf(u.adds)
      PROVE  Fits(Entry(e, order)[p], p, left.jobs)
  <2>1. order[p] \in Shuffles(AllChunks(e[p].ver)) /\ e[p].ver \in Versions
    BY <1>2, <1>7, <1>8 DEF Orders
  <2>2. Fits(Download(e[p].ver, order[p]), p, left.jobs)
    BY <2>1, DownloadFits
  <2> QED
    BY <1>7, <1>8, <2>2
<1> DEFINE entries == Entry(e, order)
           s == Learnt(left, u.adds, u.from, entries)
<1>9. DOMAIN entries = PathsOf(u.adds) /\ \A p \in PathsOf(u.adds) : Fits(entries[p], p, left.jobs)
  BY <1>7, <1>8
<1> HIDE DEF entries
<1>10. s \in Nodes(c) /\ s.jobs = left.jobs
  BY <1>4, <1>6, <1>9, LearntIs
<1> HIDE DEF s
<1>11. Written(e) \in Partial(Files, OnDisk)
  <2> DEFINE D == {p \in DOMAIN e : ChunksOf[e[p].ver] = 0}
  <2>1. Written(e) \in [D -> OnDisk] /\ D \in SUBSET Files
    BY <1>7, ForWritingIs
  <2> QED
    BY <2>1, PartialMade
<1> DEFINE disk == With(s.disk, Written(e))
           t == [s EXCEPT !.disk = disk]
<1>12. disk \in Partial(Files, OnDisk)
  BY <1>10, <1>11, NodeIs, PartialWith
<1> HIDE DEF disk
<1>13. t \in Nodes(c)
  BY <1>10, <1>12, NodeIs, NodeMade
<1>14. t.jobs = left.jobs
  BY <1>10 DEF Nodes, NodeRecords
<1>15. After(e, order) = t
  BY DEF disk, s, entries
<1> HIDE DEF t
<1>16. Refreshed(t) \in Nodes(c)
  BY <1>13, RefreshedIs
<1>17. Refreshed(t).jobs = node[c].jobs
  BY <1>6, <1>13, <1>14 DEF Nodes, NodeRecords, Refreshed
<1>18. node' = [node EXCEPT ![c] = Refreshed(t)]
  BY <1>2, <1>15
<1> DEFINE z == Refreshed(t)
<1> HIDE DEF z
<1>19. z \in Nodes(c) /\ z.jobs = node[c].jobs /\ node' = [node EXCEPT ![c] = z]
  BY <1>16, <1>17, <1>18 DEF z
<1> QED
  BY <1>1, <1>3, <1>19, Finds, LogicInv

LEMMA LogicMasterInv ==
  ASSUME Inv, NEW c \in Peers, LogicMaster(c)
  PROVE  Inv'
<1> DEFINE m == Head(toLogic[c].mst)
           q == [toLogic[c] EXCEPT !.mst = Tail(@)]
<1>1. /\ UNCHANGED <<trackerVars, userVars, netVars, toNet>>
      /\ toLogic[c].mst # <<>> /\ toLogic' = [toLogic EXCEPT ![c] = q]
      /\ UpdatesLocal(c, node[c], m.fs)
  BY DEF LogicMaster, LogicTakes
<1>2. node[c] \in Nodes(c) /\ q \in ToLogics(Books, c) /\ m \in Master /\ up[c] \in Ups(c)
  BY <1>1, Finds, TakenFrom
<1> HIDE DEF m, q
<1> DEFINE new == m.fs
<1>3. new \in Images
  BY <1>2 DEF Master
<1> HIDE DEF new
<1>4. CASE PathsOf(Additions(node[c].cur, new))
             \subseteq DOMAIN Matched(node[c], Deletions(node[c].cur, new)).entry
  <2>1. UpdatesLocal(c, node[c], new)
    BY <1>1 DEF new
  <2>2. /\ \E t \in Nodes(c) : t.jobs = node[c].jobs /\ node' = [node EXCEPT ![c] = t]
        /\ \E g \in Seq(OwnGots(c)) : up' = [up EXCEPT ![c].got = @ \o g]
    BY <1>2, <1>3, <1>4, <2>1, UpdatesLocalIs
  <2>3. PICK t \in Nodes(c) : t.jobs = node[c].jobs /\ node' = [node EXCEPT ![c] = t]
    BY <2>2
  <2>4. PICK g \in Seq(OwnGots(c)) : up' = [up EXCEPT ![c].got = @ \o g]
    BY <2>2
  <2> DEFINE u == [up[c] EXCEPT !.got = @ \o g]
  <2>5. u \in Ups(c)
    BY <1>2, ConcatProperties DEF Ups
  <2>6. up' = [up EXCEPT ![c] = u]
    BY <2>4
  <2> HIDE DEF u
  <2> QED
    BY <1>1, <1>2, <2>3, <2>5, <2>6, Finds, LogicInv
<1>5. CASE ~ (PathsOf(Additions(node[c].cur, new))
                \subseteq DOMAIN Matched(node[c], Deletions(node[c].cur, new)).entry)
  <2>1. UNCHANGED <<up, node>>
    BY <1>1, <1>5 DEF UpdatesLocal, new
  <2> QED
    BY <1>1, <1>2, <2>1, Finds, LogicInv
<1> QED
  BY <1>4, <1>5

LEMMA LogicScanInv ==
  ASSUME Inv, NEW c \in Peers, LogicScan(c)
  PROVE  Inv'
<1> DEFINE s == node[c]
           new == Scan(s.disk)
           adds == Additions(s.cur, new)
           dels == Deletions(s.cur, new)
           phase == NextPhase(s.phase)
           seen == [s EXCEPT !.prev = <<new>>, !.phase = phase]
           entries == [p \in PathsOf(adds) |-> NoWork]
           gone == Forgotten(s, dels)
           known == Learnt(gone, adds, 0, entries)
           told == [known EXCEPT !.cur = new, !.phase = phase]
           upd == [adds |-> adds, dels |-> dels]
           u == [up[c] EXCEPT !.upd = Append(@, upd)]
<1>1. s \in Nodes(c) /\ up[c] \in Ups(c)
  BY Finds
<1>2. new \in Images /\ s.cur \in Images /\ phase \in LogicPhases
  BY <1>1, NodeIs, ScanIs, NextPhaseIs
<1>3. adds \in Images /\ dels \in Images
  BY <1>2 DEF Additions, Deletions, Images
<1>4. /\ UNCHANGED <<trackerVars, userVars, netVars, toLogic, toNet>>
      /\ \/ node' = [node EXCEPT ![c] = seen] /\ UNCHANGED up
         \/ /\ node' = [node EXCEPT ![c] =
                          [known EXCEPT !.cur = new, !.phase = NextPhase(known.phase)]]
            /\ up' = [up EXCEPT ![c] = u]
  BY DEF LogicScan, Become
<1> HIDE DEF s, new, adds, dels, phase
<1>5. seen \in Nodes(c) /\ seen.jobs = s.jobs
  <2>1. <<new>> \in Seq(Images)
    BY <1>2
  <2>2. s.disk \in Partial(Files, OnDisk)
    BY <1>1, NodeIs
  <2>3. seen \in Nodes(c)
    BY <1>1, <1>2, <2>1, <2>2, NodeMade
  <2> QED
    BY <1>1, <2>3 DEF Nodes, NodeRecords
<1> HIDE DEF seen
<1>6. gone \in Nodes(c) /\ gone.jobs = s.jobs /\ gone.phase = s.phase
  <2>1. gone \in Nodes(c) /\ gone.jobs = s.jobs
    BY <1>1, <1>3, ForgottenIs
  <2> QED
    BY <1>1, <2>1 DEF Nodes, NodeRecords, Forgotten
<1> HIDE DEF gone
<1>7. known \in Nodes(c) /\ known.jobs = s.jobs /\ known.phase = s.phase
  <2>1. DOMAIN entries = PathsOf(adds) /\ \A p \in PathsOf(adds) : Fits(entries[p], p, gone.jobs)
    BY FitsNoWork
  <2>2. 0 \in Others(c)
    BY ClientAssumption DEF Others
  <2> HIDE DEF entries
  <2>3. known \in Nodes(c) /\ known.jobs = gone.jobs
    BY <1>3, <1>6, <2>1, <2>2, LearntIs
  <2> QED
    BY <1>6, <2>3 DEF Nodes, NodeRecords, Learnt
<1> HIDE DEF known
<1>8. told \in Nodes(c) /\ told.jobs = s.jobs
  <2>1. known.disk \in Partial(Files, OnDisk) /\ known.prev \in Seq(Images)
    BY <1>7, NodeIs
  <2>2. told \in Nodes(c)
    BY <1>2, <1>7, <2>1, NodeMade
  <2> QED
    BY <1>7, <2>2 DEF Nodes, NodeRecords
<1>9. u \in Ups(c)
  <2>1. upd \in Update
    BY <1>3 DEF Update
  <2> HIDE DEF upd
  <2>2. up[c].upd \in Seq(Update)
    BY <1>1 DEF Ups
  <2>3. Append(up[c].upd, upd) \in Seq(Update)
    BY <2>1, <2>2, AppendProperties
  <2> QED
    BY <1>1, <2>3 DEF Ups
<1>10. \/ node' = [node EXCEPT ![c] = seen] /\ UNCHANGED up
       \/ node' = [node EXCEPT ![c] = told] /\ up' = [up EXCEPT ![c] = u]
  BY <1>4, <1>7 DEF phase
<1> HIDE DEF told, u
<1>11. /\ toLogic[c] \in ToLogics(Books, c) /\ toNet[c] \in ToNets(Books, c)
       /\ seen.jobs = node[c].jobs /\ told.jobs = node[c].jobs
  BY <1>5, <1>8, Finds DEF s
<1> QED
  BY <1>1, <1>4, <1>5, <1>8, <1>9, <1>10, <1>11, LogicInv

LEMMA LogicNextInv ==
  ASSUME Inv, NEW c \in Peers, LogicNext(c)
  PROVE  Inv'
<1> DEFINE s == node[c]
           t == [s EXCEPT !.phase = NextPhase(s.phase)]
<1>1. /\ UNCHANGED <<trackerVars, userVars, netVars, up, toLogic, toNet>>
      /\ node' = [node EXCEPT ![c] = t]
  BY DEF LogicNext
<1>2. s \in Nodes(c)
  BY Finds
<1>3. t \in Nodes(c)
  <2>1. NextPhase(s.phase) \in LogicPhases
    BY <1>2, NodeIs, NextPhaseIs
  <2> QED
    BY <1>2, <2>1, NodeIs, NodeMade
<1>4. t.jobs = s.jobs
  BY <1>2 DEF Nodes, NodeRecords
<1> HIDE DEF t
<1> QED
  BY <1>1, <1>3, <1>4, Finds, LogicInv

(* check_work_queue gives out a job. *)
DrawnBy(s, p, job) ==
  [s EXCEPT !.entry[p].work = Tail(@), !.entry[p].out = Append(@, Len(s.jobs) + 1),
            !.jobs = Append(@, job)]

LEMMA DrawnByIs ==
  ASSUME NEW c, NEW s \in Nodes(c), NEW p \in DOMAIN s.entry, NEW job \in Job, job.path = p,
         s.entry[p].work # <<>>, Len(s.entry[p].out) < MaxPending, job.chunk = Head(s.entry[p].work)
  PROVE  DrawnBy(s, p, job) \in Nodes(c) /\ DrawnBy(s, p, job).jobs = Append(s.jobs, job)
<1> DEFINE e == [s.entry[p] EXCEPT !.work = Tail(@), !.out = Append(@, Len(s.jobs) + 1)]
           entry == [s.entry EXCEPT ![p] = e]
           jobs == Append(s.jobs, job)
<1>1. /\ s.entry \in Partial(Files, EntryRecords) /\ s.jobs \in Seq(Job) /\ p \in Files
      /\ DOMAIN s.owners = DOMAIN s.entry /\ \A x \in DOMAIN s.entry : Fits(s.entry[x], x, s.jobs)
  BY NodeIs, PartialIs
<1>2. DrawnBy(s, p, job) = [s EXCEPT !.entry = entry, !.jobs = jobs]
  <2>1. s.entry[p] \in EntryRecords /\ s \in NodeRecords(c)
    BY <1>1, FitsIs DEF Nodes
  <2> QED
    BY <2>1 DEF DrawnBy, NodeRecords, EntryRecords
<1>3. jobs \in Seq(Job)
  BY <1>1, AppendProperties
<1>4. Fits(e, p, jobs) /\ \A x \in DOMAIN s.entry : Fits(s.entry[x], x, jobs)
  <2>1. Fits(e, p, jobs)
    BY <1>1, FitsDrawn
  <2>2. ASSUME NEW x \in DOMAIN s.entry PROVE Fits(s.entry[x], x, jobs)
    <3>1. x \in Files /\ Fits(s.entry[x], x, s.jobs)
      BY <1>1, PartialIs
    <3> QED
      BY <1>1, <3>1, FitsDrawn
  <2> QED
    BY <2>1, <2>2
<1> HIDE DEF e, jobs
<1>5. e \in EntryRecords
  BY <1>4 DEF Fits
<1>6. /\ entry \in Partial(Files, EntryRecords) /\ DOMAIN entry = DOMAIN s.entry
      /\ \A y \in DOMAIN s.entry : entry[y] = IF y = p THEN e ELSE s.entry[y]
  BY <1>1, <1>5, PartialExcept
<1> HIDE DEF entry
<1> DEFINE t == [s EXCEPT !.entry = entry, !.jobs = jobs]
<1>7. /\ t \in NodeRecords(c) /\ t.owners = s.owners /\ t.entry = entry /\ t.jobs = jobs
  BY <1>3, <1>6 DEF Nodes, NodeRecords
<1> HIDE DEF t
<1>8. t \in Nodes(c)
  BY <1>1, <1>4, <1>6, <1>7 DEF Nodes
<1> QED
  BY <1>2, <1>7, <1>8 DEF t, jobs

LEMMA LogicWorkInv ==
  ASSUME Inv, NEW c \in Peers, NEW p \in Files, LogicWork(c, p)
  PROVE  Inv'
<1> DEFINE s == node[c]
           chunk == Head(s.entry[p].work)
           id == Len(s.jobs) + 1
           job == [path |-> p, chunk |-> chunk, ver |-> s.entry[p].file.ver]
           t == DrawnBy(s, p, job)
           Asks(d) == [type |-> "req", peer |-> d, path |-> p, chunk |-> chunk, id |-> id]
<1>1. /\ UNCHANGED <<trackerVars, userVars, toLogic, netVars>> /\ c \in alive
      /\ p \in DOMAIN s.entry /\ s.entry[p].work # <<>> /\ Len(s.entry[p].out) < MaxPending
  BY DEF LogicWork, HasJob, Up
<1>2. \/ UNCHANGED <<up, node, toNet>>
      \/ /\ chunk \in DOMAIN s.owners[p]
         /\ \E d \in s.owners[p][chunk] :
              /\ node' = [node EXCEPT ![c] = t]
              /\ toNet' = IF d \notin DOMAIN sock[c] THEN toNet
                          ELSE [toNet EXCEPT ![c].req = Append(@, Asks(d))]
              /\ UNCHANGED up
  BY DEF LogicWork, Fails, Become, NextJob, DrawnBy
<1>3. s \in Nodes(c) /\ toNet[c] \in ToNets(Books, c) /\ toLogic[c] \in ToLogics(Books, c)
  BY Finds
<1>4. CASE UNCHANGED <<up, node, toNet>>
  BY <1>1, <1>3, <1>4, Finds, LogicInv
<1>5. ASSUME NEW d \in s.owners[p][chunk], chunk \in DOMAIN s.owners[p],
             node' = [node EXCEPT ![c] = t],
             toNet' = IF d \notin DOMAIN sock[c] THEN toNet
                      ELSE [toNet EXCEPT ![c].req = Append(@, Asks(d))],
             UNCHANGED up
      PROVE  Inv'
  <2>1. /\ s.jobs \in Seq(Job) /\ s.owners \in OwnerTables(Others(c))
        /\ DOMAIN s.owners = DOMAIN s.entry /\ Fits(s.entry[p], p, s.jobs)
    BY <1>1, <1>3, NodeIs
  <2>2. d \in Others(c) /\ chunk \in Nat /\ id \in Nat
    BY <1>1, <1>5, <2>1, OwnersAre
  <2>3. s.entry[p].file \in Downloads \cup {NoFile}
    BY <2>1, FitsIs
  <2>4. job \in Job
    BY <2>2, <2>3, NoFileIs DEF Job, NoFile, Versions
  <2> HIDE DEF chunk, id
  <2>5. t \in Nodes(c) /\ t.jobs = Append(s.jobs, job)
    <3>1. job.path = p /\ job.chunk = Head(s.entry[p].work)
      BY DEF chunk
    <3> HIDE DEF job, s
    <3> QED
      BY <1>1, <1>3, <2>4, <3>1, DrawnByIs
  <2> HIDE DEF t
  <2>6. NodeInv' /\ node'[c].jobs = Append(s.jobs, job) /\ \A x \in Peers \ {c} : node'[x] = node[x]
    BY <1>5, <2>5 DEF Inv, NodeInv
  <2>7. /\ DOMAIN Append(s.jobs, job) = DOMAIN s.jobs \cup {id} /\ Append(s.jobs, job)[id] = job
        /\ \A i \in DOMAIN s.jobs : Append(s.jobs, job)[i] = s.jobs[i]
    <3> HIDE DEF job, s
    <3> QED
      BY <2>1, <2>4 DEF id
  <2>8. UNCHANGED <<joined, alive>> /\ c \in joined /\ alive \subseteq Peers
    BY <1>1 DEF userVars, netVars, Inv, UserInv
  <2>9. Later(Books, Books') /\ Books'[c] = {Append(s.jobs, job)} /\ c \in DOMAIN Books'
    <3>1. /\ Books[c] = {s.jobs} /\ Books'[c] = {Append(s.jobs, job)} /\ DOMAIN Books' = DOMAIN Books
          /\ c \in DOMAIN Books' /\ \A x \in DOMAIN Books \ {c} : Books'[x] = Books[x]
      <4> HIDE DEF job
      <4> QED
        BY <1>1, <2>6, <2>8 DEF Books
    <3>2. ASSUME NEW x, NEW m, Mine(Books, x, m) PROVE Mine(Books', x, m)
      <4>1. CASE x = c
        <5> HIDE DEF job, s
        <5>1. m.id \in DOMAIN s.jobs /\ s.jobs[m.id].path = m.path /\ s.jobs[m.id].chunk = m.chunk
          BY <3>1, <3>2, <4>1 DEF Mine
        <5> QED
          BY <2>7, <3>1, <4>1, <5>1 DEF Mine
      <4>2. CASE x # c
        BY <3>1, <3>2, <4>2 DEF Mine
      <4> QED
        BY <4>1, <4>2
    <3> QED
      BY <3>1, <3>2 DEF Later
  <2> DEFINE n == [toNet[c] EXCEPT !.req = Append(@, Asks(d))]
  <2>10. d \in DOMAIN sock[c] => n \in ToNets(Books', c)
    <3> SUFFICES ASSUME d \in DOMAIN sock[c] PROVE n \in ToNets(Books', c)
      OBVIOUS
    <3>1. d \in Peers /\ d # c
      BY <2>2 DEF Inv, NetInv, Plugged, Others
    <3>2. Asks(d) \in Request
      BY <2>2, <3>1 DEF Request
    <3>3. Mine(Books', c, Asks(d))
      <4>1. job.path = Asks(d).path /\ job.chunk = Asks(d).chunk /\ Asks(d).id = id
        OBVIOUS
      <4> DEFINE r == Asks(d)
      <4> HIDE DEF r, job
      <4>2. Mine(Books', c, r)
        BY <2>7, <2>9, <4>1 DEF Mine, r
      <4> QED
        BY <4>2 DEF r
    <3>4. Asks(d) \in OwnRequests(Books', c)
      BY <3>1, <3>2, <3>3 DEF OwnRequests
    <3> HIDE DEF Asks
    <3>5. toNet[c] \in ToNets(Books', c)
      BY <1>3, <2>9, LaterSets
    <3> QED
      BY <3>4, <3>5, NetQueues
  <2>11. toNet' \in {toNet, [toNet EXCEPT ![c] = n]} /\ (toNet' # toNet => d \in DOMAIN sock[c])
    BY <1>5
  <2> HIDE DEF n
  <2>12. QueueInv'
    <3>1. QueueInv
      BY DEF Inv
    <3> QED
      BY <1>1, <1>3, <2>9, <2>10, <2>11, <3>1, QueuesStay, QueuesMove
  <2>13. NetInv'
    BY <1>1, <2>9, NetStays DEF Inv, netVars
  <2>14. UserInv'
    BY <1>1 DEF Inv, UserInv, userVars, netVars
  <2>15. TrackerInv'
    BY <1>1, <1>5, Finds, TrackerStays DEF Inv, userVars
  <2> QED
    BY <2>6, <2>12, <2>13, <2>14, <2>15 DEF Inv
<1> QED
  BY <1>2, <1>4, <1>5

LEMMA LogicThreadInv ==
  ASSUME Inv, NEW c \in Peers, Logic(c)
  PROVE  Inv'
BY LogicPeerDeletedInv, LogicChunkRequestInv, LogicChunkInv, LogicChunkGotInv, LogicDiffInv,
   LogicMasterInv, LogicWorkInv, LogicScanInv, LogicNextInv DEF Logic

LEMMA NetworkThreadInv ==
  ASSUME Inv, NEW c \in Peers, Network(c)
  PROVE  Inv'
BY NetAcceptInv, NetTrackerInv, NetRequestsInv, NetPeerInv, NetAnswersInv DEF Network

-----------------------------------------------------------------------------
(* The tracker *)

LEMMA TrackerInvs ==
  ASSUME Inv, UNCHANGED <<userVars, node, toLogic, toNet, netVars>>, TrackerInv'
  PROVE  Inv'
<1>1. Books' = Books
  BY BooksUnchanged DEF userVars, netVars
<1>2. UserInv' /\ NodeInv'
  BY DEF Inv, UserInv, NodeInv, userVars, netVars
<1>3. QueueInv' /\ NetInv'
  BY <1>1, LaterSame, QueuesStay, NetStays DEF Inv, netVars
<1> QED
  BY <1>2, <1>3 DEF Inv

(* What is told to some is news to them. *)
Downs(q) == DOMAIN q = Peers /\ \A c \in Peers : q[c] \in Seq(News(c))

LEMMA AnnouncedIs ==
  ASSUME NEW q, Downs(q), NEW dsts, NEW m, \A d \in dsts \cap Peers : m \in News(d)
  PROVE  Downs(Announced(q, dsts, m))
<1>1. ASSUME NEW c \in Peers PROVE Announced(q, dsts, m)[c] \in Seq(News(c))
  <2>1. q[c] \in Seq(News(c))
    BY DEF Downs
  <2>2. CASE c \in dsts
    <3>1. Append(q[c], m) \in Seq(News(c))
      BY <2>1, <2>2, AppendProperties
    <3> QED
      BY <2>2, <3>1 DEF Announced
  <2>3. CASE c \notin dsts
    BY <2>1, <2>3 DEF Announced
  <2> QED
    BY <2>2, <2>3
<1>2. DOMAIN Announced(q, dsts, m) = Peers
  BY DEF Announced
<1> QED
  BY <1>1, <1>2 DEF Downs

LEMMA TrackerGotInv ==
  ASSUME Inv, NEW c \in Peers, TrackerGot(c)
  PROVE  Inv'
<1> DEFINE g == Head(up[c].got)
           u == [up[c] EXCEPT !.got = Tail(@)]
<1>1. /\ UNCHANGED <<master, members, userVars, node, toLogic, toNet, netVars>>
      /\ c \in members /\ up[c].got # <<>> /\ up' = [up EXCEPT ![c] = u]
      /\ mft' = GotApplied(mft, g) /\ down' = Announced(down, (members \cap alive) \ {c}, g)
  BY DEF TrackerGot
<1>2. TrackerInv /\ up[c] \in Ups(c) /\ Downs(down)
  BY DEF Inv, TrackerInv, Downs
<1>3. g \in OwnGots(c) /\ u \in Ups(c)
  <2>1. up[c].got \in Seq(OwnGots(c))
    BY <1>2 DEF Ups
  <2>2. g \in OwnGots(c) /\ Tail(up[c].got) \in Seq(OwnGots(c))
    BY <1>1, <2>1, Tails
  <2> QED
    BY <1>2, <2>2 DEF Ups
<1> HIDE DEF g, u
<1>4. mft' \in OwnerTables(joined) /\ DOMAIN mft' = DOMAIN mft
  BY <1>1, <1>2, <1>3, GotIs DEF TrackerInv, OwnGots
<1>5. Downs(down')
  <2>1. \A d \in ((members \cap alive) \ {c}) \cap Peers : g \in News(d)
    BY <1>3 DEF OwnGots, News, Gots
  <2> QED
    BY <1>1, <1>2, <2>1, AnnouncedIs
<1>6. TrackerInv'
  BY <1>1, <1>2, <1>3, <1>4, <1>5 DEF TrackerInv, Downs, userVars
<1> QED
  BY <1>1, <1>6, TrackerInvs

LEMMA TrackerUpdateInv ==
  ASSUME Inv, NEW c \in Peers, TrackerUpdate(c)
  PROVE  Inv'
<1> DEFINE u == Head(up[c].upd)
           v == [up[c] EXCEPT !.upd = Tail(@)]
           m == [type |-> "diff", adds |-> u.adds, dels |-> u.dels, from |-> c]
           left == RemoveFileSystem(mft, u.dels)
           rest == MinusEquals(master, u.dels)
<1>1. /\ UNCHANGED <<members, userVars, node, toLogic, toNet, netVars>>
      /\ c \in members /\ up[c].upd # <<>> /\ up' = [up EXCEPT ![c] = v]
      /\ master' = PlusEquals(rest, u.adds) /\ mft' = AddFileSystem(left, u.adds, c)
      /\ down' = Announced(down, (members \cap alive) \ {c}, m)
  BY DEF TrackerUpdate
<1>2. TrackerInv /\ up[c] \in Ups(c) /\ Downs(down)
  BY DEF Inv, TrackerInv, Downs
<1>3. u \in Update /\ v \in Ups(c)
  <2>1. up[c].upd \in Seq(Update)
    BY <1>2 DEF Ups
  <2>2. u \in Update /\ Tail(up[c].upd) \in Seq(Update)
    BY <1>1, <2>1, Tails
  <2> QED
    BY <1>2, <2>2 DEF Ups
<1> HIDE DEF u, v
<1>4. u.adds \in Images /\ u.dels \in Images
  BY <1>3 DEF Update
<1>5. /\ master' = rest \cup u.adds /\ master' \in Images
      /\ \A e \in master : e \notin u.dels => e \in rest
  <2>1. rest \subseteq master /\ \A e \in master : e \notin u.dels => e \in rest
    BY ClientAssumption, FileSystemAssumption DEF MinusEquals
  <2> QED
    BY <1>1, <1>2, <1>4, <2>1 DEF PlusEquals, TrackerInv, Images
<1> HIDE DEF rest
<1>6. left \in OwnerTables(joined) /\ DOMAIN left = DOMAIN mft \ PathsOf(u.dels)
  BY <1>2, <1>4, FlatFiles, OwnersRemoved DEF TrackerInv, RemoveFileSystem
<1> HIDE DEF left
<1>7. mft' \in OwnerTables(joined) /\ DOMAIN mft' = DOMAIN left \cup PathsOf(u.adds)
  <2>1. c \in joined
    BY <1>1, <1>2 DEF TrackerInv
  <2>2. /\ AddFileSystem(left, u.adds, c) \in OwnerTables(joined)
        /\ Lists(AddFileSystem(left, u.adds, c), left, u.adds)
    BY <1>4, <1>6, <2>1, OwnersAdded
  <2> QED
    BY <1>1, <2>2 DEF Lists
<1>8. DOMAIN mft' \subseteq PathsOf(master')
  BY <1>2, <1>5, <1>6, <1>7 DEF TrackerInv, PathsOf
<1>9. Downs(down')
  <2>1. \A d \in ((members \cap alive) \ {c}) \cap Peers : m \in News(d)
    BY <1>4 DEF News, Diffs, Diff
  <2> HIDE DEF m
  <2> QED
    BY <1>1, <1>2, <2>1, AnnouncedIs
<1>10. TrackerInv'
  BY <1>1, <1>2, <1>3, <1>5, <1>7, <1>8, <1>9 DEF TrackerInv, Downs, userVars
<1> QED
  BY <1>1, <1>10, TrackerInvs

LEMMA TrackerLosesInv ==
  ASSUME Inv, NEW c \in Peers, TrackerLoses(c)
  PROVE  Inv'
<1> DEFINE left == RemovePeer(mft, c)
           gone == Ownerless(left)
           told == Announced(down, members' \cap alive, [type |-> "peers", ids |-> members'])
<1>1. /\ UNCHANGED <<up, userVars, node, toLogic, toNet, netVars>>
      /\ members' = members \ {c} /\ mft' = RemovePaths(left, gone)
      /\ \/ down' = told /\ UNCHANGED master
         \/ /\ master' \in RemovedAtPaths(master, gone)
            /\ down' = Announced(told, members' \cap alive, [type |-> "mst", fs |-> master'])
  BY DEF TrackerLoses
<1>2. TrackerInv /\ Downs(down) /\ joined \subseteq Peers
  BY DEF Inv, TrackerInv, UserInv, Downs
<1>3. left \in OwnerTables(joined) /\ DOMAIN left = DOMAIN mft
  BY <1>2, PeerRemoved DEF TrackerInv
<1>4. mft' \in OwnerTables(joined) /\ DOMAIN mft' = DOMAIN mft \ gone
  BY <1>1, <1>3, OwnersRemoved
<1> HIDE DEF left
<1>5. master' \subseteq master /\ \A e \in master : e.path \notin gone => e \in master'
  <2>1. \A F, P : \A G \in RemovedAtPaths(F, P) :
          G \subseteq F /\ \A e \in F : e.path \notin P => e \in G
    BY DEF RemovedAtPaths
  <2> HIDE DEF gone
  <2> QED
    BY <1>1, <2>1
<1>6. master' \in Images /\ DOMAIN mft' \subseteq PathsOf(master')
  <2>1. master' \in Images
    BY <1>2, <1>5 DEF TrackerInv, Images
  <2>2. \A p \in DOMAIN mft \ gone : \E e \in master : e.path = p
    BY <1>2 DEF TrackerInv, PathsOf
  <2> HIDE DEF gone
  <2>3. \A p \in DOMAIN mft \ gone : \E e \in master' : e.path = p
    BY <1>5, <2>2
  <2> QED
    BY <1>4, <2>1, <2>3 DEF PathsOf
<1>7. Downs(told)
  <2> DEFINE m == [type |-> "peers", ids |-> members']
  <2>1. \A d : m \in News(d)
    BY <1>1, <1>2 DEF News, Table, TrackerInv
  <2> HIDE DEF m
  <2>2. Downs(Announced(down, members' \cap alive, m))
    BY <1>2, <2>1, AnnouncedIs
  <2> QED
    BY <2>2 DEF m
<1> HIDE DEF told, gone
<1>8. Downs(Announced(told, members' \cap alive, [type |-> "mst", fs |-> master']))
  <2> DEFINE m == [type |-> "mst", fs |-> master']
  <2>1. \A d : m \in News(d)
    BY <1>6 DEF News, Master
  <2> HIDE DEF m
  <2>2. Downs(Announced(told, members' \cap alive, m))
    BY <1>7, <2>1, AnnouncedIs
  <2> QED
    BY <2>2 DEF m
<1>9. TrackerInv'
  BY <1>1, <1>2, <1>4, <1>6, <1>7, <1>8 DEF TrackerInv, Downs, userVars
<1> QED
  BY <1>1, <1>9, TrackerInvs

-----------------------------------------------------------------------------
(* Clients come and go. *)

LEMMA JoinInv ==
  ASSUME Inv, NEW c \in Peers, Join(c)
  PROVE  Inv'
<1> DEFINE s == Received(node[c], mft)
<1>1. /\ UNCHANGED <<master, mft, author, undone, toLogic, toNet, sock, backlog, wire>>
      /\ c \notin joined /\ joined' = joined \cup {c} /\ alive' = alive \cup {c}
      /\ members' = members \cup {c}
      /\ down' = Announced(down, members' \cap alive', [type |-> "peers", ids |-> members'])
      /\ UpdatesLocal(c, s, master)
  BY DEF Join
<1>2. TrackerInv /\ Downs(down) /\ up[c] \in Ups(c) /\ UserInv /\ NodeInv
  BY DEF Inv, TrackerInv, Downs
<1>3. s \in Nodes(c)
  <2>1. joined \subseteq Others(c)
    BY <1>1, <1>2 DEF UserInv, Others
  <2>2. mft \in OwnerTables(Others(c))
    BY <1>2, <2>1, OwnersMore DEF TrackerInv
  <2> QED
    BY <2>2, Finds, ReceivedIs
<1> HIDE DEF s
<1>4. /\ \E t \in Nodes(c) : node' \in {node, [node EXCEPT ![c] = t]}
      /\ \E u \in Ups(c) : up' \in {up, [up EXCEPT ![c] = u]}
  <2>1. CASE PathsOf(Additions(s.cur, master)) \subseteq DOMAIN Matched(s, Deletions(s.cur, master)).entry
    <3>1. master \in Images
      BY <1>2 DEF TrackerInv
    <3>2. /\ \E t \in Nodes(c) : t.jobs = s.jobs /\ node' = [node EXCEPT ![c] = t]
          /\ \E g \in Seq(OwnGots(c)) : up' = [up EXCEPT ![c].got = @ \o g]
      BY <1>1, <1>3, <2>1, <3>1, UpdatesLocalIs
    <3>3. PICK g \in Seq(OwnGots(c)) : up' = [up EXCEPT ![c].got = @ \o g]
      BY <3>2
    <3> DEFINE u == [up[c] EXCEPT !.got = @ \o g]
    <3>4. u \in Ups(c)
      BY <1>2, ConcatProperties DEF Ups
    <3>5. up' = [up EXCEPT ![c] = u]
      BY <3>3
    <3> HIDE DEF u
    <3> QED
      BY <3>2, <3>4, <3>5
  <2>2. CASE ~ (PathsOf(Additions(s.cur, master)) \subseteq DOMAIN Matched(s, Deletions(s.cur, master)).entry)
    <3>1. UNCHANGED <<up, node>>
      BY <1>1, <2>2 DEF UpdatesLocal
    <3> QED
      BY <1>2, <1>3, <3>1
  <2> QED
    BY <2>1, <2>2
<1>5. NodeInv' /\ \A x \in Peers \ {c} : node'[x] = node[x]
  BY <1>2, <1>4 DEF NodeInv
<1>6. UserInv'
  BY <1>1, <1>2 DEF UserInv
<1>7. Later(Books, Books')
  <2>1. \A x \in joined : Books'[x] = Books[x]
    BY <1>1, <1>2, <1>5 DEF Books, UserInv
  <2>2. DOMAIN Books = joined /\ joined \subseteq DOMAIN Books'
    BY <1>1 DEF Books
  <2> QED
    BY <2>1, <2>2 DEF Later, Mine
<1>8. QueueInv' /\ NetInv'
  BY <1>1, <1>7, QueuesStay, NetStays DEF Inv
<1>9. Downs(down')
  <2> DEFINE m == [type |-> "peers", ids |-> members']
  <2>1. \A d : m \in News(d)
    BY <1>1, <1>2 DEF News, Table, TrackerInv, UserInv
  <2> HIDE DEF m
  <2>2. Downs(Announced(down, members' \cap alive', m))
    BY <1>2, <2>1, AnnouncedIs
  <2> QED
    BY <1>1, <2>2 DEF m
<1>10. mft \in OwnerTables(joined')
  BY <1>1, <1>2, OwnersMore DEF TrackerInv
<1>11. TrackerInv'
  BY <1>1, <1>2, <1>4, <1>9, <1>10 DEF TrackerInv, Downs
<1> QED
  BY <1>5, <1>6, <1>8, <1>11 DEF Inv

LEMMA FreshIs ==
  ASSUME NEW c, NEW dir \in Partial(Files, OnDisk)
  PROVE  Fresh(dir) \in Nodes(c)
<1>1. Scan(dir) \in Images /\ <<>> \in Seq(Images) /\ <<>> \in Seq(Job)
  BY ScanIs, ElementsEmpty
<1>2. EmptyTable \in OwnerTables(Others(c)) /\ NoPaths \in Partial(Files, EntryRecords)
      /\ DOMAIN EmptyTable = {} /\ DOMAIN NoPaths = {}
  <2>1. EmptyTable \in [{} -> Partial(Nat, SUBSET Others(c))] /\ NoPaths \in [{} -> EntryRecords]
    BY DEF EmptyTable, NoPaths
  <2> QED
    BY <2>1, PartialMade DEF OwnerTables
<1> QED
  BY <1>1, <1>2 DEF Fresh, Nodes, NodeRecords, LogicPhases

LEMMA LeaveInv ==
  ASSUME Inv, NEW c \in Peers, Leave(c)
  PROVE  Inv'
<1> DEFINE w == [k \in DOMAIN wire |->
                   IF c \in DOMAIN wire[k]
                     THEN Sent(wire, k, OtherEnd(k, c), EOF)[k] ELSE wire[k]]
           s == Fresh(node[c].disk)
<1>1. /\ UNCHANGED <<master, mft, members, userVars>>
      /\ alive' = alive \ {c} /\ up' \in {up, [up EXCEPT ![c] = ToTracker]}
      /\ down' = [down EXCEPT ![c] = <<>>] /\ node' = [node EXCEPT ![c] = s]
      /\ toLogic' = [toLogic EXCEPT ![c] = ToLogic] /\ toNet' = [toNet EXCEPT ![c] = ToNet]
      /\ sock' = [sock EXCEPT ![c] = NoTable] /\ backlog' = [backlog EXCEPT ![c] = <<>>]
      /\ wire' = Tidied(w, sock', backlog')
  BY DEF Leave
<1>2. /\ TrackerInv /\ UserInv /\ NodeInv /\ QueueInv
      /\ Carries(Books, wire) /\ Plugged(wire, sock, backlog)
  BY DEF Inv, NetInv
<1>3. s \in Nodes(c)
  BY Finds, NodeIs, FreshIs
<1> HIDE DEF s
<1>4. NodeInv' /\ \A x \in Peers \ {c} : node'[x] = node[x]
  BY <1>1, <1>2, <1>3 DEF NodeInv
<1>5. UserInv'
  BY <1>1, <1>2 DEF UserInv, userVars
<1>6. TrackerInv'
  <2>1. ToTracker \in Ups(c) /\ <<>> \in Seq(News(c))
    BY ElementsEmpty DEF ToTracker, Ups
  <2> QED
    BY <1>1, <1>2, <2>1 DEF TrackerInv, userVars
<1>7. Later(Books, Books')
  <2>1. DOMAIN Books = joined /\ DOMAIN Books' = joined
    BY <1>1 DEF Books, userVars
  <2>2. \A x \in joined : Books'[x] = Books[x] \/ Books'[x] = {}
    BY <1>1, <1>2, <1>4 DEF Books, UserInv, userVars
  <2> QED
    BY <2>1, <2>2 DEF Later, Mine
<1>8. QueueInv'
  <2>1. ToLogic \in ToLogics(Books, c) /\ ToNet \in ToNets(Books', c)
    BY ElementsEmpty DEF ToLogic, ToLogics, ToNet, ToNets
  <2> QED
    BY <1>1, <1>2, <1>7, <2>1, QueuesMove
<1>9. Carries(Books, w) /\ SameEnds(w, wire)
  <2>1. DOMAIN w = 1 .. MaxConns /\ DOMAIN wire = 1 .. MaxConns
    BY <1>2 DEF Carries
  <2>2. ASSUME NEW k \in 1 .. MaxConns
        PROVE  /\ DOMAIN w[k] = DOMAIN wire[k]
               /\ \A e \in DOMAIN w[k] : w[k][e] \in Seq(Parcels(Books, DOMAIN w[k], e))
    <3>1. CASE c \in DOMAIN wire[k]
      <4> DEFINE v == Sent(wire, k, OtherEnd(k, c), EOF)
      <4>1. Carries(Books, v) /\ SameEnds(v, wire)
        <5>1. EOF \in Parcels(Books, DOMAIN wire[k], OtherEnd(k, c))
          BY DEF Parcels
        <5> QED
          BY <1>2, <5>1, SentIs
      <4>2. w[k] = v[k]
        BY <2>1, <3>1
      <4> HIDE DEF v, w
      <4> QED
        BY <4>1, <4>2 DEF Carries, SameEnds
    <3>2. CASE c \notin DOMAIN wire[k]
      <4>1. w[k] = wire[k]
        BY <2>1, <3>2
      <4> HIDE DEF w
      <4> QED
        BY <1>2, <4>1 DEF Carries
    <3> QED
      BY <3>1, <3>2
  <2>3. \A k \in 1 .. MaxConns : TwoEnds(DOMAIN wire[k])
    BY <1>2 DEF Carries
  <2> HIDE DEF w
  <2> QED
    BY <2>1, <2>2, <2>3 DEF Carries, SameEnds
<1> HIDE DEF w
<1>10. Plugged(w, sock', backlog')
  <2>1. Plugged(w, sock, backlog)
    BY <1>2, <1>9, PluggedDomains
  <2>2. /\ DOMAIN sock' = Peers /\ DOMAIN backlog' = Peers
        /\ \A x \in Peers \ {c} : sock'[x] = sock[x] /\ backlog'[x] = backlog[x]
        /\ DOMAIN sock'[c] = {} /\ backlog'[c] = <<>>
    BY <1>1, <1>2 DEF Plugged, NoTable
  <2>3. \A S : <<>> \in Seq(S)
    BY ElementsEmpty
  <2>4. ASSUME NEW x \in Peers
        PROVE  /\ DOMAIN sock'[x] \subseteq Peers
               /\ \A d \in DOMAIN sock'[x] : sock'[x][d] # 0 =>
                    /\ sock'[x][d] \in 1 .. MaxConns /\ x # d
                    /\ DOMAIN w[sock'[x][d]] = {x, d}
               /\ backlog'[x] \in Seq(Ending(w, x))
    <3>1. CASE x = c
      BY <2>2, <2>3, <3>1
    <3>2. CASE x # c
      <4>1. sock'[x] = sock[x] /\ backlog'[x] = backlog[x]
        BY <2>2, <3>2
      <4> QED
        BY <2>1, <4>1 DEF Plugged
    <3> QED
      BY <3>1, <3>2
  <2> QED
    BY <2>2, <2>4 DEF Plugged
<1>11. NetInv'
  <2>1. Carries(Books', w)
    BY <1>7, <1>9, LaterSets
  <2>2. Carries(Books', wire') /\ Plugged(wire', sock', backlog')
    BY <1>1, <1>10, <2>1, CarriesTidied, PluggedTidied
  <2> QED
    BY <2>2 DEF NetInv
<1> QED
  BY <1>4, <1>5, <1>6, <1>8, <1>11 DEF Inv

-----------------------------------------------------------------------------
(* The inductive invariant *)

LEMMA InitInv == Init => Inv
<1> SUFFICES ASSUME Init PROVE Inv
  OBVIOUS
<1>1. \A S : <<>> \in Seq(S)
  BY ElementsEmpty
<1>2. EmptyTable \in OwnerTables(joined) /\ DOMAIN EmptyTable = {}
  <2>1. EmptyTable \in [{} -> Partial(Nat, SUBSET joined)]
    BY DEF EmptyTable
  <2> QED
    BY <2>1, PartialMade DEF OwnerTables
<1>3. TrackerInv
  BY <1>1, <1>2 DEF Init, TrackerInv, Images, PathsOf, ToTracker, Ups
<1>4. UserInv
  BY <1>1, ClientAssumption DEF Init, UserInv, Images
<1>5. NodeInv
  <2>1. NoPaths \in Partial(Files, OnDisk)
    <3>1. NoPaths \in [{} -> OnDisk]
      BY DEF NoPaths
    <3> QED
      BY <3>1, PartialMade
  <2>2. \A c : Fresh(NoPaths) \in Nodes(c)
    BY <2>1, FreshIs
  <2> QED
    BY <2>2 DEF Init, NodeInv
<1>6. QueueInv
  BY <1>1 DEF Init, QueueInv, ToLogic, ToLogics, ToNet, ToNets
<1>7. Carries(Books, wire)
  BY DEF Init, Carries, NoPaths, TwoEnds
<1>8. Plugged(wire, sock, backlog)
  BY <1>1, ClientAssumption DEF Init, Plugged, NewTable, NoTable
<1> QED
  BY <1>3, <1>4, <1>5, <1>6, <1>7, <1>8 DEF Inv, NetInv

LEMMA NextInv == Inv /\ [Next]_vars => Inv'
<1> SUFFICES ASSUME Inv, [Next]_vars PROVE Inv'
  OBVIOUS
<1>1. CASE UNCHANGED vars
  <2>1. TrackerInv'
    BY <1>1 DEF Inv, TrackerInv, vars, trackerVars, userVars
  <2> QED
    BY <1>1, <2>1, TrackerInvs DEF vars
<1>2. ASSUME NEW c \in Peers,
             \/ \E p \in Files : UserWrites(c, p) \/ UserRemoves(c, p)
             \/ TrackerGot(c) \/ TrackerUpdate(c) \/ TrackerLoses(c)
             \/ Network(c) \/ Logic(c)
             \/ Join(c) \/ Leave(c)
      PROVE  Inv'
  BY <1>2, UserWritesInv, UserRemovesInv, TrackerGotInv, TrackerUpdateInv, TrackerLosesInv,
     NetworkThreadInv, LogicThreadInv, JoinInv, LeaveInv
<1> QED
  BY <1>1, <1>2 DEF Next

(* Clients come and go, their threads and the tracker run as they like, and *)
(* what is in a queue, on a connection or in a table stays what the reader  *)
(* of it takes it for: main of client.c, the thread of network_client.c.    *)
THEOREM ClientInvariant == Spec => []Inv
BY InitInv, NextInv, PTL DEF Spec

(* The file table has entries and owners for the same paths, outstanding    *)
(* requests never exceed MAX_PENDING_REQUESTS and all have numbers of jobs, *)
(* and no chunk is marked written that the file has not; the tracker's file *)
(* table lists files of its file system only.                               *)
THEOREM ClientTypes == Spec => []TypeOK
<1>1. Inv => TypeOK
  <2> SUFFICES ASSUME Inv PROVE TypeOK
    OBVIOUS
  <2>1. master \subseteq Stored /\ DOMAIN mft \subseteq PathsOf(master)
    BY DEF Inv, TrackerInv, Images
  <2>2. ASSUME NEW c \in Peers PROVE NodeOK(node[c]) /\ DOMAIN sock[c] \subseteq Peers
    <3> DEFINE s == node[c]
    <3>1. s \in Nodes(c)
      BY Finds
    <3> HIDE DEF s
    <3>2. Scan(s.disk) \subseteq Stored /\ s.cur \subseteq Stored
      BY <3>1, NodeIs, ScanIs DEF Images
    <3>3. \A p \in DOMAIN s.disk : DOMAIN s.disk[p].data = Chunks(s.disk[p].ver)
      <4>1. \A p \in DOMAIN s.disk : s.disk[p] \in OnDisk
        BY <3>1, NodeIs, PartialIs
      <4> QED
        BY <4>1 DEF OnDisk
    <3>4. s.prev = <<>> \/ s.prev[1] \subseteq Stored
      <4>1. s.prev \in Seq(Images)
        BY <3>1, NodeIs
      <4> QED
        BY <4>1 DEF Images
    <3>5. ASSUME NEW p \in DOMAIN s.entry
          PROVE  /\ s.entry[p].file.path => s.entry[p].file.written \subseteq DOMAIN s.entry[p].file.data
                 /\ Elements(s.entry[p].out) \subseteq DOMAIN s.jobs
                 /\ Len(s.entry[p].out) <= MaxPending
      <4>1. Fits(s.entry[p], p, s.jobs) /\ s.jobs \in Seq(Job)
        BY <3>1, NodeIs
      <4>2. s.entry[p].file \in Downloads \cup {NoFile}
        BY <4>1, FitsIs
      <4>3. s.entry[p].file.path => s.entry[p].file.written \subseteq DOMAIN s.entry[p].file.data
        BY <4>2, NoFileIs DEF Downloads
      <4> QED
        BY <4>1, <4>3, FitsIs
    <3>6. s.phase \in Elements(Phases)
      <4>1. s.phase \in LogicPhases
        BY <3>1, NodeIs
      <4>2. DOMAIN Phases = 1 .. 8
        BY DEF Phases
      <4>3. LogicPhases = {Phases[1], Phases[2], Phases[3], Phases[4],
                           Phases[5], Phases[6], Phases[7], Phases[8]}
        BY DEF Phases, LogicPhases
      <4> QED
        BY <4>1, <4>2, <4>3 DEF Elements
    <3>7. DOMAIN s.owners = DOMAIN s.entry
      BY <3>1, NodeIs
    <3>8. NodeOK(s)
      BY <3>2, <3>3, <3>4, <3>5, <3>6, <3>7 DEF NodeOK
    <3>9. DOMAIN sock[c] \subseteq Peers
      BY DEF Inv, NetInv, Plugged
    <3> QED
      BY <3>8, <3>9 DEF s
  <2> QED
    BY <2>1, <2>2 DEF TypeOK
<1> QED
  BY <1>1, ClientInvariant, PTL

(* A chunk of an incomplete file waits in the work queue or is asked for:   *)
(* through draws, answers, rejections and late chunks, no path of client.c  *)
(* drops one (check_work_queue, receive_chunk).                             *)
THEOREM ChunksAccounted == Spec => []Accounted
<1>1. Inv => Accounted
  <2> SUFFICES ASSUME Inv, NEW c \in alive, NEW p \in DOMAIN node[c].entry,
                      node[c].entry[p].file.path,
                      NEW i \in DOMAIN node[c].entry[p].file.data \ node[c].entry[p].file.written
               PROVE  \/ i \in Elements(node[c].entry[p].work)
                      \/ \E id \in Elements(node[c].entry[p].out) : node[c].jobs[id].chunk = i
    BY DEF Accounted
  <2>1. c \in Peers
    BY DEF Inv, UserInv
  <2>2. Fits(node[c].entry[p], p, node[c].jobs)
    BY <2>1, Finds, NodeIs
  <2> QED
    BY <2>2 DEF Fits, Missing, Awaited
<1> QED
  BY <1>1, ClientInvariant, PTL

-----------------------------------------------------------------------------
(* While nobody joins or leaves, each work queue has chunks its file lacks *)
(* and nobody was asked for, once each, and a request outstanding is one   *)
(* for such a chunk, of the version the file has; the directory differs    *)
(* from cur_fs by what the user did; and updates and diffs have one        *)
(* version of a file.                                                      *)

Single(F) == \A e, f \in F : e.path = f.path => e = f
StillDiffs(c) == {u \in Diffs(c) : Single(u.adds)}
StillNews(c) == Gots(c) \cup StillDiffs(c) \cup Table
Own(au, c, e) == e.ver \in DOMAIN au /\ au[e.ver] = c
OwnUpdates(au, un, c) ==
  {u \in Update : Single(u.adds) /\ (\A e \in u.adds : Own(au, c, e)) /\ u.dels \subseteq un}

Asking(e, jobs) ==
  \A id \in Elements(e.out) :
    /\ jobs[id].chunk \in Missing(e.file) \ Elements(e.work) /\ jobs[id].ver = e.file.ver
    /\ \A jd \in Elements(e.out) : jobs[id].chunk = jobs[jd].chunk => id = jd
Exact(e, chunks, jobs) ==
  /\ Distinct(e.work)
  /\ ~e.file.path => e.work = <<>> /\ e.out = <<>>
  /\ e.file.path => /\ chunks = Chunks(e.file.ver)
                    /\ Elements(e.work) \subseteq Missing(e.file) /\ Asking(e, jobs)
Clean(s) == \A p \in DOMAIN s.entry : Exact(s.entry[p], DOMAIN s.owners[p], s.jobs)
OwnChanges(au, un, c, s) ==
  /\ \A e \in Scan(s.disk) \ s.cur : Own(au, c, e)
  /\ s.cur \ Scan(s.disk) \subseteq un

Sound(why) == why \notin {"stray_chunk", "write_assert"}
StillDowns(q) == \A c \in Peers : q[c] \in Seq(StillNews(c))
StillTold == members \subseteq alive /\ Sound(crash) /\ StillDowns(down)
StillQueues ==
  \A c \in Peers : /\ toLogic[c].diff \in Seq(StillDiffs(c)) /\ toLogic[c].mst = <<>>
                   /\ up[c].upd \in Seq(OwnUpdates(author, undone[c], c))
StillNodes == \A c \in Peers : Clean(node[c]) /\ OwnChanges(author, undone[c], c, node[c])
Still == StillTold /\ StillQueues /\ StillNodes

(* Every place of a shuffled queue has an element of its own. *)
LEMMA ShufflesDistinct ==
  ASSUME NEW S, NEW q \in Seq(S), Distinct(q), NEW s \in Shuffles(q)
  PROVE  Distinct(s)
<1>1. Len(q) \in Nat /\ DOMAIN q = 1 .. Len(q)
  BY LenProperties
<1>2. PICK f \in Cycles(Len(q)) : s = [i \in DOMAIN q |-> q[f[i]]]
  BY DEF Shuffles
<1>3. /\ f \in [1 .. Len(q) -> 1 .. Len(q)]
      /\ \A j \in 1 .. Len(q) : \E i \in 1 .. Len(q) : f[i] = j
  BY <1>1, CyclesSurjective
<1>4. f \in Surjection(1 .. Len(q), 1 .. Len(q))
  BY <1>3 DEF Surjection
<1>5. IsFiniteSet(1 .. Len(q))
  BY <1>1, FS_Interval
<1>6. f \in Injection(1 .. Len(q), 1 .. Len(q))
  BY <1>4, <1>5, FS_SurjSameCardinalityImpliesInj
<1>7. \A i, j \in 1 .. Len(q) : f[i] = f[j] => i = j
  BY <1>6 DEF Injection, IsInjective
<1> QED
  BY <1>1, <1>2, <1>3, <1>7 DEF Distinct

LEMMA ExactNoWork == \A chunks, jobs : Exact(NoWork, chunks, jobs)
BY NoFileIs, ElementsEmpty DEF Exact, NoWork, Distinct

(* A file to download, with all its chunks to ask for. *)
LEMMA ExactNew ==
  ASSUME NEW v \in Versions, NEW w \in Shuffles(AllChunks(v)), NEW jobs
  PROVE  Exact(Download(v, w), Chunks(v), jobs)
<1> DEFINE f == ForWriting(v)
<1>1. AllChunks(v) \in Seq(Nat) /\ Distinct(AllChunks(v)) /\ Elements(AllChunks(v)) = Chunks(v)
  <2>1. /\ AllChunks(v) \in Seq(Nat) /\ Elements(AllChunks(v)) = Chunks(v)
        /\ DOMAIN AllChunks(v) = 1 .. ChunksOf[v] /\ \A i \in 1 .. ChunksOf[v] : AllChunks(v)[i] = i - 1
        /\ ChunksOf[v] \in Nat
    BY AllChunksAre, ChunksType
  <2>2. \A i, j \in 1 .. ChunksOf[v] : i - 1 = j - 1 => i = j
    BY <2>1
  <2>3. Distinct(AllChunks(v))
    BY <2>1, <2>2 DEF Distinct
  <2> QED
    BY <2>1, <2>3
<1>2. Elements(w) = Chunks(v) /\ Distinct(w)
  BY <1>1, ShufflesAre, ShufflesDistinct
<1>3. Missing(f) = Chunks(v) /\ f.ver = v /\ f.path
  BY ForWritingIs
<1> DEFINE e == Download(v, w)
<1>4. e.work = w /\ e.out = <<>> /\ e.file = f
  BY DEF Download
<1>5. Elements(<<>>) = {}
  BY ElementsEmpty
<1> HIDE DEF e, f
<1>6. Exact(e, Chunks(v), jobs)
  BY <1>2, <1>3, <1>4, <1>5 DEF Exact, Asking
<1> QED
  BY <1>6 DEF e

(* receive_chunk_request opens the file where there is none. *)
LEMMA ExactReading ==
  ASSUME NEW e, NEW f, NEW chunks, NEW jobs, Exact(e, chunks, jobs), e.file = NoFile, f.path = FALSE
  PROVE  Exact([work |-> e.work, out |-> e.out, file |-> f], chunks, jobs)
BY NoFileIs DEF Exact

(* A request drawn, in a longer list of jobs. *)
LEMMA ExactDrawn ==
  ASSUME NEW e, NEW p, NEW chunks, NEW jobs \in Seq(Job), NEW job \in Job,
         Fits(e, p, jobs), Exact(e, chunks, jobs)
  PROVE  /\ Exact(e, chunks, Append(jobs, job))
         /\ e.work # <<>> /\ job.chunk = Head(e.work) /\ job.ver = e.file.ver =>
              Exact([e EXCEPT !.work = Tail(@), !.out = Append(@, Len(jobs) + 1)],
                    chunks, Append(jobs, job))
<1> DEFINE js == Append(jobs, job)
           n == Len(jobs) + 1
<1>1. /\ DOMAIN jobs = 1 .. Len(jobs) /\ Len(jobs) \in Nat /\ n \in Nat /\ n \notin DOMAIN jobs
      /\ js[n] = job /\ \A id \in DOMAIN jobs : js[id] = jobs[id]
  <2>1. js[n] = job /\ \A id \in 1 .. Len(jobs) : js[id] = jobs[id]
    BY AppendProperties
  <2>2. DOMAIN jobs = 1 .. Len(jobs) /\ Len(jobs) \in Nat
    BY LenProperties
  <2> QED
    BY <2>1, <2>2
<1>2. /\ e \in EntryRecords /\ e.work \in Seq(Nat) /\ e.out \in Seq(Nat)
      /\ \A id \in Elements(e.out) : id \in DOMAIN jobs
  BY FitsIs
<1> HIDE DEF js, n
<1>3. \A id \in Elements(e.out) : js[id] = jobs[id] /\ id # n
  BY <1>1, <1>2
<1>4. Exact(e, chunks, js)
  BY <1>3 DEF Exact, Asking
<1>5. ASSUME e.work # <<>>, job.chunk = Head(e.work), job.ver = e.file.ver
      PROVE  Exact([e EXCEPT !.work = Tail(@), !.out = Append(@, n)], chunks, js)
  <2> DEFINE g == [e EXCEPT !.work = Tail(@), !.out = Append(@, n)]
  <2>1. g.work = Tail(e.work) /\ g.out = Append(e.out, n) /\ g.file = e.file
    BY <1>2 DEF EntryRecords
  <2>2. Elements(g.out) = Elements(e.out) \cup {n}
    <3>1. Elements(Append(e.out, n)) = Elements(e.out) \cup {n}
      BY <1>1, <1>2, ElementsAppend
    <3> QED
      BY <2>1, <3>1
  <2>3. /\ Elements(e.work) = {Head(e.work)} \cup Elements(Tail(e.work))
        /\ Len(Tail(e.work)) = Len(e.work) - 1 /\ Tail(e.work) \in Seq(Nat) /\ Head(e.work) = e.work[1]
        /\ \A i \in 1 .. Len(Tail(e.work)) : Tail(e.work)[i] = e.work[i + 1]
    BY <1>2, <1>5, ElementsTail
  <2>4. Distinct(g.work) /\ Head(e.work) \notin Elements(g.work)
    <3>1. /\ Len(e.work) \in Nat /\ Len(e.work) > 0 /\ DOMAIN e.work = 1 .. Len(e.work)
          /\ DOMAIN Tail(e.work) = 1 .. (Len(e.work) - 1)
      BY <1>2, <1>5, <2>3, LenProperties, EmptySeq
    <3>2. \A i \in 1 .. (Len(e.work) - 1) : i + 1 \in 1 .. Len(e.work) /\ i + 1 # 1
      BY <3>1
    <3>3. \A i, j \in 1 .. (Len(e.work) - 1) : i + 1 = j + 1 => i = j
      BY <3>1
    <3>4. 1 \in 1 .. Len(e.work) /\ \A i, j \in 1 .. Len(e.work) : e.work[i] = e.work[j] => i = j
      BY <3>1 DEF Exact, Distinct
    <3> DEFINE t == Tail(e.work)
               w == e.work
    <3>5. DOMAIN t = 1 .. (Len(w) - 1) /\ \A i \in 1 .. (Len(w) - 1) : t[i] = w[i + 1]
      BY <2>3, <3>1
    <3>6. Head(w) = w[1] /\ 1 \in 1 .. Len(w) /\ \A i, j \in 1 .. Len(w) : w[i] = w[j] => i = j
      BY <2>3, <3>4
    <3>7. \A i \in 1 .. (Len(w) - 1) : i + 1 \in 1 .. Len(w) /\ i + 1 # 1
      BY <3>2
    <3> HIDE DEF t, w
    <3>8. Distinct(t)
      BY <3>3, <3>5, <3>6, <3>7 DEF Distinct, w
    <3>9. Head(w) \notin Elements(t)
      BY <3>5, <3>6, <3>7 DEF Elements
    <3> QED
      BY <2>1, <3>8, <3>9 DEF t, w
  <2>5. e.file.path
    BY <1>5 DEF Exact
  <2> HIDE DEF g
  <2>6. Head(e.work) \in Missing(e.file) /\ Asking(e, jobs) /\ Elements(g.work) \subseteq Missing(e.file)
    BY <2>1, <2>3, <2>5 DEF Exact
  <2>7. js[n].chunk = Head(e.work) /\ js[n].ver = e.file.ver
    BY <1>1, <1>5
  <2>8. \A id \in Elements(e.out) : js[id].chunk # Head(e.work)
    BY <1>3, <2>3, <2>6 DEF Asking
  <2>9. \A id \in Elements(e.out) :
          /\ js[id].chunk \in Missing(e.file) \ Elements(g.work) /\ js[id].ver = e.file.ver
          /\ \A jd \in Elements(e.out) : js[id].chunk = js[jd].chunk => id = jd
    BY <1>3, <2>1, <2>3, <2>6 DEF Asking
  <2>10. Asking(g, js)
    BY <2>1, <2>2, <2>4, <2>6, <2>7, <2>8, <2>9 DEF Asking
  <2>11. Exact(g, chunks, js)
    BY <2>1, <2>4, <2>5, <2>6, <2>10 DEF Exact
  <2> QED
    BY <2>11 DEF g
<1> QED
  BY <1>4, <1>5 DEF js, n

(* A request answered: its chunk i waits again, or is written, into f. *)
Settles(e, id, i, f, chunks, jobs) ==
  LET o == FirstGone(e.out, id) IN
  /\ e.file.path /\ e.file \in Downloads /\ i \in Missing(e.file)
  /\ Exact([work |-> Append(e.work, i), out |-> o, file |-> e.file], chunks, jobs)
  /\ f \in Downloads /\ f.path /\ f.ver = e.file.ver /\ Missing(f) = Missing(e.file) \ {i} =>
       /\ Exact([work |-> e.work, out |-> o, file |-> f], chunks, jobs)
       /\ Missing(f) = {} => Exact([work |-> e.work, out |-> o, file |-> NoFile], chunks, jobs)

LEMMA ExactAnswered ==
  ASSUME NEW e, NEW p, NEW chunks, NEW jobs \in Seq(Job), Fits(e, p, jobs), Exact(e, chunks, jobs),
         NEW id \in Elements(e.out), NEW i, jobs[id].chunk = i, NEW f
  PROVE  Settles(e, id, i, f, chunks, jobs)
<1> DEFINE o == FirstGone(e.out, id)
<1>1. /\ e.work \in Seq(Nat) /\ e.out \in Seq(Nat) /\ Distinct(e.out) /\ e.file \in Downloads \cup {NoFile}
  BY FitsIs
<1>2. o \in Seq(Nat) /\ Elements(o) \subseteq Elements(e.out) /\ id \notin Elements(o)
  BY <1>1, FirstGoneIs DEF Distinct
<1>3. e.file.path /\ Distinct(e.work)
  <2>1. e.out # <<>>
    BY ElementsEmpty
  <2> QED
    BY <2>1 DEF Exact
<1>4. e.file \in Downloads
  BY <1>1, <1>3, NoFileIs
<1>5. /\ i \in Missing(e.file) \ Elements(e.work) /\ chunks = Chunks(e.file.ver)
      /\ Elements(e.work) \subseteq Missing(e.file) /\ Asking(e, jobs)
  BY <1>3 DEF Exact, Asking
<1>6. \A jd \in Elements(o) : jobs[jd].chunk \in (Missing(e.file) \ Elements(e.work)) \ {i}
                              /\ jobs[jd].ver = e.file.ver
  BY <1>2, <1>5 DEF Asking
<1>7. \A jd, kd \in Elements(o) : jobs[jd].chunk = jobs[kd].chunk => jd = kd
  BY <1>2, <1>5 DEF Asking
<1> HIDE DEF o
<1>8. Exact([work |-> Append(e.work, i), out |-> o, file |-> e.file], chunks, jobs)
  <2>1. i \in Nat
    <3>1. Missing(e.file) \subseteq Nat
      BY <1>4, PartialIs DEF Downloads, Missing
    <3> QED
      BY <1>5, <3>1
  <2> DEFINE w == Append(e.work, i)
  <2>2. Elements(w) = Elements(e.work) \cup {i}
    <3> DEFINE v == e.work
    <3>1. v \in Seq(Nat)
      BY <1>1
    <3> HIDE DEF v
    <3>2. Elements(Append(v, i)) = Elements(v) \cup {i}
      BY <2>1, <3>1, ElementsAppend
    <3> QED
      BY <3>2 DEF v
  <2>3. Distinct(w)
    <3>1. /\ Len(w) = Len(e.work) + 1 /\ w[Len(e.work) + 1] = i /\ w \in Seq(Nat)
          /\ \A j \in 1 .. Len(e.work) : w[j] = e.work[j]
      BY <1>1, <2>1, AppendProperties
    <3>2. /\ Len(e.work) \in Nat /\ DOMAIN e.work = 1 .. Len(e.work)
          /\ DOMAIN w = 1 .. (Len(e.work) + 1)
      BY <1>1, <3>1, LenProperties
    <3>3. \A j \in 1 .. (Len(e.work) + 1) : j = Len(e.work) + 1 \/ j \in 1 .. Len(e.work)
      BY <3>2
    <3>4. \A j \in 1 .. Len(e.work) : w[j] # i
      BY <1>5, <3>1, <3>2 DEF Elements
    <3>5. \A j, k \in 1 .. Len(e.work) : w[j] = w[k] => j = k
      BY <1>3, <3>1, <3>2 DEF Distinct
    <3> HIDE DEF w
    <3> QED
      BY <3>1, <3>2, <3>3, <3>4, <3>5 DEF Distinct
  <2> DEFINE g == [work |-> w, out |-> o, file |-> e.file]
  <2>4. g.work = w /\ g.out = o /\ g.file = e.file
    OBVIOUS
  <2> HIDE DEF w, g
  <2>5. Asking(g, jobs)
    BY <1>6, <1>7, <2>2, <2>4 DEF Asking
  <2>6. Exact(g, chunks, jobs)
    BY <1>3, <1>5, <2>2, <2>3, <2>4, <2>5 DEF Exact
  <2> QED
    BY <2>6 DEF g, w
<1>9. ASSUME f \in Downloads, f.path, f.ver = e.file.ver, Missing(f) = Missing(e.file) \ {i}
      PROVE  Exact([work |-> e.work, out |-> o, file |-> f], chunks, jobs)
  <2> DEFINE g == [work |-> e.work, out |-> o, file |-> f]
  <2>1. g.work = e.work /\ g.out = o /\ g.file = f
    OBVIOUS
  <2> HIDE DEF g
  <2>2. Asking(g, jobs)
    BY <1>6, <1>7, <1>9, <2>1 DEF Asking
  <2>3. Exact(g, chunks, jobs)
    BY <1>3, <1>5, <1>9, <2>1, <2>2 DEF Exact
  <2> QED
    BY <2>3 DEF g
<1>10. ASSUME Missing(e.file) \ {i} = {}
       PROVE  Exact([work |-> e.work, out |-> o, file |-> NoFile], chunks, jobs)
  <2>1. Elements(e.work) = {} /\ Elements(o) = {}
    BY <1>5, <1>6, <1>10
  <2>2. \A q \in Seq(Nat) : Elements(q) = {} => q = <<>>
    BY ElementsTail
  <2>3. e.work = <<>> /\ o = <<>>
    BY <1>1, <1>2, <2>1, <2>2
  <2> QED
    BY <1>3, <2>3, NoFileIs DEF Exact
<1> QED
  BY <1>3, <1>4, <1>5, <1>8, <1>9, <1>10 DEF o, Settles

LEMMA CleanKept ==
  ASSUME NEW s, NEW t, Clean(s), t.jobs = s.jobs,
         \A p \in DOMAIN t.entry :
           \/ Exact(t.entry[p], DOMAIN t.owners[p], s.jobs)
           \/ p \in DOMAIN s.entry /\ t.entry[p] = s.entry[p] /\ DOMAIN t.owners[p] = DOMAIN s.owners[p]
  PROVE  Clean(t)
BY DEF Clean

LEMMA RefreshedStill ==
  ASSUME NEW c, NEW s \in Nodes(c), Clean(s)
  PROVE  Clean(Refreshed(s)) /\ \A au, un : OwnChanges(au, un, c, Refreshed(s))
<1> DEFINE t == Refreshed(s)
<1>1. /\ t.jobs = s.jobs /\ t.entry = s.entry /\ t.owners = s.owners
      /\ t.disk = s.disk /\ t.cur = Scan(s.disk)
  BY DEF Refreshed, Nodes, NodeRecords
<1> HIDE DEF t
<1>2. Clean(t)
  BY <1>1 DEF Clean
<1>3. \A au, un : OwnChanges(au, un, c, t)
  BY <1>1 DEF OwnChanges
<1> QED
  BY <1>2, <1>3 DEF t

(* Of a step of a logic thread. *)
LEMMA LogicStill ==
  ASSUME Still, NEW c \in Peers, UNCHANGED <<trackerVars, userVars, netVars>>,
         \A d \in Peers \ {c} : node'[d] = node[d] /\ toLogic'[d] = toLogic[d] /\ up'[d] = up[d],
         Clean(node'[c]), OwnChanges(author, undone[c], c, node'[c]),
         toLogic'[c].diff \in Seq(StillDiffs(c)), toLogic'[c].mst = <<>>,
         up'[c].upd \in Seq(OwnUpdates(author, undone[c], c)), Sound(crash')
  PROVE  Still'
<1>1. StillTold'
  BY DEF Still, StillTold, trackerVars, netVars
<1>2. ASSUME NEW d \in Peers
      PROVE  /\ toLogic'[d].diff \in Seq(StillDiffs(d)) /\ toLogic'[d].mst = <<>>
             /\ up'[d].upd \in Seq(OwnUpdates(author, undone[d], d))
             /\ Clean(node'[d]) /\ OwnChanges(author, undone[d], d, node'[d])
  BY DEF Still, StillQueues, StillNodes
<1>3. StillQueues' /\ StillNodes'
  BY <1>2 DEF StillQueues, StillNodes, userVars
<1> QED
  BY <1>1, <1>3 DEF Still

(* What a logic thread finds, while nobody joins or leaves. *)
LEMMA StillFinds ==
  ASSUME Still, NEW c \in Peers
  PROVE  /\ Clean(node[c]) /\ OwnChanges(author, undone[c], c, node[c]) /\ Sound(crash)
         /\ (Inv => DOMAIN node = Peers /\ DOMAIN toLogic = Peers /\ DOMAIN up = Peers)
         /\ toLogic[c].diff \in Seq(StillDiffs(c)) /\ toLogic[c].mst = <<>>
         /\ up[c].upd \in Seq(OwnUpdates(author, undone[c], c))
BY DEF Still, StillTold, StillQueues, StillNodes, Inv, NodeInv, QueueInv, TrackerInv

LEMMA PeerDeletedStill ==
  ASSUME Inv, Still, NEW c \in Peers, LogicPeerDeleted(c)
  PROVE  Still'
<1> DEFINE s == node[c]
           owners == RemovePeer(s.owners, Head(toLogic[c].del))
           t == [s EXCEPT !.owners = owners]
           q == [toLogic[c] EXCEPT !.del = Tail(@)]
<1>1. /\ UNCHANGED <<trackerVars, userVars, netVars, up, toNet, crash>>
      /\ toLogic' = [toLogic EXCEPT ![c] = q] /\ node' = [node EXCEPT ![c] = t]
  BY DEF LogicPeerDeleted, LogicTakes
<1>2. s \in Nodes(c) /\ toLogic[c] \in ToLogics(Books, c)
  BY Finds
<1>3. q.diff = toLogic[c].diff /\ q.mst = toLogic[c].mst
  BY <1>2 DEF ToLogics
<1>4. Clean(s) /\ OwnChanges(author, undone[c], c, s)
  BY StillFinds
<1> HIDE DEF s
<1>5. /\ DOMAIN owners = DOMAIN s.owners /\ DOMAIN s.owners = DOMAIN s.entry
      /\ \A p \in DOMAIN s.owners : DOMAIN owners[p] = DOMAIN s.owners[p]
  BY <1>2, NodeIs, PeerRemoved
<1> HIDE DEF owners
<1>6. /\ t.owners = owners /\ t.entry = s.entry /\ t.jobs = s.jobs
      /\ t.disk = s.disk /\ t.cur = s.cur
  BY <1>2 DEF Nodes, NodeRecords
<1> HIDE DEF t, q
<1>7. Clean(t) /\ OwnChanges(author, undone[c], c, t)
  BY <1>4, <1>5, <1>6, CleanKept DEF OwnChanges
<1>9. /\ node'[c] = t /\ toLogic'[c] = q /\ up'[c] = up[c] /\ Sound(crash')
      /\ \A d \in Peers \ {c} : node'[d] = node[d] /\ toLogic'[d] = toLogic[d] /\ up'[d] = up[d]
  BY <1>1, StillFinds
<1> QED
  BY <1>1, <1>3, <1>7, <1>9, StillFinds, LogicStill

LEMMA ChunkGotStill ==
  ASSUME Inv, Still, NEW c \in Peers, LogicChunkGot(c)
  PROVE  Still'
<1> DEFINE s == node[c]
           g == Head(toLogic[c].acq)
           owners == GotApplied(s.owners, g)
           t == [s EXCEPT !.owners = owners]
           q == [toLogic[c] EXCEPT !.acq = Tail(@)]
<1>1. /\ UNCHANGED <<trackerVars, userVars, netVars, up, toNet>> /\ toLogic[c].acq # <<>>
      /\ toLogic' = [toLogic EXCEPT ![c] = q] /\ node' = [node EXCEPT ![c] = t]
      /\ crash' \in {"none", "stray_owner", "got_assert"}
  BY DEF LogicChunkGot, LogicTakes, GotOutcomes
<1>2. s \in Nodes(c) /\ toLogic[c] \in ToLogics(Books, c) /\ g \in Gots(c)
  BY <1>1, Finds, TakenFrom
<1>3. q.diff = toLogic[c].diff /\ q.mst = toLogic[c].mst
  BY <1>2 DEF ToLogics
<1>4. Clean(s) /\ OwnChanges(author, undone[c], c, s)
  BY StillFinds
<1> HIDE DEF s, g
<1>5. /\ DOMAIN owners = DOMAIN s.owners /\ DOMAIN s.owners = DOMAIN s.entry
      /\ \A p \in DOMAIN s.owners : DOMAIN owners[p] = DOMAIN s.owners[p]
  <2>1. s.owners \in OwnerTables(Others(c)) /\ g.peer \in Others(c)
    BY <1>2, NodeIs DEF Gots, Got, Others
  <2> QED
    BY <1>2, <2>1, NodeIs, GotIs
<1> HIDE DEF owners
<1>6. /\ t.owners = owners /\ t.entry = s.entry /\ t.jobs = s.jobs
      /\ t.disk = s.disk /\ t.cur = s.cur
  BY <1>2 DEF Nodes, NodeRecords
<1> HIDE DEF t, q
<1>7. Clean(t) /\ OwnChanges(author, undone[c], c, t)
  BY <1>4, <1>5, <1>6, CleanKept DEF OwnChanges
<1>8. Sound(crash')
  BY <1>1 DEF Sound
<1>9. /\ node'[c] = t /\ toLogic'[c] = q /\ up'[c] = up[c] /\ Sound(crash')
      /\ \A d \in Peers \ {c} : node'[d] = node[d] /\ toLogic'[d] = toLogic[d] /\ up'[d] = up[d]
  BY <1>1, <1>8, StillFinds
<1> QED
  BY <1>1, <1>3, <1>7, <1>9, StillFinds, LogicStill

(* s has no more to report than t has. *)
Follows(c, s, t) == \A au, un : OwnChanges(au, un, c, s) => OwnChanges(au, un, c, t)

(* One entry changed. *)
LEMMA EntryStill ==
  ASSUME NEW c, NEW s \in Nodes(c), Clean(s), NEW p \in DOMAIN s.entry, NEW e,
         Exact(e, DOMAIN s.owners[p], s.jobs)
  PROVE  /\ Clean([s EXCEPT !.entry[p] = e])
         /\ Follows(c, s, [s EXCEPT !.entry[p] = e])
<1> DEFINE f == [s.entry EXCEPT ![p] = e]
           t == [s EXCEPT !.entry = f]
<1>1. DOMAIN f = DOMAIN s.entry /\ f[p] = e /\ \A x \in DOMAIN s.entry \ {p} : f[x] = s.entry[x]
  BY NodeIs, PartialIs
<1> HIDE DEF f
<1>2. /\ t.owners = s.owners /\ t.entry = f /\ t.jobs = s.jobs /\ t.disk = s.disk /\ t.cur = s.cur
  BY DEF Nodes, NodeRecords
<1>3. [s EXCEPT !.entry[p] = e] = t
  BY DEF f
<1> HIDE DEF t
<1>4. Clean(t)
  BY <1>1, <1>2, CleanKept
<1> QED
  BY <1>2, <1>3, <1>4 DEF OwnChanges, Follows

LEMMA ChunkRequestStill ==
  ASSUME Inv, Still, NEW c \in Peers, LogicChunkRequest(c)
  PROVE  Still'
<1> DEFINE p == Head(toLogic[c].req).path
           s == node[c]
           q == [toLogic[c] EXCEPT !.req = Tail(@)]
           f == ForReading(s.disk[p])
           t == [s EXCEPT !.entry[p].file = f]
<1>1. /\ UNCHANGED <<trackerVars, userVars, netVars, up>>
      /\ toLogic' = [toLogic EXCEPT ![c] = q] /\ crash' \in {crash, "no_file"}
      /\ \/ UNCHANGED node
         \/ /\ p \in DOMAIN s.entry /\ p \in DOMAIN s.disk /\ s.entry[p].file = NoFile
            /\ node' = [node EXCEPT ![c] = t]
  BY DEF LogicChunkRequest, LogicTakes, Fails
<1>2. s \in Nodes(c) /\ toLogic[c] \in ToLogics(Books, c)
  BY Finds
<1>3. q.diff = toLogic[c].diff /\ q.mst = toLogic[c].mst
  BY <1>2 DEF ToLogics
<1>4. Clean(s) /\ OwnChanges(author, undone[c], c, s) /\ Sound(crash')
  BY <1>1, StillFinds DEF Sound
<1> HIDE DEF s, p, q
<1>5. ASSUME p \in DOMAIN s.entry, p \in DOMAIN s.disk, s.entry[p].file = NoFile
      PROVE  Clean(t) /\ OwnChanges(author, undone[c], c, t)
  <2>1. f.path = FALSE
    BY <1>2, <1>5, NodeIs, PartialIs, ForReadingIs
  <2> HIDE DEF f
  <2> DEFINE e == [work |-> s.entry[p].work, out |-> s.entry[p].out, file |-> f]
  <2>2. Fits(s.entry[p], p, s.jobs) /\ s.jobs \in Seq(Job)
    BY <1>2, <1>5, NodeIs
  <2>3. [s.entry[p] EXCEPT !.file = f] = e
    BY <2>2, FitsIs DEF EntryRecords
  <2>4. Exact(s.entry[p], DOMAIN s.owners[p], s.jobs)
    BY <1>4, <1>5 DEF Clean
  <2>5. Exact(e, DOMAIN s.owners[p], s.jobs)
    BY <1>5, <2>1, <2>4, ExactReading
  <2>6. t = [s EXCEPT !.entry[p] = e]
    BY <2>3
  <2> HIDE DEF e, t
  <2> QED
    BY <1>2, <1>4, <1>5, <2>5, <2>6, EntryStill DEF Follows
<1> HIDE DEF t
<1>6. node' # node => Clean(t) /\ OwnChanges(author, undone[c], c, t)
  BY <1>1, <1>5
<1>7. /\ node'[c] \in {t, node[c]} /\ (node'[c] # node[c] => node' # node)
      /\ toLogic'[c] = q /\ up'[c] = up[c]
      /\ \A d \in Peers \ {c} : node'[d] = node[d] /\ toLogic'[d] = toLogic[d] /\ up'[d] = up[d]
  BY <1>1, StillFinds
<1>8. Clean(node'[c]) /\ OwnChanges(author, undone[c], c, node'[c])
  BY <1>6, <1>7, StillFinds
<1> QED
  BY <1>1, <1>3, <1>4, <1>7, <1>8, StillFinds, LogicStill

(* receive_chunk, for an id that is outstanding, where g is the file after. *)
Takes(c, s, m, g) ==
  LET again == Requeued(JobDone(s, m), m.path, m.chunk)
      more == Refreshed([JobDone(s, m) EXCEPT !.entry[m.path].file = g])
      whole == Completed(JobDone(s, m), m.path, g)
  IN  /\ s.entry[m.path].file # NoFile /\ m.chunk \in DOMAIN s.entry[m.path].file.data /\ g.path
      /\ Clean(again) /\ Follows(c, s, again) /\ Clean(more) /\ Follows(c, s, more)
      /\ AllWritten(g) => Clean(whole) /\ Follows(c, s, whole)

LEMMA AnsweredStill ==
  ASSUME NEW c, NEW s \in Nodes(c), Clean(s), NEW m, m.path \in DOMAIN s.entry,
         m.id \in Elements(s.entry[m.path].out), s.jobs[m.id].chunk = m.chunk, m.data \in Int,
         NEW g, g = SetChunk(s.entry[m.path].file, m.chunk, m.data)
  PROVE  Takes(c, s, m, g)
<1> DEFINE p == m.path
           i == m.chunk
           e == s.entry[p]
           o == FirstGone(e.out, m.id)
           With3(w, f) == [s EXCEPT !.entry[p] = [work |-> w, out |-> o, file |-> f]]
           t == JobDone(s, m)
<1>1. /\ Fits(e, p, s.jobs) /\ s.jobs \in Seq(Job) /\ p \in Files
      /\ Exact(e, DOMAIN s.owners[p], s.jobs)
  BY NodeIs, PartialIs DEF Clean
<1>2. /\ e.work \in Seq(Nat) /\ e.out \in Seq(Nat)
      /\ e = [work |-> e.work, out |-> e.out, file |-> e.file]
  BY <1>1, FitsIs
<1>3. /\ e.file.path /\ e.file \in Downloads /\ i \in Missing(e.file)
      /\ Exact([work |-> Append(e.work, i), out |-> o, file |-> e.file], DOMAIN s.owners[p], s.jobs)
      /\ g \in Downloads /\ g.path /\ g.ver = e.file.ver /\ Missing(g) = Missing(e.file) \ {i} =>
           /\ Exact([work |-> e.work, out |-> o, file |-> g], DOMAIN s.owners[p], s.jobs)
           /\ Missing(g) = {} =>
                Exact([work |-> e.work, out |-> o, file |-> NoFile], DOMAIN s.owners[p], s.jobs)
  <2> DEFINE chunks == DOMAIN s.owners[p]
             jobs == s.jobs
             id == m.id
  <2>1. /\ id \in Elements(e.out) /\ jobs[id].chunk = i /\ Exact(e, chunks, jobs)
        /\ Fits(e, p, jobs) /\ jobs \in Seq(Job)
    BY <1>1
  <2> HIDE DEF e, p, i, chunks, jobs, id
  <2>2. Settles(e, id, i, g, chunks, jobs)
    BY <2>1, ExactAnswered
  <2> QED
    BY <2>2 DEF chunks, Settles, jobs, id
<1>4. /\ g \in Downloads /\ Missing(g) = Missing(e.file) \ {i} /\ g.path /\ g.ver = e.file.ver
      /\ Saved(g) \in OnDisk /\ e.file # NoFile /\ i \in DOMAIN e.file.data
  <2> DEFINE f == e.file
             x == m.data
  <2>1. f \in Downloads /\ f.path /\ i \in DOMAIN f.data /\ x \in Int /\ g = SetChunk(f, i, x)
    BY <1>3 DEF Missing
  <2> HIDE DEF f, x, i
  <2>2. /\ g \in Downloads /\ Missing(g) = Missing(f) \ {i} /\ g.path = f.path /\ g.ver = f.ver
        /\ Saved(g) \in OnDisk
    <3>1. /\ SetChunk(f, i, x) \in Downloads /\ Missing(SetChunk(f, i, x)) = Missing(f) \ {i}
          /\ SetChunk(f, i, x).path = f.path /\ SetChunk(f, i, x).ver = f.ver
          /\ Saved(SetChunk(f, i, x)) \in OnDisk
      BY <2>1, SetChunkIs
    <3> QED
      BY <2>1, <3>1
  <2> QED
    BY <2>1, <2>2, NoFileIs DEF f
<1>5. t = With3(e.work, e.file)
  <2>1. [e EXCEPT !.out = o] = [work |-> e.work, out |-> o, file |-> e.file]
    BY <1>2
  <2>2. t = [s EXCEPT !.entry[p] = [e EXCEPT !.out = o]]
    BY DEF JobDone
  <2> QED
    BY <2>1, <2>2
<1>6. Replaces(t, s, p, e.work, o, e.file)
  <2> HIDE DEF o, t
  <2> QED
    BY <1>5, EntryReplaced
<1>7. /\ t.entry[p].work = e.work /\ t.disk = s.disk
      /\ \A x : [t EXCEPT !.entry[p].work = x] = With3(x, e.file)
      /\ \A x : [t EXCEPT !.entry[p].file = x] = With3(e.work, x)
      /\ \A d, x : [t EXCEPT !.disk = d, !.entry[p].file = x] = [With3(e.work, x) EXCEPT !.disk = d]
  <2> HIDE DEF o, t
  <2> QED
    BY <1>6 DEF Replaces
<1>8. ASSUME NEW w, NEW f, Exact([work |-> w, out |-> o, file |-> f], DOMAIN s.owners[p], s.jobs)
      PROVE  /\ Clean(With3(w, f))
             /\ Follows(c, s, With3(w, f))
  <2> DEFINE x == [work |-> w, out |-> o, file |-> f]
  <2>1. Exact(x, DOMAIN s.owners[p], s.jobs) /\ p \in DOMAIN s.entry
    BY <1>8
  <2> HIDE DEF x, p
  <2>2. /\ Clean([s EXCEPT !.entry[p] = x])
        /\ Follows(c, s, [s EXCEPT !.entry[p] = x])
    BY <2>1, EntryStill
  <2> QED
    BY <2>2 DEF x
<1>9. ASSUME NEW f \in Downloads \cup {NoFile}, f.path => Missing(f) \subseteq Missing(e.file) \ {i}
      PROVE  With3(e.work, f) \in Nodes(c)
  <2>1. m.id \in Elements(e.out) /\ s.jobs[m.id].chunk = i
    OBVIOUS
  <2> HIDE DEF e, i
  <2>2. Fits([work |-> e.work, out |-> o, file |-> f], p, s.jobs)
    BY <1>1, <1>2, <1>3, <1>9, <2>1, FitsAnswered
  <2> QED
    BY <2>2, EntryChanged
<1> HIDE DEF t, With3
<1>10. /\ Clean(Requeued(t, p, i))
       /\ Follows(c, s, Requeued(t, p, i))
  <2>1. Requeued(t, p, i) = With3(Append(e.work, i), e.file)
    BY <1>7 DEF Requeued
  <2> QED
    BY <1>3, <1>8, <2>1
<1>11. /\ Clean(Refreshed([t EXCEPT !.entry[p].file = g]))
       /\ Follows(c, s, Refreshed([t EXCEPT !.entry[p].file = g]))
  <2>1. [t EXCEPT !.entry[p].file = g] = With3(e.work, g)
    BY <1>7
  <2>2. With3(e.work, g) \in Nodes(c) /\ Clean(With3(e.work, g))
    BY <1>3, <1>4, <1>8, <1>9
  <2> QED
    BY <2>1, <2>2, RefreshedStill DEF Follows
<1>12. ASSUME AllWritten(g)
       PROVE  /\ Clean(Completed(t, p, g))
              /\ Follows(c, s, Completed(t, p, g))
  <2> DEFINE d == With(s.disk, [q \in {p} |-> Saved(g)])
             v == With3(e.work, NoFile)
             u == [v EXCEPT !.disk = d]
  <2>1. d \in Partial(Files, OnDisk)
    <3>1. s.disk \in Partial(Files, OnDisk)
      BY NodeIs
    <3>2. DOMAIN s.disk \cup {p} \in SUBSET Files /\ d \in [DOMAIN s.disk \cup {p} -> OnDisk]
      BY <1>1, <1>4, <3>1, PartialIs DEF With
    <3> QED
      BY <3>2, PartialMade
  <2>2. Completed(t, p, g) = Refreshed(u)
    <3>1. Completed(t, p, g) = Refreshed([t EXCEPT !.disk = d, !.entry[p].file = NoFile])
      BY <1>7 DEF Completed
    <3> HIDE DEF d
    <3> QED
      BY <1>7, <3>1
  <2> HIDE DEF d
  <2>3. v \in Nodes(c) /\ Clean(v)
    <3>1. Missing(g) = {}
      BY <1>12 DEF AllWritten, Missing
    <3> QED
      BY <1>3, <1>4, <1>8, <1>9, <3>1, NoFileIs
  <2> HIDE DEF v
  <2>4. u \in Nodes(c)
    BY <2>1, <2>3, NodeIs, NodeMade
  <2>5. Clean(u)
    <3>1. u.entry = v.entry /\ u.owners = v.owners /\ u.jobs = v.jobs
      BY <2>3 DEF Nodes, NodeRecords
    <3> QED
      BY <2>3, <3>1, CleanKept
  <2> HIDE DEF u
  <2> QED
    BY <2>2, <2>4, <2>5, RefreshedStill DEF Follows
<1> QED
  BY <1>4, <1>10, <1>11, <1>12 DEF t, Takes

LEMMA ChunkStill ==
  ASSUME Inv, Still, NEW c \in Peers, LogicChunk(c)
  PROVE  Still'
<1> DEFINE m == Head(toLogic[c].chunk)
           p == m.path
           s == node[c]
           g == SetChunk(s.entry[p].file, m.chunk, m.data)
           q == [toLogic[c] EXCEPT !.chunk = Tail(@)]
           More == Refreshed([JobDone(s, m) EXCEPT !.entry[p].file = g])
           Again == Requeued(JobDone(s, m), p, m.chunk)
           Whole == Completed(JobDone(s, m), p, g)
           Turns(t) == p \in DOMAIN s.entry /\ m.id \in Elements(s.entry[p].out)
                       /\ node' = [node EXCEPT ![c] = t] /\ UNCHANGED crash
<1>1. /\ UNCHANGED <<trackerVars, userVars, netVars>> /\ c \in alive
      /\ toLogic[c].chunk # <<>> /\ toLogic' = [toLogic EXCEPT ![c] = q]
  BY DEF LogicChunk, LogicTakes, Up
<1>2. s \in Nodes(c) /\ toLogic[c] \in ToLogics(Books, c) /\ m \in Answers(Books, c) /\ up[c] \in Ups(c)
  BY <1>1, Finds, TakenFrom
<1>3. q.diff = toLogic[c].diff /\ q.mst = toLogic[c].mst
  BY <1>2 DEF ToLogics
<1>4. m.data \in Int /\ Mine(Books, c, m)
  BY <1>2 DEF Answers, AnswerOf
<1>5. s.jobs[m.id].chunk = m.chunk
  <2>1. c \in DOMAIN Books /\ Books[c] = {s.jobs}
    BY <1>1 DEF Inv, UserInv, Books
  <2> QED
    BY <1>4, <2>1 DEF Mine
<1>6. Clean(s) /\ OwnChanges(author, undone[c], c, s) /\ Sound(crash)
  BY StillFinds
<1> DEFINE kept == up' = [up EXCEPT ![c].got = Append(@, [type |-> "acq", peer |-> c, path |-> p,
                                                        chunk |-> m.chunk])]
<1>7. \/ UNCHANGED <<up, node>> /\ crash' \in {crash, "null_entry"}
      \/ /\ p \in DOMAIN s.entry /\ m.id \in Elements(s.entry[p].out)
         /\ \/ s.entry[p].file = NoFile
            \/ Turns(Again) /\ UNCHANGED up
            \/ m.chunk \notin DOMAIN s.entry[p].file.data
            \/ ~g.path
            \/ Turns(Whole) /\ AllWritten(g) /\ kept
            \/ Turns(More) /\ kept
  BY DEF LogicChunk, Fails, Outstanding, Become
<1>8. p \in DOMAIN s.entry /\ m.id \in Elements(s.entry[p].out) =>
        /\ s.entry[p].file # NoFile /\ m.chunk \in DOMAIN s.entry[p].file.data /\ g.path
        /\ Clean(Again) /\ OwnChanges(author, undone[c], c, Again)
        /\ Clean(More) /\ OwnChanges(author, undone[c], c, More)
        /\ AllWritten(g) => Clean(Whole) /\ OwnChanges(author, undone[c], c, Whole)
  <2> SUFFICES ASSUME p \in DOMAIN s.entry, m.id \in Elements(s.entry[p].out)
               PROVE  /\ s.entry[p].file # NoFile /\ m.chunk \in DOMAIN s.entry[p].file.data /\ g.path
                      /\ Clean(Again) /\ OwnChanges(author, undone[c], c, Again)
                      /\ Clean(More) /\ OwnChanges(author, undone[c], c, More)
                      /\ AllWritten(g) => Clean(Whole) /\ OwnChanges(author, undone[c], c, Whole)
    OBVIOUS
  <2> DEFINE n == s
             k == m
  <2>1. /\ n \in Nodes(c) /\ Clean(n) /\ k.path \in DOMAIN n.entry
        /\ k.id \in Elements(n.entry[k.path].out) /\ n.jobs[k.id].chunk = k.chunk /\ k.data \in Int
    BY <1>2, <1>4, <1>5, <1>6
  <2>2. g = SetChunk(n.entry[k.path].file, k.chunk, k.data)
    OBVIOUS
  <2> HIDE DEF n, k, g
  <2>3. Takes(c, n, k, g)
    BY <2>1, <2>2, AnsweredStill
  <2>4. /\ s.entry[p].file # NoFile /\ m.chunk \in DOMAIN s.entry[p].file.data /\ g.path
        /\ Clean(Again) /\ Follows(c, s, Again) /\ Clean(More) /\ Follows(c, s, More)
        /\ AllWritten(g) => Clean(Whole) /\ Follows(c, s, Whole)
    BY <2>3 DEF n, k, Takes
  <2> HIDE DEF Again, More, Whole, s, m
  <2> QED
    BY <1>6, <2>4 DEF Follows
<1> HIDE DEF Again, More, Whole, g, s, m, q
<1>9. /\ crash' \in {crash, "null_entry"} /\ up' \in {up, [up EXCEPT ![c].got = up'[c].got]}
      /\ \/ UNCHANGED node
         \/ \E t \in {Again, More, Whole} : /\ node' = [node EXCEPT ![c] = t]
                                            /\ Clean(t) /\ OwnChanges(author, undone[c], c, t)
  BY <1>7, <1>8, StillFinds
<1>10. /\ \A d \in Peers \ {c} : node'[d] = node[d] /\ toLogic'[d] = toLogic[d] /\ up'[d] = up[d]
       /\ toLogic'[c] = q /\ up'[c].upd = up[c].upd /\ Sound(crash')
  BY <1>1, <1>2, <1>6, <1>9, StillFinds DEF Ups, Sound
<1>11. Clean(node'[c]) /\ OwnChanges(author, undone[c], c, node'[c])
  BY <1>9, StillFinds
<1> QED
  BY <1>1, <1>3, <1>10, <1>11, StillFinds, LogicStill

LEMMA ForgottenStill ==
  ASSUME NEW c, NEW s \in Nodes(c), Clean(s), NEW dels \in Images
  PROVE  Clean(Forgotten(s, dels))
<1> DEFINE t == Forgotten(s, dels)
<1>1. /\ t.jobs = s.jobs /\ DOMAIN t.entry = DOMAIN s.entry \ PathsOf(dels)
      /\ \A p \in DOMAIN s.entry \ PathsOf(dels) : t.entry[p] = s.entry[p] /\ t.owners[p] = s.owners[p]
  BY ForgottenIs
<1> HIDE DEF t
<1>2. Clean(t)
  BY <1>1, CleanKept
<1> QED
  BY <1>2 DEF t

LEMMA LearntStill ==
  ASSUME NEW c, NEW s \in Nodes(c), Clean(s), NEW adds \in Images, NEW peer \in Others(c), NEW entries,
         DOMAIN entries = PathsOf(adds), \A p \in PathsOf(adds) : Fits(entries[p], p, s.jobs),
         \A f \in adds : Exact(entries[f.path], Chunks(f.ver), s.jobs)
  PROVE  Clean(Learnt(s, adds, peer, entries))
<1> DEFINE t == Learnt(s, adds, peer, entries)
<1>1. /\ t.jobs = s.jobs /\ DOMAIN t.entry = DOMAIN s.entry \cup PathsOf(adds)
      /\ \A p \in DOMAIN s.entry \ PathsOf(adds) : t.entry[p] = s.entry[p] /\ t.owners[p] = s.owners[p]
      /\ \A p \in PathsOf(adds) : t.entry[p] = entries[p]
           /\ \E f \in adds : f.path = p /\ DOMAIN t.owners[p] = Chunks(f.ver)
  BY LearntIs
<1> HIDE DEF t
<1>2. ASSUME NEW p \in PathsOf(adds) PROVE Exact(t.entry[p], DOMAIN t.owners[p], s.jobs)
  <2>1. PICK f \in adds : f.path = p /\ DOMAIN t.owners[p] = Chunks(f.ver)
    BY <1>1
  <2>2. Exact(entries[f.path], Chunks(f.ver), s.jobs)
    OBVIOUS
  <2> QED
    BY <1>1, <2>1, <2>2
<1>3. Clean(t)
  BY <1>1, <1>2, CleanKept
<1> QED
  BY <1>3 DEF t

LEMMA DiffStill ==
  ASSUME Inv, Still, NEW c \in Peers, LogicDiff(c)
  PROVE  Still'
<1> DEFINE s == node[c]
           u == Head(toLogic[c].diff)
           gone == Forgotten(s, u.dels)
           left == Unlinked(gone, PathsOf(u.dels))
           q == [toLogic[c] EXCEPT !.diff = Tail(@)]
           Entry(e, order) == [p \in DOMAIN e |-> Download(e[p].ver, order[p])]
           Written(e) == [p \in {p \in DOMAIN e : ChunksOf[e[p].ver] = 0} |-> Saved(ForWriting(e[p].ver))]
           After(e, order) ==
             LET x == Learnt(left, u.adds, u.from, Entry(e, order))
             IN  [x EXCEPT !.disk = With(@, Written(e))]
<1>1. /\ UNCHANGED <<trackerVars, userVars, netVars, up, toNet, crash>>
      /\ toLogic[c].diff # <<>> /\ toLogic' = [toLogic EXCEPT ![c] = q]
  BY DEF LogicDiff, LogicTakes
<1>2. PICK e \in Winners(u.adds) :
        \E order \in Orders([p \in DOMAIN e |-> Shuffles(AllChunks(e[p].ver))]) :
          node' = [node EXCEPT ![c] = Refreshed(After(e, order))]
  BY DEF LogicDiff, Become
<1>3. PICK order \in Orders([p \in DOMAIN e |-> Shuffles(AllChunks(e[p].ver))]) :
        node' = [node EXCEPT ![c] = Refreshed(After(e, order))]
  BY <1>2
<1>4. s \in Nodes(c) /\ toLogic[c] \in ToLogics(Books, c) /\ Clean(s)
  BY Finds, StillFinds
<1>5. /\ u \in StillDiffs(c) /\ q.diff \in Seq(StillDiffs(c)) /\ q.mst = <<>>
  <2>1. toLogic[c].diff \in Seq(StillDiffs(c)) /\ toLogic[c].mst = <<>>
    BY StillFinds
  <2>2. u \in StillDiffs(c) /\ Tail(toLogic[c].diff) \in Seq(StillDiffs(c))
    BY <1>1, <2>1, Tails
  <2> QED
    BY <1>4, <2>1, <2>2 DEF ToLogics
<1> HIDE DEF u, q, s
<1>6. u.adds \in Images /\ u.dels \in Images /\ u.from \in Others(c) /\ Single(u.adds)
  BY <1>5 DEF StillDiffs, Diffs, Diff, Others
<1>7. gone \in Nodes(c) /\ Clean(gone)
  BY <1>4, <1>6, ForgottenIs, ForgottenStill
<1> HIDE DEF gone
<1>8. left \in Nodes(c) /\ Clean(left)
  <2>1. left \in Nodes(c)
    BY <1>7, UnlinkedIs
  <2>2. left.jobs = gone.jobs /\ left.entry = gone.entry /\ left.owners = gone.owners
    BY <1>7 DEF Nodes, NodeRecords, Unlinked
  <2> HIDE DEF left
  <2> QED
    BY <1>7, <2>1, <2>2, CleanKept
<1> HIDE DEF left
<1>9. /\ DOMAIN e = PathsOf(u.adds) /\ DOMAIN e \subseteq Files
      /\ \A p \in DOMAIN e : e[p] \in u.adds /\ e[p].path = p /\ e[p].ver \in Versions
                             /\ order[p] \in Shuffles(AllChunks(e[p].ver))
  <2>1. DOMAIN e = PathsOf(u.adds) /\ \A p \in DOMAIN e : e[p] \in u.adds /\ e[p].path = p
    BY <1>2 DEF Winners
  <2>2. \A p \in DOMAIN e : order[p] \in Shuffles(AllChunks(e[p].ver))
    BY <1>3 DEF Orders
  <2> QED
    BY <1>6, <2>1, <2>2, FlatFiles
<1> DEFINE entries == Entry(e, order)
           t == Learnt(left, u.adds, u.from, entries)
<1>10. /\ DOMAIN entries = PathsOf(u.adds) /\ \A p \in PathsOf(u.adds) : Fits(entries[p], p, left.jobs)
       /\ \A f \in u.adds : Exact(entries[f.path], Chunks(f.ver), left.jobs)
  <2>1. ASSUME NEW p \in PathsOf(u.adds) PROVE Fits(entries[p], p, left.jobs)
    <3>1. Fits(Download(e[p].ver, order[p]), p, left.jobs)
      BY <1>9, DownloadFits
    <3> QED
      BY <1>9, <3>1
  <2>2. ASSUME NEW f \in u.adds PROVE Exact(entries[f.path], Chunks(f.ver), left.jobs)
    <3> DEFINE p == f.path
    <3>1. p \in DOMAIN e /\ e[p] \in u.adds /\ e[p].path = p
      BY <1>6, <1>9, FlatFiles
    <3>2. e[p] = f
      BY <1>6, <3>1 DEF Single
    <3>3. Exact(Download(e[p].ver, order[p]), Chunks(e[p].ver), left.jobs)
      BY <1>9, <3>1, ExactNew
    <3> QED
      BY <3>1, <3>2, <3>3
  <2>3. DOMAIN entries = PathsOf(u.adds)
    BY <1>9
  <2> QED
    BY <2>1, <2>2, <2>3
<1> HIDE DEF entries
<1>11. t \in Nodes(c) /\ Clean(t)
  BY <1>6, <1>8, <1>10, LearntIs, LearntStill
<1> HIDE DEF t
<1>12. Written(e) \in Partial(Files, OnDisk)
  <2> DEFINE D == {p \in DOMAIN e : ChunksOf[e[p].ver] = 0}
  <2>1. Written(e) \in [D -> OnDisk] /\ D \in SUBSET Files
    BY <1>9, ForWritingIs
  <2> QED
    BY <2>1, PartialMade
<1> DEFINE disk == With(t.disk, Written(e))
           v == [t EXCEPT !.disk = disk]
<1>13. disk \in Partial(Files, OnDisk)
  BY <1>11, <1>12, NodeIs, PartialWith
<1> HIDE DEF disk
<1>14. v \in Nodes(c) /\ Clean(v)
  <2>1. v \in Nodes(c)
    BY <1>11, <1>13, NodeIs, NodeMade
  <2>2. v.jobs = t.jobs /\ v.entry = t.entry /\ v.owners = t.owners
    BY <1>11 DEF Nodes, NodeRecords
  <2> HIDE DEF v
  <2> QED
    BY <1>11, <2>1, <2>2, CleanKept
<1>15. After(e, order) = v
  BY DEF disk, t, entries
<1> HIDE DEF v, After
<1>16. Clean(Refreshed(v)) /\ OwnChanges(author, undone[c], c, Refreshed(v))
  BY <1>14, RefreshedStill
<1>17. /\ node'[c] = Refreshed(v) /\ toLogic'[c] = q /\ up'[c] = up[c]
       /\ \A d \in Peers \ {c} : node'[d] = node[d] /\ toLogic'[d] = toLogic[d] /\ up'[d] = up[d]
  BY <1>1, <1>3, <1>15, StillFinds
<1> QED
  BY <1>1, <1>5, <1>16, <1>17, StillFinds, LogicStill

(* check_work_queue gives out a job. *)
LEMMA DrawnStill ==
  ASSUME NEW c, NEW s \in Nodes(c), Clean(s), NEW p \in DOMAIN s.entry, NEW job \in Job,
         s.entry[p].work # <<>>, job.chunk = Head(s.entry[p].work), job.ver = s.entry[p].file.ver
  PROVE  Clean(DrawnBy(s, p, job)) /\ Follows(c, s, DrawnBy(s, p, job))
<1> DEFINE e == [s.entry[p] EXCEPT !.work = Tail(@), !.out = Append(@, Len(s.jobs) + 1)]
           entry == [s.entry EXCEPT ![p] = e]
           jobs == Append(s.jobs, job)
           t == DrawnBy(s, p, job)
<1>1. /\ s.entry \in Partial(Files, EntryRecords) /\ s.jobs \in Seq(Job) /\ s \in NodeRecords(c)
      /\ \A x \in DOMAIN s.entry : /\ Fits(s.entry[x], x, s.jobs)
                                   /\ Exact(s.entry[x], DOMAIN s.owners[x], s.jobs)
  BY NodeIs DEF Nodes, Clean
<1>2. t = [s EXCEPT !.entry = entry, !.jobs = jobs]
  <2>1. s.entry[p] \in EntryRecords
    BY <1>1, FitsIs
  <2> QED
    BY <1>1, <2>1 DEF DrawnBy, NodeRecords, EntryRecords
<1>3. Exact(e, DOMAIN s.owners[p], jobs)
  BY <1>1, ExactDrawn
<1>4. ASSUME NEW x \in DOMAIN s.entry PROVE Exact(s.entry[x], DOMAIN s.owners[x], jobs)
  BY <1>1, ExactDrawn
<1> HIDE DEF e, jobs
<1>5. DOMAIN entry = DOMAIN s.entry /\ entry[p] = e /\ \A x \in DOMAIN s.entry \ {p} : entry[x] = s.entry[x]
  BY <1>1, PartialIs
<1> HIDE DEF entry, t
<1>6. /\ t.entry = entry /\ t.jobs = jobs /\ t.owners = s.owners /\ t.disk = s.disk /\ t.cur = s.cur
  BY <1>1, <1>2 DEF NodeRecords
<1>7. Clean(t)
  BY <1>3, <1>4, <1>5, <1>6 DEF Clean
<1> QED
  BY <1>6, <1>7 DEF Follows, OwnChanges, t

LEMMA WorkStill ==
  ASSUME Inv, Still, NEW c \in Peers, NEW p \in Files, LogicWork(c, p)
  PROVE  Still'
<1> DEFINE s == node[c]
           job == [path |-> p, chunk |-> Head(s.entry[p].work), ver |-> s.entry[p].file.ver]
           t == DrawnBy(s, p, job)
<1>1. /\ UNCHANGED <<trackerVars, userVars, toLogic, netVars, up>>
      /\ p \in DOMAIN s.entry /\ s.entry[p].work # <<>>
      /\ crash' \in {crash, "no_chunk", "no_owner"}
      /\ node' \in {node, [node EXCEPT ![c] = t]}
  BY DEF LogicWork, HasJob, Fails, Become, NextJob, DrawnBy
<1>2. s \in Nodes(c) /\ Clean(s) /\ OwnChanges(author, undone[c], c, s) /\ Sound(crash')
  BY <1>1, Finds, StillFinds DEF Sound
<1>3. job \in Job /\ job.chunk = Head(s.entry[p].work) /\ job.ver = s.entry[p].file.ver
  <2>1. Fits(s.entry[p], p, s.jobs) /\ s.jobs \in Seq(Job)
    BY <1>1, <1>2, NodeIs
  <2>2. s.entry[p].file \in Downloads \cup {NoFile} /\ s.entry[p].work \in Seq(Nat)
    BY <2>1, FitsIs
  <2>3. Head(s.entry[p].work) \in Nat
    BY <1>1, <2>2, Tails
  <2> QED
    BY <2>2, <2>3, NoFileIs DEF Job, NoFile, Versions
<1> HIDE DEF job, s
<1>4. Clean(t) /\ Follows(c, s, t)
  BY <1>1, <1>2, <1>3, DrawnStill
<1> HIDE DEF t
<1>5. /\ node'[c] \in {t, s} /\ toLogic'[c] = toLogic[c] /\ up'[c] = up[c]
      /\ \A d \in Peers \ {c} : node'[d] = node[d] /\ toLogic'[d] = toLogic[d] /\ up'[d] = up[d]
  BY <1>1, StillFinds DEF s
<1>6. Clean(node'[c]) /\ OwnChanges(author, undone[c], c, node'[c])
  BY <1>2, <1>4, <1>5 DEF Follows
<1> QED
  BY <1>1, <1>2, <1>5, <1>6, StillFinds, LogicStill

LEMMA NextStill ==
  ASSUME Inv, Still, NEW c \in Peers, LogicNext(c)
  PROVE  Still'
<1> DEFINE s == node[c]
           t == [s EXCEPT !.phase = NextPhase(s.phase)]
<1>1. /\ UNCHANGED <<trackerVars, userVars, netVars, up, toLogic, crash>>
      /\ node' = [node EXCEPT ![c] = t]
  BY DEF LogicNext
<1>2. s \in Nodes(c) /\ Clean(s) /\ OwnChanges(author, undone[c], c, s)
  BY Finds, StillFinds
<1> HIDE DEF s
<1>3. t.owners = s.owners /\ t.entry = s.entry /\ t.jobs = s.jobs /\ t.disk = s.disk /\ t.cur = s.cur
  BY <1>2 DEF Nodes, NodeRecords
<1> HIDE DEF t
<1>4. Clean(t) /\ OwnChanges(author, undone[c], c, t)
  BY <1>2, <1>3, CleanKept DEF OwnChanges
<1>5. /\ node'[c] = t /\ toLogic'[c] = toLogic[c] /\ up'[c] = up[c]
      /\ \A d \in Peers \ {c} : node'[d] = node[d] /\ toLogic'[d] = toLogic[d] /\ up'[d] = up[d]
  BY <1>1, StillFinds
<1> QED
  BY <1>1, <1>4, <1>5, StillFinds, LogicStill

LEMMA MasterStill ==
  ASSUME Inv, Still, NEW c \in Peers, LogicMaster(c)
  PROVE  Still'
BY StillFinds DEF LogicMaster, LogicTakes

(* CheckLocalFilesystem reports what the directory has, of each file one *)
(* version, and what it lost: that is the user's doing.                  *)
LEMMA ScanSingle == \A disk : Single(Scan(disk))
BY DEF Single, Scan

LEMMA ScanStill ==
  ASSUME Inv, Still, NEW c \in Peers, LogicScan(c)
  PROVE  Still'
<1> DEFINE s == node[c]
           new == Scan(s.disk)
           adds == Additions(s.cur, new)
           dels == Deletions(s.cur, new)
           phase == NextPhase(s.phase)
           seen == [s EXCEPT !.prev = <<new>>, !.phase = phase]
           entries == [p \in PathsOf(adds) |-> NoWork]
           gone == Forgotten(s, dels)
           known == Learnt(gone, adds, 0, entries)
           told == [known EXCEPT !.cur = new, !.phase = NextPhase(known.phase)]
           upd == [adds |-> adds, dels |-> dels]
           u == [up[c] EXCEPT !.upd = Append(@, upd)]
<1>1. s \in Nodes(c) /\ up[c] \in Ups(c) /\ Clean(s) /\ OwnChanges(author, undone[c], c, s)
  BY Finds, StillFinds
<1>2. new \in Images /\ s.cur \in Images
  BY <1>1, NodeIs, ScanIs
<1>3. adds \in Images /\ dels \in Images
  BY <1>2 DEF Additions, Deletions, Images
<1>4. /\ UNCHANGED <<trackerVars, userVars, netVars, toLogic, crash>>
      /\ \/ node' = [node EXCEPT ![c] = seen] /\ UNCHANGED up
         \/ node' = [node EXCEPT ![c] = told] /\ up' = [up EXCEPT ![c] = u]
  BY DEF LogicScan, Become
<1>5. upd \in OwnUpdates(author, undone[c], c)
  <2>1. Single(adds)
    BY ScanSingle DEF Single, Additions
  <2>2. (\A e \in adds : Own(author, c, e)) /\ dels \subseteq undone[c]
    BY <1>1 DEF OwnChanges, Additions, Deletions
  <2> HIDE DEF adds, dels
  <2> QED
    BY <1>3, <2>1, <2>2 DEF OwnUpdates, Update
<1> HIDE DEF upd
<1>6. u.upd \in Seq(OwnUpdates(author, undone[c], c))
  <2>1. up[c].upd \in Seq(OwnUpdates(author, undone[c], c))
    BY StillFinds
  <2>2. Append(up[c].upd, upd) \in Seq(OwnUpdates(author, undone[c], c))
    BY <1>5, <2>1, AppendProperties
  <2> QED
    BY <1>1, <2>2 DEF Ups
<1> HIDE DEF u
<1>7. Clean(seen) /\ OwnChanges(author, undone[c], c, seen)
  <2>1. /\ seen.owners = s.owners /\ seen.entry = s.entry /\ seen.jobs = s.jobs
        /\ seen.disk = s.disk /\ seen.cur = s.cur
    BY <1>1 DEF Nodes, NodeRecords
  <2> HIDE DEF seen, s
  <2> QED
    BY <1>1, <2>1, CleanKept DEF OwnChanges
<1> HIDE DEF seen
<1>8. Clean(told) /\ OwnChanges(author, undone[c], c, told)
  <2>1. gone \in Nodes(c) /\ Clean(gone) /\ gone.disk = s.disk
    BY <1>1, <1>3, ForgottenIs, ForgottenStill
  <2> HIDE DEF gone
  <2>2. /\ DOMAIN entries = PathsOf(adds) /\ \A p \in PathsOf(adds) : Fits(entries[p], p, gone.jobs)
        /\ \A p \in PathsOf(adds) : \A chunks : Exact(entries[p], chunks, gone.jobs)
    BY FitsNoWork, ExactNoWork
  <2>3. \A f \in adds : f.path \in PathsOf(adds)
    BY DEF PathsOf
  <2> HIDE DEF entries, adds
  <2>4. 0 \in Others(c)
    BY ClientAssumption DEF Others
  <2>5. \A f \in adds : Exact(entries[f.path], Chunks(f.ver), gone.jobs)
    BY <2>2, <2>3
  <2>6. known \in Nodes(c) /\ Clean(known) /\ known.disk = gone.disk
    BY <1>3, <2>1, <2>2, <2>4, <2>5, LearntIs, LearntStill
  <2> HIDE DEF known
  <2>7. /\ told.owners = known.owners /\ told.entry = known.entry /\ told.jobs = known.jobs
        /\ told.disk = known.disk /\ told.cur = new
    BY <2>6 DEF Nodes, NodeRecords
  <2> HIDE DEF told, s
  <2>8. Clean(told)
    BY <2>6, <2>7, CleanKept
  <2>9. told.cur = Scan(told.disk)
    BY <2>1, <2>6, <2>7
  <2> QED
    BY <2>8, <2>9 DEF OwnChanges
<1> HIDE DEF told
<1>9. /\ \A d \in Peers \ {c} : node'[d] = node[d] /\ toLogic'[d] = toLogic[d] /\ up'[d] = up[d]
      /\ node'[c] \in {seen, told} /\ toLogic'[c] = toLogic[c] /\ up'[c] \in {up[c], u}
  BY <1>4, StillFinds
<1>10. /\ Clean(node'[c]) /\ OwnChanges(author, undone[c], c, node'[c])
       /\ up'[c].upd \in Seq(OwnUpdates(author, undone[c], c)) /\ Sound(crash')
  BY <1>4, <1>6, <1>7, <1>8, <1>9, StillFinds
<1> QED
  BY <1>4, <1>9, <1>10, StillFinds, LogicStill

LEMMA LogicThreadStill ==
  ASSUME Inv, Still, NEW c \in Peers, Logic(c)
  PROVE  Still'
BY PeerDeletedStill, ChunkRequestStill, ChunkStill, ChunkGotStill, DiffStill, MasterStill, WorkStill,
   ScanStill, NextStill DEF Logic

(* Users: what one of them did stays theirs. *)
LEMMA EditsStill ==
  ASSUME Inv, Still, NEW c \in Peers, NEW p \in Files, NEW dir \in Partial(Files, OnDisk),
         Edits(c, p, dir), author' \in Seq(Peers),
         \A i \in DOMAIN author : i \in DOMAIN author' /\ author'[i] = author[i],
         \A q \in Files \ {p} : /\ q \in DOMAIN dir <=> q \in DOMAIN node[c].disk
                                /\ q \in DOMAIN dir => dir[q] = node[c].disk[q],
         p \in DOMAIN dir => Own(author', c, dir[p])
  PROVE  Still'
<1> DEFINE s == node[c]
           lost == {e \in Scan(s.disk) : e.path = p}
           t == [s EXCEPT !.disk = dir, !.cur = IF c \in alive THEN @ ELSE Scan(dir)]
<1>1. /\ UNCHANGED <<trackerVars, up, joined, toLogic, toNet, netVars, crash>>
      /\ node' = [node EXCEPT ![c] = t]
      /\ undone' = [undone EXCEPT ![c] = @ \cup lost]
  BY DEF Edits
<1>2. s \in Nodes(c) /\ Clean(s) /\ OwnChanges(author, undone[c], c, s)
  BY Finds, StillFinds
<1>3. /\ DOMAIN undone = Peers /\ DOMAIN undone' = Peers /\ \A d \in Peers : undone[d] \subseteq undone'[d]
      /\ lost \subseteq undone'[c]
  BY <1>1 DEF Inv, UserInv
<1>4. /\ t.owners = s.owners /\ t.entry = s.entry /\ t.jobs = s.jobs /\ t.disk = dir
      /\ t.cur \in {s.cur, Scan(dir)}
  BY <1>2 DEF Nodes, NodeRecords
<1> HIDE DEF t
<1>5. Clean(t)
  BY <1>2, <1>4, CleanKept
<1>6. \A d, e : Own(author, d, e) => Own(author', d, e)
  BY DEF Own
<1>7. \A e \in Scan(dir) : e \in Scan(s.disk) \/ Own(author', c, e)
  <2> SUFFICES ASSUME NEW q \in DOMAIN dir
               PROVE  \/ [path |-> q, ver |-> dir[q].ver] \in Scan(s.disk)
                      \/ Own(author', c, [path |-> q, ver |-> dir[q].ver])
    BY DEF Scan
  <2>1. q \in Files
    BY PartialIs
  <2>2. CASE q = p
    BY <2>2 DEF Own
  <2>3. CASE q # p
    BY <2>1, <2>3 DEF Scan
  <2> QED
    BY <2>2, <2>3
<1>8. \A e \in Scan(s.disk) : e \in Scan(dir) \/ e \in lost
  <2> DEFINE disk == s.disk
  <2>1. disk \in Partial(Files, OnDisk) /\ lost = {e \in Scan(disk) : e.path = p}
        /\ \A q \in Files \ {p} : /\ q \in DOMAIN dir <=> q \in DOMAIN disk
                                  /\ q \in DOMAIN dir => dir[q] = disk[q]
    BY <1>2, NodeIs
  <2> HIDE DEF disk, lost
  <2>2. ASSUME NEW q \in DOMAIN disk
        PROVE  LET e == [path |-> q, ver |-> disk[q].ver] IN e \in Scan(dir) \/ e \in lost
    <3>1. q \in Files
      BY <2>1, PartialIs
    <3>2. [path |-> q, ver |-> disk[q].ver] \in Scan(disk)
      BY DEF Scan
    <3>3. q \in DOMAIN dir => [path |-> q, ver |-> dir[q].ver] \in Scan(dir)
      BY DEF Scan
    <3>4. ASSUME q # p PROVE q \in DOMAIN dir /\ dir[q] = disk[q]
      <4>1. q \in Files \ {p} /\ q \in DOMAIN disk
        BY <3>1, <3>4
      <4> QED
        BY <2>1, <4>1
    <3> QED
      BY <2>1, <3>2, <3>3, <3>4
  <2>3. \A e \in Scan(disk) : e \in Scan(dir) \/ e \in lost
    BY <2>2 DEF Scan
  <2> QED
    BY <2>3 DEF disk
<1> HIDE DEF lost, s
<1>9. OwnChanges(author', undone'[c], c, t)
  <2>1. \A e \in Scan(dir) \ s.cur : Own(author', c, e)
    BY <1>2, <1>6, <1>7 DEF OwnChanges
  <2>2. s.cur \ Scan(dir) \subseteq undone'[c]
    BY <1>2, <1>3, <1>8 DEF OwnChanges
  <2> QED
    BY <1>4, <2>1, <2>2 DEF OwnChanges
<1>10. ASSUME NEW d \in Peers
       PROVE  /\ Clean(node'[d]) /\ OwnChanges(author', undone'[d], d, node'[d])
              /\ toLogic'[d].diff \in Seq(StillDiffs(d)) /\ toLogic'[d].mst = <<>>
              /\ up'[d].upd \in Seq(OwnUpdates(author', undone'[d], d))
  <2>1. undone[d] \subseteq undone'[d]
    BY <1>3
  <2> DEFINE un == undone[d]
             vn == undone'[d]
  <2>2. OwnUpdates(author, un, d) \subseteq OwnUpdates(author', vn, d)
    <3> HIDE DEF un, vn
    <3> QED
      BY <1>6, <2>1 DEF OwnUpdates, un, vn
  <2>3. Seq(OwnUpdates(author, un, d)) \subseteq Seq(OwnUpdates(author', vn, d))
    BY <2>2, SeqMore
  <2>4. \A x : OwnChanges(author, un, d, x) => OwnChanges(author', vn, d, x)
    BY <1>6, <2>1 DEF OwnChanges
  <2>5. node'[d] = IF d = c THEN t ELSE node[d]
    BY <1>1, StillFinds
  <2>6. Clean(node'[d]) /\ OwnChanges(author', vn, d, node'[d])
    BY <1>5, <1>9, <2>4, <2>5, StillFinds
  <2>7. up'[d].upd \in Seq(OwnUpdates(author', vn, d))
    BY <1>1, <2>3, StillFinds
  <2> QED
    BY <1>1, <2>6, <2>7, StillFinds
<1>11. StillTold'
  BY <1>1 DEF Still, StillTold, trackerVars, netVars
<1>12. StillQueues' /\ StillNodes'
  BY <1>10 DEF StillQueues, StillNodes
<1> QED
  BY <1>11, <1>12 DEF Still

LEMMA UserStill ==
  ASSUME Inv, Still, NEW c \in Peers, NEW p \in Files, UserWrites(c, p) \/ UserRemoves(c, p)
  PROVE  Still'
<1> DEFINE disk == node[c].disk
<1>1. author \in Seq(Peers) /\ disk \in Partial(Files, OnDisk)
  BY Finds, NodeIs DEF Inv, UserInv
<1> HIDE DEF disk
<1>2. CASE UserWrites(c, p)
  <2> DEFINE v == Len(author) + 1
             file == [ver |-> v, data |-> Content(v)]
             new == [q \in {p} |-> file]
             dir == With(disk, new)
  <2>1. v \in Versions /\ Edits(c, p, dir) /\ author' = Append(author, c)
    BY <1>1, <1>2, LenProperties DEF disk, UserWrites, Versions, FileSystemAssumption
  <2>2. /\ author' \in Seq(Peers) /\ v \in DOMAIN author' /\ author'[v] = c
        /\ \A i \in DOMAIN author : i \in DOMAIN author' /\ author'[i] = author[i]
    <3>1. /\ author' \in Seq(Peers) /\ Len(author') = v /\ author'[v] = c
          /\ \A i \in 1 .. Len(author) : author'[i] = author[i]
      BY <1>1, <2>1, AppendProperties
    <3>2. /\ DOMAIN author = 1 .. Len(author) /\ DOMAIN author' = 1 .. Len(author')
          /\ Len(author) \in Nat
      BY <1>1, <3>1, LenProperties
    <3> QED
      BY <3>1, <3>2
  <2>3. file \in OnDisk /\ file.ver = v
    <3> HIDE DEF v
    <3>1. Chunks(v) \subseteq Nat /\ v \in Int
      BY <2>1, ChunksType DEF Versions
    <3>2. Content(v) \in [Chunks(v) -> Int]
      BY <3>1 DEF Content
    <3>3. Content(v) \in Partial(Nat, Int) /\ DOMAIN Content(v) = Chunks(v)
      BY <3>1, <3>2, PartialMade
    <3> QED
      BY <2>1, <3>3 DEF OnDisk
  <2> HIDE DEF v, file
  <2>4. new \in Partial(Files, OnDisk) /\ DOMAIN new = {p} /\ new[p] = file
    <3>1. new \in [{p} -> OnDisk] /\ {p} \in SUBSET Files
      BY <2>3
    <3> QED
      BY <3>1, PartialMade
  <2> HIDE DEF new
  <2>5. /\ dir \in Partial(Files, OnDisk) /\ DOMAIN dir = DOMAIN disk \cup {p}
        /\ \A q \in DOMAIN disk \cup {p} : dir[q] = IF q \in {p} THEN new[q] ELSE disk[q]
    <3>1. dir \in Partial(Files, OnDisk)
      BY <1>1, <2>4, PartialWith
    <3> QED
      BY <2>4, <3>1 DEF With
  <2> HIDE DEF dir
  <2>6. /\ p \in DOMAIN dir /\ Own(author', c, dir[p])
        /\ \A q \in Files \ {p} : /\ q \in DOMAIN dir <=> q \in DOMAIN disk
                                  /\ q \in DOMAIN dir => dir[q] = disk[q]
    BY <2>2, <2>3, <2>4, <2>5 DEF Own
  <2> QED
    BY <2>1, <2>2, <2>5, <2>6, EditsStill DEF disk
<1>3. CASE UserRemoves(c, p)
  <2> DEFINE dir == Without(disk, {p})
  <2>1. Edits(c, p, dir) /\ author' = author
    BY <1>3 DEF UserRemoves, disk
  <2>2. /\ dir \in Partial(Files, OnDisk) /\ DOMAIN dir = DOMAIN disk \ {p}
        /\ \A q \in DOMAIN disk \ {p} : dir[q] = disk[q]
    <3>1. dir \in Partial(Files, OnDisk)
      BY <1>1, PartialWithout
    <3> QED
      BY <3>1 DEF Without
  <2> HIDE DEF dir
  <2> QED
    BY <1>1, <2>1, <2>2, EditsStill DEF disk
<1> QED
  BY <1>2, <1>3

(* Of a step of a network thread or the tracker. *)
LEMMA OthersStill ==
  ASSUME Still, UNCHANGED <<members, userVars, node, alive>>, Sound(crash'), StillDowns(down'),
         \A d \in Peers : /\ toLogic'[d].diff \in Seq(StillDiffs(d)) /\ toLogic'[d].mst = <<>>
                          /\ up'[d].upd \in Seq(OwnUpdates(author, undone[d], d))
  PROVE  Still'
<1>1. StillTold'
  BY DEF Still, StillTold
<1>2. StillQueues' /\ StillNodes'
  BY DEF Still, StillQueues, StillNodes, userVars
<1> QED
  BY <1>1, <1>2 DEF Still

(* No network thread alters the logic thread's diffs but from the tracker. *)
LEMMA NetworkStill ==
  ASSUME Inv, Still, NEW c \in Peers, UNCHANGED <<trackerVars, userVars, node, alive, up, crash>>,
         NEW req, NEW chunk,
         toLogic' \in {toLogic, [toLogic EXCEPT ![c].req = req], [toLogic EXCEPT ![c].chunk = chunk]}
  PROVE  Still'
<1>1. \A d \in Peers : toLogic[d] \in ToLogics(Books, d)
  BY Finds
<1>2. \A d \in Peers : toLogic'[d].diff = toLogic[d].diff /\ toLogic'[d].mst = toLogic[d].mst
  <2> SUFFICES ASSUME NEW d \in Peers
               PROVE  toLogic'[d].diff = toLogic[d].diff /\ toLogic'[d].mst = toLogic[d].mst
    OBVIOUS
  <2> DEFINE q == toLogic[d]
  <2>1. q \in ToLogics(Books, d)
    BY <1>1
  <2>2. toLogic'[d] \in {q, [q EXCEPT !.req = req], [q EXCEPT !.chunk = chunk]}
    BY StillFinds
  <2> HIDE DEF q
  <2>3. toLogic'[d].diff = q.diff /\ toLogic'[d].mst = q.mst
    BY <2>1, <2>2 DEF ToLogics
  <2> QED
    BY <2>3 DEF q
<1>3. StillDowns(down') /\ Sound(crash')
  BY DEF Still, StillTold, trackerVars
<1> QED
  BY <1>2, <1>3, StillFinds, OthersStill DEF trackerVars

LEMMA NetTrackerStill ==
  ASSUME Inv, Still, NEW c \in Peers, NetTracker(c)
  PROVE  Still'
<1> DEFINE m == Head(down[c])
           q == toLogic[c]
<1>1. /\ UNCHANGED <<members, up, userVars, node, alive, crash>>
      /\ down[c] # <<>> /\ down' = [down EXCEPT ![c] = Tail(@)]
      /\ IF m.type = "peers" THEN TakesTable(c, m.ids)
         ELSE toLogic' = [toLogic EXCEPT ![c][m.type] = Append(@, m)]
  BY DEF NetTracker
<1>2. StillDowns(down) /\ Sound(crash) /\ DOMAIN down = Peers /\ q \in ToLogics(Books, c)
  BY Finds DEF Still, StillTold, Inv, TrackerInv
<1>3. m \in StillNews(c) /\ Tail(down[c]) \in Seq(StillNews(c))
  <2>1. down[c] \in Seq(StillNews(c))
    BY <1>2 DEF StillDowns
  <2> QED
    BY <1>1, <2>1, Tails
<1>4. StillDowns(down')
  BY <1>1, <1>2, <1>3 DEF StillDowns
<1> HIDE DEF m, q
<1>5. \E t : /\ toLogic' = [toLogic EXCEPT ![c] = t]
             /\ t.diff \in Seq(StillDiffs(c)) /\ t.mst = <<>>
  <2>1. q.diff \in Seq(StillDiffs(c)) /\ q.mst = <<>>
    BY StillFinds DEF q
  <2>2. CASE m.type = "peers"
    <3>1. PICK gone : toLogic' = [toLogic EXCEPT ![c].del = @ \o gone]
      BY <1>1, <2>2 DEF TakesTable
    <3> DEFINE t == [q EXCEPT !.del = @ \o gone]
    <3>2. toLogic' = [toLogic EXCEPT ![c] = t]
      BY <3>1 DEF q
    <3>3. t.diff = q.diff /\ t.mst = q.mst
      BY <1>2 DEF ToLogics
    <3> HIDE DEF t
    <3> QED
      BY <2>1, <3>2, <3>3
  <2>3. CASE m.type # "peers"
    <3>1. \/ m \in Gots(c) /\ m.type = "acq"
          \/ m \in StillDiffs(c) /\ m.type = "diff"
      BY <1>3, <2>3 DEF StillNews, StillDiffs, Gots, Got, Diffs, Diff, Table
    <3> DEFINE t == [q EXCEPT ![m.type] = Append(@, m)]
    <3>2. toLogic' = [toLogic EXCEPT ![c] = t]
      BY <1>1, <2>3 DEF q
    <3>3. Append(q.diff, m) \in Seq(StillDiffs(c)) \/ m.type = "acq"
      BY <2>1, <3>1, AppendProperties
    <3>4. t.mst = q.mst /\ t.diff = IF m.type = "acq" THEN q.diff ELSE Append(q.diff, m)
      BY <1>2, <3>1 DEF ToLogics
    <3> HIDE DEF t
    <3> QED
      BY <2>1, <3>2, <3>3, <3>4
  <2> QED
    BY <2>2, <2>3
<1>6. \A d \in Peers : toLogic'[d].diff \in Seq(StillDiffs(d)) /\ toLogic'[d].mst = <<>>
  BY <1>5, StillFinds
<1> QED
  BY <1>1, <1>2, <1>4, <1>6, StillFinds, OthersStill

LEMMA NetworkThreadStill ==
  ASSUME Inv, Still, NEW c \in Peers, Network(c)
  PROVE  Still'
<1>1. CASE NetTracker(c)
  BY <1>1, NetTrackerStill
<1>2. CASE NetAccept(c) \/ NetRequests(c) \/ \E q \in {"send", "err"} : NetAnswers(c, q)
  <2>1. UNCHANGED <<trackerVars, userVars, node, alive, up, crash, toLogic>>
    BY <1>2 DEF NetAccept, NetRequests, NetAnswers, NetTakes
  <2> QED
    BY <2>1, NetworkStill
<1>3. ASSUME NEW d \in Peers, NetPeer(c, d) PROVE Still'
  <2> DEFINE m == Head(wire[sock[c][d]][c])
  <2>1. /\ UNCHANGED <<trackerVars, userVars, node, alive, up, crash>>
        /\ m.type \in {"EOF", "req", "send", "err"} =>
             \/ UNCHANGED toLogic
             \/ toLogic' = [toLogic EXCEPT ![c].req = Append(@, [m EXCEPT !.peer = d])]
             \/ toLogic' = [toLogic EXCEPT ![c].chunk = Append(@, m)]
    BY <1>3 DEF NetPeer
  <2>2. m.type \in {"EOF", "req", "send", "err"}
    <3> DEFINE k == sock[c][d]
    <3>1. d \in DOMAIN sock[c] /\ k # 0 /\ wire[k][c] # <<>>
      BY <1>3 DEF NetPeer
    <3>2. Carries(Books, wire) /\ Plugged(wire, sock, backlog)
      BY DEF Inv, NetInv
    <3>3. k \in 1 .. MaxConns /\ c \in DOMAIN wire[k]
      BY <3>1, <3>2 DEF Plugged
    <3> HIDE DEF k
    <3>4. Head(wire[k][c]) \in Parcels(Books, DOMAIN wire[k], c)
      BY <3>1, <3>2, <3>3, ReadIs
    <3> HIDE DEF m
    <3>5. m \in Parcels(Books, DOMAIN wire[k], c)
      BY <3>4 DEF m, k
    <3> QED
      BY <3>5 DEF Parcels, EOF, Request, Answers, AnswerOf
  <2> HIDE DEF m
  <2>3. \E req, chunk : toLogic' \in {toLogic, [toLogic EXCEPT ![c].req = req],
                                      [toLogic EXCEPT ![c].chunk = chunk]}
    BY <2>1, <2>2
  <2> QED
    BY <2>1, <2>3, NetworkStill
<1> QED
  BY <1>1, <1>2, <1>3 DEF Network

(* What the tracker tells. *)
LEMMA AnnouncedStill ==
  ASSUME NEW q, StillDowns(q), NEW dsts, NEW m, \A d \in dsts \cap Peers : m \in StillNews(d)
  PROVE  StillDowns(Announced(q, dsts, m))
<1>1. ASSUME NEW c \in Peers PROVE Announced(q, dsts, m)[c] \in Seq(StillNews(c))
  <2>1. q[c] \in Seq(StillNews(c))
    BY DEF StillDowns
  <2>2. CASE c \in dsts
    <3>1. Append(q[c], m) \in Seq(StillNews(c))
      BY <2>1, <2>2, AppendProperties
    <3> QED
      BY <2>2, <3>1 DEF Announced
  <2>3. CASE c \notin dsts
    BY <2>1, <2>3 DEF Announced
  <2> QED
    BY <2>2, <2>3
<1> QED
  BY <1>1 DEF StillDowns

LEMMA TrackerStill ==
  ASSUME Inv, Still, NEW c \in Peers, TrackerGot(c) \/ TrackerUpdate(c) \/ TrackerLoses(c)
  PROVE  Still'
<1>1. /\ members \subseteq alive /\ StillDowns(down) /\ Sound(crash) /\ up[c] \in Ups(c)
      /\ up[c].upd \in Seq(OwnUpdates(author, undone[c], c))
  BY Finds, StillFinds DEF Still, StillTold
<1>2. ASSUME TrackerGot(c) PROVE Still'
  <2> DEFINE g == Head(up[c].got)
             u == [up[c] EXCEPT !.got = Tail(@)]
  <2>1. /\ UNCHANGED <<members, userVars, node, toLogic, alive>> /\ up[c].got # <<>>
        /\ crash' \in {"none", "stray_owner", "got_assert"} /\ up' = [up EXCEPT ![c] = u]
        /\ down' = Announced(down, (members \cap alive) \ {c}, g)
    BY <1>2 DEF TrackerGot, GotOutcomes, netVars
  <2>2. g \in OwnGots(c) /\ u.upd = up[c].upd
    <3>1. up[c].got \in Seq(OwnGots(c))
      BY <1>1 DEF Ups
    <3> QED
      BY <1>1, <2>1, <3>1, Tails DEF Ups
  <2> HIDE DEF g, u
  <2>3. \A d \in ((members \cap alive) \ {c}) \cap Peers : g \in StillNews(d)
    BY <2>2 DEF OwnGots, StillNews, Gots
  <2>4. StillDowns(down')
    BY <1>1, <2>1, <2>3, AnnouncedStill
  <2>5. \A d \in Peers : up'[d].upd = up[d].upd
    BY <2>1, <2>2, StillFinds
  <2>6. Sound(crash')
    BY <2>1 DEF Sound
  <2> QED
    BY <2>1, <2>4, <2>5, <2>6, StillFinds, OthersStill
<1>3. ASSUME TrackerUpdate(c) PROVE Still'
  <2> DEFINE u == Head(up[c].upd)
             v == [up[c] EXCEPT !.upd = Tail(@)]
             m == [type |-> "diff", adds |-> u.adds, dels |-> u.dels, from |-> c]
  <2>1. /\ UNCHANGED <<members, userVars, node, toLogic, alive, crash>> /\ up[c].upd # <<>>
        /\ up' = [up EXCEPT ![c] = v] /\ down' = Announced(down, (members \cap alive) \ {c}, m)
    BY <1>3 DEF TrackerUpdate, netVars
  <2>2. u \in OwnUpdates(author, undone[c], c) /\ v.upd \in Seq(OwnUpdates(author, undone[c], c))
    <3>1. u \in OwnUpdates(author, undone[c], c) /\ Tail(up[c].upd) \in Seq(OwnUpdates(author, undone[c], c))
      BY <1>1, <2>1, Tails
    <3> QED
      BY <1>1, <3>1 DEF Ups
  <2> HIDE DEF u, v
  <2>3. \A d \in ((members \cap alive) \ {c}) \cap Peers : m \in StillNews(d)
    BY <2>2 DEF OwnUpdates, Update, StillNews, StillDiffs, Diffs, Diff
  <2> HIDE DEF m
  <2>4. StillDowns(down')
    BY <1>1, <2>1, <2>3, AnnouncedStill
  <2>5. \A d \in Peers : up'[d] = IF d = c THEN v ELSE up[d]
    BY <2>1, StillFinds
  <2> QED
    BY <1>1, <2>1, <2>2, <2>4, <2>5, StillFinds, OthersStill
<1>4. ~TrackerLoses(c)
  BY <1>1 DEF TrackerLoses
<1> QED
  BY <1>2, <1>3, <1>4

(* The bounds of the model: none joins, none leaves. *)
LEMMA NobodyJoinsOrLeaves ==
  ASSUME MaxJoins = 0, MaxLeaves = 0, Inv, NEW c \in Peers
  PROVE  ~Join(c) /\ ~Leave(c)
<1>1. joined \subseteq Peers /\ IsFiniteSet(Peers)
  BY ClientAssumption DEF Inv, UserInv
<1>2. IsFiniteSet(joined \ Starters) /\ IsFiniteSet(joined \ alive)
  BY <1>1, FS_Subset
<1>3. Cardinality(joined \ Starters) \in Nat /\ Cardinality(joined \ alive) \in Nat
  BY <1>2, FS_CardinalityType
<1>4. ~ (Cardinality(joined \ Starters) < MaxJoins) /\ ~ (Cardinality(joined \ alive) < MaxLeaves)
  BY <1>3
<1> QED
  BY <1>4 DEF Join, Leave

LEMMA InitStill == Init => Still
<1> SUFFICES ASSUME Init PROVE Still
  OBVIOUS
<1>1. \A S : <<>> \in Seq(S)
  BY ElementsEmpty
<1>2. StillTold
  BY <1>1 DEF Init, StillTold, Sound, StillDowns
<1>3. StillQueues
  BY <1>1 DEF Init, StillQueues, ToLogic, ToTracker
<1>4. \A dir, au, un, c : Clean(Fresh(NoPaths)) /\ OwnChanges(au, un, c, Fresh(NoPaths))
  BY DEF Clean, OwnChanges, Fresh, NoPaths
<1>5. StillNodes
  BY <1>4 DEF Init, StillNodes
<1> QED
  BY <1>2, <1>3, <1>5 DEF Still

LEMMA NextStillInv ==
  ASSUME MaxJoins = 0, MaxLeaves = 0, Inv, Still, [Next]_vars
  PROVE  Still'
<1>1. CASE UNCHANGED vars
  <2>1. StillTold'
    BY <1>1 DEF vars, trackerVars, netVars, Still, StillTold
  <2>2. StillQueues' /\ StillNodes'
    BY <1>1 DEF vars, userVars, Still, StillQueues, StillNodes
  <2> QED
    BY <2>1, <2>2 DEF Still
<1>2. ASSUME NEW c \in Peers,
             \/ \E p \in Files : UserWrites(c, p) \/ UserRemoves(c, p)
             \/ TrackerGot(c) \/ TrackerUpdate(c) \/ TrackerLoses(c)
             \/ Network(c) \/ Logic(c)
             \/ Join(c) \/ Leave(c)
      PROVE  Still'
  BY <1>2, UserStill, TrackerStill, NetworkThreadStill, LogicThreadStill, NobodyJoinsOrLeaves
<1> QED
  BY <1>1, <1>2 DEF Next

LEMMA StillInvariant ==
  ASSUME MaxJoins = 0, MaxLeaves = 0
  PROVE  Spec => [](Inv /\ Still)
<1>1. Inv /\ Still /\ [Next]_vars => (Inv /\ Still)'
  BY NextInv, NextStillInv
<1> QED
  BY <1>1, InitInv, InitStill, PTL DEF Spec

(* While nobody joins or leaves, an outstanding job id was drawn for the    *)
(* file it is outstanding for and the version being downloaded, once, and   *)
(* the table has a queue of owners for each chunk of that version: users    *)
(* replace and remove files while answers to old requests are on their way  *)
(* (check_work_queue, receive_chunk, recv_diff).                            *)
THEOREM JobsStayOwn ==
  ASSUME MaxJoins = 0, MaxLeaves = 0
  PROVE  Spec => []JobsAreOwn
<1>1. Inv /\ Still => JobsAreOwn
  <2> SUFFICES ASSUME Inv, Still, NEW c \in alive, NEW p \in DOMAIN node[c].entry
               PROVE  LET e == node[c].entry[p] IN
                      /\ e.file.path => DOMAIN node[c].owners[p] = Chunks(e.file.ver)
                      /\ \A i, j \in DOMAIN e.out : e.out[i] = e.out[j] => i = j
                      /\ \A id \in Elements(e.out) :
                           /\ node[c].jobs[id].path = p
                           /\ e.file # NoFile => node[c].jobs[id].ver = e.file.ver
    BY DEF JobsAreOwn
  <2> DEFINE s == node[c]
             e == s.entry[p]
  <2>1. c \in Peers
    BY DEF Inv, UserInv
  <2>2. s \in Nodes(c) /\ Clean(s)
    BY <2>1, Finds, StillFinds
  <2>3. Fits(e, p, s.jobs) /\ Exact(e, DOMAIN s.owners[p], s.jobs)
    BY <2>2, NodeIs DEF Clean
  <2> HIDE DEF e, s
  <2>4. Distinct(e.out) /\ e.out \in Seq(Drawn(s.jobs, p))
    BY <2>3 DEF Fits
  <2>5. Elements(e.out) \subseteq Drawn(s.jobs, p)
    BY <2>4, ElementsIn
  <2>6. \A id \in Elements(e.out) : e.file.path /\ s.jobs[id].ver = e.file.ver
    BY <2>3, ElementsEmpty DEF Exact, Asking
  <2> QED
    BY <2>3, <2>4, <2>5, <2>6 DEF e, s, Exact, Distinct, Drawn
<1> QED
  BY <1>1, StillInvariant, PTL

(* While nobody joins or leaves, no chunk is set past the end of a          *)
(* ChunkyFile, and none opened for reading is written: receive_chunk meets  *)
(* no download but the one that asked (chunkyfile_set_chunk does not look,  *)
(* chunkyfile_write asserts).                                               *)
THEOREM ChunksAlwaysFit ==
  ASSUME MaxJoins = 0, MaxLeaves = 0
  PROVE  Spec => []ChunksFit
<1>1. Still => ChunksFit
  BY DEF Still, StillTold, Sound, ChunksFit
<1> QED
  BY <1>1, StillInvariant, PTL

(* While nobody joins or leaves, CheckLocalFilesystem reports what the user *)
(* of its client did and nothing else: never a download of its own that     *)
(* completed, nor a deletion it was told of.                                *)
THEOREM UsersEditsOnly ==
  ASSUME MaxJoins = 0, MaxLeaves = 0
  PROVE  Spec => []OnlyUserEdits
<1>1. Inv /\ Still => OnlyUserEdits
  <2> SUFFICES ASSUME Inv, Still, NEW c \in alive, NEW u \in Elements(up[c].upd)
               PROVE  (\A e \in u.adds : author[e.ver] = c) /\ u.dels \subseteq undone[c]
    BY DEF OnlyUserEdits
  <2>1. c \in Peers
    BY DEF Inv, UserInv
  <2>2. up[c].upd \in Seq(OwnUpdates(author, undone[c], c))
    BY <2>1, StillFinds
  <2>3. u \in OwnUpdates(author, undone[c], c)
    BY <2>2, ElementsIn
  <2> QED
    BY <2>3 DEF OwnUpdates, Own
<1> QED
  BY <1>1, StillInvariant, PTL
=============================================================================
