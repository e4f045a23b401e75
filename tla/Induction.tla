-------------------------------- MODULE Induction --------------------------------
(***************************************************************************)
(* Induction and recursion over the natural numbers, stated of sets and    *)
(* functions: a loop of the program is a recursive function here, and what *)
(* it computes is shown by looking at the least number for which it would  *)
(* not.                                                                    *)
(***************************************************************************)
EXTENDS Integers, WellFoundedInduction, TLAPS

(* A set of numbers has a least one: what induction rests on. *)
LEMMA LeastOf ==
  ASSUME NEW T, T \subseteq Nat, T # {}
  PROVE  \E x \in T : \A y \in T : x <= y
<1> DEFINE R == OpToRel(<, Nat)
<1>1. IsWellFoundedOn(R, Nat)
  BY NatLessThanWellFounded
<1>2. \A x, y \in Nat : <<y, x>> \in R <=> y < x
  BY DEF OpToRel
<1> HIDE DEF R
<1>3. PICK x \in T : \A y \in T : <<y, x>> \notin R
  BY <1>1, WFMin
<1>4. \A y \in T : ~ (y < x)
  BY <1>2, <1>3
<1>5. \A y \in T : x <= y
  BY <1>4
<1> QED
  BY <1>5

(* Primitive recursion from c, D giving the next value from the last. *)
Iterates(f, S, c, n, D) ==
  f \in [0 .. n -> S] /\ f[0] = c /\ \A i \in 1 .. n : f[i] = D[f[i - 1]][i]

LEMMA Recursion ==
  ASSUME NEW S, NEW c \in S, NEW n \in Nat, NEW D \in [S -> [1 .. n -> S]]
  PROVE  \E f : Iterates(f, S, c, n, D)
<1> DEFINE Has(m) == \E f : Iterates(f, S, c, m, D)
           T == {m \in 0 .. n : ~ Has(m)}
<1> HIDE DEF Has
<1>1. SUFFICES ASSUME T # {} PROVE FALSE
  <2>1. T = {} => Has(n)
    OBVIOUS
  <2> QED
    BY <2>1 DEF Has
<1>2. PICK m \in T : \A k \in T : m <= k
  BY <1>1, LeastOf, T \subseteq Nat
<1>3. m # 0
  <2> DEFINE f == [i \in 0 .. 0 |-> c]
  <2>1. Iterates(f, S, c, 0, D)
    BY DEF Iterates
  <2>2. Has(0)
    BY <2>1 DEF Has
  <2> QED
    BY <1>2, <2>2
<1>4. m \in 1 .. n /\ m - 1 \in 0 .. n /\ m - 1 \notin T
  BY <1>2, <1>3
<1>5. PICK f : Iterates(f, S, c, m - 1, D)
  <2>1. Has(m - 1)
    BY <1>4
  <2> QED
    BY <2>1 DEF Has
<1> DEFINE g == [i \in 0 .. m |-> IF i = m THEN D[f[m - 1]][m] ELSE f[i]]
<1>6. f \in [0 .. (m - 1) -> S] /\ f[0] = c /\ \A i \in 1 .. (m - 1) : f[i] = D[f[i - 1]][i]
  BY <1>5 DEF Iterates
<1>7. g \in [0 .. m -> S]
  BY <1>4, <1>6
<1>8. g[0] = c
  BY <1>4, <1>6
<1>9. ASSUME NEW i \in 1 .. m PROVE g[i] = D[g[i - 1]][i]
  <2>1. CASE i = m
    <3>1. m \in 0 .. m /\ m - 1 \in 0 .. m /\ m - 1 # m
      BY <1>4
    <3>2. g[m] = D[f[m - 1]][m] /\ g[m - 1] = f[m - 1]
      BY <3>1
    <3> QED
      BY <2>1, <3>2
  <2>2. CASE i # m
    <3>1. i \in 1 .. (m - 1) /\ i - 1 \in 0 .. (m - 1) /\ i \in 0 .. m /\ i - 1 # m
      BY <1>4, <2>2
    <3>2. f[i] = D[f[i - 1]][i]
      BY <1>6, <3>1
    <3>3. g[i] = f[i] /\ g[i - 1] = f[i - 1]
      BY <1>4, <2>2, <3>1
    <3> QED
      BY <3>2, <3>3
  <2> QED
    BY <2>1, <2>2
<1>10. Has(m)
  <2> HIDE DEF g
  <2>1. Iterates(g, S, c, m, D)
    BY <1>7, <1>8, <1>9 DEF Iterates
  <2> QED
    BY <2>1 DEF Has
<1> QED
  BY <1>2, <1>10

(* Induction up to n: P is the set of the numbers for which it holds. *)
LEMMA Stepwise ==
  ASSUME NEW n \in Nat, NEW P, 0 \in P, \A k \in 1 .. n : k - 1 \in P => k \in P
  PROVE  \A k \in 0 .. n : k \in P
<1> DEFINE T == {k \in 0 .. n : k \notin P}
<1>1. SUFFICES ASSUME T # {} PROVE FALSE
  OBVIOUS
<1>2. PICK k \in T : \A l \in T : k <= l
  <2>1. T \subseteq Nat
    OBVIOUS
  <2> QED
    BY <1>1, <2>1, LeastOf
<1>3. k \in 1 .. n /\ k - 1 \in 0 .. n
  BY <1>2
<1>4. k - 1 \notin T
  BY <1>2, <1>3
<1> QED
  BY <1>2, <1>3, <1>4
=============================================================================
