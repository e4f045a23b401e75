---------------------------- MODULE RingQueueProofs ----------------------------
(***************************************************************************)
(* RingQueue: the fields stay within the array, length, head and tail      *)
(* agree, and every call does to the sequence in the array what FifoQueue  *)
(* says.                                                                   *)
(*                                                                         *)
(* queue_shuffle and queue_filter are loops, and recursive functions here: *)
(* the lemmas of Induction say that these exist, and induct over them.     *)
(***************************************************************************)
EXTENDS RingQueue, Induction, SequenceTheorems, TLAPS

-----------------------------------------------------------------------------
(* Sequences and numbers *)

LEMMA AppendIs ==
  ASSUME NEW S, NEW s \in Seq(S), NEW e \in S
  PROVE  Append(s, e) = [i \in 1 .. (Len(s) + 1) |-> Append(s, e)[i]]
<1>1. Append(s, e) \in Seq(S) /\ Len(Append(s, e)) = Len(s) + 1
  BY AppendProperties
<1> QED
  BY <1>1, LenProperties

LEMMA TailIs ==
  ASSUME NEW S, NEW s \in Seq(S), s # <<>>
  PROVE  Head(s) = s[1] /\ Tail(s) = [i \in 1 .. (Len(s) - 1) |-> s[i + 1]]
<1>1. Tail(s) \in Seq(S) /\ Len(Tail(s)) = Len(s) - 1
      /\ \A i \in 1 .. Len(Tail(s)) : Tail(s)[i] = s[i + 1]
  BY HeadTailProperties
<1>2. Tail(s) = [i \in 1 .. (Len(s) - 1) |-> Tail(s)[i]]
  BY <1>1, LenProperties
<1> QED
  BY <1>1, <1>2

(* One turn around an array of s slots. *)
LEMMA Wraps ==
  ASSUME NEW s \in Nat, s > 0, NEW a \in Nat, a < 2 * s
  PROVE  a % s = IF a < s THEN a ELSE a - s
OBVIOUS

-----------------------------------------------------------------------------
(* The inductive invariant.  RingTypeOK says of a slot that it holds an    *)
(* element or nothing: that a call never returns nothing rests on where    *)
(* the elements are.                                                       *)
Filled == \A i \in 0 .. (length - 1) : elements[Slot(i)] \in Elements

RingInv == RingTypeOK /\ IndexInv /\ Filled

(* Slots by addition, and at most one turn. *)
LEMMA SlotIs ==
  ASSUME RingInv, NEW i \in 0 .. space
  PROVE  /\ Slot(i) = IF i + tail < space THEN i + tail ELSE i + tail - space
         /\ Slot(i) \in 0 .. (space - 1)
<1>1. space \in Nat /\ space > 0 /\ tail \in 0 .. (space - 1)
  BY DEF RingInv, RingTypeOK
<1>2. (i + tail) % space = IF i + tail < space THEN i + tail ELSE i + tail - space
  BY <1>1
<1> QED
  BY <1>1, <1>2 DEF Slot, RingInv, RingTypeOK

LEMMA BeforeIs ==
  ASSUME RingInv, NEW k \in 0 .. (space - 1)
  PROVE  Before(k) = (IF k = 0 THEN space - 1 ELSE k - 1) /\ Before(k) \in 0 .. (space - 1)
<1>1. space \in Nat /\ space > 0 /\ k - 1 + space \in Nat /\ k - 1 + space < 2 * space
  BY DEF RingInv, RingTypeOK
<1>2. (k - 1 + space) % space = IF k - 1 + space < space THEN k - 1 + space ELSE k - 1
  BY <1>1, Wraps
<1> QED
  BY <1>1, <1>2 DEF Before

LEMMA AfterIs ==
  ASSUME RingInv, NEW k \in 0 .. (space - 1)
  PROVE  (k + 1) % space = (IF k = space - 1 THEN 0 ELSE k + 1) /\ (k + 1) % space \in 0 .. (space - 1)
<1>1. space \in Nat /\ space > 0 /\ k + 1 \in Nat /\ k + 1 < 2 * space
  BY DEF RingInv, RingTypeOK
<1>2. (k + 1) % space = IF k + 1 < space THEN k + 1 ELSE k + 1 - space
  BY <1>1, Wraps
<1> QED
  BY <1>1, <1>2

LEMMA SlotInjective ==
  ASSUME RingInv, NEW i \in 0 .. (space - 1), NEW j \in 0 .. (space - 1), Slot(i) = Slot(j)
  PROVE  i = j
<1>1. space \in Nat \ {0} /\ tail \in 0 .. (space - 1)
  BY DEF RingInv, RingTypeOK
<1> QED
  BY <1>1, SlotIs

(* head is the slot after the last element, and the one before it the last. *)
LEMMA HeadIs ==
  ASSUME RingInv
  PROVE  /\ length \in 0 .. space /\ head = Slot(length)
         /\ length > 0 => Before(head) = Slot(length - 1)
<1>1. /\ space \in Nat \ {0} /\ tail \in 0 .. (space - 1) /\ length \in 0 .. space
      /\ head = Slot(length) /\ head \in 0 .. (space - 1)
  BY RingQueueAssumption DEF RingInv, RingTypeOK, IndexInv, Slot
<1>2. ASSUME length > 0 PROVE Before(head) = Slot(length - 1)
  <2>1. length - 1 \in 0 .. space
    BY <1>1, <1>2
  <2> QED
    BY <1>1, <1>2, <2>1, BeforeIs, SlotIs
<1> QED
  BY <1>1, <1>2

LEMMA ContentsType ==
  ASSUME RingInv
  PROVE  /\ Contents \in Seq(Elements) /\ Len(Contents) = length
         /\ DOMAIN Contents = 1 .. length
         /\ \A i \in 1 .. length : Contents[i] = elements[Slot(i - 1)]
<1>1. length \in Nat
  BY RingQueueAssumption DEF RingInv, RingTypeOK
<1>2. \A i \in 1 .. length : elements[Slot(i - 1)] \in Elements
  <2> TAKE i \in 1 .. length
  <2>1. i - 1 \in 0 .. (length - 1)
    BY <1>1
  <2> QED
    BY <2>1 DEF RingInv, Filled
<1>3. Contents \in [1 .. length -> Elements]
  BY <1>2 DEF Contents
<1> QED
  BY <1>1, <1>3 DEF Contents

(* The other way round, after a call: what is in the sequence fills the    *)
(* slots.                                                                  *)
LEMMA FilledFrom ==
  ASSUME NEW n \in Nat, length' = n, Contents' \in Seq(Elements), Len(Contents') = n
  PROVE  Filled'
<1> SUFFICES ASSUME NEW i \in 0 .. (n - 1) PROVE (elements')[Slot(i)'] \in Elements
  BY DEF Filled
<1>1. i + 1 \in 1 .. n /\ (i + 1) - 1 = i
  OBVIOUS
<1>2. (Contents')[i + 1] = (elements')[Slot(i)']
  BY <1>1 DEF Contents, Slot
<1> QED
  BY <1>1, <1>2, ElementOfSeq

-----------------------------------------------------------------------------
(* One lemma for each call: it keeps the invariant, and is a step of       *)
(* FifoQueue.                                                              *)

LEMMA Init_Ring == RingInit => RingInv /\ Fifo!Init
<1> SUFFICES ASSUME RingInit PROVE RingInv /\ Fifo!Init
  OBVIOUS
<1> USE RingQueueAssumption DEF RingInit
<1>1. RingTypeOK
  BY DEF RingTypeOK, FreshArray
<1>2. IndexInv
  BY DEF IndexInv
<1>3. Filled
  BY DEF Filled
<1>4. Contents = <<>>
  BY DEF Contents
<1> QED
  BY <1>1, <1>2, <1>3, <1>4 DEF RingInv, Fifo!Init

(* Pushing where there is room. *)
LEMMA Push_Room ==
  ASSUME RingInv, NEW x \in Elements, Push(x), length # space
  PROVE  RingInv' /\ Fifo!Push(x)
<1> USE RingQueueAssumption
<1>1. /\ space \in Nat \ {0} /\ length \in 0 .. (space - 1) /\ length \in 0 .. (MaxLength - 1)
      /\ tail \in 0 .. (space - 1) /\ head \in 0 .. (space - 1)
      /\ elements \in [0 .. (space - 1) -> Elements \cup {Unset}]
  BY DEF RingInv, RingTypeOK, IndexInv, Push
<1>2. /\ elements' = [elements EXCEPT ![head] = x] /\ head' = (head + 1) % space
      /\ space' = space /\ tail' = tail /\ length' = length + 1 /\ result' = result
  BY DEF Push
<1>3. RingTypeOK'
  BY <1>1, <1>2, AfterIs DEF RingTypeOK, RingInv
<1>4. IndexInv'
  <2>1. length + 1 \in 0 .. space /\ length \in 0 .. space
    BY <1>1
  <2>2. Slot(length + 1) = (head + 1) % space
    <3>1. head = IF length + tail < space THEN length + tail ELSE length + tail - space
      BY <2>1, HeadIs, SlotIs
    <3>2. (head + 1) % space = IF head = space - 1 THEN 0 ELSE head + 1
      BY <1>1, AfterIs
    <3>3. Slot(length + 1) = IF length + 1 + tail < space THEN length + 1 + tail
                             ELSE length + 1 + tail - space
      BY <2>1, SlotIs
    <3> QED
      BY <1>1, <3>1, <3>2, <3>3
  <2> QED
    BY <1>1, <1>2, <2>2 DEF IndexInv, Slot
<1>5. Contents' = Append(Contents, x)
  <2>1. Contents' = [i \in 1 .. (length + 1) |-> elements'[Slot(i - 1)]]
    BY <1>2 DEF Contents, Slot
  <2>2. ASSUME NEW i \in 1 .. (length + 1)
        PROVE  elements'[Slot(i - 1)] = Append(Contents, x)[i]
    <3>1. i - 1 \in 0 .. (space - 1) /\ length \in 0 .. (space - 1) /\ i - 1 \in 0 .. space
      BY <1>1
    <3>2. Slot(i - 1) \in 0 .. (space - 1)
      BY <3>1, SlotIs
    <3>3. CASE i = length + 1
      BY <1>1, <1>2, <3>3, HeadIs, ContentsType
    <3>4. CASE i # length + 1
      <4>1. Slot(i - 1) # head
        BY <1>1, <3>1, <3>4, HeadIs, SlotInjective
      <4>2. i \in 1 .. length
        BY <1>1, <3>4
      <4> QED
        BY <1>1, <1>2, <3>2, <4>1, <4>2, ContentsType
    <3> QED
      BY <3>3, <3>4
  <2>3. Append(Contents, x) = [i \in 1 .. (length + 1) |-> Append(Contents, x)[i]]
    BY <1>1, ContentsType, AppendIs
  <2> QED
    BY <2>1, <2>2, <2>3
<1>6. Filled'
  <2>1. /\ length + 1 \in Nat /\ length' = length + 1
        /\ Contents' \in Seq(Elements) /\ Len(Contents') = length + 1
    BY <1>1, <1>2, <1>5, ContentsType, AppendProperties
  <2> QED
    BY <2>1, FilledFrom
<1> QED
  BY <1>1, <1>2, <1>3, <1>4, <1>5, <1>6, ContentsType DEF RingInv, Fifo!Push

(* Pushing on a full array: the copy starts at slot 0. *)
LEMMA Push_Full ==
  ASSUME RingInv, NEW x \in Elements, Push(x), length = space
  PROVE  RingInv' /\ Fifo!Push(x)
<1> USE RingQueueAssumption
<1>1. /\ space \in Nat /\ space > 0 /\ length \in 0 .. (MaxLength - 1)
      /\ tail \in 0 .. (space - 1)
      /\ elements \in [0 .. (space - 1) -> Elements \cup {Unset}]
  BY DEF RingInv, RingTypeOK, IndexInv, Push
<1>2. /\ elements' = [Doubled EXCEPT ![length] = x] /\ head' = (length + 1) % (2 * space)
      /\ space' = 2 * space /\ tail' = 0 /\ length' = length + 1 /\ result' = result
  BY DEF Push
<1>3. \A i \in 0 .. (length - 1) : (i + tail) % length = Slot(i) /\ Slot(i) \in 0 .. (space - 1)
  <2> TAKE i \in 0 .. (length - 1)
  <2>1. i \in 0 .. space
    BY <1>1
  <2> QED
    BY <2>1, SlotIs DEF Slot
<1>4. /\ Doubled \in [0 .. (2 * space - 1) -> Elements \cup {Unset}]
      /\ \A i \in 0 .. (length - 1) : Doubled[i] = elements[Slot(i)]
  <2>1. ASSUME NEW i \in 0 .. (2 * space - 1), i < length
        PROVE  elements[(i + tail) % length] = elements[Slot(i)]
                 /\ elements[Slot(i)] \in Elements \cup {Unset}
    <3>1. i \in 0 .. (length - 1)
      BY <1>1, <2>1
    <3> QED
      BY <1>1, <1>3, <3>1
  <2>2. \A i \in 0 .. (length - 1) : i \in 0 .. (2 * space - 1) /\ i < length
    BY <1>1
  <2> QED
    BY <2>1, <2>2 DEF Doubled
<1>5. \A i \in 0 .. length : i % (2 * space) = i
  BY <1>1
<1>6. (length + 1) % (2 * space) \in 0 .. (2 * space - 1)
  <2>1. 2 * space \in Nat /\ 2 * space > 0 /\ length + 1 \in Nat
    BY <1>1
  <2> QED
    BY <2>1
<1>7. RingTypeOK'
  <2>1. elements' \in [0 .. (2 * space - 1) -> Elements \cup {Unset}]
    BY <1>1, <1>2, <1>4
  <2> QED
    BY <1>1, <1>2, <1>6, <2>1 DEF RingTypeOK, RingInv
<1>8. IndexInv'
  <2>1. 0 + (length + 1) = length + 1 /\ length + 1 <= 2 * space
    BY <1>1
  <2> QED
    BY <1>2, <2>1 DEF IndexInv
<1>9. Contents' = Append(Contents, x)
  <2>1. Contents' = [i \in 1 .. (length + 1) |-> elements'[((i - 1) + 0) % (2 * space)]]
    BY <1>2 DEF Contents, Slot
  <2>2. ASSUME NEW i \in 1 .. (length + 1)
        PROVE  elements'[((i - 1) + 0) % (2 * space)] = Append(Contents, x)[i]
    <3>1. ((i - 1) + 0) % (2 * space) = i - 1 /\ i - 1 \in 0 .. length
      <4>1. (i - 1) + 0 = i - 1 /\ i - 1 \in 0 .. length
        BY <1>1
      <4> QED
        BY <4>1, <1>5
    <3>2. CASE i = length + 1
      BY <1>1, <1>2, <1>4, <3>1, <3>2, ContentsType
    <3>3. CASE i # length + 1
      <4>1. i \in 1 .. length /\ i - 1 \in 0 .. (length - 1) /\ i - 1 # length
        BY <1>1, <3>3
      <4>2. elements'[i - 1] = Doubled[i - 1]
        BY <1>1, <1>2, <1>4, <4>1
      <4> QED
        BY <3>1, <1>4, <4>1, <4>2, ContentsType
    <3> QED
      BY <3>2, <3>3
  <2>3. Append(Contents, x) = [i \in 1 .. (length + 1) |-> Append(Contents, x)[i]]
    BY <1>1, ContentsType, AppendIs
  <2> QED
    BY <2>1, <2>2, <2>3
<1>10. Filled'
  <2>1. /\ length + 1 \in Nat /\ length' = length + 1
        /\ Contents' \in Seq(Elements) /\ Len(Contents') = length + 1
    BY <1>1, <1>2, <1>9, ContentsType, AppendProperties
  <2> QED
    BY <2>1, FilledFrom
<1> QED
  BY <1>1, <1>2, <1>7, <1>8, <1>9, <1>10, ContentsType DEF RingInv, Fifo!Push

(* Calls that leave the array, or all of the state but the result.         *)
LEMMA Same_Contents ==
  ASSUME RingInv, NEW r \in Elements, result' = r,
         UNCHANGED <<elements, length, space, head, tail>>
  PROVE  RingInv' /\ Contents' = Contents
<1> USE DEF RingInv
<1>1. RingTypeOK'
  BY DEF RingTypeOK
<1>2. IndexInv' /\ Filled' /\ Contents' = Contents
  BY DEF IndexInv, Filled, Contents, Slot
<1> QED
  BY <1>1, <1>2

(* The last element goes. *)
LEMMA Drop_Last ==
  ASSUME RingInv, length > 0, head' = Before(head), length' = length - 1,
         NEW r \in Elements, result' = r, UNCHANGED <<elements, space, tail>>
  PROVE  RingInv' /\ Contents' = [i \in 1 .. (length - 1) |-> Contents[i]]
<1> USE RingQueueAssumption
<1>1. /\ space \in Nat \ {0} /\ length \in 1 .. MaxLength /\ length <= space
      /\ tail \in 0 .. (space - 1) /\ head \in 0 .. (space - 1)
  BY DEF RingInv, RingTypeOK, IndexInv
<1>2. RingTypeOK'
  BY <1>1, BeforeIs DEF RingTypeOK, RingInv
<1>3. IndexInv'
  BY <1>1, HeadIs DEF IndexInv, Slot
<1>4. Filled'
  BY <1>1 DEF Filled, Slot, RingInv
<1>5. Contents' = [i \in 1 .. (length - 1) |-> Contents[i]]
  BY <1>1 DEF Contents, Slot
<1> QED
  BY <1>2, <1>3, <1>4, <1>5 DEF RingInv

(* tail goes one up: everything is one slot further than it was. *)
LEMMA TailUp ==
  ASSUME RingInv, length > 0, tail' = (tail + 1) % space, length' = length - 1,
         UNCHANGED <<space, head>>
  PROVE  /\ IndexInv' /\ tail' \in 0 .. (space - 1) /\ length' \in 0 .. MaxLength
         /\ \A i \in 0 .. (length - 1) : Slot(i)' = Slot(i + 1)
<1> USE RingQueueAssumption
<1>1. /\ space \in Nat /\ space > 0 /\ length \in 1 .. MaxLength /\ length <= space
      /\ tail \in 0 .. (space - 1) /\ head \in 0 .. (space - 1)
  BY DEF RingInv, RingTypeOK, IndexInv
<1> DEFINE t == (tail + 1) % space
<1>2. t = (IF tail = space - 1 THEN 0 ELSE tail + 1) /\ t \in 0 .. (space - 1)
  BY <1>1, AfterIs
<1>3. \A i \in 0 .. (length - 1) : (i + t) % space = Slot(i + 1)
  <2> TAKE i \in 0 .. (length - 1)
  <2>1. i + 1 \in 0 .. space
    BY <1>1
  <2>2. (i + t) % space = IF i + t < space THEN i + t ELSE i + t - space
    <3> HIDE DEF t
    <3>1. i \in Nat /\ i < space /\ t \in Nat /\ t < space
      BY <1>1, <1>2
    <3> QED
      BY <1>1, <3>1
  <2> QED
    BY <1>1, <1>2, <2>1, <2>2, SlotIs
<1>4. IndexInv'
  <2>1. (tail + length) % space = ((length - 1) + t) % space
    <3>1. length - 1 \in 0 .. (length - 1) /\ (length - 1) + 1 = length
      BY <1>1
    <3> QED
      BY <1>3, <3>1, HeadIs DEF Slot, RingInv, IndexInv
  <2>2. ((length - 1) + t) % space = (t + (length - 1)) % space
    BY <1>1, <1>2
  <2> QED
    BY <1>1, <2>1, <2>2 DEF IndexInv, RingInv
<1> QED
  BY <1>1, <1>2, <1>3, <1>4 DEF Slot

(* The first element goes. *)
LEMMA Drop_First ==
  ASSUME RingInv, length > 0, tail' = (tail + 1) % space, length' = length - 1,
         NEW r \in Elements, result' = r, UNCHANGED <<elements, space, head>>
  PROVE  RingInv' /\ Contents' = [i \in 1 .. (length - 1) |-> Contents[i + 1]]
<1> USE RingQueueAssumption
<1>1. length \in Nat /\ length > 0
  BY DEF RingInv, RingTypeOK
<1>2. RingTypeOK' /\ IndexInv'
  BY TailUp DEF RingTypeOK, RingInv
<1>3. Contents' = [i \in 1 .. (length - 1) |-> Contents[i + 1]]
  <2>1. Contents' = [i \in 1 .. (length - 1) |-> elements[Slot(i - 1)']]
    BY DEF Contents
  <2>2. ASSUME NEW i \in 1 .. (length - 1)
        PROVE  elements[Slot(i - 1)'] = Contents[i + 1]
    <3>1. i - 1 \in 0 .. (length - 1) /\ (i - 1) + 1 = i /\ i + 1 \in 1 .. length /\ (i + 1) - 1 = i
      BY <1>1
    <3> QED
      BY <3>1, TailUp, ContentsType
  <2> QED
    BY <2>1, <2>2
<1>4. Filled'
  <2>1. length - 1 \in Nat /\ length' = length - 1
    BY <1>1
  <2>2. Contents' \in [1 .. (length - 1) -> Elements]
    <3>1. \A i \in 1 .. (length - 1) : i + 1 \in 1 .. length
      BY <1>1
    <3> QED
      BY <1>3, <3>1, ContentsType, ElementOfSeq
  <2> QED
    BY <2>1, <2>2, FilledFrom
<1> QED
  BY <1>2, <1>3, <1>4 DEF RingInv

LEMMA EmptyIs == ASSUME RingInv PROVE Contents = <<>> <=> length = 0
<1>1. length \in Nat
  BY RingQueueAssumption DEF RingInv, RingTypeOK
<1> QED
  BY <1>1, ContentsType

LEMMA EmptyReturns_Ring ==
  ASSUME RingInv, EmptyReturnsNull
  PROVE  RingInv' /\ Contents = <<>> /\ Contents' = Contents /\ result' = NULL
BY RingQueueAssumption, Same_Contents, EmptyIs DEF EmptyReturnsNull

LEMMA Pop_Ring == ASSUME RingInv, Pop PROVE RingInv' /\ Fifo!Pop
<1>1. CASE EmptyReturnsNull
  BY <1>1, EmptyReturns_Ring DEF Fifo!Pop
<1>2. CASE ~EmptyReturnsNull
  <2>1. /\ length > 0 /\ result' = elements[tail] /\ tail' = (tail + 1) % space
        /\ length' = length - 1 /\ UNCHANGED <<elements, space, head>>
    BY <1>2 DEF Pop
  <2>2. /\ length \in Nat /\ space \in Nat /\ tail \in 0 .. (space - 1) /\ length <= space
    BY RingQueueAssumption DEF RingInv, RingTypeOK, IndexInv
  <2>3. elements[tail] = Contents[1] /\ Contents[1] \in Elements
    <3>1. 1 \in 1 .. length /\ 1 - 1 = 0 /\ 0 \in 0 .. space
      BY <2>1, <2>2
    <3>2. Slot(0) = tail
      BY <3>1, <2>2, SlotIs
    <3> QED
      BY <3>1, <3>2, ContentsType, ElementOfSeq
  <2>4. RingInv' /\ Contents' = [i \in 1 .. (length - 1) |-> Contents[i + 1]]
    BY <2>1, <2>3, Drop_First
  <2>5. Contents # <<>> /\ Head(Contents) = Contents[1]
        /\ Tail(Contents) = [i \in 1 .. (length - 1) |-> Contents[i + 1]]
    <3>1. Contents \in Seq(Elements) /\ Contents # <<>> /\ Len(Contents) = length
      BY <2>1, ContentsType, EmptyIs
    <3> QED
      BY <3>1, TailIs
  <2> QED
    BY <2>1, <2>3, <2>4, <2>5 DEF Fifo!Pop
<1> QED
  BY <1>1, <1>2

(* The last element, where SPop and SPeek find it. *)
LEMMA LastIs ==
  ASSUME RingInv, length > 0
  PROVE  /\ elements[Before(head)] = Contents[length] /\ Contents[length] \in Elements
         /\ Len(Contents) = length /\ Contents # <<>>
         /\ Fifo!Without(length) = [i \in 1 .. (length - 1) |-> Contents[i]]
<1>1. length \in 1 .. length /\ length \in Nat
  BY RingQueueAssumption DEF RingInv, RingTypeOK
<1>2. elements[Before(head)] = Contents[length] /\ Contents[length] \in Elements
  BY <1>1, HeadIs, ContentsType, ElementOfSeq
<1>3. Fifo!Without(length) = [i \in 1 .. (length - 1) |-> Contents[i]]
  <2>1. Fifo!Without(length) =
          [j \in 1 .. (length - 1) |-> IF j < length THEN Contents[j] ELSE Contents[j + 1]]
    BY ContentsType DEF Fifo!Without
  <2>2. \A j \in 1 .. (length - 1) : j < length
    BY <1>1
  <2> QED
    BY <2>1, <2>2
<1> QED
  BY <1>1, <1>2, <1>3, ContentsType, EmptyIs

LEMMA SPop_Ring == ASSUME RingInv, SPop PROVE RingInv' /\ Fifo!SPop
<1>1. CASE EmptyReturnsNull
  BY <1>1, EmptyReturns_Ring DEF Fifo!SPop
<1>2. CASE ~EmptyReturnsNull
  <2>1. /\ length > 0 /\ head' = Before(head) /\ result' = elements[Before(head)]
        /\ length' = length - 1 /\ UNCHANGED <<elements, space, tail>>
    BY <1>2 DEF SPop
  <2>2. RingInv' /\ Contents' = [i \in 1 .. (length - 1) |-> Contents[i]]
    BY <2>1, LastIs, Drop_Last
  <2> QED
    BY <2>1, <2>2, LastIs DEF Fifo!SPop
<1> QED
  BY <1>1, <1>2

LEMMA SPeek_Ring == ASSUME RingInv, SPeek PROVE RingInv' /\ Fifo!SPeek
<1>1. CASE EmptyReturnsNull
  BY <1>1, EmptyReturns_Ring DEF Fifo!SPeek, Fifo!SPop
<1>2. CASE ~EmptyReturnsNull
  <2>1. /\ length > 0 /\ result' = elements[Before(head)]
        /\ IF elements[Before(head)] = NULL
             THEN head' = Before(head) /\ length' = length - 1
             ELSE UNCHANGED <<head, length>>
        /\ UNCHANGED <<elements, space, tail>>
    BY <1>2 DEF SPeek
  <2>2. CASE elements[Before(head)] = NULL
    <3>1. RingInv' /\ Contents' = [i \in 1 .. (length - 1) |-> Contents[i]]
      BY <2>1, <2>2, LastIs, Drop_Last
    <3> QED
      BY <2>1, <2>2, <3>1, LastIs DEF Fifo!SPeek, Fifo!SPop
  <2>3. CASE elements[Before(head)] # NULL
    <3>1. RingInv' /\ Contents' = Contents
      BY <2>1, <2>3, LastIs, Same_Contents
    <3> QED
      BY <2>1, <2>3, <3>1, LastIs DEF Fifo!SPeek
  <2> QED
    BY <2>2, <2>3
<1> QED
  BY <1>1, <1>2

(* The code numbers elements from 0, FifoQueue from 1. *)
LEMMA Get_Ring ==
  ASSUME RingInv, NEW i \in 0 .. (MaxLength - 1), Get(i)
  PROVE  RingInv' /\ Fifo!Get(i + 1)
<1>1. i + 1 \in 1 .. length /\ (i + 1) - 1 = i
  BY RingQueueAssumption DEF RingInv, RingTypeOK, Get
<1>2. result' = Contents[i + 1] /\ Contents[i + 1] \in Elements
  BY <1>1, ContentsType, ElementOfSeq DEF Get
<1>3. RingInv' /\ Contents' = Contents
  BY <1>2, Same_Contents DEF Get
<1> QED
  BY <1>1, <1>2, <1>3, ContentsType DEF Fifo!Get

LEMMA Set_Ring ==
  ASSUME RingInv, NEW x \in Elements, NEW i \in 0 .. (MaxLength - 1), Set(x, i)
  PROVE  RingInv' /\ Fifo!Set(x, i + 1)
<1> USE RingQueueAssumption
<1>1. /\ space \in Nat \ {0} /\ length \in Nat /\ length <= space
      /\ i \in 0 .. (length - 1) /\ i + 1 \in 1 .. length /\ i \in 0 .. (space - 1)
      /\ elements \in [0 .. (space - 1) -> Elements \cup {Unset}]
  BY DEF RingInv, RingTypeOK, IndexInv, Set
<1>2. elements' = [elements EXCEPT ![Slot(i)] = x] /\ UNCHANGED <<length, space, head, tail, result>>
  BY DEF Set
<1>3. Slot(i) \in 0 .. (space - 1)
  BY <1>1, SlotIs
<1>4. RingTypeOK' /\ IndexInv'
  BY <1>1, <1>2, <1>3 DEF RingInv, RingTypeOK, IndexInv
<1>5. Contents' = [Contents EXCEPT ![i + 1] = x]
  <2>1. Contents' = [j \in 1 .. length |-> elements'[Slot(j - 1)]]
    BY <1>2 DEF Contents, Slot
  <2>2. ASSUME NEW j \in 1 .. length
        PROVE  elements'[Slot(j - 1)] = [Contents EXCEPT ![i + 1] = x][j]
    <3>1. j - 1 \in 0 .. (space - 1) /\ j - 1 \in 0 .. space /\ (j - 1 = i <=> j = i + 1)
      BY <1>1
    <3>2. Slot(j - 1) \in 0 .. (space - 1) /\ (Slot(j - 1) = Slot(i) <=> j - 1 = i)
      BY <1>1, <3>1, SlotIs, SlotInjective
    <3> QED
      BY <1>1, <1>2, <1>3, <3>1, <3>2, ContentsType
  <2> QED
    BY <2>1, <2>2, ContentsType
<1>6. Filled'
  <2>1. /\ length' = length /\ Contents' \in Seq(Elements) /\ Len(Contents') = length
    BY <1>1, <1>2, <1>5, ContentsType, ExceptSeq
  <2> QED
    BY <1>1, <2>1, FilledFrom
<1> QED
  BY <1>1, <1>2, <1>4, <1>5, <1>6, ContentsType DEF RingInv, Fifo!Set

-----------------------------------------------------------------------------
(* queue_remove *)

(* The slots one up and one down from a slot in use. *)
LEMMA NextSlot ==
  ASSUME RingInv, NEW j \in 0 .. (space - 1)
  PROVE  (Slot(j) + 1) % space = Slot(j + 1) /\ Before(Slot(j + 1)) = Slot(j)
<1>1. space \in Nat /\ space > 0 /\ tail \in 0 .. (space - 1)
  BY DEF RingInv, RingTypeOK
<1>2. j \in 0 .. space /\ j + 1 \in 0 .. space
  BY <1>1
<1>3. (Slot(j) + 1) % space = IF Slot(j) = space - 1 THEN 0 ELSE Slot(j) + 1
  BY <1>2, SlotIs, AfterIs
<1>4. Before(Slot(j + 1)) = IF Slot(j + 1) = 0 THEN space - 1 ELSE Slot(j + 1) - 1
  BY <1>2, SlotIs, BeforeIs
<1>5. /\ Slot(j) = IF j + tail < space THEN j + tail ELSE j + tail - space
      /\ Slot(j + 1) = IF (j + 1) + tail < space THEN (j + 1) + tail ELSE (j + 1) + tail - space
  BY <1>2, SlotIs
<1> QED
  BY <1>1, <1>3, <1>4, <1>5

LEMMA ShiftedLeftIs ==
  ASSUME RingInv, NEW m \in 1 .. length
  PROVE  /\ ShiftedLeft(m) \in [0 .. (space - 1) -> Elements \cup {Unset}]
         /\ \A j \in 0 .. (length - 1) : ShiftedLeft(m)[Slot(j)] =
              IF j >= m - 1 /\ j < length - 1 THEN elements[Slot(j + 1)] ELSE elements[Slot(j)]
<1>1. /\ space \in Nat /\ space > 0 /\ length \in Nat /\ length <= space
      /\ elements \in [0 .. (space - 1) -> Elements \cup {Unset}]
  BY RingQueueAssumption DEF RingInv, RingTypeOK, IndexInv
<1>2. ShiftedLeft(m) \in [0 .. (space - 1) -> Elements \cup {Unset}]
  BY <1>1, AfterIs DEF ShiftedLeft
<1>3. ASSUME NEW j \in 0 .. (length - 1)
      PROVE  ShiftedLeft(m)[Slot(j)] =
               IF j >= m - 1 /\ j < length - 1 THEN elements[Slot(j + 1)] ELSE elements[Slot(j)]
  <2>1. j \in 0 .. (space - 1) /\ j \in 0 .. space
    BY <1>1
  <2>2. Slot(j) \in 0 .. (space - 1)
    BY <2>1, SlotIs
  <2>3. \A q \in m .. (length - 1) : Slot(j) = Before(Slot(q)) <=> j = q - 1
    <3> TAKE q \in m .. (length - 1)
    <3>1. q - 1 \in 0 .. (space - 1) /\ (q - 1) + 1 = q
      BY <1>1
    <3>2. Before(Slot(q)) = Slot(q - 1)
      BY <3>1, NextSlot
    <3> QED
      BY <2>1, <3>1, <3>2, SlotInjective
  <2>4. (\E q \in m .. (length - 1) : Slot(j) = Before(Slot(q))) <=> j >= m - 1 /\ j < length - 1
    <3>1. (\E q \in m .. (length - 1) : j = q - 1) <=> j >= m - 1 /\ j < length - 1
      <4>1. ASSUME j >= m - 1, j < length - 1 PROVE j + 1 \in m .. (length - 1) /\ j = (j + 1) - 1
        BY <4>1, <1>1
      <4> QED
        BY <4>1, <1>1
    <3> QED
      BY <2>3, <3>1
  <2>5. (Slot(j) + 1) % space = Slot(j + 1)
    BY <2>1, NextSlot
  <2> QED
    BY <2>2, <2>4, <2>5 DEF ShiftedLeft
<1> QED
  BY <1>2, <1>3

LEMMA ShiftedRightIs ==
  ASSUME RingInv, NEW m \in 0 .. (length - 2)
  PROVE  /\ ShiftedRight(m) \in [0 .. (space - 1) -> Elements \cup {Unset}]
         /\ \A j \in 0 .. (length - 1) : ShiftedRight(m)[Slot(j)] =
              IF 1 <= j /\ j <= m + 1 THEN elements[Slot(j - 1)] ELSE elements[Slot(j)]
<1>1. /\ space \in Nat /\ space > 0 /\ length \in Nat /\ length <= space
      /\ elements \in [0 .. (space - 1) -> Elements \cup {Unset}]
  BY RingQueueAssumption DEF RingInv, RingTypeOK, IndexInv
<1>2. ShiftedRight(m) \in [0 .. (space - 1) -> Elements \cup {Unset}]
  BY <1>1, BeforeIs DEF ShiftedRight
<1>3. ASSUME NEW j \in 0 .. (length - 1)
      PROVE  ShiftedRight(m)[Slot(j)] =
               IF 1 <= j /\ j <= m + 1 THEN elements[Slot(j - 1)] ELSE elements[Slot(j)]
  <2>1. j \in 0 .. (space - 1) /\ j \in 0 .. space
    BY <1>1
  <2>2. Slot(j) \in 0 .. (space - 1)
    BY <2>1, SlotIs
  <2>3. (\E q \in 0 .. (length - 1) : q <= m /\ Slot(j) = Slot(q + 1)) <=> 1 <= j /\ j <= m + 1
    <3>1. ASSUME NEW q \in 0 .. (length - 1), q <= m
          PROVE  Slot(j) = Slot(q + 1) <=> j = q + 1
      <4>1. q + 1 \in 0 .. (space - 1)
        BY <1>1, <3>1
      <4> QED
        BY <2>1, <4>1, SlotInjective
    <3>2. (\E q \in 0 .. (length - 1) : q <= m /\ j = q + 1) <=> 1 <= j /\ j <= m + 1
      <4>1. ASSUME 1 <= j, j <= m + 1
            PROVE  j - 1 \in 0 .. (length - 1) /\ j - 1 <= m /\ j = (j - 1) + 1
        BY <4>1, <1>1
      <4> QED
        BY <4>1, <1>1
    <3> QED
      BY <3>1, <3>2
  <2>4. 1 <= j => Before(Slot(j)) = Slot(j - 1)
    <3> SUFFICES ASSUME 1 <= j PROVE Before(Slot(j)) = Slot(j - 1)
      OBVIOUS
    <3>1. j - 1 \in 0 .. (space - 1) /\ (j - 1) + 1 = j
      BY <1>1
    <3> QED
      BY <3>1, NextSlot
  <2> QED
    BY <2>2, <2>3, <2>4 DEF ShiftedRight
<1> QED
  BY <1>2, <1>3

(* The first match is where FifoQueue finds it. *)
LEMMA FirstMatchIs ==
  ASSUME RingInv, NEW x, Matches(x) # {}
  PROVE  /\ FirstMatch(x) \in 0 .. (length - 1)
         /\ Fifo!FirstAt(x) = FirstMatch(x) + 1 /\ Contents[FirstMatch(x) + 1] = x
<1>1. length \in Nat /\ Matches(x) \subseteq Nat
  BY RingQueueAssumption DEF RingInv, RingTypeOK, Matches
<1>2. \E i \in Matches(x) : \A j \in Matches(x) : i <= j
  BY <1>1, LeastOf
<1>3. FirstMatch(x) \in Matches(x) /\ \A j \in Matches(x) : FirstMatch(x) <= j
  BY <1>2 DEF FirstMatch
<1> DEFINE f == FirstMatch(x)
<1> HIDE DEF f
<1>4. f \in 0 .. (length - 1) /\ elements[Slot(f)] = x
      /\ \A j \in 0 .. (length - 1) : elements[Slot(j)] = x => f <= j
  BY <1>3 DEF Matches, f
<1> DEFINE First(i) == Contents[i] = x /\ \A j \in 1 .. (i - 1) : Contents[j] # x
<1>5. f + 1 \in 1 .. length /\ Contents[f + 1] = x
  <2>1. f + 1 \in 1 .. length /\ (f + 1) - 1 = f
    BY <1>1, <1>4
  <2> QED
    BY <1>4, <2>1, ContentsType
<1>6. \A j \in 1 .. length : Contents[j] = x => f + 1 <= j
  <2> SUFFICES ASSUME NEW j \in 1 .. length, Contents[j] = x PROVE f + 1 <= j
    OBVIOUS
  <2>1. j - 1 \in 0 .. (length - 1) /\ elements[Slot(j - 1)] = x
    BY <1>1, ContentsType
  <2> QED
    BY <1>1, <1>4, <2>1
<1>7. First(f + 1)
  <2>1. ASSUME NEW j \in 1 .. ((f + 1) - 1) PROVE Contents[j] # x
    <3>1. j \in 1 .. length /\ ~ (f + 1 <= j)
      BY <1>1, <1>4
    <3> QED
      BY <1>6, <3>1
  <2> QED
    BY <1>5, <2>1
<1>8. \A i \in 1 .. length : First(i) => i = f + 1
  <2> SUFFICES ASSUME NEW i \in 1 .. length, First(i) PROVE i = f + 1
    OBVIOUS
  <2>1. f + 1 <= i
    BY <1>6
  <2>2. ~ (f + 1 \in 1 .. (i - 1))
    BY <1>5
  <2> QED
    BY <1>1, <1>4, <2>1, <2>2
<1> HIDE DEF First
<1>9. (CHOOSE i \in DOMAIN Contents : First(i)) = f + 1
  BY <1>5, <1>7, <1>8, ContentsType
<1> QED
  BY <1>4, <1>5, <1>9 DEF Fifo!FirstAt, First, f

LEMMA ClosesGap_Filled ==
  ASSUME RingInv, NEW f \in 0 .. (length - 1), length' = length - 1,
         Contents' = Fifo!Without(f + 1), RingTypeOK', IndexInv'
  PROVE  RingInv'
<1>1. length \in Nat /\ length > 0
  BY RingQueueAssumption DEF RingInv, RingTypeOK
<1>2. Contents' = [j \in 1 .. (length - 1) |-> IF j < f + 1 THEN Contents[j] ELSE Contents[j + 1]]
  BY ContentsType DEF Fifo!Without
<1>3. \A j \in 1 .. (length - 1) : Contents[j] \in Elements /\ Contents[j + 1] \in Elements
  <2> TAKE j \in 1 .. (length - 1)
  <2>1. j \in 1 .. length /\ j + 1 \in 1 .. length
    BY <1>1
  <2> QED
    BY <2>1, ContentsType, ElementOfSeq
<1>4. /\ length - 1 \in Nat /\ Contents' \in [1 .. (length - 1) -> Elements]
  BY <1>1, <1>2, <1>3
<1>5. Contents' \in Seq(Elements) /\ Len(Contents') = length - 1
  BY <1>4
<1> QED
  BY <1>4, <1>5, FilledFrom DEF RingInv

(* What is left of the sequence after either side has closed the gap. *)
LEMMA ClosesGap_Ring ==
  ASSUME RingInv, NEW f \in 0 .. (length - 1), ClosesGap(f), length' = length - 1,
         UNCHANGED space, NEW r \in Elements, result' = r
  PROVE  RingInv' /\ Contents' = Fifo!Without(f + 1)
<1> USE RingQueueAssumption
<1>1. /\ space \in Nat /\ space > 0 /\ length \in 1 .. MaxLength /\ length <= space
      /\ tail \in 0 .. (space - 1) /\ head \in 0 .. (space - 1)
      /\ elements \in [0 .. (space - 1) -> Elements \cup {Unset}] /\ length \in Nat
  BY DEF RingInv, RingTypeOK, IndexInv
<1>2. Fifo!Without(f + 1) = [j \in 1 .. (length - 1) |->
                               IF j < f + 1 THEN elements[Slot(j - 1)] ELSE elements[Slot(j)]]
  <2>1. Fifo!Without(f + 1) = [j \in 1 .. (length - 1) |->
                                 IF j < f + 1 THEN Contents[j] ELSE Contents[j + 1]]
    BY ContentsType DEF Fifo!Without
  <2>2. \A j \in 1 .. (length - 1) :
          Contents[j] = elements[Slot(j - 1)] /\ Contents[j + 1] = elements[Slot(j)]
    <3> TAKE j \in 1 .. (length - 1)
    <3>1. j \in 1 .. length /\ j + 1 \in 1 .. length /\ (j + 1) - 1 = j
      BY <1>1
    <3> QED
      BY <3>1, ContentsType
  <2> QED
    BY <2>1, <2>2
<1>3. CASE f > length \div 2
  <2>1. elements' = ShiftedLeft(f + 1) /\ head' = Before(head) /\ tail' = tail
    BY <1>3 DEF ClosesGap
  <2>2. f + 1 \in 1 .. length /\ (f + 1) - 1 = f
    BY <1>1
  <2>3. IndexInv'
    BY <1>1, <2>1, HeadIs DEF IndexInv, Slot
  <2>4. RingTypeOK'
    BY <1>1, <2>1, <2>2, BeforeIs, ShiftedLeftIs DEF RingTypeOK
  <2>5. Contents' = Fifo!Without(f + 1)
    <3>1. Contents' = [i \in 1 .. (length - 1) |-> ShiftedLeft(f + 1)[Slot(i - 1)]]
      BY <2>1 DEF Contents, Slot
    <3>2. ASSUME NEW i \in 1 .. (length - 1)
          PROVE  ShiftedLeft(f + 1)[Slot(i - 1)]
                   = IF i < f + 1 THEN elements[Slot(i - 1)] ELSE elements[Slot(i)]
      <4>1. i - 1 \in 0 .. (length - 1) /\ (i - 1) + 1 = i /\ i - 1 < length - 1
            /\ (i - 1 >= f <=> ~ (i < f + 1))
        BY <1>1
      <4> QED
        BY <2>2, <4>1, ShiftedLeftIs
    <3> QED
      BY <1>2, <3>1, <3>2
  <2> QED
    BY <2>3, <2>4, <2>5, <1>2, ClosesGap_Filled
<1>4. CASE ~ (f > length \div 2)
  <2>1. /\ elements' = IF f = 0 THEN elements ELSE ShiftedRight(f - 1)
        /\ tail' = (tail + 1) % space /\ UNCHANGED head
    BY <1>4 DEF ClosesGap
  <2>2. f # 0 => f - 1 \in 0 .. (length - 2)
    BY <1>1
  <2>3. elements' \in [0 .. (space - 1) -> Elements \cup {Unset}]
    BY <1>1, <2>1, <2>2, ShiftedRightIs
  <2>4. /\ IndexInv' /\ tail' \in 0 .. (space - 1) /\ length' \in 0 .. MaxLength
        /\ \A i \in 0 .. (length - 1) : Slot(i)' = Slot(i + 1)
    BY <1>1, <2>1, TailUp
  <2>5. RingTypeOK'
    BY <1>1, <2>1, <2>3, <2>4 DEF RingTypeOK
  <2>6. ASSUME NEW i \in 1 .. (length - 1)
        PROVE  elements'[Slot(i)] = IF i < f + 1 THEN elements[Slot(i - 1)] ELSE elements[Slot(i)]
    <3>1. i \in 0 .. (length - 1) /\ 1 <= i
      BY <1>1
    <3>2. CASE f = 0
      BY <1>1, <2>1, <3>1, <3>2
    <3>3. CASE f # 0
      <4>1. ShiftedRight(f - 1)[Slot(i)] =
              IF 1 <= i /\ i <= (f - 1) + 1 THEN elements[Slot(i - 1)] ELSE elements[Slot(i)]
        BY <2>2, <3>1, <3>3, ShiftedRightIs
      <4>2. i <= (f - 1) + 1 <=> i < f + 1
        BY <1>1
      <4> QED
        BY <2>1, <3>1, <3>3, <4>1, <4>2
    <3> QED
      BY <3>2, <3>3
  <2>7. Contents' = Fifo!Without(f + 1)
    <3>1. Contents' = [i \in 1 .. (length - 1) |-> elements'[Slot(i - 1)']]
      BY DEF Contents
    <3>2. ASSUME NEW i \in 1 .. (length - 1) PROVE Slot(i - 1)' = Slot(i)
      <4>1. i - 1 \in 0 .. (length - 1) /\ (i - 1) + 1 = i
        BY <1>1
      <4> QED
        BY <2>4, <4>1
    <3> QED
      BY <1>2, <2>6, <3>1, <3>2
  <2> QED
    BY <2>4, <2>5, <2>7, <1>2, ClosesGap_Filled
<1> QED
  BY <1>3, <1>4

LEMMA QueueRemove_Ring ==
  ASSUME RingInv, NEW x \in Elements, QueueRemove(x)
  PROVE  RingInv' /\ Fifo!Remove(x)
<1> USE RingQueueAssumption
<1>1. CASE Matches(x) = {}
  <2>1. result' = NULL /\ UNCHANGED <<elements, length, space, head, tail>>
    BY <1>1 DEF QueueRemove
  <2>2. RingInv' /\ Contents' = Contents
    BY <2>1, Same_Contents
  <2>3. \A i \in DOMAIN Contents : Contents[i] # x
    <3> SUFFICES ASSUME NEW i \in 1 .. length PROVE Contents[i] # x
      BY ContentsType
    <3>1. i - 1 \in 0 .. (length - 1)
      BY DEF RingInv, RingTypeOK
    <3> QED
      BY <1>1, <3>1, ContentsType DEF Matches
  <2> QED
    BY <2>1, <2>2, <2>3 DEF Fifo!Remove
<1>2. CASE Matches(x) # {}
  <2>1. result' = x /\ ClosesGap(FirstMatch(x)) /\ length' = length - 1 /\ UNCHANGED space
    BY <1>2 DEF QueueRemove
  <2>2. /\ FirstMatch(x) \in 0 .. (length - 1) /\ Fifo!FirstAt(x) = FirstMatch(x) + 1
        /\ Contents[FirstMatch(x) + 1] = x
    BY <1>2, FirstMatchIs
  <2>3. RingInv' /\ Contents' = Fifo!Without(Fifo!FirstAt(x))
    BY <2>1, <2>2, ClosesGap_Ring
  <2>4. FirstMatch(x) + 1 \in DOMAIN Contents
    BY <2>2, ContentsType DEF RingInv, RingTypeOK
  <2> QED
    BY <2>1, <2>2, <2>3, <2>4 DEF Fifo!Remove
<1> QED
  BY <1>1, <1>2

-----------------------------------------------------------------------------
(* queue_filter *)

(* The elements of s up to n that are not x, in order, are the sequence k. *)
Keeps(s, x, n, k) ==
  \E m \in 0 .. n : \E places \in [1 .. m -> 1 .. n] :
    /\ \A i, j \in 1 .. m : i < j => places[i] < places[j]
    /\ {places[i] : i \in 1 .. m} = {i \in 1 .. n : s[i] # x}
    /\ k = [i \in 1 .. m |-> s[places[i]]]

LEMMA KeepsType ==
  ASSUME NEW s \in Seq(Elements), NEW x, NEW n \in 0 .. Len(s), NEW k, Keeps(s, x, n, k)
  PROVE  k \in Seq(Elements) /\ Len(k) \in 0 .. n /\ k = [i \in 1 .. Len(k) |-> k[i]]
<1>1. PICK m \in 0 .. n : \E places \in [1 .. m -> 1 .. n] : k = [i \in 1 .. m |-> s[places[i]]]
  BY DEF Keeps
<1>2. PICK places \in [1 .. m -> 1 .. n] : k = [i \in 1 .. m |-> s[places[i]]]
  BY <1>1
<1>3. \A j \in 1 .. n : s[j] \in Elements
  BY LenProperties, ElementOfSeq
<1>4. k \in [1 .. m -> Elements]
  BY <1>2, <1>3
<1> QED
  BY <1>4

(* One more element is kept, or is not. *)
LEMMA KeepsMore ==
  ASSUME NEW s \in Seq(Elements), NEW x, NEW n \in 0 .. (Len(s) - 1), NEW k, Keeps(s, x, n, k)
  PROVE  Keeps(s, x, n + 1, IF s[n + 1] = x THEN k ELSE Append(k, s[n + 1]))
<1>1. PICK m \in 0 .. n : \E places \in [1 .. m -> 1 .. n] :
        /\ \A i, j \in 1 .. m : i < j => places[i] < places[j]
        /\ {places[i] : i \in 1 .. m} = {i \in 1 .. n : s[i] # x}
        /\ k = [i \in 1 .. m |-> s[places[i]]]
  BY DEF Keeps
<1>2. PICK places \in [1 .. m -> 1 .. n] :
        /\ \A i, j \in 1 .. m : i < j => places[i] < places[j]
        /\ {places[i] : i \in 1 .. m} = {i \in 1 .. n : s[i] # x}
        /\ k = [i \in 1 .. m |-> s[places[i]]]
  BY <1>1
<1>3. CASE s[n + 1] = x
  <2>1. {i \in 1 .. (n + 1) : s[i] # x} = {i \in 1 .. n : s[i] # x}
    BY <1>3
  <2>2. m \in 0 .. (n + 1) /\ places \in [1 .. m -> 1 .. (n + 1)]
    OBVIOUS
  <2>3. /\ \A i, j \in 1 .. m : i < j => places[i] < places[j]
        /\ {places[i] : i \in 1 .. m} = {i \in 1 .. (n + 1) : s[i] # x}
        /\ k = [i \in 1 .. m |-> s[places[i]]]
    BY <1>2, <2>1
  <2>4. Keeps(s, x, n + 1, k)
    BY <2>2, <2>3, Zenon DEF Keeps
  <2> QED
    BY <1>3, <2>4
<1>4. CASE s[n + 1] # x
  <2> DEFINE more == [i \in 1 .. (m + 1) |-> IF i = m + 1 THEN n + 1 ELSE places[i]]
  <2>1. /\ m + 1 \in 0 .. (n + 1) /\ more \in [1 .. (m + 1) -> 1 .. (n + 1)]
        /\ more[m + 1] = n + 1
        /\ \A i \in 1 .. m : i \in 1 .. (m + 1) /\ more[i] = places[i] /\ places[i] \in 1 .. n
    OBVIOUS
  <2> HIDE DEF more
  <2>2. \A i, j \in 1 .. (m + 1) : i < j => more[i] < more[j]
    <3> SUFFICES ASSUME NEW i \in 1 .. (m + 1), NEW j \in 1 .. (m + 1), i < j
                 PROVE  more[i] < more[j]
      OBVIOUS
    <3>1. i \in 1 .. m /\ (j = m + 1 \/ j \in 1 .. m) /\ places[i] \in 1 .. n
      OBVIOUS
    <3>2. CASE j = m + 1
      BY <2>1, <3>1, <3>2
    <3>3. CASE j \in 1 .. m
      <4>1. places[i] < places[j]
        BY <1>2, <3>1, <3>3
      <4> QED
        BY <2>1, <3>1, <3>3, <4>1
    <3> QED
      BY <3>1, <3>2, <3>3
  <2>3. {more[i] : i \in 1 .. (m + 1)} = {i \in 1 .. (n + 1) : s[i] # x}
    <3>1. {more[i] : i \in 1 .. (m + 1)} = {places[i] : i \in 1 .. m} \cup {n + 1}
      <4>1. 1 .. (m + 1) = (1 .. m) \cup {m + 1}
        OBVIOUS
      <4>2. \A i \in 1 .. m : more[i] = places[i]
        BY <2>1
      <4> QED
        BY <2>1, <4>1, <4>2
    <3>2. {i \in 1 .. (n + 1) : s[i] # x} = {i \in 1 .. n : s[i] # x} \cup {n + 1}
      <4>1. 1 .. (n + 1) = (1 .. n) \cup {n + 1}
        OBVIOUS
      <4> QED
        BY <1>4, <4>1
    <3> QED
      BY <1>2, <3>1, <3>2
  <2>4. Append(k, s[n + 1]) = [i \in 1 .. (m + 1) |-> s[more[i]]]
    <3>1. k \in Seq(Elements) /\ Len(k) = m /\ n + 1 \in 1 .. Len(s)
      <4>1. n \in 0 .. Len(s) /\ Len(s) \in Nat
        BY LenProperties
      <4> QED
        BY <1>2, <4>1, KeepsType
    <3>2. s[n + 1] \in Elements
      BY <3>1, ElementOfSeq
    <3>3. Append(k, s[n + 1]) = [i \in 1 .. (m + 1) |-> Append(k, s[n + 1])[i]]
      BY <3>1, <3>2, AppendIs
    <3>4. ASSUME NEW i \in 1 .. (m + 1) PROVE Append(k, s[n + 1])[i] = s[more[i]]
      <4>1. CASE i = m + 1
        BY <2>1, <3>1, <3>2, <4>1, AppendProperties
      <4>2. CASE i # m + 1
        <5>1. i \in 1 .. m
          BY <4>2
        <5>2. Append(k, s[n + 1])[i] = k[i]
          BY <3>1, <3>2, <5>1, AppendProperties
        <5> QED
          BY <1>2, <2>1, <5>1, <5>2
      <4> QED
        BY <4>1, <4>2
    <3> QED
      BY <3>3, <3>4
  <2> QED
    BY <1>4, <2>1, <2>2, <2>3, <2>4 DEF Keeps
<1> QED
  BY <1>3, <1>4

LEMMA KeptIs ==
  ASSUME NEW s \in Seq(Elements), NEW x
  PROVE  Keeps(s, x, Len(s), Kept(s, x))
<1> DEFINE N == Len(s)
           After == CHOOSE After : After =
             [n \in 0 .. Len(s) |->
                IF n = 0 THEN <<>>
                ELSE IF s[n] = x THEN After[n - 1] ELSE Append(After[n - 1], s[n])]
           D == [k \in Seq(Elements) |-> [n \in 1 .. N |-> IF s[n] = x THEN k ELSE Append(k, s[n])]]
<1>1. N \in Nat /\ <<>> \in Seq(Elements) /\ \A n \in 1 .. N : s[n] \in Elements
  BY EmptySeq, LenProperties, ElementOfSeq
<1>2. D \in [Seq(Elements) -> [1 .. N -> Seq(Elements)]]
  <2>1. ASSUME NEW k \in Seq(Elements), NEW n \in 1 .. N
        PROVE  (IF s[n] = x THEN k ELSE Append(k, s[n])) \in Seq(Elements)
    BY <1>1, AppendProperties
  <2> QED
    BY <2>1
<1>3. PICK f \in [0 .. N -> Seq(Elements)] :
        f[0] = <<>> /\ \A n \in 1 .. N : f[n] = D[f[n - 1]][n]
  <2> HIDE DEF D, N
  <2>1. PICK f : Iterates(f, Seq(Elements), <<>>, N, D)
    BY <1>1, <1>2, Recursion
  <2> QED
    BY <2>1 DEF Iterates
<1>4. f = [n \in 0 .. Len(s) |->
             IF n = 0 THEN <<>>
             ELSE IF s[n] = x THEN f[n - 1] ELSE Append(f[n - 1], s[n])]
  <2>1. ASSUME NEW n \in 1 .. N
        PROVE  f[n] = IF s[n] = x THEN f[n - 1] ELSE Append(f[n - 1], s[n])
    <3>1. n - 1 \in 0 .. N
      OBVIOUS
    <3> QED
      BY <1>3, <3>1
  <2>2. \A n \in 0 .. N : n = 0 \/ n \in 1 .. N
    BY <1>1
  <2> QED
    BY <1>3, <2>1, <2>2
<1>5. After = [n \in 0 .. Len(s) |->
                 IF n = 0 THEN <<>>
                 ELSE IF s[n] = x THEN After[n - 1] ELSE Append(After[n - 1], s[n])]
  BY <1>4
<1>6. Kept(s, x) = After[N]
  BY DEF Kept
<1> HIDE DEF After, N
<1>7. After[0] = <<>> /\ \A n \in 1 .. N : After[n] = IF s[n] = x THEN After[n - 1]
                                                    ELSE Append(After[n - 1], s[n])
  <2>1. 0 \in 0 .. Len(s) /\ \A n \in 1 .. N : n \in 0 .. Len(s) /\ n # 0
    BY <1>1 DEF N
  <2>2. After[0] = <<>>
    BY ONLY <1>5, <2>1, Zenon
  <2>3. ASSUME NEW n \in 1 .. N
        PROVE  After[n] = IF s[n] = x THEN After[n - 1] ELSE Append(After[n - 1], s[n])
    BY ONLY <1>5, <2>1, n \in 1 .. N, Zenon
  <2> QED
    BY <2>2, <2>3
<1> DEFINE T == {n \in 0 .. N : ~ Keeps(s, x, n, After[n])}
<1>8. SUFFICES ASSUME T # {} PROVE FALSE
  <2>1. T = {} => Keeps(s, x, N, After[N])
    BY <1>1
  <2> QED
    BY <1>6, <2>1 DEF N
<1>9. PICK n \in T : \A k \in T : n <= k
  BY <1>8, LeastOf, T \subseteq Nat
<1>10. n # 0
  <2>1. Keeps(s, x, 0, <<>>)
    <3> DEFINE none == [i \in 1 .. 0 |-> 0]
    <3>1. 0 \in 0 .. 0 /\ none \in [1 .. 0 -> 1 .. 0]
      OBVIOUS
    <3>2. /\ \A i, j \in 1 .. 0 : i < j => none[i] < none[j]
          /\ {none[i] : i \in 1 .. 0} = {i \in 1 .. 0 : s[i] # x}
          /\ <<>> = [i \in 1 .. 0 |-> s[none[i]]]
      OBVIOUS
    <3> HIDE DEF none
    <3> QED
      BY <3>1, <3>2 DEF Keeps
  <2> QED
    BY <1>7, <2>1
<1>11. /\ n - 1 \in 0 .. (N - 1) /\ n - 1 \in 0 .. N /\ n - 1 \notin T
       /\ n \in 1 .. N /\ (n - 1) + 1 = n
  BY <1>1, <1>9, <1>10
<1>12. Keeps(s, x, n - 1, After[n - 1])
  BY <1>11, Zenon
<1>13. Keeps(s, x, (n - 1) + 1, IF s[(n - 1) + 1] = x THEN After[n - 1]
                                ELSE Append(After[n - 1], s[(n - 1) + 1]))
  BY <1>11, <1>12, KeepsMore DEF N
<1>14. Keeps(s, x, n, After[n])
  BY <1>7, <1>11, <1>13
<1> QED
  BY <1>9, <1>14

(* Doubling whenever it is full, the new array always has room. *)
LEMMA SpaceAfterIs ==
  \A n \in 0 .. MaxLength : SpaceAfter[n] \in Nat /\ SpaceAfter[n] > 0 /\ n <= SpaceAfter[n]
<1> USE RingQueueAssumption
<1> DEFINE D == [r \in Nat |-> [n \in 1 .. MaxLength |-> IF n > r THEN 2 * r ELSE r]]
<1>1. PICK f \in [0 .. MaxLength -> Nat] :
        f[0] = InitialSpace /\ \A n \in 1 .. MaxLength : f[n] = D[f[n - 1]][n]
  <2>1. D \in [Nat -> [1 .. MaxLength -> Nat]] /\ InitialSpace \in Nat /\ MaxLength \in Nat
    OBVIOUS
  <2> HIDE DEF D
  <2>2. PICK f : Iterates(f, Nat, InitialSpace, MaxLength, D)
    BY <2>1, Recursion
  <2> QED
    BY <2>2 DEF Iterates
<1>2. f = [n \in 0 .. MaxLength |->
             IF n = 0 THEN InitialSpace
             ELSE IF n > f[n - 1] THEN 2 * f[n - 1] ELSE f[n - 1]]
  <2>1. ASSUME NEW n \in 1 .. MaxLength
        PROVE  f[n] = IF n > f[n - 1] THEN 2 * f[n - 1] ELSE f[n - 1]
    <3>1. n - 1 \in 0 .. MaxLength
      OBVIOUS
    <3> QED
      BY <1>1, <3>1
  <2>2. \A n \in 0 .. MaxLength : n = 0 \/ n \in 1 .. MaxLength
    OBVIOUS
  <2> QED
    BY <1>1, <2>1, <2>2
<1>3. SpaceAfter = [n \in 0 .. MaxLength |->
             IF n = 0 THEN InitialSpace
             ELSE IF n > SpaceAfter[n - 1] THEN 2 * SpaceAfter[n - 1] ELSE SpaceAfter[n - 1]]
  BY <1>2 DEF SpaceAfter
<1>4. /\ SpaceAfter[0] = InitialSpace
      /\ \A n \in 1 .. MaxLength :
           SpaceAfter[n] = IF n > SpaceAfter[n - 1] THEN 2 * SpaceAfter[n - 1] ELSE SpaceAfter[n - 1]
  <2> HIDE DEF D
  <2>1. 0 \in 0 .. MaxLength
    OBVIOUS
  <2>2. SpaceAfter[0] = InitialSpace
    BY <1>3, <2>1, Zenon
  <2>3. ASSUME NEW n \in 1 .. MaxLength
        PROVE  SpaceAfter[n] = IF n > SpaceAfter[n - 1] THEN 2 * SpaceAfter[n - 1] ELSE SpaceAfter[n - 1]
    <3>1. n \in 0 .. MaxLength /\ n # 0
      OBVIOUS
    <3>2. SpaceAfter[n] = IF n = 0 THEN InitialSpace
            ELSE IF n > SpaceAfter[n - 1] THEN 2 * SpaceAfter[n - 1] ELSE SpaceAfter[n - 1]
      BY <1>3, <3>1, Zenon
    <3> QED
      BY <3>1, <3>2, Zenon
  <2> QED
    BY <2>2, <2>3
<1> DEFINE Roomy(n) == SpaceAfter[n] \in Nat /\ SpaceAfter[n] > 0 /\ n <= SpaceAfter[n]
           T == {n \in 0 .. MaxLength : ~ Roomy(n)}
<1>5. SUFFICES ASSUME T # {} PROVE FALSE
  OBVIOUS
<1>6. PICK n \in T : \A k \in T : n <= k
  BY <1>5, LeastOf, T \subseteq Nat
<1>7. n # 0
  BY <1>4
<1>8. n - 1 \in 0 .. MaxLength /\ n - 1 \notin T /\ n \in 1 .. MaxLength
  BY <1>6, <1>7
<1>9. Roomy(n - 1)
  BY <1>8
<1>10. SpaceAfter[n] = IF n > SpaceAfter[n - 1] THEN 2 * SpaceAfter[n - 1] ELSE SpaceAfter[n - 1]
  BY <1>4, <1>8
<1>11. Roomy(n)
  BY <1>8, <1>9, <1>10
<1> QED
  BY <1>6, <1>11

LEMMA Filter_Ring == ASSUME RingInv, NEW x \in Elements, Filter(x) PROVE RingInv' /\ Fifo!Filter(x)
<1> USE RingQueueAssumption
<1> DEFINE kept == Kept(Contents, x)
           N == Len(kept)
           room == SpaceAfter[N]
<1>1. /\ space' = room /\ length' = N /\ tail' = 0 /\ head' = N % room /\ result' = result
      /\ elements' = [i \in 0 .. (room - 1) |-> IF i < N THEN kept[i + 1] ELSE Unset]
  BY DEF Filter
<1>2. Keeps(Contents, x, length, kept)
  BY ContentsType, KeptIs
<1>3. length \in 0 .. MaxLength /\ length \in 0 .. Len(Contents)
  BY ContentsType DEF RingInv, RingTypeOK
<1> HIDE DEF kept
<1>4. kept \in Seq(Elements) /\ N \in 0 .. length /\ kept = [i \in 1 .. N |-> kept[i]]
  BY <1>2, <1>3, ContentsType, KeepsType
<1> HIDE DEF N
<1>5. room \in Nat /\ room > 0 /\ N <= room /\ N \in Nat
  BY <1>3, <1>4, SpaceAfterIs
<1> HIDE DEF room
<1>6. \A i \in 1 .. N : kept[i] \in Elements
  BY <1>4, ElementOfSeq DEF N
<1>7. elements' \in [0 .. (room - 1) -> Elements \cup {Unset}]
  <2>1. \A i \in 0 .. (room - 1) : i < N => kept[i + 1] \in Elements
    BY <1>5, <1>6
  <2> QED
    BY <1>1, <2>1
<1>8. N % room \in 0 .. (room - 1) /\ 0 \in 0 .. (room - 1)
  BY <1>5
<1>9. RingTypeOK'
  BY <1>1, <1>3, <1>4, <1>5, <1>7, <1>8 DEF RingTypeOK, RingInv
<1>10. IndexInv'
  BY <1>1, <1>5 DEF IndexInv
<1>11. Contents' = kept
  <2>1. Contents' = [i \in 1 .. N |-> elements'[((i - 1) + 0) % room]]
    BY <1>1 DEF Contents, Slot
  <2>2. ASSUME NEW i \in 1 .. N PROVE elements'[((i - 1) + 0) % room] = kept[i]
    <3>1. (i - 1) + 0 = i - 1 /\ i - 1 \in 0 .. (room - 1) /\ i - 1 < N /\ (i - 1) + 1 = i
      BY <1>5
    <3>2. (i - 1) % room = i - 1
      BY <1>5, <3>1
    <3> QED
      BY <1>1, <3>1, <3>2
  <2> QED
    BY <1>4, <2>1, <2>2
<1>12. Filled'
  BY <1>1, <1>4, <1>5, <1>11, FilledFrom DEF N
<1>13. Fifo!Filter(x)
  <2>1. Keeps(Contents, x, Len(Contents), Contents') /\ DOMAIN Contents = 1 .. Len(Contents)
    BY <1>2, <1>11, ContentsType
  <2>2. PICK n \in 0 .. Len(Contents) : \E places \in [1 .. n -> 1 .. Len(Contents)] :
          /\ \A i, j \in 1 .. n : i < j => places[i] < places[j]
          /\ {places[i] : i \in 1 .. n} = {i \in 1 .. Len(Contents) : Contents[i] # x}
          /\ Contents' = [i \in 1 .. n |-> Contents[places[i]]]
    BY <2>1, Zenon DEF Keeps
  <2> QED
    BY <1>1, <2>1, <2>2, Zenon DEF Fifo!Filter
<1> QED
  BY <1>9, <1>10, <1>12, <1>13 DEF RingInv

-----------------------------------------------------------------------------
(* queue_shuffle *)

Arrays == [0 .. (space - 1) -> Elements \cup {Unset}]

(* The slots in use of array a hold the queue's elements in another order. *)
Reordered(a, f) ==
  /\ \A m, n \in 1 .. length : f[m] = f[n] => m = n
  /\ \A m \in 1 .. length : a[Slot(m - 1)] = Contents[f[m]]

LEMMA SwappedIs ==
  ASSUME RingInv, NEW a \in Arrays, NEW i \in 0 .. (length - 1), NEW j \in 0 .. (length - 1), i # j
  PROVE  /\ Swapped(a, i, j) \in Arrays
         /\ \A k \in 0 .. (length - 1) : Swapped(a, i, j)[Slot(k)] =
              IF k = i THEN a[Slot(j)] ELSE IF k = j THEN a[Slot(i)] ELSE a[Slot(k)]
<1>1. space \in Nat /\ space > 0 /\ length \in Nat /\ length <= space
  BY RingQueueAssumption DEF RingInv, RingTypeOK, IndexInv
<1>2. \A k \in 0 .. (length - 1) : k \in 0 .. (space - 1) /\ k \in 0 .. space
  BY <1>1
<1>3. \A k \in 0 .. (length - 1) : Slot(k) \in 0 .. (space - 1)
  BY <1>2, SlotIs
<1>4. Swapped(a, i, j) \in Arrays
  BY <1>3 DEF Swapped, Arrays
<1>5. ASSUME NEW k \in 0 .. (length - 1)
      PROVE  Swapped(a, i, j)[Slot(k)] =
               IF k = i THEN a[Slot(j)] ELSE IF k = j THEN a[Slot(i)] ELSE a[Slot(k)]
  <2>1. (Slot(k) = Slot(i) <=> k = i) /\ (Slot(k) = Slot(j) <=> k = j) /\ Slot(i) # Slot(j)
    BY <1>2, SlotInjective
  <2> QED
    BY <1>3, <2>1 DEF Swapped, Arrays
<1> QED
  BY <1>4, <1>5

LEMMA SwappedReordered ==
  ASSUME RingInv, NEW a \in Arrays, NEW f \in [1 .. length -> 1 .. length], Reordered(a, f),
         NEW i \in 0 .. (length - 1), NEW j \in 0 .. (length - 1), i # j
  PROVE  \E g \in [1 .. length -> 1 .. length] : Reordered(Swapped(a, i, j), g)
<1> DEFINE g == [m \in 1 .. length |->
                   IF m = i + 1 THEN f[j + 1] ELSE IF m = j + 1 THEN f[i + 1] ELSE f[m]]
<1>1. length \in Nat
  BY RingQueueAssumption DEF RingInv, RingTypeOK
<1>2. i + 1 \in 1 .. length /\ j + 1 \in 1 .. length /\ i + 1 # j + 1
      /\ (i + 1) - 1 = i /\ (j + 1) - 1 = j
  BY <1>1
<1>3. g \in [1 .. length -> 1 .. length]
  BY <1>2
<1>4. \A m \in 1 .. length :
        g[m] = IF m = i + 1 THEN f[j + 1] ELSE IF m = j + 1 THEN f[i + 1] ELSE f[m]
  OBVIOUS
<1> HIDE DEF g
<1>5. \A m, n \in 1 .. length : g[m] = g[n] => m = n
  BY <1>2, <1>4 DEF Reordered
<1>6. ASSUME NEW m \in 1 .. length PROVE Swapped(a, i, j)[Slot(m - 1)] = Contents[g[m]]
  <2>1. m - 1 \in 0 .. (length - 1) /\ (m - 1 = i <=> m = i + 1) /\ (m - 1 = j <=> m = j + 1)
    BY <1>1
  <2>2. Swapped(a, i, j)[Slot(m - 1)] =
          IF m = i + 1 THEN a[Slot(j)] ELSE IF m = j + 1 THEN a[Slot(i)] ELSE a[Slot(m - 1)]
    BY <2>1, SwappedIs
  <2>3. a[Slot(m - 1)] = Contents[f[m]] /\ a[Slot(i)] = Contents[f[i + 1]]
        /\ a[Slot(j)] = Contents[f[j + 1]]
    BY <1>2 DEF Reordered
  <2> QED
    BY <1>4, <2>2, <2>3
<1> QED
  BY <1>3, <1>5, <1>6 DEF Reordered

(* The loop's arrays, from the last step to the first. *)
LEMMA ShufflesAre ==
  ASSUME RingInv, Shuffle
  PROVE  elements' \in Arrays /\ \E f \in [1 .. length -> 1 .. length] : Reordered(elements', f)
<1> USE RingQueueAssumption
<1> DEFINE Step(i, S) ==
             IF i >= length THEN {elements}
             ELSE UNION {{Swapped(a, i, j) : j \in 0 .. (i - 1)} : a \in S}
           D == [S \in SUBSET Arrays |-> [k \in 1 .. length |-> Step(length + 1 - k, S)]]
           Shuffles == CHOOSE Shuffles : Shuffles =
             [i \in 1 .. (length + 1) |->
                IF i >= length THEN {elements}
                ELSE UNION {{Swapped(a, i, j) : j \in 0 .. (i - 1)} : a \in Shuffles[i + 1]}]
<1>1. length \in Nat /\ elements \in Arrays
  BY DEF RingInv, RingTypeOK, Arrays
<1>2. ASSUME NEW S \in SUBSET Arrays, NEW i \in 1 .. (length + 1)
      PROVE  Step(i, S) \in SUBSET Arrays
  <2>1. CASE i >= length
    BY <1>1, <2>1
  <2>2. CASE ~ (i >= length)
    <3>1. \A a \in S, j \in 0 .. (i - 1) : Swapped(a, i, j) \in Arrays
      <4> TAKE a \in S, j \in 0 .. (i - 1)
      <4>1. i \in 0 .. (length - 1) /\ j \in 0 .. (length - 1) /\ i # j /\ a \in Arrays
        BY <1>1, <2>2
      <4> QED
        BY <4>1, SwappedIs
    <3> QED
      BY <2>2, <3>1
  <2> QED
    BY <2>1, <2>2
<1> HIDE DEF Step
<1>3. D \in [SUBSET Arrays -> [1 .. length -> SUBSET Arrays]]
  <2>1. \A k \in 1 .. length : length + 1 - k \in 1 .. (length + 1)
    BY <1>1
  <2> QED
    BY <1>2, <2>1
<1>4. PICK f \in [0 .. length -> SUBSET Arrays] :
        f[0] = {elements} /\ \A k \in 1 .. length : f[k] = D[f[k - 1]][k]
  <2>1. length \in Nat /\ {elements} \in SUBSET Arrays
    BY <1>1
  <2> HIDE DEF D
  <2>2. PICK f : Iterates(f, SUBSET Arrays, {elements}, length, D)
    BY <1>3, <2>1, Recursion
  <2> QED
    BY <2>2 DEF Iterates
<1> DEFINE g == [i \in 1 .. (length + 1) |-> f[length + 1 - i]]
<1>5. \A i \in 1 .. (length + 1) :
        g[i] = IF i >= length THEN {elements}
               ELSE UNION {{Swapped(a, i, j) : j \in 0 .. (i - 1)} : a \in g[i + 1]}
  <2> TAKE i \in 1 .. (length + 1)
  <2>1. CASE i = length + 1
    BY <1>1, <1>4, <2>1
  <2>2. CASE i # length + 1
    <3>1. /\ length + 1 - i \in 1 .. length /\ length + 1 - (length + 1 - i) = i
          /\ length + 1 - (i + 1) = (length + 1 - i) - 1 /\ i + 1 \in 1 .. (length + 1)
          /\ (length + 1 - i) - 1 \in 0 .. length
      BY <1>1, <2>2
    <3>2. g[i] = Step(i, g[i + 1])
      BY <1>4, <3>1
    <3> QED
      BY <3>2 DEF Step
  <2> QED
    BY <2>1, <2>2
<1>6. g = [i \in 1 .. (length + 1) |->
             IF i >= length THEN {elements}
             ELSE UNION {{Swapped(a, i, j) : j \in 0 .. (i - 1)} : a \in g[i + 1]}]
  <2> DEFINE h == [i \in 1 .. (length + 1) |->
                     IF i >= length THEN {elements}
                     ELSE UNION {{Swapped(a, i, j) : j \in 0 .. (i - 1)} : a \in g[i + 1]}]
  <2>1. \A i \in 1 .. (length + 1) : g[i] = h[i]
    BY <1>5
  <2>2. DOMAIN g = 1 .. (length + 1) /\ g = [i \in 1 .. (length + 1) |-> g[i]]
    OBVIOUS
  <2> HIDE DEF g
  <2> QED
    BY <2>1, <2>2
<1> HIDE DEF g
<1>7. Shuffles = [i \in 1 .. (length + 1) |->
                    IF i >= length THEN {elements}
                    ELSE UNION {{Swapped(a, i, j) : j \in 0 .. (i - 1)} : a \in Shuffles[i + 1]}]
  BY <1>6
<1>8. elements' \in Shuffles[1]
  BY DEF Shuffle
<1> HIDE DEF Shuffles
<1> DEFINE Good(i) == \A a \in Shuffles[i] :
             a \in Arrays /\ \E h \in [1 .. length -> 1 .. length] : Reordered(a, h)
           T == {k \in 0 .. length : ~ Good(length + 1 - k)}
<1>9. SUFFICES ASSUME T # {} PROVE FALSE
  <2>1. length \in 0 .. length /\ length + 1 - length = 1
    BY <1>1
  <2>2. T = {} => Good(1)
    BY <2>1
  <2> QED
    BY <1>8, <2>2
<1>10. PICK k \in T : \A q \in T : k <= q
  BY <1>1, <1>9, LeastOf, T \subseteq Nat
<1> DEFINE i == length + 1 - k
<1>11. i \in 1 .. (length + 1)
  BY <1>1, <1>10
<1>12. CASE i >= length
  <2>1. Shuffles[i] = {elements}
    BY <1>7, <1>11, <1>12
  <2>2. Reordered(elements, [m \in 1 .. length |-> m])
    BY ContentsType DEF Reordered
  <2> HIDE DEF i
  <2>3. Good(i)
    BY <1>1, <2>1, <2>2
  <2> QED
    BY <1>10, <2>3 DEF i
<1>13. CASE ~ (i >= length)
  <2>1. /\ k - 1 \in 0 .. length /\ k - 1 \notin T /\ length + 1 - (k - 1) = i + 1
        /\ i + 1 \in 1 .. (length + 1) /\ i \in 0 .. (length - 1)
    BY <1>1, <1>10, <1>13
  <2>2. Good(i + 1)
    BY <2>1
  <2> HIDE DEF i
  <2>3. Shuffles[i] = UNION {{Swapped(a, i, j) : j \in 0 .. (i - 1)} : a \in Shuffles[i + 1]}
    BY <1>7, <1>11, <1>13
  <2>4. ASSUME NEW b \in Shuffles[i]
        PROVE  b \in Arrays /\ \E h \in [1 .. length -> 1 .. length] : Reordered(b, h)
    <3>1. PICK a \in Shuffles[i + 1] : \E j \in 0 .. (i - 1) : b = Swapped(a, i, j)
      BY <2>3
    <3>2. PICK j \in 0 .. (i - 1) : b = Swapped(a, i, j)
      BY <3>1
    <3>3. a \in Arrays /\ \E h \in [1 .. length -> 1 .. length] : Reordered(a, h)
      BY <2>2
    <3>4. j \in 0 .. (length - 1) /\ i # j
      BY <1>1, <2>1
    <3> QED
      BY <2>1, <3>2, <3>3, <3>4, SwappedIs, SwappedReordered
  <2>5. Good(i)
    BY <2>4
  <2> QED
    BY <1>10, <2>5 DEF i
<1> QED
  BY <1>12, <1>13

LEMMA Shuffle_Ring == ASSUME RingInv, Shuffle PROVE RingInv' /\ Fifo!Shuffle
<1> USE RingQueueAssumption
<1>1. UNCHANGED <<length, space, head, tail, result>>
  BY DEF Shuffle
<1>2. elements' \in Arrays /\ \E f \in [1 .. length -> 1 .. length] : Reordered(elements', f)
  BY ShufflesAre
<1>3. PICK f \in [1 .. length -> 1 .. length] : Reordered(elements', f)
  BY <1>2
<1>4. RingTypeOK' /\ IndexInv'
  BY <1>1, <1>2 DEF RingInv, RingTypeOK, IndexInv, Arrays
<1>5. Contents' = [i \in 1 .. length |-> Contents[f[i]]]
  <2>1. Contents' = [i \in 1 .. length |-> elements'[Slot(i - 1)]]
    BY <1>1 DEF Contents, Slot
  <2> QED
    BY <1>3, <2>1 DEF Reordered
<1>6. Contents' \in [1 .. length -> Elements]
  BY <1>5, ContentsType, ElementOfSeq
<1>7. length \in Nat
  BY DEF RingInv, RingTypeOK
<1>8. Contents' \in Seq(Elements) /\ Len(Contents') = length
  BY <1>6, <1>7
<1>9. RingInv'
  BY <1>1, <1>4, <1>7, <1>8, FilledFrom DEF RingInv
<1>10. Fifo!Permutes(Contents, Contents')
  <2>1. DOMAIN Contents = 1 .. length /\ \A i, j \in 1 .. length : f[i] = f[j] => i = j
    BY <1>3, ContentsType DEF Reordered
  <2> QED
    BY ONLY <1>5, <2>1, f \in [1 .. length -> 1 .. length], Zenon DEF Fifo!Permutes
<1> QED
  BY <1>1, <1>6, <1>9, <1>10, ContentsType DEF Fifo!Shuffle

-----------------------------------------------------------------------------
LEMMA RingNext_Inv ==
  ASSUME RingInv, [RingNext]_ringVars
  PROVE  RingInv' /\ [Fifo!Next]_<<Contents, result>>
<1> USE RingQueueAssumption
<1>1. ASSUME NEW x \in Elements, Push(x) PROVE RingInv' /\ Fifo!Next
  <2>1. RingInv' /\ Fifo!Push(x)
    BY <1>1, Push_Room, Push_Full
  <2> QED
    BY <2>1 DEF Fifo!Next
<1>2. ASSUME NEW x \in Elements, QueueRemove(x) PROVE RingInv' /\ Fifo!Next
  <2>1. RingInv' /\ Fifo!Remove(x)
    BY <1>2, QueueRemove_Ring
  <2> QED
    BY <2>1 DEF Fifo!Next
<1>3. ASSUME NEW x \in Elements, Filter(x) PROVE RingInv' /\ Fifo!Next
  <2>1. RingInv' /\ Fifo!Filter(x)
    BY <1>3, Filter_Ring
  <2> QED
    BY <2>1 DEF Fifo!Next
<1>4. \A i \in 0 .. (MaxLength - 1) : i + 1 \in 1 .. MaxLength
  OBVIOUS
<1>5. ASSUME NEW x \in Elements, NEW i \in 0 .. (MaxLength - 1), Set(x, i)
      PROVE  RingInv' /\ Fifo!Next
  <2>1. RingInv' /\ Fifo!Set(x, i + 1)
    BY <1>5, Set_Ring
  <2> QED
    BY <1>4, <2>1 DEF Fifo!Next
<1>6. ASSUME NEW i \in 0 .. (MaxLength - 1), Get(i) PROVE RingInv' /\ Fifo!Next
  <2>1. RingInv' /\ Fifo!Get(i + 1)
    BY <1>6, Get_Ring
  <2> QED
    BY <1>4, <2>1 DEF Fifo!Next
<1>7. CASE Pop
  BY <1>7, Pop_Ring DEF Fifo!Next
<1>8. CASE SPop
  BY <1>8, SPop_Ring DEF Fifo!Next
<1>9. CASE SPeek
  BY <1>9, SPeek_Ring DEF Fifo!Next
<1>10. CASE Shuffle
  BY <1>10, Shuffle_Ring DEF Fifo!Next
<1>11. CASE UNCHANGED ringVars
  <2>1. result \in Elements /\ result' = result /\ UNCHANGED <<elements, length, space, head, tail>>
    BY <1>11 DEF ringVars, RingInv, RingTypeOK
  <2>2. RingInv' /\ Contents' = Contents
    BY <2>1, Same_Contents
  <2> QED
    BY <2>1, <2>2
<1> QED
  BY <1>1, <1>2, <1>3, <1>5, <1>6, <1>7, <1>8, <1>9, <1>10, <1>11 DEF RingNext

(* The fields of queue_t fit together, and what is in use is filled, after *)
(* any sequence of calls of utility/Queue/Queue.c.                         *)
THEOREM RingInvariant == RingSpec => []RingInv
<1>1. RingInit => RingInv
  BY Init_Ring
<1>2. RingInv /\ [RingNext]_ringVars => RingInv'
  BY RingNext_Inv
<1> QED
  BY <1>1, <1>2, PTL DEF RingSpec

(* No call indexes outside of the array, whatever the sizes: queue_push,   *)
(* queue_pop, queue_spop, queue_remove, queue_filter, queue_shuffle.       *)
THEOREM RingTypes == RingSpec => []RingTypeOK
<1>1. RingInv => RingTypeOK
  BY DEF RingInv
<1> QED
  BY <1>1, RingInvariant, PTL

(* length, head and tail agree, full and empty queues included: queue_pop  *)
(* and queue_remove move the one, queue_push and queue_spop the other.     *)
THEOREM IndexAgrees == RingSpec => []IndexInv
<1>1. RingInv => IndexInv
  BY DEF RingInv
<1> QED
  BY <1>1, RingInvariant, PTL

(* Queue.c is the queue of Queue.h: each call of the array version does to *)
(* the sequence what the interface says, for every length and initial      *)
(* space.                                                                  *)
THEOREM RingImplementsFifo == RingSpec => ImplementsFifo
<1>1. RingInit => RingInv /\ Fifo!Init
  BY Init_Ring
<1>2. RingInv /\ [RingNext]_ringVars => RingInv' /\ [Fifo!Next]_<<Contents, result>>
  BY RingNext_Inv
<1> QED
  BY <1>1, <1>2, PTL DEF RingSpec, ImplementsFifo, Fifo!Spec
=============================================================================
