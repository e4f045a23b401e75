------------------------------- MODULE RingQueue -------------------------------
(***************************************************************************)
(* utility/Queue/Queue.c: a queue in a circular array that doubles when it *)
(* is full.  It is the container of every list of the program: AsyncQueue  *)
(* wraps it in a lock, and folders and file table entries are made of it.  *)
(***************************************************************************)
EXTENDS Integers, Sequences, FiniteSets

CONSTANTS
  Elements, NULL, MaxLength,   \* as in FifoQueue
  InitialSpace,                \* INITIAL_QUEUE_SPACE
  Unset                        \* what malloc left in a slot

ASSUME RingQueueAssumption ==
  /\ NULL \in Elements /\ Unset \notin Elements
  /\ MaxLength \in Nat
  /\ InitialSpace \in Nat \ {0}

VARIABLES elements, length, space, head, tail,
          result      \* what the last call returned

ringVars == <<elements, length, space, head, tail, result>>

(* The array slot of the queue's i-th element, from 0. *)
Slot(i) == (i + tail) % space

(* The slot before slot k. *)
Before(k) == (k - 1 + space) % space

(* The queue as a sequence: what queue_apply visits. *)
Contents == [i \in 1 .. length |-> elements[Slot(i - 1)]]

FreshArray(n) == [i \in 0 .. (n - 1) |-> Unset]

-----------------------------------------------------------------------------
(* queue_new *)
RingInit ==
  /\ elements = FreshArray(InitialSpace)
  /\ length = 0 /\ head = 0 /\ tail = 0
  /\ space = InitialSpace
  /\ result = NULL

(* The array queue_push copies to.  Mutant: it is copied slot by slot.     *)
DoubledInPlace ==
  [i \in 0 .. (2 * space - 1) |-> IF i < length THEN elements[i] ELSE Unset]
Doubled ==
  [i \in 0 .. (2 * space - 1) |->
     IF i < length THEN elements[(i + tail) % length] ELSE Unset]

Push(x) ==
  /\ length < MaxLength
  /\ IF length = space
       THEN /\ space' = 2 * space
            /\ elements' = [Doubled EXCEPT ![length] = x]
            /\ tail' = 0
            /\ head' = (length + 1) % space'
       ELSE /\ elements' = [elements EXCEPT ![head] = x]
            /\ head' = (head + 1) % space
            /\ UNCHANGED <<space, tail>>
  /\ length' = length + 1
  /\ UNCHANGED result

EmptyReturnsNull ==
  /\ length = 0
  /\ result' = NULL
  /\ UNCHANGED <<elements, length, space, head, tail>>

(* queue_pop *)
Pop ==
  \/ EmptyReturnsNull
  \/ /\ length > 0
     /\ result' = elements[tail]
     /\ tail' = (tail + 1) % space
     /\ length' = length - 1
     /\ UNCHANGED <<elements, space, head>>

(* queue_spop *)
SPop ==
  \/ EmptyReturnsNull
  \/ /\ length > 0
     /\ head' = Before(head)
     /\ result' = elements[head']
     /\ length' = length - 1
     /\ UNCHANGED <<elements, space, tail>>

(* queue_speek: queue_spop, then queue_push of what is not NULL. *)
SPeek ==
  \/ EmptyReturnsNull
  \/ /\ length > 0
     /\ LET top == Before(head) IN
          /\ result' = elements[top]
          /\ IF elements[top] = NULL
               THEN head' = top /\ length' = length - 1
               ELSE UNCHANGED <<head, length>>
     /\ UNCHANGED <<elements, space, tail>>

(* queue_get and queue_set do not check the index; every caller loops up   *)
(* to queue_length.                                                        *)
Get(i) ==
  /\ i < length
  /\ result' = elements[Slot(i)]
  /\ UNCHANGED <<elements, length, space, head, tail>>

Set(x, i) ==
  /\ i < length
  /\ elements' = [elements EXCEPT ![Slot(i)] = x]
  /\ UNCHANGED <<length, space, head, tail, result>>

(* queue_shuffle: for i from length - 1 down to 1, element i is swapped    *)
(* with one below it.  Shuffles[i] are the arrays after step i.            *)
Swapped(a, i, j) == [a EXCEPT ![Slot(i)] = a[Slot(j)], ![Slot(j)] = a[Slot(i)]]
Shuffle ==
  LET Shuffles[i \in 1 .. (length + 1)] ==
        IF i >= length THEN {elements}
        ELSE UNION {{Swapped(a, i, j) : j \in 0 .. (i - 1)} : a \in Shuffles[i + 1]}
  IN  elements' \in Shuffles[1]
  /\ UNCHANGED <<length, space, head, tail, result>>

(* queue_shiftleft(i) and queue_shiftright(i): the elements from i up to   *)
(* the end move one slot down; those from 0 to i move one slot up.         *)
ShiftedLeft(i) ==
  [k \in 0 .. (space - 1) |->
     IF \E j \in i .. (length - 1) : k = Before(Slot(j))
       THEN elements[(k + 1) % space] ELSE elements[k]]
ShiftedRight(i) ==
  [k \in 0 .. (space - 1) |->
     IF \E j \in 0 .. (length - 1) : j <= i /\ k = Slot(j + 1)
       THEN elements[Before(k)] ELSE elements[k]]

(* qsearchi, with the default comparison of words *)
Matches(x) == {i \in 0 .. (length - 1) : elements[Slot(i)] = x}
FirstMatch(x) == CHOOSE i \in Matches(x) : \A j \in Matches(x) : i <= j

(* queue_remove: the shorter side closes the gap.  Mutants: the tail       *)
(* stays; the head is not corrected when it goes below zero.               *)
ClosesGapUncorrected(i) ==
  IF i > length \div 2
    THEN elements' = ShiftedLeft(i + 1) /\ head' = head - 1 /\ UNCHANGED tail
    ELSE /\ elements' = IF i = 0 THEN elements ELSE ShiftedRight(i - 1)
         /\ tail' = (tail + 1) % space
         /\ UNCHANGED head
ClosesGapTailKept(i) ==
  /\ elements' = ShiftedLeft(i + 1)
  /\ head' = IF i > length \div 2 THEN Before(head) ELSE head
  /\ UNCHANGED tail

ClosesGap(i) ==
  IF i > length \div 2
    THEN /\ elements' = ShiftedLeft(i + 1)
         /\ head' = Before(head)
         /\ UNCHANGED tail
    ELSE /\ elements' = IF i = 0 THEN elements ELSE ShiftedRight(i - 1)
         /\ tail' = (tail + 1) % space
         /\ UNCHANGED head

QueueRemove(x) ==
  \/ /\ Matches(x) = {}
     /\ result' = NULL
     /\ UNCHANGED <<elements, length, space, head, tail>>
  \/ /\ Matches(x) # {}
     /\ result' = x
     /\ ClosesGap(FirstMatch(x))
     /\ length' = length - 1
     /\ UNCHANGED space

(* queue_filter as filetable_remove_peer uses it: the elements other than  *)
(* x are pushed on a new queue, which takes the place of the old one.      *)
(* Kept and SpaceAfter are its contents and its space after n of them.     *)
Kept(s, x) ==
  LET After[n \in 0 .. Len(s)] ==
        IF n = 0 THEN <<>>
        ELSE IF s[n] = x THEN After[n - 1] ELSE Append(After[n - 1], s[n])
  IN  After[Len(s)]

SpaceAfter[n \in 0 .. MaxLength] ==
  IF n = 0 THEN InitialSpace
  ELSE IF n > SpaceAfter[n - 1] THEN 2 * SpaceAfter[n - 1] ELSE SpaceAfter[n - 1]

Filter(x) ==
  LET kept == Kept(Contents, x)
      room == SpaceAfter[Len(kept)]
  IN  /\ space' = room
      /\ elements' = [i \in 0 .. (room - 1) |-> IF i < Len(kept) THEN kept[i + 1] ELSE Unset]
      /\ length' = Len(kept)
      /\ tail' = 0
      /\ head' = Len(kept) % room
      /\ UNCHANGED result

RingNext ==
  \/ \E x \in Elements :
       Push(x) \/ QueueRemove(x) \/ Filter(x) \/ \E i \in 0 .. (MaxLength - 1) : Set(x, i)
  \/ Pop
  \/ SPop
  \/ SPeek
  \/ \E i \in 0 .. (MaxLength - 1) : Get(i)
  \/ Shuffle

RingSpec == RingInit /\ [][RingNext]_ringVars

(***************************************************************************)
(* Properties                                                              *)
(***************************************************************************)

(* The fields stay within the array: no call indexes outside of it.        *)
RingTypeOK ==
  /\ space \in Nat \ {0}
  /\ elements \in [0 .. (space - 1) -> Elements \cup {Unset}]
  /\ length \in 0 .. MaxLength
  /\ head \in 0 .. (space - 1) /\ tail \in 0 .. (space - 1)
  /\ result \in Elements

(* length is what head and tail say, also when the queue is full or empty  *)
(* and the two are equal: the three are updated by five calls, each its    *)
(* own way.                                                                *)
IndexInv == length <= space /\ head = (tail + length) % space

(* Every call does to Contents, and returns, what FifoQueue promises.      *)
Fifo == INSTANCE FifoQueue WITH queue <- Contents
ImplementsFifo == Fifo!Spec
=============================================================================
