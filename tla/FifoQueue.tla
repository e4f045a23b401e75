------------------------------- MODULE FifoQueue -------------------------------
(***************************************************************************)
(* What the comments of utility/Queue/Queue.h promise of a queue: a        *)
(* sequence, pushed at the end, popped at either end.  `result' is what    *)
(* the last call returned.  The elements are words, NULL among them: the   *)
(* work queue of a file table entry holds chunk number 0.                  *)
(***************************************************************************)
EXTENDS Naturals, Sequences

CONSTANTS
  Elements,     \* the words that are pushed
  NULL,         \* what pop returns of an empty queue
  MaxLength     \* bound: calls that would make the queue longer are not made

VARIABLES queue, result

(* queue without its i-th element *)
Without(i) == [j \in 1 .. (Len(queue) - 1) |-> IF j < i THEN queue[j] ELSE queue[j + 1]]

(* The first occurrence of x. *)
FirstAt(x) ==
  CHOOSE i \in DOMAIN queue : queue[i] = x /\ \A j \in 1 .. (i - 1) : queue[j] # x

Permutes(s, t) ==
  \E f \in [DOMAIN s -> DOMAIN s] :
    /\ \A i, j \in DOMAIN s : f[i] = f[j] => i = j
    /\ t = [i \in DOMAIN s |-> s[f[i]]]

-----------------------------------------------------------------------------
Init == queue = <<>> /\ result = NULL

Push(x) ==
  /\ Len(queue) < MaxLength
  /\ queue' = Append(queue, x)
  /\ UNCHANGED result

Pop ==
  IF queue = <<>>
    THEN result' = NULL /\ UNCHANGED queue
    ELSE result' = Head(queue) /\ queue' = Tail(queue)

SPop ==
  IF queue = <<>>
    THEN result' = NULL /\ UNCHANGED queue
    ELSE result' = queue[Len(queue)] /\ queue' = Without(Len(queue))

(* A NULL at the end is not told from an empty queue, and is lost.         *)
SPeek ==
  IF queue = <<>> \/ queue[Len(queue)] = NULL
    THEN SPop
    ELSE result' = queue[Len(queue)] /\ UNCHANGED queue

Get(i) ==
  /\ i \in DOMAIN queue
  /\ result' = queue[i]
  /\ UNCHANGED queue

Set(x, i) ==
  /\ i \in DOMAIN queue
  /\ queue' = [queue EXCEPT ![i] = x]
  /\ UNCHANGED result

Remove(x) ==
  IF \A i \in DOMAIN queue : queue[i] # x
    THEN result' = NULL /\ UNCHANGED queue
    ELSE result' = x /\ queue' = Without(FirstAt(x))

(* What is not x stays, in order. *)
Filter(x) ==
  /\ \E n \in 0 .. Len(queue) : \E places \in [1 .. n -> DOMAIN queue] :
       /\ \A i, j \in 1 .. n : i < j => places[i] < places[j]
       /\ {places[i] : i \in 1 .. n} = {i \in DOMAIN queue : queue[i] # x}
       /\ queue' = [i \in 1 .. n |-> queue[places[i]]]
  /\ UNCHANGED result

Shuffle ==
  /\ \E t \in [DOMAIN queue -> Elements] : Permutes(queue, t) /\ queue' = t
  /\ UNCHANGED result

Next ==
  \/ \E x \in Elements : Push(x) \/ Remove(x) \/ \E i \in 1 .. MaxLength : Set(x, i)
  \/ Pop
  \/ SPop
  \/ SPeek
  \/ \E i \in 1 .. MaxLength : Get(i)
  \/ Shuffle
  \/ \E x \in Elements : Filter(x)

Spec == Init /\ [][Next]_<<queue, result>>
=============================================================================
