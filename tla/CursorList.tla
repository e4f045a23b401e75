------------------------------ MODULE CursorList ------------------------------
(***************************************************************************)
(* What utility/LinkedList/LinkedList.h promises of a list and an iterator *)
(* on it: a sequence and a place in it.  Place 0 is before the first       *)
(* element, where an iterator starts and where it steps off to when the    *)
(* first element is removed under it; a step back from there leads to the  *)
(* last.                                                                   *)
(***************************************************************************)
EXTENDS Naturals, Sequences, SequencesExt

CONSTANTS
  Elements, NULL, MaxLength   \* as in FifoQueue; NULL is no element here

VARIABLES items, at, returned

Init == items = <<>> /\ at = 0 /\ returned = NULL

There(n) == IF n = 0 THEN NULL ELSE items[n]

Appends(x) ==
  /\ Len(items) < MaxLength
  /\ items' = Append(items, x)
  /\ UNCHANGED <<at, returned>>

(* linkedlist_remove and linkedlist_remove_all are called between          *)
(* iterations.                                                             *)
RemoveElement(x) ==
  /\ at = 0
  /\ items' = RemoveFirst(items, x)
  /\ returned' = IF Contains(items, x) THEN x ELSE NULL
  /\ UNCHANGED at
RemoveAll == at = 0 /\ items' = <<>> /\ UNCHANGED <<at, returned>>

GetElement(x) ==
  /\ returned' = IF Contains(items, x) THEN x ELSE NULL
  /\ UNCHANGED <<items, at>>

StepTo(n) == at' = n /\ returned' = items[n] /\ UNCHANGED items
Stays == returned' = NULL /\ UNCHANGED <<items, at>>

StepsOn == IF at < Len(items) THEN StepTo(at + 1) ELSE Stays
StepsBack ==
  /\ items # <<>>
  /\ IF at = 0 THEN StepTo(Len(items)) ELSE IF at > 1 THEN StepTo(at - 1) ELSE Stays
Current == returned' = There(at) /\ UNCHANGED <<items, at>>
Reset == at' = 0 /\ UNCHANGED <<items, returned>>

InsertBefore(x) ==
  /\ at # 0 /\ Len(items) < MaxLength
  /\ items' = InsertAt(items, at, x)
  /\ at' = at + 1
  /\ UNCHANGED returned
InsertAfter(x) ==
  /\ at # 0 /\ Len(items) < MaxLength
  /\ items' = InsertAt(items, at + 1, x)
  /\ UNCHANGED <<at, returned>>
RemoveHere ==
  IF at = 0 THEN Stays
  ELSE /\ items' = RemoveAt(items, at)
       /\ returned' = items[at]
       /\ at' = at - 1

Next ==
  \/ \E x \in Elements :
       Appends(x) \/ RemoveElement(x) \/ GetElement(x) \/ InsertBefore(x) \/ InsertAfter(x)
  \/ RemoveAll \/ StepsOn \/ StepsBack \/ Current \/ Reset \/ RemoveHere

Spec == Init /\ [][Next]_<<items, at, returned>>
=============================================================================
