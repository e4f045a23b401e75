------------------------------- MODULE HashTable -------------------------------
(***************************************************************************)
(* utility/HashTable/HashTable.c: an array of linked lists (module         *)
(* LinkedList; here, sequences).  A table maps the slots of the array to   *)
(* the elements in them, records with a path that stands for the key: two  *)
(* elements are equal, for the table, if their paths are.                  *)
(***************************************************************************)
EXTENDS Naturals, Sequences, SequencesExt

CONSTANTS
  TableSize,   \* INITIAL_TABLE_SIZE
  Hash         \* Hash[path]: of the function the table was made with

ASSUME HashTableAssumption == TableSize \in Nat \ {0} /\ \A p \in DOMAIN Hash : Hash[p] \in Nat

HashSlots == 0 .. (TableSize - 1)
NewHashTable == [b \in HashSlots |-> <<>>]
SlotOfPath(p) == Hash[p] % TableSize

(* The place of p in its list; 0 if it is not in it. *)
PlaceIn(t, p) == SelectInSeq(t[SlotOfPath(p)], LAMBDA e : e.path = p)
HasElement(t, p) == PlaceIn(t, p) # 0
GetElement(t, p) == t[SlotOfPath(p)][PlaceIn(t, p)]

RemoveElement(t, p) ==
  IF HasElement(t, p) THEN [t EXCEPT ![SlotOfPath(p)] = RemoveAt(@, PlaceIn(t, p))] ELSE t

(* hashtable_add does not look whether there is an equal element. *)
AddElement(t, e) == [t EXCEPT ![SlotOfPath(e.path)] = Append(@, e)]

(* What an iterator visits: the lists that are not empty, in the order of  *)
(* the array.  Mutant: coming to a list, it steps over the first element.  *)
VisitedAfterFirst(t) ==
  LET Upto[b \in HashSlots] ==
        IF b = 0 THEN t[0]
        ELSE Upto[b - 1] \o (IF Upto[b - 1] = <<>> \/ t[b] = <<>> THEN t[b] ELSE Tail(t[b]))
  IN  Upto[TableSize - 1]
Visited(t) ==
  LET Upto[b \in HashSlots] == IF b = 0 THEN t[0] ELSE Upto[b - 1] \o t[b]
  IN  Upto[TableSize - 1]
=============================================================================
