------------------------------ MODULE LinkedList ------------------------------
(***************************************************************************)
(* utility/LinkedList/LinkedList.c: the doubly linked list the buckets of  *)
(* the hash table are made of, and one iterator on it.  Nodes are numbers; *)
(* malloc gives the least that is free.                                    *)
(***************************************************************************)
EXTENDS Integers, Sequences, FiniteSets

CONSTANTS
  Values,      \* elements of lists
  Nil,         \* the null pointer, and no element
  MaxNodes     \* bound: nodes of a list

ASSUME LinkedListAssumption ==
  MaxNodes \in Nat /\ Nil \notin Values /\ Nil \notin 1 .. MaxNodes

VARIABLES
  nodes,    \* the heap: [forward, back, element] of each node in use
  root, last,  \* root and tail of the list; tail is unset until something
               \* is appended
  size,
  ln, index,   \* of the iterator
  returned     \* what the last call returned

listVars == <<nodes, root, last, size, ln, index, returned>>

Node(forward, back, x) == [forward |-> forward, back |-> back, element |-> x]
Fresh == CHOOSE n \in (1 .. MaxNodes) \ DOMAIN nodes :
           \A k \in (1 .. MaxNodes) \ DOMAIN nodes : n <= k
With(n, node) == [k \in DOMAIN nodes \cup {n} |-> IF k = n THEN node ELSE nodes[k]]
Room == size < MaxNodes

(* The nodes on the way from root, in order. *)
Way ==
  LET To[k \in 1 .. size] == IF k = 1 THEN root ELSE nodes[To[k - 1]].forward
  IN  [k \in 1 .. size |-> To[k]]
Walk == [k \in 1 .. size |-> nodes[Way[k]].element]

(* linkednode_search; Nil if there is none. *)
Search(x) ==
  LET found == {k \in 1 .. size : Walk[k] = x}
  IN  IF found = {} THEN Nil ELSE Way[CHOOSE k \in found : \A j \in found : k <= j]

(* linkednode_unlink and linkednode_destroy.  Mutant: only the node before *)
(* is told.                                                                *)
WithoutNodeForward(n) ==
  LET f == nodes[n].forward  b == nodes[n].back
  IN  [k \in DOMAIN nodes \ {n} |->
         IF k = b THEN [nodes[k] EXCEPT !.forward = f] ELSE nodes[k]]
WithoutNode(n) ==
  LET f == nodes[n].forward  b == nodes[n].back
  IN  [k \in DOMAIN nodes \ {n} |->
         [nodes[k] EXCEPT !.forward = IF k = b THEN f ELSE @,
                          !.back = IF k = f THEN b ELSE @]]

(* What linkedlist_remove and linkedlistiterator_remove both do. *)
TakesOut(n) ==
  /\ nodes' = WithoutNode(n)
  /\ root' = IF nodes[n].back = Nil THEN nodes[n].forward ELSE root
  /\ last' = IF nodes[n].forward = Nil THEN nodes[n].back ELSE last
  /\ size' = size - 1
  /\ returned' = nodes[n].element

-----------------------------------------------------------------------------
(* linkedlist_new and linkedlistiterator_new *)
ListInit ==
  /\ nodes = <<>> /\ root = Nil /\ last = Nil /\ size = 0
  /\ ln = Nil /\ index = 0
  /\ returned = Nil

ListAppend(x) ==
  /\ Room
  /\ IF root = Nil
       THEN nodes' = With(Fresh, Node(Nil, Nil, x)) /\ root' = Fresh
       ELSE /\ nodes' = [With(Fresh, Node(Nil, last, x)) EXCEPT ![last].forward = Fresh]
            /\ UNCHANGED root
  /\ last' = Fresh
  /\ size' = size + 1
  /\ UNCHANGED <<ln, index, returned>>

(* No caller removes from a list while an iterator stands on one of its    *)
(* nodes.                                                                  *)
ListRemove(x) ==
  /\ ln = Nil
  /\ IF Search(x) = Nil
       THEN returned' = Nil /\ UNCHANGED <<nodes, root, last, size>>
       ELSE TakesOut(Search(x))
  /\ UNCHANGED <<ln, index>>

ListRemoveAll ==
  /\ ln = Nil
  /\ nodes' = <<>> /\ root' = Nil /\ last' = Nil /\ size' = 0
  /\ UNCHANGED <<ln, index, returned>>

ListGet(x) ==
  /\ returned' = IF Search(x) = Nil THEN Nil ELSE nodes[Search(x)].element
  /\ UNCHANGED <<nodes, root, last, size, ln, index>>

(* The iterator.  Mutant: it goes round.                                   *)
NextNodeRound == IF ln = Nil \/ nodes[ln].forward = Nil THEN root ELSE nodes[ln].forward
NextNode == IF ln = Nil THEN root ELSE nodes[ln].forward

IteratorNext ==
  /\ IF NextNode = Nil
       THEN returned' = Nil /\ UNCHANGED <<ln, index>>
       ELSE /\ ln' = NextNode
            /\ index' = IF ln = Nil THEN 0 ELSE index + 1
            /\ returned' = nodes[NextNode].element
  /\ UNCHANGED <<nodes, root, last, size>>

(* On a list without nodes it reads through a null pointer, or an unset    *)
(* one; nothing calls it there.                                            *)
IteratorPrevious ==
  /\ root # Nil
  /\ LET to == IF ln = Nil THEN last ELSE nodes[ln].back IN
       IF to = Nil
         THEN returned' = Nil /\ UNCHANGED <<ln, index>>
         ELSE /\ ln' = to
              /\ index' = IF ln = Nil THEN size - 1 ELSE index - 1
              /\ returned' = nodes[to].element
  /\ UNCHANGED <<nodes, root, last, size>>

IteratorCurrent ==
  /\ returned' = IF ln = Nil THEN Nil ELSE nodes[ln].element
  /\ UNCHANGED <<nodes, root, last, size, ln, index>>

IteratorReset ==
  /\ ln' = Nil
  /\ UNCHANGED <<nodes, root, last, size, index, returned>>

InsertBefore(x) ==
  /\ ln # Nil /\ Room
  /\ LET b == nodes[ln].back
         joined == With(Fresh, Node(ln, b, x))
     IN  nodes' = [k \in DOMAIN joined |->
                     [joined[k] EXCEPT !.back = IF k = ln THEN Fresh ELSE @,
                                       !.forward = IF k = b THEN Fresh ELSE @]]
  /\ root' = IF nodes[ln].back = Nil THEN Fresh ELSE root
  /\ index' = index + 1
  /\ size' = size + 1
  /\ UNCHANGED <<last, ln, returned>>

InsertAfter(x) ==
  /\ ln # Nil /\ Room
  /\ LET f == nodes[ln].forward
         joined == With(Fresh, Node(f, ln, x))
     IN  nodes' = [k \in DOMAIN joined |->
                     [joined[k] EXCEPT !.forward = IF k = ln THEN Fresh ELSE @,
                                       !.back = IF k = f THEN Fresh ELSE @]]
  /\ last' = IF nodes[ln].forward = Nil THEN Fresh ELSE last
  /\ size' = size + 1
  /\ UNCHANGED <<root, ln, index, returned>>

IteratorRemove ==
  IF ln = Nil
    THEN returned' = Nil /\ UNCHANGED <<nodes, root, last, size, ln, index>>
    ELSE /\ TakesOut(ln)
         /\ ln' = nodes[ln].back
         /\ index' = index - 1

ListNext ==
  \/ \E x \in Values :
       ListAppend(x) \/ ListRemove(x) \/ ListGet(x) \/ InsertBefore(x) \/ InsertAfter(x)
  \/ ListRemoveAll
  \/ IteratorNext \/ IteratorPrevious \/ IteratorCurrent \/ IteratorReset \/ IteratorRemove

ListSpec == ListInit /\ [][ListNext]_listVars

(***************************************************************************)
(* Properties                                                              *)
(***************************************************************************)

(* The iterator's place: how many steps from root it is. *)
PlaceOfIterator ==
  IF ln = Nil THEN 0 ELSE CHOOSE k \in 1 .. size : Way[k] = ln

(* The list is the same from either end, ends where size says, holds every *)
(* node in use, and the iterator stands on one of them, at its index.      *)
WellLinked ==
  /\ Cardinality(DOMAIN nodes) = size
  /\ (root = Nil) = (size = 0)
  /\ size > 0 =>
       /\ nodes[root].back = Nil /\ last = Way[size] /\ nodes[last].forward = Nil
       /\ \A k \in 1 .. (size - 1) : nodes[Way[k + 1]].back = Way[k]
  /\ ln # Nil => ln \in DOMAIN nodes /\ index = PlaceOfIterator - 1

(* Every call does to the sequence and the place in it what CursorList     *)
(* says, and returns that.                                                 *)
Cursor == INSTANCE CursorList WITH
  Elements <- Values, NULL <- Nil, MaxLength <- MaxNodes,
  items <- Walk, at <- PlaceOfIterator
ImplementsCursor == Cursor!Spec
=============================================================================
