----------------------------- MODULE LinkedList -----------------------------
(***************************************************************************)
(* The doubly linked list of internal/util/linkedlist.go, the storage of   *)
(* the write-ahead log.  A node is its position in nodes, the heap; nil is *)
(* 0.  Append holds the list's mutex throughout and is one step.           *)
(***************************************************************************)
EXTENDS Naturals, Sequences

CONSTANT capacity   \* 0 for no limit

VARIABLES nodes, head, tail, length

ListInit == nodes = <<>> /\ head = 0 /\ tail = 0 /\ length = 0

Evicting == capacity # 0 /\ length = capacity

\* Mutant: the evicted node stays the head.
HeadKept == IF Evicting /\ length = 1 THEN 0 ELSE head

HeadAfterEviction == IF ~Evicting THEN head ELSE IF length = 1 THEN 0 ELSE nodes[head].next

TailAfterEviction == IF Evicting /\ length = 1 THEN 0 ELSE tail

\* Append: evict the head if the list is full, then link a new tail.
ListAppend(data) ==
    LET new == Len(nodes) + 1
        last == TailAfterEviction
        linked == IF last = 0 THEN nodes ELSE [nodes EXCEPT ![last].next = new]
    IN /\ nodes' = Append(linked, [previous |-> last, next |-> 0, data |-> data])
       /\ head' = IF last = 0 THEN new ELSE HeadAfterEviction
       /\ tail' = new
       /\ length' = (IF Evicting THEN length - 1 ELSE length) + 1

\* The data met on the way from Head() along Next().
Forward ==
    LET from[i \in 0 .. Len(nodes)] == IF i = 0 THEN <<>> ELSE <<nodes[i].data>> \o from[nodes[i].next]
    IN from[head]
=============================================================================
