------------------------------- MODULE Deque -------------------------------
(***************************************************************************)
(* What a doubly linked list promises (List.h): a sequence of data that    *)
(* grows and shrinks at both ends and can lose any one element.            *)
(***************************************************************************)
EXTENDS Naturals, Sequences

CONSTANT Data

VARIABLE items

PushBack(d) == items' = Append(items, d)
PushFront(d) == items' = <<d>> \o items
RemoveAt(i) == items' = SubSeq(items, 1, i - 1) \o SubSeq(items, i + 1, Len(items))

Init == items = << >>

Next == \/ \E d \in Data : PushBack(d)
        \/ \E d \in Data : PushFront(d)
        \/ \E i \in DOMAIN items : RemoveAt(i)

Spec == Init /\ [][Next]_items
=============================================================================
