------------------------------- MODULE DList -------------------------------
(***************************************************************************)
(* The doubly linked list of dstructs/src/List.c, which holds the elements *)
(* of list values, the words of a command, the namespaces of the           *)
(* interpreter, the history of the line editor and the candidates of its   *)
(* completion.                                                             *)
(*                                                                         *)
(*   used         nodes malloc has handed out                              *)
(*   head, tail   the fields of struct List                                *)
(*   prev, next, data   the fields of struct ListNode; those of a free node*)
(*                are reset to NULL, nothing reads them                    *)
(*                                                                         *)
(* A datum is an integer: what List_compare_ reads of it.                  *)
(***************************************************************************)
EXTENDS Integers, Sequences, FiniteSets

CONSTANTS Nodes, NULL, Data

ASSUME DListAssumption == NULL \notin Nodes /\ IsFiniteSet(Nodes) /\ Data \subseteq Int

VARIABLES used, head, tail, prev, next, data
vars == <<used, head, tail, prev, next, data>>

Ref == Nodes \cup {NULL}

-----------------------------------------------------------------------------
(* Traversals.                                                             *)

\* The i-th node from first along step, NULL past the end.  A walk that comes
\* back to a node it has seen is cut after every node could have been seen.
Walk(first, step) ==
    LET at[i \in 1..Cardinality(Nodes) + 1] ==
            IF i = 1 THEN first
            ELSE LET n == at[i - 1] IN IF n = NULL THEN NULL ELSE step[n]
        k == {i \in DOMAIN at : at[i] # NULL}
    IN  [i \in k |-> at[i]]

\* Mutant: the walk back starts one node too far.
BackwardShort == Walk(IF tail = NULL THEN NULL ELSE prev[tail], prev)

\* List_index and List_size (the length), List_rindex.
Forward == Walk(head, next)
Backward == Walk(tail, prev)

Reached == {Forward[i] : i \in DOMAIN Forward}

\* The data of the list, as List_index delivers them.
Contents == [i \in DOMAIN Forward |-> data[Forward[i]]]

-----------------------------------------------------------------------------
(* The steps.                                                              *)

\* Mutant: the node is linked without its datum.
PushEmpty(n, d) ==
    /\ used' = used \cup {n} /\ tail' = n
    /\ head' = IF head = NULL THEN n ELSE head
    /\ next' = IF head = NULL THEN next ELSE [next EXCEPT ![tail] = n]
    /\ prev' = [prev EXCEPT ![n] = tail]
    /\ UNCHANGED data

\* List_push.  A list with a head and no tail makes it exit: see LinksInverse.
PushNode(n, d) ==
    /\ head = NULL \/ tail # NULL
    /\ data' = [data EXCEPT ![n] = d]
    /\ used' = used \cup {n}
    /\ tail' = n
    /\ next' = IF head = NULL THEN [next EXCEPT ![n] = NULL]
               ELSE [next EXCEPT ![n] = NULL, ![tail] = n]
    /\ prev' = [prev EXCEPT ![n] = IF head = NULL THEN NULL ELSE tail]
    /\ head' = IF head = NULL THEN n ELSE head

\* List_insertBefore; the predecessor of q is not told of the new node.
InsertBefore(n, q, d) ==
    IF q = NULL \/ head = NULL \/ tail = NULL THEN PushNode(n, d)
    ELSE /\ data' = [data EXCEPT ![n] = d]
         /\ used' = used \cup {n}
         /\ next' = [next EXCEPT ![n] = q]
         /\ prev' = [prev EXCEPT ![n] = prev[q], ![q] = n]
         /\ head' = IF prev[q] = NULL THEN n ELSE head
         /\ tail' = tail

\* List_insertAfter; the successor of p is not told of the new node.
InsertAfter(n, p, d) ==
    IF p = NULL \/ head = NULL \/ tail = NULL THEN PushNode(n, d)
    ELSE /\ data' = [data EXCEPT ![n] = d]
         /\ used' = used \cup {n}
         /\ next' = [next EXCEPT ![n] = next[p], ![p] = n]
         /\ prev' = [prev EXCEPT ![n] = p]
         /\ tail' = IF p = tail THEN n ELSE tail
         /\ head' = head

\* Mutant: the node after the removed one keeps its link back.
UnlinkForward(n) ==
    LET p == prev[n]
        q == next[n]
    IN  /\ used' = used \ {n}
        /\ data' = [data EXCEPT ![n] = NULL]
        /\ head' = IF p = NULL THEN q ELSE head
        /\ tail' = IF q = NULL THEN p ELSE tail
        /\ next' = [m \in Nodes |-> IF m = n THEN NULL
                                    ELSE IF m = p THEN q ELSE next[m]]
        /\ prev' = [prev EXCEPT ![n] = NULL]

\* List_remove of a node the search from the head finds.
Unlink(n) ==
    LET p == prev[n]
        q == next[n]
    IN  /\ used' = used \ {n}
        /\ data' = [data EXCEPT ![n] = NULL]
        /\ head' = IF p = NULL THEN q ELSE head
        /\ tail' = IF q = NULL THEN p ELSE tail
        /\ next' = [m \in Nodes |-> IF m = n THEN NULL
                                    ELSE IF m = p THEN q ELSE next[m]]
        /\ prev' = [m \in Nodes |-> IF m = n THEN NULL
                                    ELSE IF m = q THEN p ELSE prev[m]]

Push(n, d) == n \in Nodes \ used /\ PushNode(n, d)

\* Mutant: the new element goes to the wrong end of a longer list.
UnshiftBehind(n, d) ==
    n \in Nodes \ used /\ InsertAfter(n, tail, d)

Unshift(n, d) == n \in Nodes \ used /\ InsertBefore(n, head, d)

Remove(n) == n \in used /\ n \in Reached /\ Unlink(n)

Pop == tail # NULL /\ Remove(tail)

Shift == head # NULL /\ Remove(head)

\* List_add: the search goes on while the node is not less than the new datum,
\* and the insertion is made relative to the last node passed.
Add(n, d) ==
    LET less == {i \in DOMAIN Forward : data[Forward[i]] < d}
        first == CHOOSE i \in less : \A j \in less : i <= j
        last == IF Forward = << >> THEN NULL ELSE Forward[Len(Forward)]
    IN  /\ n \in Nodes \ used
        /\ IF less # {}
           THEN InsertBefore(n, IF first = 1 THEN NULL ELSE Forward[first - 1], d)
           ELSE InsertAfter(n, last, d)

Init == /\ used = {} /\ head = NULL /\ tail = NULL
        /\ prev = [n \in Nodes |-> NULL]
        /\ next = [n \in Nodes |-> NULL]
        /\ data = [n \in Nodes |-> NULL]

\* Lists of values, words, namespaces and history lines.
Next == \/ \E n \in Nodes, d \in Data : Push(n, d)
        \/ \E n \in Nodes, d \in Data : Unshift(n, d)
        \/ \E n \in Nodes : Remove(n)
        \/ Pop
        \/ Shift

Spec == Init /\ [][Next]_vars

\* The list of completion candidates only grows, and only by List_add.
NextSorted == \E n \in Nodes, d \in Data : Add(n, d)

SpecSorted == Init /\ [][NextSorted]_vars

-----------------------------------------------------------------------------
(* Properties.                                                             *)

\* Every field has its type, and a node in use holds a datum.
TypeOK == /\ used \subseteq Nodes /\ head \in Ref /\ tail \in Ref
          /\ prev \in [Nodes -> Ref] /\ next \in [Nodes -> Ref]
          /\ data \in [Nodes -> Data \cup {NULL}]
          /\ \A n \in used : data[n] \in Data

\* The links agree: the two ends are both there or both missing and are the
\* only nodes without a neighbour, and prev and next are inverse to each other.
\* So no link leads to freed memory, and List_push never meets a list with a
\* head and no tail (its fatal error, List.c:156).
LinksInverse ==
    /\ head = NULL <=> tail = NULL
    /\ head # NULL => head \in used /\ tail \in used
    /\ \A n \in used :
          /\ prev[n] = NULL <=> n = head
          /\ next[n] = NULL <=> n = tail
          /\ prev[n] # NULL => prev[n] \in used /\ next[prev[n]] = n
          /\ next[n] # NULL => next[n] \in used /\ prev[next[n]] = n

\* List_index and List_rindex see the same nodes in opposite order, and between
\* them every node that is allocated: none is lost or leaked.
WalksAgree ==
    /\ Len(Forward) = Len(Backward)
    /\ \A i \in DOMAIN Forward : Forward[i] = Backward[Len(Forward) + 1 - i]
    /\ Reached = used

\* The list implements a sequence, each operation the one it is named for: the
\* contents grow and shrink at the end the caller asked for, and nowhere else.
D == INSTANCE Deque WITH items <- Contents
IsDeque ==
    /\ D!Spec
    /\ [][/\ \A n \in Nodes, d \in Data : /\ Push(n, d) => D!PushBack(d)
                                          /\ Unshift(n, d) => D!PushFront(d)
          /\ Pop => D!RemoveAt(Len(Contents))
          /\ Shift => D!RemoveAt(1)]_vars

\* "insert data before a specified node" (List.c:100): what was inserted is
\* in the list, where List_index and List_delete find it.
InsertedIsFound == Reached = used
=============================================================================
