------------------------------ MODULE HashTree ------------------------------
(***************************************************************************)
(* The name table of dstructs: Hash.c, a map from names to pairs, kept in  *)
(* the unbalanced binary tree of BTree.c.                                  *)
(*                                                                         *)
(* A table is a record: head, left and right are the links of the tree,    *)
(* name is the key of each node's pair and used the nodes in memory.  A    *)
(* name is an integer that stands for its place in the order of strcmp.    *)
(* The comparison is "node less than key", so the left subtree of a node   *)
(* holds the greater names.                                                *)
(***************************************************************************)
EXTENDS Integers, FiniteSets

CONSTANTS Nodes, Names, NULL

ASSUME TableAssumption ==
    NULL \notin Nodes /\ IsFiniteSet(Nodes) /\ Names \subseteq Nat

Tables == [head : Nodes \cup {NULL},
           left : [Nodes -> Nodes \cup {NULL}],
           right : [Nodes -> Nodes \cup {NULL}],
           name : [Nodes -> Names \cup {NULL}],
           used : SUBSET Nodes]

EmptyTable == [head |-> NULL,
               left |-> [n \in Nodes |-> NULL],
               right |-> [n \in Nodes |-> NULL],
               name |-> [n \in Nodes |-> NULL],
               used |-> {}]

\* The nodes a descent from the head meets when it turns left at those in L:
\* BTree_get_ and BTree_add_ without their stop conditions.
Descent(t, L) ==
    LET at[i \in 1..Cardinality(Nodes) + 1] ==
            IF i = 1 THEN t.head
            ELSE LET n == at[i - 1] IN
                 IF n = NULL THEN NULL ELSE IF n \in L THEN t.left[n] ELSE t.right[n]
    IN  [i \in {j \in DOMAIN at : at[j] # NULL} |-> at[i]]

\* The nodes whose name strcmp finds less than x.
Less(t, x) == {n \in t.used : t.name[n] < x}

\* BTree_get with the name as key: the first node of that name on the descent.
Found(t, x) ==
    LET d == Descent(t, Less(t, x))
        hits == {i \in DOMAIN d : t.name[d[i]] = x}
    IN  IF hits = {} THEN NULL
        ELSE d[CHOOSE i \in hits : \A j \in hits : i <= j]

\* Mutant: the new node goes to the other side than the search will turn to.
PlaceMirrored(t, L, n) ==
    LET d == Descent(t, L)
        last == d[Cardinality(DOMAIN d)]
    IN  IF t.head = NULL THEN [t EXCEPT !.head = n]
        ELSE IF last \in L THEN [t EXCEPT !.right[last] = n]
        ELSE [t EXCEPT !.left[last] = n]

\* BTree_add_ followed by the assignment through the pointer it returns.
PlaceAt(t, L, n) ==
    LET d == Descent(t, L)
        last == d[Cardinality(DOMAIN d)]
    IN  IF t.head = NULL THEN [t EXCEPT !.head = n]
        ELSE IF last \in L THEN [t EXCEPT !.left[last] = n]
        ELSE [t EXCEPT !.right[last] = n]

\* Hash_get: the pair of the name; a missing one is made, at a free node n.
Entry(t, x, n) == IF Found(t, x) = NULL THEN n ELSE Found(t, x)
Got(t, x, n) ==
    IF Found(t, x) # NULL THEN t
    ELSE PlaceAt([t EXCEPT !.name[n] = x, !.used = @ \cup {n}], Less(t, x), n)

\* What malloc may answer when Hash_get asks for the node of x, if it does; the
\* bound on the entries is the number of nodes.
Spares(t, x) == IF Found(t, x) = NULL THEN Nodes \ t.used ELSE {NULL}

\* BTree_findParent_: it gives up below the children of the head.
FindParent(t, n) ==
    IF t.head # NULL /\ n \in {t.left[t.head], t.right[t.head]} THEN t.head ELSE NULL

\* BTree_remove dereferences the parent of every node but the head.
RemoveCrashes(t, n) == n # t.head /\ FindParent(t, n) = NULL

\* BTree_remove hangs the right subtree, or else the left, where the node was.
Spliced(t, n) ==
    LET r == IF t.right[n] # NULL THEN t.right[n] ELSE t.left[n]
        p == FindParent(t, n)
    IN  IF n = t.head THEN [t EXCEPT !.head = r]
        ELSE IF t.right[p] = n THEN [t EXCEPT !.right[p] = r]
        ELSE [t EXCEPT !.left[p] = r]

Relocates(t, n) == t.left[n] # NULL /\ t.right[n] # NULL

\* Mutant: of two subtrees the left one is lost.
RemovedWhole(t, n, g) ==
    [Spliced(t, n) EXCEPT !.left[n] = NULL, !.right[n] = NULL, !.name[n] = NULL,
                          !.used = @ \ {n}]

\* With both subtrees, the left one is added anew from the head.  Its pair, not
\* its name, goes to strcmp: the bytes of the pair fall anywhere in the order,
\* g names below them.
Removed(t, n, g) ==
    LET s == Spliced(t, n)
        moved == IF Relocates(t, n) THEN PlaceAt(s, Less(s, g), t.left[n]) ELSE s
    IN  [moved EXCEPT !.left[n] = NULL, !.right[n] = NULL, !.name[n] = NULL,
                      !.used = @ \ {n}]

-----------------------------------------------------------------------------
(* What a table should look like.                                          *)

\* The ways a node is linked: as head, as left child or as right child.
LinksTo(t, n) ==
    {<<m, "left">> : m \in {k \in t.used : t.left[k] = n}}
      \cup {<<m, "right">> : m \in {k \in t.used : t.right[k] = n}}
      \cup {<<NULL, "head">> : m \in {k \in {t.head} : k = n}}

\* The nodes below n, n included.
Below(t, n) ==
    LET grow[i \in 0..Cardinality(Nodes)] ==
            IF i = 0 THEN {n} \ {NULL}
            ELSE LET g == grow[i - 1] IN
                 g \cup (({t.left[m] : m \in g} \cup {t.right[m] : m \in g}) \ {NULL})
    IN  grow[Cardinality(Nodes)]

\* One link to every node in memory, and all of them below the head.
IsTree(t) ==
    /\ Below(t, t.head) = t.used
    /\ \A n \in t.used : Cardinality(LinksTo(t, n)) = 1

\* Every lookup of a name that is in the table finds its node.
Searchable(t) == \A n \in t.used : Found(t, t.name[n]) = n
=============================================================================
