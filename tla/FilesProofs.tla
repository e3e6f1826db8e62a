---------------------------- MODULE FilesProofs -----------------------------
(***************************************************************************)
(* Proofs about Files and the tree of HashTree: the links are a tree, the  *)
(* entries hold the open streams, every lookup finds its entry as long as  *)
(* no removal relocates, and the commands implement StreamTable until      *)
(* then, for any number of nodes, names and streams.                       *)
(***************************************************************************)
EXTENDS Files, FiniteSetTheorems, TLAPS

\* The least element of a set of natural numbers, by the least of the finite
\* sets 0..x.
LEMMA LeastElement ==
    ASSUME NEW T, T \subseteq Nat, T # {}
    PROVE  \E x \in T : \A y \in T : x <= y
<1> DEFINE U == {0..x : x \in T}
           R == StrictSubsetOrdering(Nat)
<1>1. IsWellFoundedOn(R, FiniteSubsetsOf(Nat))
  BY FS_StrictSubsetOrderingWellFounded
<1>2. U \subseteq FiniteSubsetsOf(Nat) /\ U # {}
  <2>1. \A x \in T : 0..x \in SUBSET Nat /\ IsFiniteSet(0..x)
    BY FS_Interval
  <2> QED BY <2>1 DEF FiniteSubsetsOf
<1>3. PICK u \in U : \A v \in U : ~ (<<v, u>> \in R)
  <2> HIDE DEF U, R
  <2> QED BY <1>1, <1>2, WFMin, Zenon
<1>4. PICK x \in T : u = 0..x
  OBVIOUS
<1>5. ASSUME NEW y \in T, y < x PROVE FALSE
  <2>1. 0..y \subseteq 0..x /\ x \in 0..x /\ x \notin 0..y /\ 0..x \subseteq Nat
    BY <1>5
  <2>2. 0..y \in U /\ <<0..y, 0..x>> \in R
    BY <2>1 DEF StrictSubsetOrdering
  <2> QED BY <2>2, <1>3, <1>4
<1> QED BY <1>5


-----------------------------------------------------------------------------
(* Descents.  In a set A of nodes whose links stay in A, one link to each   *)
(* node at most, a descent meets no node twice and so ends.                *)

Turn(t, L, n) == IF n \in L THEN t.left[n] ELSE t.right[n]

Within(t, A) ==
    /\ A \subseteq Nodes
    /\ t.head \in A \cup {NULL}
    /\ \A n \in A : t.left[n] \in A \cup {NULL} /\ t.right[n] \in A \cup {NULL}

Apart(t, A) ==
    /\ \A m \in A : t.left[m] # NULL => t.left[m] # t.head
    /\ \A m \in A : t.right[m] # NULL => t.right[m] # t.head
    /\ \A m, n \in A : t.left[m] # NULL => t.left[m] # t.right[n]
    /\ \A m, n \in A : t.left[m] # NULL /\ t.left[m] = t.left[n] => m = n
    /\ \A m, n \in A : t.right[m] # NULL /\ t.right[m] = t.right[n] => m = n

Longest == Cardinality(Nodes) + 1

\* What Descent's list of nodes is by its recursion.
Descending(f, t, L) ==
    f = [i \in 1..Longest |->
           IF i = 1 THEN t.head
           ELSE LET n == f[i - 1] IN
                IF n = NULL THEN NULL ELSE IF n \in L THEN t.left[n] ELSE t.right[n]]

\* The nodes d of A, none of them twice, are those of the whole descent.
IsDescent(d, k, t, L, A) ==
    /\ k \in 0..Cardinality(Nodes) /\ d \in [1..k -> A]
    /\ k = 0 <=> t.head = NULL
    /\ k > 0 => d[1] = t.head /\ Turn(t, L, d[k]) = NULL
    /\ \A i \in 2..k : d[i] = Turn(t, L, d[i - 1])
    /\ \A i, j \in 1..k : d[i] = d[j] => i = j

LEMMA SizeIsNat == Cardinality(Nodes) \in Nat /\ Longest \in Nat /\ Longest > Cardinality(Nodes)
                     /\ IsFiniteSet(Nodes) /\ NULL \notin Nodes /\ Names \subseteq Nat
  BY TableAssumption, FS_CardinalityType DEF Longest

LEMMA DescentIs ==
    ASSUME NEW t, NEW L
    PROVE  Descent(t, L) = LET at == CHOOSE f : Descending(f, t, L)
                           IN  [i \in {j \in DOMAIN at : at[j] # NULL} |-> at[i]]
  BY Zenon DEF Descent, Descending, Longest

Begun(f, k, t, L, A) ==
    /\ f \in [1..k -> A \cup {NULL}]
    /\ \A i \in 1..k : f[i] = IF i = 1 THEN t.head
                              ELSE IF f[i - 1] = NULL THEN NULL ELSE Turn(t, L, f[i - 1])

\* The recursion has a solution, by the least length for which it has none.
LEMMA DescendingExists ==
    ASSUME NEW t, NEW L, NEW A, Within(t, A)
    PROVE  \E f : Descending(f, t, L) /\ f \in [1..Longest -> A \cup {NULL}]
<1> DEFINE T == {k \in 0..Longest : ~ \E f : Begun(f, k, t, L, A)}
<1>1. T = {}
  <2>1. SUFFICES ASSUME T # {} PROVE FALSE
    OBVIOUS
  <2>2. PICK k \in T : \A y \in T : k <= y
    <3>1. T \subseteq Nat
      BY SizeIsNat
    <3> HIDE DEF T
    <3> QED BY <2>1, <3>1, LeastElement
  <2>3. k \in 0..Longest /\ ~ \E f : Begun(f, k, t, L, A)
    OBVIOUS
  <2>4. k # 0
    <3>1. [i \in 1..0 |-> NULL] \in [1..0 -> A \cup {NULL}]
      OBVIOUS
    <3>2. Begun([i \in 1..0 |-> NULL], 0, t, L, A)
      BY <3>1 DEF Begun
    <3> QED BY <2>3, <3>2
  <2>5. k - 1 \in 0..Longest /\ k - 1 \notin T
    <3>1. k - 1 \in 0..Longest /\ ~ (k <= k - 1)
      BY <2>3, <2>4, SizeIsNat
    <3> HIDE DEF T
    <3> QED BY <2>2, <3>1
  <2>6. PICK f : Begun(f, k - 1, t, L, A)
    BY <2>5
  <2> DEFINE g == [i \in 1..k |-> IF i < k THEN f[i] ELSE
                      IF i = 1 THEN t.head
                      ELSE IF f[i - 1] = NULL THEN NULL ELSE Turn(t, L, f[i - 1])]
  <2>7. k \in Nat /\ \A i \in 1..k : i < k => i \in 1..(k - 1)
    BY <2>3, <2>4, SizeIsNat
  <2>8. \A i \in 1..k : i # 1 => i - 1 \in 1..(k - 1) /\ i - 1 \in 1..k /\ i - 1 < k
    BY <2>7
  <2>9. \A i \in 1..k : g[i] \in A \cup {NULL}
    BY <2>6, <2>7, <2>8 DEF Begun, Within, Turn
  <2>10. \A i \in 1..k : i # 1 => g[i - 1] = f[i - 1]
    BY <2>8
  <2>11. \A i \in 1..k : g[i] = IF i = 1 THEN t.head
                              ELSE IF f[i - 1] = NULL THEN NULL ELSE Turn(t, L, f[i - 1])
    BY <2>6, <2>7 DEF Begun
  <2>12. g \in [1..k -> A \cup {NULL}]
    BY <2>9
  <2> HIDE DEF g
  <2>13. Begun(g, k, t, L, A)
    BY <2>10, <2>11, <2>12 DEF Begun
  <2> QED BY <2>3, <2>13
<1>2. PICK f : Begun(f, Longest, t, L, A)
  <2>1. Longest \in 0..Longest
    BY SizeIsNat
  <2> QED BY <1>1, <2>1
<1>3. f = [i \in 1..Longest |->
           IF i = 1 THEN t.head
           ELSE LET n == f[i - 1] IN
                IF n = NULL THEN NULL ELSE IF n \in L THEN t.left[n] ELSE t.right[n]]
  BY <1>2 DEF Begun, Turn
<1> QED BY <1>2, <1>3 DEF Descending, Begun

LEMMA DescentEnds ==
    ASSUME NEW t, NEW L, NEW A, Within(t, A), Apart(t, A)
    PROVE  \E k : IsDescent(Descent(t, L), k, t, L, A)
<1> DEFINE at == CHOOSE f : Descending(f, t, L)
<1>1. Descending(at, t, L)
  BY DescendingExists
<1>2. Descent(t, L) = [i \in {j \in DOMAIN at : at[j] # NULL} |-> at[i]]
  BY DescentIs
<1> HIDE DEF at
<1>3. DOMAIN at = 1..Longest /\ \A i \in 1..Longest :
         at[i] = IF i = 1 THEN t.head
                 ELSE IF at[i - 1] = NULL THEN NULL ELSE Turn(t, L, at[i - 1])
  BY <1>1 DEF Descending, Turn
<1>4. Longest \in Nat /\ Longest >= 1 /\ Longest = Cardinality(Nodes) + 1
      /\ NULL \notin A /\ A \subseteq Nodes
  BY SizeIsNat DEF Longest, Within
<1>5. \A i \in 1..Longest : i # 1 => i - 1 \in 1..Longest /\ i - 1 < i
  BY <1>4
<1>6. \A i \in 1..Longest : at[i] \in A \cup {NULL}
  <2> DEFINE T == {i \in 1..Longest : at[i] \notin A \cup {NULL}}
  <2>1. SUFFICES ASSUME T # {} PROVE FALSE
    OBVIOUS
  <2>2. PICK k \in T : \A y \in T : k <= y
    <3>1. T \subseteq Nat
      BY <1>4
    <3> HIDE DEF T
    <3> QED BY <2>1, <3>1, LeastElement
  <2>3. k \in 1..Longest /\ at[k] \notin A \cup {NULL}
    OBVIOUS
  <2>4. k # 1
    BY <1>3, <2>3 DEF Within
  <2>5. k - 1 \in 1..Longest /\ k - 1 \notin T
    <3>1. k - 1 \in 1..Longest /\ ~ (k <= k - 1)
      BY <1>5, <2>3, <2>4, <1>4
    <3> HIDE DEF T
    <3> QED BY <2>2, <3>1
  <2>6. at[k - 1] \in A \cup {NULL}
    BY <2>5
  <2> QED BY <1>3, <2>3, <2>4, <2>6 DEF Within, Turn
\* No node comes twice: the first that does would be the head and a child, or
\* the child of two nodes.
<1>7. \A i, j \in 1..Longest : at[i] = at[j] /\ at[i] # NULL => i = j
  <2> DEFINE T == {i \in 1..Longest :
                     at[i] # NULL /\ \E j \in 1..Longest : i < j /\ at[i] = at[j]}
  <2>1. ASSUME T # {} PROVE FALSE
    <3>2. PICK k \in T : \A y \in T : k <= y
      <4>1. T \subseteq Nat
        BY <1>4
      <4> HIDE DEF T
      <4> QED BY <2>1, <4>1, LeastElement
    <3>3. k \in 1..Longest /\ at[k] # NULL
      OBVIOUS
    <3>4. PICK j \in 1..Longest : k < j /\ at[k] = at[j]
      OBVIOUS
    <3>5. j # 1 /\ j - 1 \in 1..Longest
      BY <1>4, <3>3, <3>4
    <3>6. at[j - 1] \in A /\ at[j] = Turn(t, L, at[j - 1])
      BY <1>3, <1>6, <3>3, <3>4, <3>5
    <3>7. k # 1
      BY <1>3, <3>3, <3>4, <3>6 DEF Apart, Turn
    <3>8. k - 1 \in 1..Longest /\ k - 1 < j - 1
      BY <1>4, <3>3, <3>4, <3>7
    <3>9. at[k - 1] \in A /\ at[k] = Turn(t, L, at[k - 1])
      BY <1>3, <1>6, <3>3, <3>7, <3>8
    <3>10. at[k - 1] = at[j - 1]
      BY <3>3, <3>4, <3>6, <3>9 DEF Apart, Turn
    <3>11. k - 1 \in T
      BY <1>4, <3>5, <3>8, <3>9, <3>10
    <3>12. ~ (k <= k - 1)
      BY <3>3, <1>4
    <3> HIDE DEF T
    <3> QED BY <3>2, <3>11, <3>12
  <2>2. \A i, j \in 1..Longest : i < j => ~ (at[i] = at[j] /\ at[i] # NULL)
    BY <2>1
  <2>3. \A i, j \in 1..Longest : i < j \/ j < i \/ i = j
    BY <1>4
  <2> QED BY <2>2, <2>3
\* So it ends: there are not that many nodes.
<1>8. PICK e \in 1..Longest : at[e] = NULL /\ \A y \in 1..Longest : at[y] = NULL => e <= y
  <2> DEFINE T == {i \in 1..Longest : at[i] = NULL}
  <2>1. T # {}
    <3>1. SUFFICES ASSUME \A i \in 1..Longest : at[i] # NULL PROVE FALSE
      OBVIOUS
    <3>2. [i \in 1..Longest |-> at[i]] \in [1..Longest -> Nodes]
      BY <1>4, <1>6, <3>1
    <3>3. IsFiniteSet(1..Longest) /\ Cardinality(1..Longest) = Longest
      BY <1>4, FS_Interval
    <3>4. Cardinality(Nodes) < Cardinality(1..Longest)
      BY <3>3, SizeIsNat
    <3>5. PICK x, y \in 1..Longest : x # y /\ at[x] = at[y]
      <4> DEFINE g == [i \in 1..Longest |-> at[i]]
      <4>1. g \in [1..Longest -> Nodes]
        BY <3>2
      <4> HIDE DEF g
      <4>2. \E x, y \in 1..Longest : x # y /\ g[x] = g[y]
        BY <3>3, <3>4, <4>1, SizeIsNat, FS_PigeonHole
      <4> QED BY <4>2 DEF g
    <3> QED BY <1>7, <3>1, <3>5
  <2>2. \E x \in T : \A y \in T : x <= y
    <3>1. T \subseteq Nat
      BY <1>4
    <3> HIDE DEF T
    <3> QED BY <2>1, <3>1, LeastElement
  <2> QED BY <2>2
<1>9. \A i \in 1..Longest : at[i] # NULL => i < e
  <2> DEFINE T == {i \in 1..Longest : at[i] # NULL /\ ~ (i < e)}
  <2>1. SUFFICES ASSUME T # {} PROVE FALSE
    OBVIOUS
  <2>2. PICK k \in T : \A y \in T : k <= y
    <3>1. T \subseteq Nat
      BY <1>4
    <3> HIDE DEF T
    <3> QED BY <2>1, <3>1, LeastElement
  <2>3. k \in 1..Longest /\ at[k] # NULL /\ ~ (k < e)
    OBVIOUS
  <2>4. k # e /\ k # 1
    BY <1>4, <1>8, <2>3
  <2>5. k - 1 \in 1..Longest /\ ~ (k - 1 < e) /\ ~ (k <= k - 1)
    BY <1>4, <1>8, <2>3, <2>4
  <2>6. k - 1 \notin T
    <3> HIDE DEF T
    <3> QED BY <2>2, <2>5
  <2> QED BY <1>3, <2>3, <2>4, <2>5, <2>6
<1> DEFINE k == e - 1
<1>10. /\ k \in 0..Cardinality(Nodes) /\ \A i \in 1..k : i \in 1..Longest /\ i < e
       /\ \A i \in 1..Longest : i < e => i \in 1..k
  BY <1>4, SizeIsNat
<1>11. {j \in DOMAIN at : at[j] # NULL} = 1..k
  BY <1>3, <1>4, <1>8, <1>9, <1>10
<1>12. Descent(t, L) = [i \in 1..k |-> at[i]] /\ \A i \in 1..k : at[i] \in A /\ i \in 1..Longest
  BY <1>2, <1>6, <1>10, <1>11
<1> DEFINE d == Descent(t, L)
<1>13. d \in [1..k -> A] /\ \A i \in 1..k : d[i] = at[i]
  BY <1>12
<1>14. k = 0 <=> t.head = NULL
  <2>1. at[1] = t.head /\ 1 \in 1..Longest
    BY <1>3, <1>4
  <2>2. k = 0 <=> e = 1
    BY <1>4, <1>8
  <2>3. t.head = NULL => e <= 1
    BY <1>8, <2>1
  <2> QED BY <1>4, <1>8, <2>1, <2>2, <2>3
<1>15. k > 0 => d[1] = t.head /\ Turn(t, L, d[k]) = NULL
  <2>1. SUFFICES ASSUME k > 0 PROVE d[1] = t.head /\ Turn(t, L, d[k]) = NULL
    OBVIOUS
  <2>2. 1 \in 1..k /\ k \in 1..k /\ 1 \in 1..Longest /\ e # 1 /\ e - 1 = k
    BY <1>4, <1>8, <1>10, <2>1
  <2>3. d[1] = t.head /\ d[k] = at[k] /\ at[k] # NULL
    BY <1>3, <1>4, <1>12, <1>13, <2>2
  <2>4. at[e] = Turn(t, L, at[k])
    BY <1>3, <1>8, <2>2, <2>3
  <2> QED BY <1>8, <2>3, <2>4
<1>16. \A i \in 2..k : d[i] = Turn(t, L, d[i - 1])
  <2> TAKE i \in 2..k
  <2>1. i \in 1..k /\ i - 1 \in 1..k /\ i # 1
    BY <1>4, <1>8
  <2> QED BY <1>3, <1>4, <1>12, <1>13, <2>1
<1>17. \A i, j \in 1..k : d[i] = d[j] => i = j
  BY <1>4, <1>7, <1>12, <1>13
<1> HIDE DEF d, k
<1> QED BY <1>10, <1>13, <1>14, <1>15, <1>16, <1>17 DEF IsDescent, d

-----------------------------------------------------------------------------
(* Hanging a node in a tree.                                               *)

LEMMA Fields ==
    ASSUME NEW t \in Tables
    PROVE  /\ t.head \in Nodes \cup {NULL} /\ t.left \in [Nodes -> Nodes \cup {NULL}]
           /\ t.right \in [Nodes -> Nodes \cup {NULL}]
           /\ t.name \in [Nodes -> Names \cup {NULL}] /\ t.used \in SUBSET Nodes
           /\ t = [head |-> t.head, left |-> t.left, right |-> t.right,
                   name |-> t.name, used |-> t.used]
  BY DEF Tables

\* u is t with n hung where the descent d, of length k, ends.
Hung(u, t, L, n, d, k) ==
    /\ u.name = t.name /\ u.used = t.used
    /\ k = 0 => u.head = n /\ u.left = t.left /\ u.right = t.right
    /\ k > 0 => u.head = t.head
    /\ k > 0 /\ d[k] \in L => u.left = [t.left EXCEPT ![d[k]] = n] /\ u.right = t.right
    /\ k > 0 /\ d[k] \notin L => u.right = [t.right EXCEPT ![d[k]] = n] /\ u.left = t.left

LEMMA PlaceHangs ==
    ASSUME NEW t \in Tables, NEW L, NEW A, Within(t, A), Apart(t, A), NEW n \in Nodes
    PROVE  /\ PlaceAt(t, L, n) \in Tables
           /\ \E k : /\ IsDescent(Descent(t, L), k, t, L, A)
                     /\ Hung(PlaceAt(t, L, n), t, L, n, Descent(t, L), k)
<1>1. PICK k : IsDescent(Descent(t, L), k, t, L, A)
  BY DescentEnds
<1> DEFINE d == Descent(t, L)
           last == d[Cardinality(DOMAIN d)]
           u == PlaceAt(t, L, n)
<1>2. DOMAIN d = 1..k /\ k \in Nat /\ (k = 0 <=> t.head = NULL)
  BY <1>1, SizeIsNat DEF IsDescent
<1>3. Cardinality(DOMAIN d) = k
  <2> HIDE DEF d
  <2>1. Cardinality(1..k) = IF 1 > k THEN 0 ELSE k - 1 + 1
    BY <1>2, FS_Interval
  <2> QED BY <1>2, <2>1
<1>4. u = IF t.head = NULL THEN [t EXCEPT !.head = n]
          ELSE IF last \in L THEN [t EXCEPT !.left[last] = n]
          ELSE [t EXCEPT !.right[last] = n]
  BY Zenon DEF PlaceAt
<1>5. last = d[k]
  BY <1>3
<1> HIDE DEF d, last, u
<1>6. u \in Tables
  BY <1>4, Fields DEF Tables
<1>7. Hung(u, t, L, n, d, k)
  BY <1>2, <1>4, <1>5, Fields DEF Hung
<1> QED BY <1>1, <1>6, <1>7 DEF u, d

Unlinked(t, A, n) ==
    /\ t.head # n
    /\ \A m \in A : t.left[m] # n /\ t.right[m] # n

\* A node that nothing links to is linked once.
LEMMA HungApart ==
    ASSUME NEW t \in Tables, NEW L, NEW A, Within(t, A), Apart(t, A),
           NEW n \in A, Unlinked(t, A, n), NEW d, NEW k, IsDescent(d, k, t, L, A),
           NEW u \in Tables, Hung(u, t, L, n, d, k)
    PROVE  Within(u, A) /\ Apart(u, A)
<1>1. A \subseteq Nodes /\ NULL \notin A /\ n \in Nodes /\ k \in Nat
  BY SizeIsNat DEF Within, IsDescent
<1>2. CASE k = 0
  <2>1. t.head = NULL /\ u.head = n /\ u.left = t.left /\ u.right = t.right
    BY <1>2 DEF IsDescent, Hung
  <2> QED BY <2>1, <1>1 DEF Within, Apart, Unlinked
<1>3. CASE k > 0 /\ d[k] \in L
  <2>1. /\ d[k] \in A /\ t.left[d[k]] = NULL /\ u.head = t.head
        /\ u.left = [t.left EXCEPT ![d[k]] = n] /\ u.right = t.right
    BY <1>1, <1>3 DEF IsDescent, Hung, Turn
  <2>2. \A m \in A : u.left[m] = IF m = d[k] THEN n ELSE t.left[m]
    BY <1>1, <2>1, Fields
  <2> QED BY <2>1, <2>2, <1>1 DEF Within, Apart, Unlinked
<1>4. CASE k > 0 /\ d[k] \notin L
  <2>1. /\ d[k] \in A /\ t.right[d[k]] = NULL /\ u.head = t.head
        /\ u.right = [t.right EXCEPT ![d[k]] = n] /\ u.left = t.left
    BY <1>1, <1>4 DEF IsDescent, Hung, Turn
  <2>2. \A m \in A : u.right[m] = IF m = d[k] THEN n ELSE t.right[m]
    BY <1>1, <2>1, Fields
  <2> QED BY <2>1, <2>2, <1>1 DEF Within, Apart, Unlinked
<1> QED BY <1>1, <1>2, <1>3, <1>4

\* What contains the head, and with a node its children.
Closed(t, C) ==
    /\ t.head \in C \cup {NULL}
    /\ \A n \in C : t.left[n] \in C \cup {NULL} /\ t.right[n] \in C \cup {NULL}

LEMMA DescentStays ==
    ASSUME NEW t, NEW L, NEW A, NULL \notin A, NEW d, NEW k, IsDescent(d, k, t, L, A),
           NEW C, Closed(t, C)
    PROVE  \A i \in 1..k : d[i] \in C
<1> DEFINE T == {i \in 1..k : d[i] \notin C}
<1>1. SUFFICES ASSUME T # {} PROVE FALSE
  OBVIOUS
<1>2. k \in Nat
  BY SizeIsNat DEF IsDescent
<1>3. PICK i \in T : \A y \in T : i <= y
  <2>1. T \subseteq Nat
    BY <1>2
  <2> HIDE DEF T
  <2> QED BY <1>1, <2>1, LeastElement
<1>4. i \in 1..k /\ d[i] \notin C /\ d[i] \in A
  BY DEF IsDescent
<1>5. i # 1
  <2>1. k > 0
    BY <1>2, <1>4
  <2> QED BY <1>4, <2>1 DEF IsDescent, Closed
<1>6. i - 1 \in 1..k /\ i \in 2..k /\ ~ (i <= i - 1)
  BY <1>2, <1>4, <1>5
<1>7. i - 1 \notin T
  <2> HIDE DEF T
  <2> QED BY <1>3, <1>6
<1>8. d[i - 1] \in C /\ d[i] = Turn(t, L, d[i - 1])
  BY <1>6, <1>7 DEF IsDescent
<1> QED BY <1>4, <1>8 DEF Closed, Turn

LEMMA HungReaches ==
    ASSUME NEW t \in Tables, NEW L, NEW A, Within(t, A), NEW n \in A,
           NEW d, NEW k, IsDescent(d, k, t, L, A),
           NEW u, Hung(u, t, L, n, d, k), NEW C \in SUBSET Nodes, Closed(u, C)
    PROVE  n \in C /\ Closed(t, C)
<1>1. A \subseteq Nodes /\ NULL \notin A /\ NULL \notin C /\ n \in Nodes /\ k \in Nat
  BY SizeIsNat DEF Within, IsDescent
<1>2. CASE k = 0
  <2>1. t.head = NULL /\ u.head = n /\ u.left = t.left /\ u.right = t.right
    BY <1>2 DEF IsDescent, Hung
  <2> QED BY <2>1, <1>1 DEF Closed
<1>3. CASE k > 0 /\ d[k] \in L
  <2>1. /\ d[k] \in A /\ t.left[d[k]] = NULL /\ u.head = t.head
        /\ u.left = [t.left EXCEPT ![d[k]] = n] /\ u.right = t.right
    BY <1>1, <1>3 DEF IsDescent, Hung, Turn
  <2>2. \A m \in C : u.left[m] = IF m = d[k] THEN n ELSE t.left[m]
    BY <1>1, <2>1, Fields
  <2>3. Closed(t, C)
    BY <2>1, <2>2 DEF Closed
  <2>4. d[k] \in C
    BY <1>1, <1>3, <2>3, DescentStays
  <2> QED BY <1>1, <2>2, <2>3, <2>4 DEF Closed
<1>4. CASE k > 0 /\ d[k] \notin L
  <2>1. /\ d[k] \in A /\ t.right[d[k]] = NULL /\ u.head = t.head
        /\ u.right = [t.right EXCEPT ![d[k]] = n] /\ u.left = t.left
    BY <1>1, <1>4 DEF IsDescent, Hung, Turn
  <2>2. \A m \in C : u.right[m] = IF m = d[k] THEN n ELSE t.right[m]
    BY <1>1, <2>1, Fields
  <2>3. Closed(t, C)
    BY <2>1, <2>2 DEF Closed
  <2>4. d[k] \in C
    BY <1>1, <1>4, <2>3, DescentStays
  <2> QED BY <1>1, <2>2, <2>3, <2>4 DEF Closed
<1> QED BY <1>1, <1>2, <1>3, <1>4

-----------------------------------------------------------------------------
(* A sound table: links lead to nodes in memory, one to each at most, and  *)
(* every node in memory is reached from the head.  That a removal frees    *)
(* the only link to its node is what keeps lookups out of freed memory.    *)

Linked(t) ==
    /\ t \in Tables /\ Within(t, t.used) /\ Apart(t, t.used)
    /\ \A n \in Nodes \ t.used : t.left[n] = NULL /\ t.right[n] = NULL
    /\ \A n \in t.used : t.name[n] \in Names

Rooted(t) == \A C \in SUBSET Nodes : Closed(t, C) => t.used \subseteq C

Sound(t) == Linked(t) /\ Rooted(t)

LEMMA FoundUsed ==
    ASSUME NEW t, Linked(t), NEW x, Found(t, x) # NULL
    PROVE  Found(t, x) \in t.used /\ t.name[Found(t, x)] = x
<1> DEFINE d == Descent(t, Less(t, x))
           hits == {i \in DOMAIN d : t.name[d[i]] = x}
<1>1. PICK k : IsDescent(d, k, t, Less(t, x), t.used)
  BY DescentEnds DEF Linked
<1>2. k \in Nat /\ d \in [1..k -> t.used] /\ DOMAIN d = 1..k
  BY <1>1, SizeIsNat DEF IsDescent
<1>3. Found(t, x) = IF hits = {} THEN NULL
                    ELSE d[CHOOSE i \in hits : \A j \in hits : i <= j]
  BY Zenon DEF Found
<1> HIDE DEF d
<1>4. hits # {} /\ hits \subseteq 1..k /\ hits \subseteq Nat
  BY <1>2, <1>3
<1>5. \E i \in hits : \A j \in hits : i <= j
  <2> HIDE DEF hits
  <2> QED BY <1>4, LeastElement
<1>6. PICK i \in hits : Found(t, x) = d[i]
  BY <1>3, <1>4, <1>5
<1> QED BY <1>2, <1>6

\* The table with the new pair, before its node hangs in the tree.
Added(t, x, n) == [t EXCEPT !.name[n] = x, !.used = @ \cup {n}]

\* Hash_get: what it adds, and that it leaves a sound table.
LEMMA GotIs ==
    ASSUME NEW t, Linked(t), NEW x \in Names, NEW n \in Spares(t, x)
    PROVE  LET a == Added(t, x, n) IN
           /\ Found(t, x) # NULL => Got(t, x, n) = t /\ Entry(t, x, n) = Found(t, x)
           /\ Found(t, x) = NULL =>
                /\ n \in Nodes \ t.used /\ Entry(t, x, n) = n
                /\ a \in Tables /\ a.head = t.head /\ a.left = t.left /\ a.right = t.right
                /\ a.used = t.used \cup {n} /\ a.name = [t.name EXCEPT ![n] = x]
                /\ Within(a, a.used) /\ Apart(a, a.used) /\ Unlinked(a, a.used, n)
                /\ Got(t, x, n) = PlaceAt(a, Less(t, x), n)
<1> DEFINE a == Added(t, x, n)
<1>1. ASSUME Found(t, x) # NULL
      PROVE  Got(t, x, n) = t /\ Entry(t, x, n) = Found(t, x)
  BY <1>1 DEF Got, Entry
<1>2. ASSUME Found(t, x) = NULL
      PROVE  /\ n \in Nodes \ t.used /\ Entry(t, x, n) = n
             /\ a \in Tables /\ a.head = t.head /\ a.left = t.left /\ a.right = t.right
             /\ a.used = t.used \cup {n} /\ a.name = [t.name EXCEPT ![n] = x]
             /\ Within(a, a.used) /\ Apart(a, a.used) /\ Unlinked(a, a.used, n)
             /\ Got(t, x, n) = PlaceAt(a, Less(t, x), n)
  <2>1. n \in Nodes \ t.used /\ Entry(t, x, n) = n
    BY <1>2 DEF Spares, Entry
  <2>2. t \in Tables /\ Within(t, t.used) /\ Apart(t, t.used)
        /\ \A m \in Nodes \ t.used : t.left[m] = NULL /\ t.right[m] = NULL
    BY DEF Linked
  <2>3. /\ a \in Tables /\ a.head = t.head /\ a.left = t.left /\ a.right = t.right
        /\ a.used = t.used \cup {n} /\ a.name = [t.name EXCEPT ![n] = x]
    BY <2>1, <2>2, Fields DEF Tables, Added
  <2>4. Got(t, x, n) = PlaceAt(a, Less(t, x), n)
    BY <1>2, Zenon DEF Got, Added
  <2> HIDE DEF a
  <2>5. Within(a, a.used)
    BY <2>1, <2>2, <2>3 DEF Within
  <2>6. Apart(a, a.used)
    BY <2>1, <2>2, <2>3, SizeIsNat DEF Within, Apart
  <2>7. Unlinked(a, a.used, n)
    BY <2>1, <2>2, <2>3, SizeIsNat DEF Within, Unlinked
  <2> QED BY <2>1, <2>3, <2>4, <2>5, <2>6, <2>7
<1> QED BY <1>1, <1>2

LEMMA GotSound ==
    ASSUME NEW t, Sound(t), NEW x \in Names, NEW n \in Spares(t, x)
    PROVE  Sound(Got(t, x, n))
<1>1. CASE Found(t, x) # NULL
  BY <1>1, GotIs DEF Sound
<1>2. CASE Found(t, x) = NULL
  <2> DEFINE a == Added(t, x, n)
             u == Got(t, x, n)
  <2>1. /\ n \in Nodes \ t.used
        /\ a \in Tables /\ a.head = t.head /\ a.left = t.left /\ a.right = t.right
        /\ a.used = t.used \cup {n} /\ a.name = [t.name EXCEPT ![n] = x]
        /\ Within(a, a.used) /\ Apart(a, a.used) /\ Unlinked(a, a.used, n)
        /\ u = PlaceAt(a, Less(t, x), n)
    BY <1>2, GotIs DEF Sound
  <2> HIDE DEF a, u
  <2>2. u \in Tables
    BY <2>1, PlaceHangs
  <2>3. PICK d, k : /\ IsDescent(d, k, a, Less(t, x), a.used)
                    /\ Hung(u, a, Less(t, x), n, d, k)
    BY <2>1, PlaceHangs
  <2>4. u.used = a.used /\ u.name = a.name /\ n \in a.used
    BY <2>1, <2>3 DEF Hung
  <2>5. Within(u, u.used) /\ Apart(u, u.used)
    BY <2>1, <2>2, <2>3, <2>4, HungApart
  <2>6. ASSUME NEW m \in Nodes \ u.used PROVE u.left[m] = NULL /\ u.right[m] = NULL
    <3>1. m \in Nodes \ t.used /\ t.left[m] = NULL /\ t.right[m] = NULL
      BY <2>1, <2>4 DEF Sound, Linked
    <3>2. k > 0 => d[k] # m
      BY <2>3, <2>4, SizeIsNat DEF IsDescent
    <3>3. k = 0 \/ k > 0
      BY <2>3, SizeIsNat DEF IsDescent
    <3> QED BY <2>1, <2>3, <3>1, <3>2, <3>3, Fields DEF Hung
  <2>7. \A m \in u.used : u.name[m] \in Names
    BY <2>1, <2>4, Fields DEF Sound, Linked
  <2>8. ASSUME NEW C \in SUBSET Nodes, Closed(u, C) PROVE u.used \subseteq C
    <3>1. n \in C /\ Closed(a, C)
      BY <2>1, <2>3, <2>4, <2>8, HungReaches
    <3>2. Closed(t, C)
      BY <2>1, <3>1 DEF Closed
    <3> QED BY <2>1, <2>4, <3>1, <3>2 DEF Sound, Rooted
  <2> QED BY <2>2, <2>5, <2>6, <2>7, <2>8 DEF Sound, Linked, Rooted, u
<1> QED BY <1>1, <1>2

LEMMA GotKeeps ==
    ASSUME NEW t, Linked(t), NEW x \in Names, NEW n \in Spares(t, x)
    PROVE  /\ Entry(t, x, n) \in Nodes /\ Entry(t, x, n) # NULL
           /\ Got(t, x, n).used = t.used \cup {Entry(t, x, n)}
           /\ Got(t, x, n).name = [t.name EXCEPT ![Entry(t, x, n)] = x]
<1>1. CASE Found(t, x) # NULL
  <2>1. Found(t, x) \in t.used /\ t.name[Found(t, x)] = x /\ t \in Tables
    BY <1>1, FoundUsed DEF Linked
  <2>2. t.name = [t.name EXCEPT ![Found(t, x)] = x]
    BY <2>1, Fields
  <2>3. Got(t, x, n) = t /\ Entry(t, x, n) = Found(t, x)
    BY <1>1, GotIs
  <2> QED BY <2>1, <2>2, <2>3, Fields, SizeIsNat
<1>2. CASE Found(t, x) = NULL
  <2> DEFINE a == Added(t, x, n)
             u == Got(t, x, n)
  <2>1. /\ n \in Nodes \ t.used /\ Entry(t, x, n) = n
        /\ a \in Tables
        /\ a.used = t.used \cup {n} /\ a.name = [t.name EXCEPT ![n] = x]
        /\ Within(a, a.used) /\ Apart(a, a.used)
        /\ u = PlaceAt(a, Less(t, x), n)
    BY <1>2, GotIs
  <2> HIDE DEF a, u
  <2>2. PICK d, k : Hung(u, a, Less(t, x), n, d, k)
    BY <2>1, PlaceHangs
  <2>3. u.used = a.used /\ u.name = a.name
    BY <2>2 DEF Hung
  <2> QED BY <2>1, <2>3, SizeIsNat DEF u
<1> QED BY <1>1, <1>2

-----------------------------------------------------------------------------
(* Removal.                                                                *)

\* What takes the place of e, and the table s in which it has.
Heir(t, e) == IF t.right[e] # NULL THEN t.right[e] ELSE t.left[e]

Relinked(s, t, e, r) ==
    /\ s.name = t.name /\ s.used = t.used
    /\ e = t.head => s.head = r /\ s.left = t.left /\ s.right = t.right
    /\ e # t.head =>
         /\ t.head \in t.used /\ s.head = t.head
         /\ \/ /\ t.right[t.head] = e /\ s.right = [t.right EXCEPT ![t.head] = r]
               /\ s.left = t.left
            \/ /\ t.left[t.head] = e /\ s.left = [t.left EXCEPT ![t.head] = r]
               /\ s.right = t.right

LEMMA SplicedRelinks ==
    ASSUME NEW t, Linked(t), NEW e \in t.used, ~RemoveCrashes(t, e)
    PROVE  Spliced(t, e) \in Tables /\ Relinked(Spliced(t, e), t, e, Heir(t, e))
<1> DEFINE r == Heir(t, e)
           p == FindParent(t, e)
           s == Spliced(t, e)
<1>1. t \in Tables /\ e \in Nodes /\ e # NULL /\ Within(t, t.used)
  BY SizeIsNat DEF Linked, Within
<1>2. r \in Nodes \cup {NULL}
  BY <1>1, Fields DEF Heir
<1>3. s = IF e = t.head THEN [t EXCEPT !.head = r]
          ELSE IF t.right[p] = e THEN [t EXCEPT !.right[p] = r]
          ELSE [t EXCEPT !.left[p] = r]
  BY Zenon DEF Spliced, Heir
<1>4. e # t.head => p = t.head /\ t.head \in t.used /\ e \in {t.left[t.head], t.right[t.head]}
  BY <1>1 DEF RemoveCrashes, FindParent, Within
<1> HIDE DEF r, p, s
<1>5. s \in Tables
  BY <1>1, <1>2, <1>3, Fields DEF Tables
<1>6. Relinked(s, t, e, r)
  BY <1>1, <1>3, <1>4, Fields DEF Relinked
<1> QED BY <1>5, <1>6 DEF s, r

LEMMA RelinkedLinks ==
    ASSUME NEW t, Linked(t), NEW e \in t.used, NEW s \in Tables,
           Relinked(s, t, e, Heir(t, e))
    PROVE  LET A == t.used \ {e} IN
           /\ Within(s, A) /\ Apart(s, A)
           /\ \A m \in Nodes \ t.used : s.left[m] = NULL /\ s.right[m] = NULL
           /\ Relocates(t, e) => t.left[e] \in A /\ Unlinked(s, A, t.left[e])
<1> DEFINE A == t.used \ {e}
           r == Heir(t, e)
<1>1. /\ t \in Tables /\ e \in Nodes /\ NULL \notin t.used /\ t.used \subseteq Nodes
      /\ Within(t, t.used) /\ Apart(t, t.used) /\ A \subseteq Nodes
      /\ \A m \in Nodes \ t.used : t.left[m] = NULL /\ t.right[m] = NULL
  BY SizeIsNat DEF Linked, Within
<1>2. CASE e = t.head
  <2>1. s.head = r /\ s.left = t.left /\ s.right = t.right
    BY <1>2 DEF Relinked
  <2>2. Within(s, A)
    BY <1>1, <1>2, <2>1 DEF Within, Apart, Heir
  <2>3. Apart(s, A)
    BY <1>1, <1>2, <2>1 DEF Within, Apart, Heir
  <2>4. Relocates(t, e) => t.left[e] \in A /\ Unlinked(s, A, t.left[e])
    BY <1>1, <1>2, <2>1 DEF Within, Apart, Heir, Relocates, Unlinked
  <2> QED BY <1>1, <2>1, <2>2, <2>3, <2>4
<1>3. CASE e # t.head /\ t.right[t.head] = e /\ s.right = [t.right EXCEPT ![t.head] = r]
           /\ s.left = t.left
  <2>1. t.head \in A /\ s.head = t.head /\ s.left = t.left
    BY <1>3 DEF Relinked
  <2>2. \A m \in Nodes : s.right[m] = IF m = t.head THEN r ELSE t.right[m]
    BY <1>1, <1>3, Fields
  <2> HIDE DEF r
  <2>3. t.left[e] # e /\ t.right[e] # e /\ e # NULL
    BY <1>1, <1>3, <2>1 DEF Apart
  <2>4. \A m \in A : t.left[m] # e /\ (t.right[m] = e => m = t.head)
    BY <1>1, <1>3, <2>1, <2>3 DEF Apart
  <2>5. Within(s, A)
    BY <1>1, <2>1, <2>2, <2>3, <2>4 DEF Within, Heir, r
  <2>6. Apart(s, A)
    BY <1>1, <2>1, <2>2, <2>3, <2>4 DEF Within, Apart, Heir, r
  <2>7. Relocates(t, e) => t.left[e] \in A /\ Unlinked(s, A, t.left[e])
    BY <1>1, <2>1, <2>2, <2>3, <2>4 DEF Within, Apart, Heir, Relocates, Unlinked, r
  <2>8. \A m \in Nodes \ t.used : s.left[m] = NULL /\ s.right[m] = NULL
    BY <1>1, <2>1, <2>2
  <2> QED BY <2>5, <2>6, <2>7, <2>8
<1>4. CASE e # t.head /\ t.left[t.head] = e /\ s.left = [t.left EXCEPT ![t.head] = r]
           /\ s.right = t.right
  <2>1. t.head \in A /\ s.head = t.head /\ s.right = t.right
    BY <1>4 DEF Relinked
  <2>2. \A m \in Nodes : s.left[m] = IF m = t.head THEN r ELSE t.left[m]
    BY <1>1, <1>4, Fields
  <2> HIDE DEF r
  <2>3. t.left[e] # e /\ t.right[e] # e /\ e # NULL
    BY <1>1, <1>4, <2>1 DEF Apart
  <2>4. \A m \in A : t.right[m] # e /\ (t.left[m] = e => m = t.head)
    BY <1>1, <1>4, <2>1, <2>3 DEF Apart
  <2>5. Within(s, A)
    BY <1>1, <2>1, <2>2, <2>3, <2>4 DEF Within, Heir, r
  <2>6. Apart(s, A)
    BY <1>1, <2>1, <2>2, <2>3, <2>4 DEF Within, Apart, Heir, r
  <2>7. Relocates(t, e) => t.left[e] \in A /\ Unlinked(s, A, t.left[e])
    BY <1>1, <2>1, <2>2, <2>3, <2>4 DEF Within, Apart, Heir, Relocates, Unlinked, r
  <2>8. \A m \in Nodes \ t.used : s.left[m] = NULL /\ s.right[m] = NULL
    BY <1>1, <2>1, <2>2
  <2> QED BY <2>5, <2>6, <2>7, <2>8
<1> QED BY <1>2, <1>3, <1>4 DEF Relinked

\* What BTree_remove does at the end.
Cleared(u, e) == [u EXCEPT !.left[e] = NULL, !.right[e] = NULL, !.name[e] = NULL,
                           !.used = @ \ {e}]

IsCleared(v, u, e) ==
    /\ v \in Tables /\ v.head = u.head /\ v.used = u.used \ {e}
    /\ v.left = [u.left EXCEPT ![e] = NULL] /\ v.right = [u.right EXCEPT ![e] = NULL]
    /\ v.name = [u.name EXCEPT ![e] = NULL]

LEMMA ClearedIs ==
    ASSUME NEW u \in Tables, NEW e \in Nodes
    PROVE  IsCleared(Cleared(u, e), u, e)
  BY Fields DEF Cleared, Tables, IsCleared

\* BTree_remove makes v of t, with what it does to the links before the node is
\* freed: s and u are the tables after the two link operations.
RemovedBy(v, t, e, s, u) ==
    LET A == t.used \ {e} IN
    /\ v = Cleared(u, e)
    /\ Relinked(s, t, e, Heir(t, e))
    /\ ~Relocates(t, e) => u = s
    /\ Relocates(t, e) => \E L, d, k : /\ IsDescent(d, k, s, L, A)
                                      /\ Hung(u, s, L, t.left[e], d, k)
    /\ u.used = t.used /\ u.name = t.name
    /\ Within(u, A) /\ Apart(u, A)
    /\ \A m \in Nodes \ t.used : u.left[m] = NULL /\ u.right[m] = NULL

LEMMA RemovedIs ==
    ASSUME NEW t, Linked(t), NEW e \in t.used, ~RemoveCrashes(t, e), NEW g
    PROVE  \E s \in Tables, u \in Tables : RemovedBy(Removed(t, e, g), t, e, s, u)
<1> DEFINE A == t.used \ {e}
           s == Spliced(t, e)
           l == t.left[e]
           u == IF Relocates(t, e) THEN PlaceAt(s, Less(s, g), l) ELSE s
<1>1. s \in Tables /\ Relinked(s, t, e, Heir(t, e))
  BY SplicedRelinks
<1>2. Removed(t, e, g) = Cleared(u, e)
  BY Zenon DEF Removed, Cleared
<1> HIDE DEF s
<1>3. /\ Within(s, A) /\ Apart(s, A) /\ s.used = t.used /\ s.name = t.name
      /\ \A m \in Nodes \ t.used : s.left[m] = NULL /\ s.right[m] = NULL
      /\ Relocates(t, e) => l \in A /\ Unlinked(s, A, l)
  BY <1>1, RelinkedLinks DEF Relinked
<1>4. CASE ~Relocates(t, e)
  BY <1>1, <1>2, <1>3, <1>4 DEF RemovedBy
<1>5. CASE Relocates(t, e)
  <2>1. l \in A /\ Unlinked(s, A, l) /\ A \subseteq Nodes /\ u = PlaceAt(s, Less(s, g), l)
    BY <1>3, <1>5 DEF Linked, Within
  <2> HIDE DEF u, l
  <2>2. u \in Tables
    BY <1>1, <1>3, <2>1, PlaceHangs
  <2>3. PICK d, k : IsDescent(d, k, s, Less(s, g), A) /\ Hung(u, s, Less(s, g), l, d, k)
    <3>1. l \in Nodes
      BY <2>1
    <3> QED BY <1>1, <1>3, <2>1, <3>1, PlaceHangs
  <2>4. Within(u, A) /\ Apart(u, A)
    BY <1>1, <1>3, <2>1, <2>2, <2>3, HungApart
  <2>5. u.used = t.used /\ u.name = t.name
    BY <1>3, <2>3 DEF Hung
  <2>6. ASSUME NEW m \in Nodes \ t.used PROVE u.left[m] = NULL /\ u.right[m] = NULL
    <3>1. k = 0 \/ (k > 0 /\ d[k] # m)
      BY <2>3, SizeIsNat DEF IsDescent
    <3> QED BY <1>1, <1>3, <2>3, <3>1, Fields DEF Hung
  <2>7. Relocates(t, e) => \E L, d1, k1 : IsDescent(d1, k1, s, L, A) /\ Hung(u, s, L, l, d1, k1)
    BY <2>3
  <2>8. RemovedBy(Removed(t, e, g), t, e, s, u)
    BY <1>1, <1>2, <1>5, <2>4, <2>5, <2>6, <2>7 DEF l, RemovedBy
  <2> QED BY <1>1, <2>2, <2>8
<1> QED BY <1>4, <1>5

LEMMA RemovedLinked ==
    ASSUME NEW t, Linked(t), NEW e \in t.used, ~RemoveCrashes(t, e), NEW g
    PROVE  LET v == Removed(t, e, g) IN
           /\ Linked(v) /\ v.used = t.used \ {e} /\ v.name = [t.name EXCEPT ![e] = NULL]
<1> DEFINE v == Removed(t, e, g)
           A == t.used \ {e}
<1>1. PICK s \in Tables, u \in Tables : RemovedBy(v, t, e, s, u)
  BY RemovedIs
<1> HIDE DEF v
<1>2. e \in Nodes /\ e \notin A /\ t \in Tables /\ \A m \in t.used : t.name[m] \in Names
  BY DEF Linked, Within
<1>3. /\ v \in Tables /\ v.head = u.head /\ v.used = A
      /\ v.left = [u.left EXCEPT ![e] = NULL] /\ v.right = [u.right EXCEPT ![e] = NULL]
      /\ v.name = [t.name EXCEPT ![e] = NULL]
  <2>1. v = Cleared(u, e) /\ u.used = t.used /\ u.name = t.name
    BY <1>1 DEF RemovedBy
  <2>2. IsCleared(v, u, e)
    BY <1>2, <2>1, ClearedIs
  <2> QED BY <2>1, <2>2 DEF IsCleared
<1>4. \A m \in Nodes : /\ v.left[m] = IF m = e THEN NULL ELSE u.left[m]
                       /\ v.right[m] = IF m = e THEN NULL ELSE u.right[m]
                       /\ v.name[m] = IF m = e THEN NULL ELSE t.name[m]
  BY <1>1, <1>2, <1>3, Fields
<1>5. A \subseteq Nodes
  BY <1>2 DEF Linked, Within
<1>6. Within(v, A)
  BY <1>1, <1>2, <1>3, <1>4, <1>5 DEF Within, RemovedBy
<1>7. Apart(v, A)
  BY <1>1, <1>2, <1>3, <1>4, <1>5 DEF Apart, RemovedBy
<1>8. \A m \in Nodes \ A : v.left[m] = NULL /\ v.right[m] = NULL
  BY <1>1, <1>4 DEF RemovedBy
<1>9. \A m \in A : v.name[m] \in Names
  BY <1>2, <1>4, <1>5
<1>10. Linked(v)
  BY <1>3, <1>6, <1>7, <1>8, <1>9 DEF Linked
<1> QED BY <1>3, <1>10 DEF v

\* All that was reached still is: a set that contains what the table's links lead
\* to contains, with e, what they led to before.
LEMMA RemovedRooted ==
    ASSUME NEW t, Sound(t), NEW e \in t.used, ~RemoveCrashes(t, e), NEW g
    PROVE  Rooted(Removed(t, e, g))
<1> DEFINE v == Removed(t, e, g)
           A == t.used \ {e}
<1>1. PICK s \in Tables, u \in Tables :
         /\ v = Cleared(u, e)
         /\ Relinked(s, t, e, Heir(t, e))
         /\ ~Relocates(t, e) => u = s
         /\ Relocates(t, e) => \E L, d, k :
              /\ IsDescent(d, k, s, L, A)
              /\ Hung(u, s, L, t.left[e], d, k)
         /\ Within(u, A)
         /\ \A m \in Nodes \ t.used : u.left[m] = NULL /\ u.right[m] = NULL
  <2>1. PICK s \in Tables, u \in Tables : RemovedBy(v, t, e, s, u)
    BY RemovedIs DEF Sound
  <2> HIDE DEF v
  <2> QED BY <2>1 DEF RemovedBy
<1> HIDE DEF v
<1>2. /\ t \in Tables /\ e \in Nodes /\ e # NULL /\ e \notin A /\ Linked(t)
      /\ Within(t, t.used) /\ Apart(t, t.used) /\ A \subseteq Nodes /\ NULL \notin A
  BY SizeIsNat DEF Sound, Linked, Within
<1>3. /\ v.head = u.head /\ v.used = t.used \ {e}
      /\ v.left = [u.left EXCEPT ![e] = NULL] /\ v.right = [u.right EXCEPT ![e] = NULL]
  <2>1. v.used = A
    BY <1>2, RemovedLinked DEF v
  <2>2. IsCleared(v, u, e)
    BY <1>1, <1>2, ClearedIs
  <2> QED BY <2>1, <2>2 DEF IsCleared
<1>4. ASSUME NEW C \in SUBSET Nodes, Closed(v, C) PROVE v.used \subseteq C
  <2> DEFINE B == C \ {e}
  <2>1. \A m \in Nodes \ {e} : v.left[m] = u.left[m] /\ v.right[m] = u.right[m]
    BY <1>1, <1>2, <1>3, Fields
  <2>2. \A m \in Nodes \ {e} : u.left[m] # e /\ u.right[m] # e
    BY <1>1, <1>2 DEF Within
  <2>3. Closed(u, B) /\ B \in SUBSET Nodes
    BY <1>1, <1>2, <1>3, <1>4, <2>1, <2>2 DEF Closed, Within
  <2> HIDE DEF B
  <2>4. Closed(s, B) /\ (Relocates(t, e) => t.left[e] \in B)
    <3>1. CASE ~Relocates(t, e)
      BY <1>1, <2>3, <3>1
    <3>2. CASE Relocates(t, e)
      <4>1. Within(s, A) /\ t.left[e] \in A
        BY <1>1, <1>2, <3>2, RelinkedLinks
      <4>2. PICK L, d, k : IsDescent(d, k, s, L, A) /\ Hung(u, s, L, t.left[e], d, k)
        BY <1>1, <3>2
      <4> QED BY <1>1, <2>3, <4>1, <4>2, HungReaches
    <3> QED BY <3>1, <3>2
  <2>5. Heir(t, e) \in B \cup {NULL}
    <3>1. CASE e = t.head
      BY <1>1, <2>4, <3>1 DEF Relinked, Closed
    <3>2. CASE e # t.head
      <4>1. t.head \in t.used /\ s.head = t.head /\ t.head \in B
        BY <1>1, <1>2, <2>4, <3>2 DEF Relinked, Closed
      <4>2. Heir(t, e) \in {s.left[t.head], s.right[t.head]}
        BY <1>1, <1>2, <3>2, <4>1, Fields DEF Relinked
      <4> QED BY <2>4, <4>1, <4>2 DEF Closed
    <3> QED BY <3>1, <3>2
  <2>6. t.left[e] \in B \cup {NULL} /\ t.right[e] \in B \cup {NULL}
    BY <2>4, <2>5 DEF Heir, Relocates
  <2>7. t.head \in B \cup {e, NULL}
    BY <1>1, <2>4 DEF Relinked, Closed
  <2>8. \A m \in B : /\ t.left[m] \in {e, s.left[m]}
                     /\ t.right[m] \in {e, s.right[m]}
    BY <1>1, <1>2, <2>3, Fields DEF Relinked
  <2>9. Closed(t, B \cup {e})
    BY <2>4, <2>6, <2>7, <2>8 DEF Closed
  <2>10. t.used \subseteq B \cup {e}
    BY <1>2, <2>3, <2>9 DEF Sound, Rooted
  <2> QED BY <1>3, <2>10 DEF B
<1> QED BY <1>4 DEF Rooted, v

-----------------------------------------------------------------------------
(* Rooted tables are trees in the terms of HashTree.  What is below the    *)
(* head grows by a node with each step at least, until it has all children. *)

Grown(t, s) == s \cup (({t.left[m] : m \in s} \cup {t.right[m] : m \in s}) \ {NULL})

Growing(f, t, n) ==
    f = [i \in 0..Cardinality(Nodes) |->
           IF i = 0 THEN {n} \ {NULL}
           ELSE LET g == f[i - 1] IN
                g \cup (({t.left[m] : m \in g} \cup {t.right[m] : m \in g}) \ {NULL})]

LEMMA BelowIs ==
    ASSUME NEW t, NEW n
    PROVE  Below(t, n) = LET grow == CHOOSE f : Growing(f, t, n)
                         IN  grow[Cardinality(Nodes)]
  BY Zenon DEF Below, Growing

Sprouted(f, k, t, n) ==
    /\ DOMAIN f = 0..k
    /\ f = [i \in 0..k |-> f[i]]
    /\ \A i \in 0..k : f[i] = IF i = 0 THEN {n} \ {NULL} ELSE Grown(t, f[i - 1])

LEMMA GrowingExists ==
    ASSUME NEW t, NEW n
    PROVE  \E f : Growing(f, t, n)
<1> DEFINE N == Cardinality(Nodes)
           T == {k \in 0..N : ~ \E f : Sprouted(f, k, t, n)}
<1>0. N \in Nat
  BY SizeIsNat
<1> HIDE DEF N
<1>1. T = {}
  <2>1. SUFFICES ASSUME T # {} PROVE FALSE
    OBVIOUS
  <2>2. PICK k \in T : \A y \in T : k <= y
    <3>1. T \subseteq Nat
      BY <1>0
    <3> HIDE DEF T
    <3> QED BY <2>1, <3>1, LeastElement
  <2>3. k \in 0..N /\ ~ \E f : Sprouted(f, k, t, n)
    OBVIOUS
  <2>4. k # 0
    <3>1. Sprouted([i \in 0..0 |-> {n} \ {NULL}], 0, t, n)
      BY DEF Sprouted
    <3> QED BY <2>3, <3>1
  <2>5. k - 1 \in 0..N /\ k - 1 \notin T
    <3>1. k - 1 \in 0..N /\ ~ (k <= k - 1)
      BY <1>0, <2>3, <2>4
    <3> HIDE DEF T
    <3> QED BY <2>2, <3>1
  <2>6. PICK f : Sprouted(f, k - 1, t, n)
    BY <2>5
  <2> DEFINE g == [i \in 0..k |-> IF i < k THEN f[i] ELSE Grown(t, f[i - 1])]
  <2>7. \A i \in 0..k : i < k => i \in 0..(k - 1)
    BY <1>0, <2>3
  <2>8. \A i \in 0..k : i # 0 => i - 1 \in 0..k /\ i - 1 < k
    BY <1>0, <2>3
  <2>9. \A i \in 0..k : i # 0 => g[i - 1] = f[i - 1]
    BY <2>8
  <2>10. \A i \in 0..k : g[i] = IF i = 0 THEN {n} \ {NULL} ELSE Grown(t, f[i - 1])
    <3> TAKE i \in 0..k
    <3>1. CASE i < k
      BY <2>6, <2>7, <3>1 DEF Sprouted
    <3>2. CASE ~ (i < k)
      <4>1. i # 0
        BY <1>0, <2>3, <2>4, <3>2
      <4> QED BY <3>2, <4>1
    <3> QED BY <3>1, <3>2
  <2>11. DOMAIN g = 0..k /\ g = [i \in 0..k |-> g[i]]
    OBVIOUS
  <2> HIDE DEF g
  <2>12. Sprouted(g, k, t, n)
    BY <2>9, <2>10, <2>11 DEF Sprouted
  <2> QED BY <2>3, <2>12
<1>2. PICK f : Sprouted(f, N, t, n)
  <2>1. N \in 0..N
    BY <1>0
  <2> QED BY <1>1, <2>1
<1>3. f = [i \in 0..N |->
           IF i = 0 THEN {n} \ {NULL}
           ELSE LET g == f[i - 1] IN
                g \cup (({t.left[m] : m \in g} \cup {t.right[m] : m \in g}) \ {NULL})]
  BY <1>2 DEF Sprouted, Grown
<1> QED BY <1>3 DEF Growing, N

LEMMA BelowHead ==
    ASSUME NEW t, Sound(t)
    PROVE  Below(t, t.head) = t.used
<1> DEFINE N == Cardinality(Nodes)
           h == t.head
           grow == CHOOSE f : Growing(f, t, h)
<1>1. Growing(grow, t, h) /\ Below(t, h) = grow[N]
  BY GrowingExists, BelowIs
<1> HIDE DEF grow
<1>2. \A i \in 0..N : grow[i] = IF i = 0 THEN {h} \ {NULL} ELSE Grown(t, grow[i - 1])
  BY <1>1 DEF Growing, Grown
<1>3. N \in Nat /\ IsFiniteSet(Nodes) /\ NULL \notin t.used /\ t.used \subseteq Nodes
      /\ Within(t, t.used)
  BY SizeIsNat DEF Sound, Linked, Within
<1>4. N = Cardinality(Nodes)
  OBVIOUS
<1> HIDE DEF N
\* Everything below is in memory.
<1>5. \A i \in 0..N : grow[i] \subseteq t.used /\ h \in grow[i] \cup {NULL}
  <2> DEFINE T == {i \in 0..N : ~ (grow[i] \subseteq t.used /\ h \in grow[i] \cup {NULL})}
  <2>1. SUFFICES ASSUME T # {} PROVE FALSE
    OBVIOUS
  <2>2. PICK k \in T : \A y \in T : k <= y
    <3>1. T \subseteq Nat
      BY <1>3
    <3> HIDE DEF T
    <3> QED BY <2>1, <3>1, LeastElement
  <2>3. k \in 0..N /\ ~ (grow[k] \subseteq t.used /\ h \in grow[k] \cup {NULL})
    OBVIOUS
  <2>4. k # 0
    BY <1>2, <1>3, <2>3 DEF Within
  <2>5. k - 1 \in 0..N /\ k - 1 \notin T
    <3>1. k - 1 \in 0..N /\ ~ (k <= k - 1)
      BY <1>3, <2>3, <2>4
    <3> HIDE DEF T
    <3> QED BY <2>2, <3>1
  <2>6. grow[k] = Grown(t, grow[k - 1])
    BY <1>2, <2>3, <2>4
  <2>7. grow[k - 1] \subseteq t.used /\ h \in grow[k - 1] \cup {NULL}
    BY <2>5
  <2>8. grow[k] \subseteq t.used
    BY <1>3, <2>6, <2>7 DEF Grown, Within
  <2>9. h \in grow[k] \cup {NULL}
    BY <2>6, <2>7 DEF Grown
  <2> QED BY <2>3, <2>8, <2>9
\* It has all children or more nodes than steps.
<1>6. \A i \in 0..N : Grown(t, grow[i]) = grow[i] \/ Cardinality(grow[i]) > i
  <2> DEFINE T == {i \in 0..N : ~ (Grown(t, grow[i]) = grow[i] \/ Cardinality(grow[i]) > i)}
  <2>1. SUFFICES ASSUME T # {} PROVE FALSE
    OBVIOUS
  <2>2. PICK k \in T : \A y \in T : k <= y
    <3>1. T \subseteq Nat
      BY <1>3
    <3> HIDE DEF T
    <3> QED BY <2>1, <3>1, LeastElement
  <2>3. k \in 0..N /\ ~ (Grown(t, grow[k]) = grow[k] \/ Cardinality(grow[k]) > k)
    OBVIOUS
  <2>4. k # 0
    <3>1. ASSUME k = 0 PROVE FALSE
      <4>1. grow[k] = {h} \ {NULL}
        BY <1>2, <2>3, <3>1
      <4>2. CASE h = NULL
        BY <2>3, <4>1, <4>2 DEF Grown
      <4>3. CASE h # NULL
        <5>1. grow[k] = {h}
          BY <4>1, <4>3
        <5>2. Cardinality(grow[k]) = 1
          BY <5>1, FS_Singleton
        <5> QED BY <2>3, <3>1, <5>2
      <4> QED BY <4>2, <4>3
    <3> QED BY <3>1
  <2>5. k - 1 \in 0..N /\ k - 1 \notin T
    <3>1. k - 1 \in 0..N /\ ~ (k <= k - 1)
      BY <1>3, <2>3, <2>4
    <3> HIDE DEF T
    <3> QED BY <2>2, <3>1
  <2>6. grow[k] = Grown(t, grow[k - 1])
    BY <1>2, <2>3, <2>4
  <2>7. Grown(t, grow[k - 1]) = grow[k - 1] \/ Cardinality(grow[k - 1]) > k - 1
    BY <2>5
  <2>8. grow[k] # grow[k - 1]
    <3>1. ASSUME grow[k] = grow[k - 1] PROVE FALSE
      BY <2>3, <2>6, <3>1
    <3> QED BY <3>1
  <2>9. Cardinality(grow[k - 1]) > k - 1
    BY <2>6, <2>7, <2>8
  <2>10. grow[k - 1] \subseteq grow[k] /\ IsFiniteSet(grow[k])
    <3>1. grow[k - 1] \subseteq grow[k]
      BY <2>6 DEF Grown
    <3>2. grow[k] \subseteq Nodes
      BY <1>3, <1>5, <2>3
    <3> QED BY <1>3, <3>1, <3>2, FS_Subset
  <2>11. /\ Cardinality(grow[k - 1]) <= Cardinality(grow[k])
         /\ Cardinality(grow[k - 1]) # Cardinality(grow[k])
    BY <2>8, <2>10, FS_Subset
  <2>12. Cardinality(grow[k - 1]) \in Nat /\ Cardinality(grow[k]) \in Nat
    BY <2>10, FS_Subset, FS_CardinalityType
  <2>13. k \in Nat
    BY <1>3, <2>3
  <2>14. Cardinality(grow[k]) > k
    BY <2>9, <2>11, <2>12, <2>13
  <2> QED BY <2>3, <2>14
<1> DEFINE C == grow[N]
<1>7. Grown(t, C) = C /\ C \subseteq t.used /\ h \in C \cup {NULL}
  <2>1. N \in 0..N
    BY <1>3
  <2>2. C \subseteq Nodes /\ C \subseteq t.used /\ h \in C \cup {NULL}
    BY <1>3, <1>5, <2>1
  <2>3. Cardinality(C) <= N /\ Cardinality(C) \in Nat
    BY <1>3, <1>4, <2>2, FS_Subset, FS_CardinalityType
  <2>4. ~ (Cardinality(C) > N)
    BY <1>3, <2>3
  <2> QED BY <1>6, <2>1, <2>2, <2>4
<1> HIDE DEF C
<1>8. Closed(t, C)
  <2>1. \A m \in C : t.left[m] \in C \cup {NULL} /\ t.right[m] \in C \cup {NULL}
    BY <1>7 DEF Grown
  <2> QED BY <1>7, <2>1 DEF Closed
<1>9. t.used \subseteq C
  BY <1>3, <1>7, <1>8 DEF Sound, Rooted
<1> QED BY <1>1, <1>7, <1>9 DEF C

LEMMA OneLink ==
    ASSUME NEW t, Sound(t), NEW n \in t.used
    PROVE  Cardinality(LinksTo(t, n)) = 1
<1>1. /\ Within(t, t.used) /\ Apart(t, t.used) /\ t.used \subseteq Nodes /\ n # NULL
      /\ NULL \notin t.used
  BY SizeIsNat DEF Sound, Linked, Within
\* Without a link n would not be reached.
<1>2. t.head = n \/ \E m \in t.used : t.left[m] = n \/ t.right[m] = n
  <2>1. SUFFICES ASSUME t.head # n, \A m \in t.used : t.left[m] # n /\ t.right[m] # n
                 PROVE  FALSE
    OBVIOUS
  <2>2. Closed(t, t.used \ {n})
    BY <1>1, <2>1 DEF Closed, Within
  <2>3. t.used \subseteq t.used \ {n}
    BY <1>1, <2>2 DEF Sound, Rooted
  <2> QED BY <2>3
<1>3. \A x : x \in LinksTo(t, n) <=>
        \/ \E m \in t.used : t.left[m] = n /\ x = <<m, "left">>
        \/ \E m \in t.used : t.right[m] = n /\ x = <<m, "right">>
        \/ t.head = n /\ x = <<NULL, "head">>
  BY DEF LinksTo
<1>4. CASE t.head = n
  <2>1. \A m \in t.used : t.left[m] # n /\ t.right[m] # n
    BY <1>1, <1>4 DEF Apart
  <2>2. LinksTo(t, n) = {<<NULL, "head">>}
    BY <1>3, <1>4, <2>1
  <2> QED BY <2>2, FS_Singleton
<1>5. ASSUME NEW m \in t.used, t.left[m] = n PROVE Cardinality(LinksTo(t, n)) = 1
  <2>1. t.head # n /\ \A k \in t.used : t.right[k] # n /\ (t.left[k] = n => k = m)
    BY <1>1, <1>5 DEF Apart
  <2>2. LinksTo(t, n) = {<<m, "left">>}
    BY <1>3, <1>5, <2>1
  <2> QED BY <2>2, FS_Singleton
<1>6. ASSUME NEW m \in t.used, t.right[m] = n PROVE Cardinality(LinksTo(t, n)) = 1
  <2>1. t.head # n /\ \A k \in t.used : t.left[k] # n /\ (t.right[k] = n => k = m)
    BY <1>1, <1>6 DEF Apart
  <2>2. LinksTo(t, n) = {<<m, "right">>}
    BY <1>3, <1>6, <2>1
  <2> QED BY <2>2, FS_Singleton
<1> QED BY <1>2, <1>4, <1>5, <1>6

-----------------------------------------------------------------------------
(* Lookups.  A search that is on its way to a node is a beginning of the   *)
(* descent, so that Found is decided by the path to the node alone.        *)

Leads(g, j, t, L) ==
    /\ j \in Nat \ {0} /\ g \in [1..j -> Nodes] /\ g[1] = t.head
    /\ \A i \in 2..j : g[i] = Turn(t, L, g[i - 1])

\* The path g of the search for x in t ends at its j-th node, n.
Path(g, j, t, x, n) ==
    /\ Leads(g, j, t, Less(t, x)) /\ g[j] = n /\ t.name[n] = x
    /\ \A i \in 1..j : i < j => t.name[g[i]] # x

LEMMA LeadsFollows ==
    ASSUME NEW t, NEW L, NEW A, NEW d, NEW k, IsDescent(d, k, t, L, A),
           NEW g, NEW j, Leads(g, j, t, L)
    PROVE  \A i \in 1..j : i \in 1..k /\ g[i] = d[i]
<1> DEFINE T == {i \in 1..j : ~ (i \in 1..k /\ g[i] = d[i])}
<1>1. SUFFICES ASSUME T # {} PROVE FALSE
  OBVIOUS
<1>2. k \in Nat /\ j \in Nat
  BY SizeIsNat DEF IsDescent, Leads
<1>3. PICK i \in T : \A y \in T : i <= y
  <2>1. T \subseteq Nat
    BY <1>2
  <2> HIDE DEF T
  <2> QED BY <1>1, <2>1, LeastElement
<1>4. i \in 1..j /\ ~ (i \in 1..k /\ g[i] = d[i]) /\ g[i] \in Nodes /\ g[i] # NULL
  BY SizeIsNat DEF Leads
<1>5. i # 1
  <2>1. ASSUME i = 1 PROVE FALSE
    <3>1. t.head # NULL /\ g[i] = t.head
      BY <1>4, <2>1 DEF Leads
    <3>2. k > 0 /\ d[1] = t.head
      BY <1>2, <3>1 DEF IsDescent
    <3> QED BY <1>2, <1>4, <2>1, <3>1, <3>2
  <2> QED BY <2>1
<1>6. i - 1 \in 1..j /\ i \in 2..j /\ ~ (i <= i - 1)
  BY <1>2, <1>4, <1>5
<1>7. i - 1 \notin T
  <2> HIDE DEF T
  <2> QED BY <1>3, <1>6
<1>8. i - 1 \in 1..k /\ g[i - 1] = d[i - 1] /\ g[i] = Turn(t, L, d[i - 1])
  BY <1>6, <1>7 DEF Leads
<1>9. CASE i \in 1..k
  <2>1. i \in 2..k
    BY <1>6, <1>9
  <2> QED BY <1>4, <1>8, <1>9, <2>1 DEF IsDescent
<1>10. CASE i \notin 1..k
  <2>1. i - 1 = k /\ k > 0
    BY <1>2, <1>4, <1>8, <1>10
  <2> QED BY <1>4, <1>8, <2>1 DEF IsDescent
<1> QED BY <1>9, <1>10

\* A path is within memory and meets no node twice.
LEMMA LeadsWithin ==
    ASSUME NEW t, Linked(t), NEW L, NEW g, NEW j, Leads(g, j, t, L)
    PROVE  g \in [1..j -> t.used] /\ \A i, h \in 1..j : g[i] = g[h] => i = h
<1>1. PICK d, k : IsDescent(d, k, t, L, t.used)
  BY DescentEnds DEF Linked
<1>2. \A i \in 1..j : i \in 1..k /\ g[i] = d[i]
  BY <1>1, LeadsFollows
<1>3. \A i \in 1..j : g[i] \in t.used
  BY <1>1, <1>2 DEF IsDescent
<1>4. g \in [1..j -> t.used]
  BY <1>3 DEF Leads
<1>5. \A i, h \in 1..k : d[i] = d[h] => i = h
  BY <1>1 DEF IsDescent
<1> QED BY <1>2, <1>4, <1>5

LEMMA PathFinds ==
    ASSUME NEW t, Linked(t), NEW x, NEW n, NEW g, NEW j, Path(g, j, t, x, n)
    PROVE  Found(t, x) = n
<1> DEFINE d == Descent(t, Less(t, x))
           hits == {i \in DOMAIN d : t.name[d[i]] = x}
<1>1. PICK k : IsDescent(d, k, t, Less(t, x), t.used)
  BY DescentEnds DEF Linked
<1>2. Found(t, x) = IF hits = {} THEN NULL
                    ELSE d[CHOOSE i \in hits : \A h \in hits : i <= h]
  BY Zenon DEF Found
<1> HIDE DEF d
<1>3. DOMAIN d = 1..k /\ k \in Nat /\ j \in Nat
  BY <1>1, SizeIsNat DEF IsDescent, Path, Leads
<1>4. \A i \in 1..j : i \in 1..k /\ g[i] = d[i]
  BY <1>1, LeadsFollows DEF Path
<1>5. j \in 1..j
  BY DEF Path, Leads
<1>6. j \in hits
  BY <1>3, <1>4, <1>5 DEF Path
<1>7. ASSUME NEW i \in hits PROVE j <= i
  <2>1. i \in 1..k /\ t.name[d[i]] = x
    BY <1>3
  <2>2. ASSUME i < j PROVE FALSE
    <3>1. i \in 1..j
      BY <1>3, <2>1, <2>2
    <3> QED BY <1>4, <2>1, <2>2, <3>1 DEF Path
  <2> QED BY <1>3, <2>1, <2>2
<1>8. \A i \in hits : (\A h \in hits : i <= h) => i = j
  <2>1. hits \subseteq Nat
    BY <1>3
  <2> HIDE DEF hits
  <2> QED BY <1>6, <1>7, <2>1, <1>3
<1>9. (CHOOSE i \in hits : \A h \in hits : i <= h) = j
  <2> HIDE DEF hits
  <2> QED BY <1>6, <1>7, <1>8
<1>10. d[j] = n
  BY <1>4, <1>5 DEF Path
<1> QED BY <1>2, <1>6, <1>9, <1>10

LEMMA FoundPath ==
    ASSUME NEW t, Linked(t), NEW x, Found(t, x) # NULL
    PROVE  \E g, j : Path(g, j, t, x, Found(t, x))
<1> DEFINE d == Descent(t, Less(t, x))
           hits == {i \in DOMAIN d : t.name[d[i]] = x}
<1>1. PICK k : IsDescent(d, k, t, Less(t, x), t.used)
  BY DescentEnds DEF Linked
<1>2. Found(t, x) = IF hits = {} THEN NULL
                    ELSE d[CHOOSE i \in hits : \A h \in hits : i <= h]
  BY Zenon DEF Found
<1> HIDE DEF d
<1>3. DOMAIN d = 1..k /\ k \in Nat /\ d \in [1..k -> t.used] /\ t.used \subseteq Nodes
  BY <1>1, SizeIsNat DEF IsDescent, Linked, Within
<1>4. hits # {} /\ hits \subseteq Nat
  BY <1>2, <1>3
<1>5. \E i \in hits : \A h \in hits : i <= h
  <2> HIDE DEF hits
  <2> QED BY <1>4, LeastElement
<1>6. PICK j \in hits : Found(t, x) = d[j] /\ \A h \in hits : j <= h
  <2> HIDE DEF hits
  <2> QED BY <1>2, <1>4, <1>5
<1>7. j \in 1..k /\ t.name[d[j]] = x /\ j \in Nat \ {0}
  BY <1>3, <1>6
<1> DEFINE g == [i \in 1..j |-> d[i]]
<1>8. \A i \in 1..j : i \in 1..k
  BY <1>3, <1>7
<1>9. g \in [1..j -> Nodes] /\ 1 \in 1..j /\ j \in 1..j /\ k > 0
  BY <1>3, <1>7, <1>8
<1>10. \A i \in 2..j : i \in 2..k /\ i - 1 \in 1..j /\ i \in 1..j
  BY <1>3, <1>7
<1>11. g[1] = t.head /\ \A i \in 2..j : g[i] = Turn(t, Less(t, x), g[i - 1])
  BY <1>1, <1>9, <1>10 DEF IsDescent
<1>12. ASSUME NEW i \in 1..j, i < j PROVE t.name[g[i]] # x
  <2>1. i \notin hits /\ i \in 1..k
    BY <1>3, <1>6, <1>7, <1>8, <1>12
  <2> QED BY <1>3, <2>1
<1>13. g[j] = Found(t, x)
  BY <1>6, <1>9
<1> HIDE DEF g
<1>14. Leads(g, j, t, Less(t, x))
  BY <1>7, <1>9, <1>11 DEF Leads
<1>15. t.name[Found(t, x)] = x
  BY <1>6, <1>7
<1>16. Path(g, j, t, x, Found(t, x))
  BY <1>12, <1>13, <1>14, <1>15 DEF Path
<1> QED BY <1>16

-----------------------------------------------------------------------------
(* Hash_get and removals of nodes with one subtree keep every lookup.      *)

LEMMA EmptySearchable == Searchable(EmptyTable)
  BY DEF Searchable, EmptyTable

LEMMA SearchNew ==
    ASSUME NEW t, Sound(t), Searchable(t), NEW x \in Names, NEW n \in Spares(t, x),
           Found(t, x) = NULL
    PROVE  Searchable(Got(t, x, n))
<1> DEFINE a == Added(t, x, n)
           u == Got(t, x, n)
           K == Less(t, x)
<1>1. /\ n \in Nodes \ t.used
      /\ a \in Tables /\ a.head = t.head /\ a.left = t.left /\ a.right = t.right
      /\ a.used = t.used \cup {n} /\ a.name = [t.name EXCEPT ![n] = x]
      /\ Within(a, a.used) /\ Apart(a, a.used) /\ Unlinked(a, a.used, n)
      /\ u = PlaceAt(a, K, n)
  BY GotIs DEF Sound
<1> HIDE DEF a, u
<1>2. PICK d, k : IsDescent(d, k, a, K, a.used) /\ Hung(u, a, K, n, d, k)
  BY <1>1, PlaceHangs
<1>3. Linked(u)
  BY GotSound DEF Sound, u
<1>4. /\ t \in Tables /\ Linked(t) /\ t.used \subseteq Nodes /\ NULL \notin Nodes
      /\ \A m \in t.used : t.name[m] # x
  BY SizeIsNat DEF Sound, Linked, Within, Searchable
<1>5. /\ u.used = t.used \cup {n}
      /\ \A m \in t.used : u.name[m] = t.name[m]
      /\ u.name[n] = x
  BY <1>1, <1>2, <1>4, Fields DEF Hung
<1>6. k \in Nat /\ d \in [1..k -> a.used]
  BY <1>2, SizeIsNat DEF IsDescent
<1>7. \A y : \A m \in t.used : m \in Less(u, y) <=> m \in Less(t, y)
  BY <1>5 DEF Less
\* The links that searches in t have followed are the same.
<1>8. ASSUME NEW y, NEW m \in t.used, Turn(t, Less(t, y), m) # NULL
      PROVE  Turn(u, Less(u, y), m) = Turn(t, Less(t, y), m)
  <2>1. m \in Nodes /\ (m \in Less(u, y) <=> m \in Less(t, y))
    BY <1>4, <1>7
  <2>2. CASE k = 0
    <3>1. u.left = t.left /\ u.right = t.right
      BY <1>1, <1>2, <2>2 DEF Hung
    <3> QED BY <2>1, <3>1 DEF Turn
  <2>3. CASE k > 0 /\ d[k] \in K
    <3>1. /\ t.left[d[k]] = NULL /\ u.right = t.right
          /\ u.left = [t.left EXCEPT ![d[k]] = n]
      BY <1>1, <1>2, <2>3 DEF Hung, IsDescent, Turn
    <3> QED BY <1>4, <1>8, <2>1, <3>1, Fields DEF Turn
  <2>4. CASE k > 0 /\ d[k] \notin K
    <3>1. /\ t.right[d[k]] = NULL /\ u.left = t.left
          /\ u.right = [t.right EXCEPT ![d[k]] = n]
      BY <1>1, <1>2, <2>4 DEF Hung, IsDescent, Turn
    <3> QED BY <1>4, <1>8, <2>1, <3>1, Fields DEF Turn
  <2> QED BY <1>6, <2>2, <2>3, <2>4
<1>9. t.head # NULL => u.head = t.head
  BY <1>1, <1>2, <1>6 DEF Hung, IsDescent
<1>10. ASSUME NEW m \in t.used PROVE Found(u, u.name[m]) = m
  <2> DEFINE y == t.name[m]
  <2>1. Found(t, y) = m /\ m # NULL
    BY <1>4 DEF Searchable
  <2>2. PICK g, j : Path(g, j, t, y, m)
    BY <1>4, <2>1, FoundPath
  <2> HIDE DEF y
  <2>3. /\ Leads(g, j, t, Less(t, y)) /\ g[j] = m /\ t.name[m] = y
        /\ \A i \in 1..j : i < j => t.name[g[i]] # y
    BY <2>2 DEF Path
  <2>4. g \in [1..j -> t.used] /\ j \in Nat \ {0}
    <3>1. g \in [1..j -> t.used]
      BY <1>4, <2>3, LeadsWithin
    <3> QED BY <2>3, <3>1 DEF Leads
  <2>5. g[1] = u.head
    <3>1. g[1] = t.head /\ 1 \in 1..j
      BY <2>3, <2>4 DEF Leads
    <3> QED BY <1>4, <1>9, <2>4, <3>1
  <2>6. ASSUME NEW i \in 2..j PROVE g[i] = Turn(u, Less(u, y), g[i - 1])
    <3>1. i \in 1..j /\ i - 1 \in 1..j
      BY <2>4
    <3>2. g[i] = Turn(t, Less(t, y), g[i - 1])
      BY <2>3 DEF Leads
    <3>3. g[i] # NULL /\ g[i - 1] \in t.used
      BY <1>4, <2>4, <3>1
    <3> QED BY <1>8, <3>2, <3>3
  <2>7. Leads(g, j, u, Less(u, y))
    BY <2>3, <2>5, <2>6 DEF Leads
  <2>8. u.name[m] = y /\ \A i \in 1..j : i < j => u.name[g[i]] # y
    BY <1>5, <2>3, <2>4
  <2>9. Path(g, j, u, y, m)
    BY <2>3, <2>7, <2>8 DEF Path
  <2> QED BY <1>3, <2>8, <2>9, PathFinds
\* The new node is where its own search ends.
<1>11. Found(u, x) = n
  <2> DEFINE g == [i \in 1..(k + 1) |-> IF i <= k THEN d[i] ELSE n]
  <2>1. \A i \in 1..k : d[i] \in t.used
    <3> SUFFICES ASSUME NEW i \in 1..k PROVE d[i] # n
      BY <1>1, <1>6
    <3>1. CASE i = 1
      BY <1>1, <1>2, <1>6, <3>1 DEF IsDescent, Unlinked
    <3>2. CASE i # 1
      <4>1. i \in 2..k /\ i - 1 \in 1..k
        BY <1>6, <3>2
      <4>2. d[i] = Turn(a, K, d[i - 1]) /\ d[i - 1] \in a.used
        BY <1>2, <1>6, <4>1 DEF IsDescent
      <4> QED BY <1>1, <4>2 DEF Unlinked, Turn
    <3> QED BY <3>1, <3>2
  <2>2. k + 1 \in 1..(k + 1) /\ k + 1 \in Nat \ {0} /\ \A i \in 1..k : i \in 1..(k + 1) /\ i <= k
    BY <1>6
  <2>3. \A i \in 1..(k + 1) : g[i] \in Nodes
    BY <1>1, <1>4, <1>6, <2>1
  <2>4. \A i \in 1..k : g[i] = d[i]
    BY <1>6
  <2>5. g[k + 1] = n
    BY <1>6
  <2>6. g \in [1..(k + 1) -> Nodes]
    BY <2>3
  <2> HIDE DEF g
  <2>7. g[1] = u.head
    <3>1. CASE k = 0
      <4>1. u.head = n
        BY <1>2, <3>1 DEF Hung
      <4> QED BY <2>5, <3>1, <4>1
    <3>2. CASE k > 0
      <4>1. 1 \in 1..k /\ d[1] = a.head /\ u.head = a.head
        BY <1>2, <1>6, <3>2 DEF IsDescent, Hung
      <4> QED BY <2>4, <4>1
    <3> QED BY <1>6, <3>1, <3>2
  <2>8. ASSUME NEW i \in 2..(k + 1) PROVE g[i] = Turn(u, Less(u, x), g[i - 1])
    <3>1. i - 1 \in 1..k /\ g[i - 1] = d[i - 1] /\ d[i - 1] \in t.used
      BY <1>6, <2>1, <2>4
    <3>2. CASE i <= k
      <4>1. i \in 2..k /\ i \in 1..k
        BY <1>6, <3>2
      <4>2. g[i] = d[i] /\ d[i] = Turn(a, K, d[i - 1]) /\ d[i] # NULL
        BY <1>2, <1>4, <2>1, <2>4, <4>1 DEF IsDescent
      <4>3. Turn(t, K, d[i - 1]) = Turn(a, K, d[i - 1])
        BY <1>1 DEF Turn
      <4> QED BY <1>8, <3>1, <4>2, <4>3
    <3>3. CASE i = k + 1
      <4>1. k > 0 /\ d[k] \in t.used /\ g[i - 1] = d[k] /\ d[k] \in Nodes
        BY <1>4, <1>6, <3>1, <3>3
      <4>2. d[k] \in Less(u, x) <=> d[k] \in K
        BY <1>7, <4>1
      <4>3. Turn(u, Less(u, x), d[k]) = n
        BY <1>1, <1>2, <4>1, <4>2, Fields DEF Hung, Turn
      <4> QED BY <2>5, <3>3, <4>1, <4>3
    <3> QED BY <1>6, <3>2, <3>3
  <2>9. Leads(g, k + 1, u, Less(u, x))
    BY <2>2, <2>6, <2>7, <2>8 DEF Leads
  <2>10. ASSUME NEW i \in 1..(k + 1), i < k + 1 PROVE u.name[g[i]] # x
    <3>1. i \in 1..k
      BY <1>6, <2>10
    <3> QED BY <1>4, <1>5, <2>1, <2>4, <3>1
  <2>11. Path(g, k + 1, u, x, n)
    BY <1>5, <2>5, <2>9, <2>10 DEF Path
  <2> QED BY <1>3, <2>11, PathFinds
<1> QED BY <1>5, <1>10, <1>11 DEF Searchable, u

LEMMA GotSearchable ==
    ASSUME NEW t, Sound(t), Searchable(t), NEW x \in Names, NEW n \in Spares(t, x)
    PROVE  Searchable(Got(t, x, n))
<1>1. CASE Found(t, x) # NULL
  BY <1>1 DEF Got
<1>2. CASE Found(t, x) = NULL
  BY <1>2, SearchNew
<1> QED BY <1>1, <1>2

\* A link to e becomes one to its heir, and no other changes.
LEMMA RelinkedTurns ==
    ASSUME NEW t, Linked(t), NEW e \in t.used, NEW s \in Tables,
           Relinked(s, t, e, Heir(t, e))
    PROVE  /\ s.head = IF t.head = e THEN Heir(t, e) ELSE t.head
           /\ \A L : \A p \in t.used \ {e} :
                Turn(s, L, p) = IF Turn(t, L, p) = e THEN Heir(t, e) ELSE Turn(t, L, p)
<1> DEFINE r == Heir(t, e)
<1>1. /\ t \in Tables /\ e \in Nodes /\ e # NULL /\ t.used \subseteq Nodes
      /\ Within(t, t.used) /\ Apart(t, t.used)
  BY SizeIsNat DEF Linked, Within
<1>2. s.head = IF t.head = e THEN r ELSE t.head
  BY DEF Relinked
<1> HIDE DEF r
<1>3. ASSUME NEW p \in t.used \ {e}
      PROVE  /\ s.left[p] = IF t.left[p] = e THEN r ELSE t.left[p]
             /\ s.right[p] = IF t.right[p] = e THEN r ELSE t.right[p]
  <2>1. CASE e = t.head
    BY <1>1, <2>1 DEF Relinked, Apart, r
  <2>2. CASE e # t.head /\ t.right[t.head] = e /\ s.right = [t.right EXCEPT ![t.head] = r]
             /\ s.left = t.left
    <3>1. t.head \in t.used
      BY <2>2 DEF Relinked
    <3>2. t.left[p] # e /\ (t.right[p] = e => p = t.head)
      BY <1>1, <2>2, <3>1 DEF Apart
    <3> QED BY <1>1, <2>2, <3>1, <3>2, Fields
  <2>3. CASE e # t.head /\ t.left[t.head] = e /\ s.left = [t.left EXCEPT ![t.head] = r]
             /\ s.right = t.right
    <3>1. t.head \in t.used
      BY <2>3 DEF Relinked
    <3>2. t.right[p] # e /\ (t.left[p] = e => p = t.head)
      BY <1>1, <2>3, <3>1 DEF Apart
    <3> QED BY <1>1, <2>3, <3>1, <3>2, Fields
  <2> QED BY <2>1, <2>2, <2>3 DEF Relinked, r
<1>4. ASSUME NEW L, NEW p \in t.used \ {e}
      PROVE  Turn(s, L, p) = IF Turn(t, L, p) = e THEN r ELSE Turn(t, L, p)
  BY <1>3 DEF Turn
<1> QED BY <1>2, <1>4 DEF r

LEMMA RemovedSearchable ==
    ASSUME NEW t, Sound(t), Searchable(t), NEW e \in t.used, ~RemoveCrashes(t, e), NEW c,
           ~Relocates(t, e)
    PROVE  Searchable(Removed(t, e, c))
<1> DEFINE v == Removed(t, e, c)
           A == t.used \ {e}
           r == Heir(t, e)
<1>1. PICK s \in Tables : v = Cleared(s, e) /\ Relinked(s, t, e, r)
  <2>1. PICK s \in Tables, u \in Tables : RemovedBy(v, t, e, s, u)
    BY RemovedIs DEF Sound
  <2> HIDE DEF v, r
  <2> QED BY <2>1 DEF RemovedBy, r
<1>2. Linked(v) /\ v.used = A /\ v.name = [t.name EXCEPT ![e] = NULL]
  BY RemovedLinked DEF Sound
<1> HIDE DEF v
<1>3. /\ t \in Tables /\ Linked(t) /\ t.used \subseteq Nodes /\ NULL \notin Nodes
      /\ e \in Nodes /\ A \subseteq Nodes /\ e \notin A
  BY SizeIsNat DEF Sound, Linked, Within
<1>4. \A m \in A : v.name[m] = t.name[m]
  BY <1>2, <1>3, Fields
<1>5. \A y : \A m \in A : m \in Less(v, y) <=> m \in Less(t, y)
  BY <1>2, <1>4 DEF Less
<1>6. v.head = s.head /\ \A m \in A : v.left[m] = s.left[m] /\ v.right[m] = s.right[m]
  <2>1. IsCleared(v, s, e)
    BY <1>1, <1>3, ClearedIs
  <2> QED BY <1>3, <2>1, Fields DEF IsCleared
<1>7. v.head = IF t.head = e THEN r ELSE t.head
  BY <1>1, <1>3, <1>6, RelinkedTurns
<1>8. ASSUME NEW y, NEW p \in A
      PROVE  Turn(v, Less(v, y), p) = IF Turn(t, Less(t, y), p) = e THEN r
                                      ELSE Turn(t, Less(t, y), p)
  <2>1. Turn(v, Less(v, y), p) = Turn(s, Less(t, y), p)
    BY <1>5, <1>6 DEF Turn
  <2>2. Turn(s, Less(t, y), p) = IF Turn(t, Less(t, y), p) = e THEN r
                                 ELSE Turn(t, Less(t, y), p)
    BY <1>1, <1>3, RelinkedTurns
  <2> QED BY <2>1, <2>2
\* A search that leaves e goes on at its only child.
<1>9. \A L : Turn(t, L, e) # NULL => Turn(t, L, e) = r
  BY DEF Turn, Relocates, Heir
<1> HIDE DEF r, A
<1>10. ASSUME NEW m \in A PROVE Found(v, v.name[m]) = m
  <2> DEFINE y == t.name[m]
  <2>1. Found(t, y) = m /\ m # NULL /\ m # e /\ m \in t.used
    BY <1>3 DEF Searchable, A
  <2>2. PICK g, j : Path(g, j, t, y, m)
    BY <1>3, <2>1, FoundPath
  <2>3. v.name[m] = y
    BY <1>4
  <2> HIDE DEF y
  <2>4. /\ Leads(g, j, t, Less(t, y)) /\ g[j] = m
        /\ \A i \in 1..j : i < j => t.name[g[i]] # y
    BY <2>2 DEF Path
  <2>5. g \in [1..j -> t.used] /\ \A i, h \in 1..j : g[i] = g[h] => i = h
    BY <1>3, <2>4, LeadsWithin
  <2>6. j \in Nat \ {0} /\ g[1] = t.head /\ \A i \in 2..j : g[i] = Turn(t, Less(t, y), g[i - 1])
    BY <2>4 DEF Leads
  <2>7. CASE \A i \in 1..j : g[i] # e
    <3>1. \A i \in 1..j : g[i] \in A
      BY <2>5, <2>7 DEF A
    <3>2. 1 \in 1..j /\ g[1] = v.head
      BY <1>7, <2>6, <2>7
    <3>3. ASSUME NEW i \in 2..j PROVE g[i] = Turn(v, Less(v, y), g[i - 1])
      <4>1. i \in 1..j /\ i - 1 \in 1..j
        BY <2>6
      <4>2. g[i - 1] \in A /\ g[i] # e /\ g[i] = Turn(t, Less(t, y), g[i - 1])
        BY <2>6, <2>7, <3>1, <4>1
      <4> QED BY <1>8, <4>2
    <3>4. g \in [1..j -> Nodes]
      BY <2>4 DEF Leads
    <3>5. Leads(g, j, v, Less(v, y))
      BY <2>6, <3>2, <3>3, <3>4 DEF Leads
    <3>6. \A i \in 1..j : i < j => v.name[g[i]] # y
      BY <1>4, <2>4, <3>1
    <3>7. Path(g, j, v, y, m)
      BY <2>3, <2>4, <3>5, <3>6 DEF Path
    <3> QED BY <1>2, <2>3, <3>7, PathFinds
  <2>8. ASSUME NEW q \in 1..j, g[q] = e PROVE Found(v, v.name[m]) = m
    <3> DEFINE h == [i \in 1..(j - 1) |-> IF i < q THEN g[i] ELSE g[i + 1]]
    <3>1. q < j /\ j - 1 \in Nat \ {0} /\ j - 1 \in 1..(j - 1) /\ ~ (j - 1 < q)
      BY <2>1, <2>4, <2>6, <2>8
    <3>2. \A i \in 1..j : i # q => g[i] \in A /\ g[i] # e
      BY <2>5, <2>8 DEF A
    <3>3. \A i \in 1..(j - 1) : i \in 1..j /\ i + 1 \in 1..j /\ i + 1 \in 2..j
      BY <2>6
    <3>4. \A i \in 1..(j - 1) : h[i] = IF i < q THEN g[i] ELSE g[i + 1]
      OBVIOUS
    <3>5. h \in [1..(j - 1) -> Nodes]
      <4>1. \A i \in 1..(j - 1) : h[i] \in Nodes
        BY <1>3, <2>5, <3>3
      <4> QED BY <4>1
    <3> HIDE DEF h
    <3>6. h[1] = v.head
      <4>1. 1 \in 1..(j - 1) /\ q \in Nat /\ 1 + 1 \in 2..j
        BY <2>6, <3>1
      <4>2. CASE q = 1
        <5>1. h[1] = g[1 + 1] /\ g[1] = e /\ ~ (1 < q)
          BY <2>8, <3>4, <4>1, <4>2
        <5>2. g[1 + 1] = Turn(t, Less(t, y), g[1 + 1 - 1]) /\ 1 + 1 - 1 = 1
          BY <2>6, <4>1
        <5>3. g[1 + 1] # NULL
          BY <1>3, <2>5, <3>3, <4>1
        <5>4. h[1] = r
          BY <1>9, <5>1, <5>2, <5>3
        <5> QED BY <1>7, <2>6, <5>1, <5>4
      <4>3. CASE q # 1
        <5>1. 1 < q /\ 1 \in 1..j
          BY <2>8, <3>3, <4>1, <4>3
        <5>2. h[1] = g[1] /\ g[1] # e
          BY <3>2, <3>4, <4>1, <4>3, <5>1
        <5> QED BY <1>7, <2>6, <5>2
      <4> QED BY <4>2, <4>3
    <3>7. ASSUME NEW i \in 2..(j - 1) PROVE h[i] = Turn(v, Less(v, y), h[i - 1])
      <4>1. i \in 1..(j - 1) /\ i - 1 \in 1..(j - 1) /\ i \in 2..j /\ i + 1 \in 2..j
            /\ i - 1 + 1 = i /\ i + 1 - 1 = i /\ i \in Nat /\ q \in Nat
        BY <2>6, <3>1
      <4>2. CASE i < q
        <5>1. i - 1 < q /\ i - 1 # q /\ i # q
          BY <4>1, <4>2
        <5>2. h[i] = g[i] /\ h[i - 1] = g[i - 1] /\ g[i - 1] \in A /\ g[i] # e
          BY <3>2, <3>3, <3>4, <4>1, <4>2, <5>1
        <5>3. g[i] = Turn(t, Less(t, y), g[i - 1])
          BY <2>6, <4>1
        <5> QED BY <1>8, <5>2, <5>3
      <4>3. CASE i = q
        <5>1. i - 1 < q /\ i - 1 # q /\ ~ (i < q)
          BY <4>1, <4>3
        <5>2. h[i] = g[i + 1] /\ h[i - 1] = g[i - 1] /\ g[i - 1] \in A
          BY <3>2, <3>3, <3>4, <4>1, <5>1
        <5>3. g[i] = Turn(t, Less(t, y), g[i - 1]) /\ g[i] = e
          BY <2>6, <2>8, <4>1, <4>3
        <5>4. g[i + 1] = Turn(t, Less(t, y), g[i]) /\ g[i + 1] # NULL
          BY <1>3, <2>5, <2>6, <3>3, <4>1
        <5>5. g[i + 1] = r
          BY <1>9, <5>3, <5>4
        <5> QED BY <1>8, <5>2, <5>3, <5>5
      <4>4. CASE q < i
        <5>1. ~ (i < q) /\ ~ (i - 1 < q) /\ i # q /\ i + 1 # q
          BY <4>1, <4>4
        <5>2. h[i] = g[i + 1] /\ h[i - 1] = g[i] /\ g[i] \in A /\ g[i + 1] # e
          BY <3>2, <3>3, <3>4, <4>1, <5>1
        <5>3. g[i + 1] = Turn(t, Less(t, y), g[i])
          BY <2>6, <4>1
        <5> QED BY <1>8, <5>2, <5>3
      <4> QED BY <4>1, <4>2, <4>3, <4>4
    <3>8. Leads(h, j - 1, v, Less(v, y))
      BY <3>1, <3>5, <3>6, <3>7 DEF Leads
    <3>9. h[j - 1] = m
      <4>1. j - 1 + 1 = j
        BY <2>6
      <4> QED BY <2>4, <3>1, <3>4, <4>1
    <3>10. ASSUME NEW i \in 1..(j - 1), i < j - 1 PROVE v.name[h[i]] # y
      <4>1. i < j /\ i + 1 < j /\ (~ (i < q) => i + 1 # q) /\ (i < q => i # q)
        BY <2>6, <3>10
      <4>2. h[i] \in {g[i], g[i + 1]} /\ h[i] \in A
        BY <3>2, <3>3, <3>4, <4>1
      <4>3. t.name[g[i]] # y /\ t.name[g[i + 1]] # y
        BY <2>4, <3>3, <4>1
      <4> QED BY <1>4, <4>2, <4>3
    <3>11. Path(h, j - 1, v, y, m)
      BY <2>3, <3>8, <3>9, <3>10 DEF Path
    <3> QED BY <1>2, <2>3, <3>11, PathFinds
  <2> QED BY <2>7, <2>8
<1> QED BY <1>2, <1>10 DEF Searchable, v, A

-----------------------------------------------------------------------------
(* The inductive invariant: a sound table, streams in its nodes only, each *)
(* open one in one node, the standard output in no other than its own, and *)
(* lookups that find as long as no removal has relocated or crashed.       *)

Streamed ==
    /\ \A n \in Nodes \ table.used : stream[n] = NULL
    /\ \A m, n \in Nodes : stream[m] # NULL /\ stream[m] = stream[n] => m = n
    /\ \A n \in Nodes : stream[n] \in opened \cup {NULL}
    /\ \A f \in opened : \E n \in Nodes : stream[n] = f

Owned == \A n \in Nodes : stream[n] = Stdout => table.name[n] = Stdout

FInv == TypeOK /\ Sound(table) /\ Streamed /\ Owned /\ LookupsExact

LEMMA EmptySound == Sound(EmptyTable)
<1> DEFINE t == EmptyTable
<1>1. t.head = NULL /\ t.used = {} /\ t.left = [n \in Nodes |-> NULL]
      /\ t.right = [n \in Nodes |-> NULL] /\ t \in Tables
  BY DEF EmptyTable, Tables
<1> HIDE DEF t
<1>2. Linked(t)
  BY <1>1 DEF Linked, Within, Apart
<1>3. Rooted(t)
  BY <1>1 DEF Rooted
<1> QED BY <1>2, <1>3 DEF Sound, t

\* v is t with node n in memory and named x, however it is linked.
Entered(v, t, n, x) ==
    v.used = t.used \cup {n} /\ v.name = [t.name EXCEPT ![n] = x]

\* A name that no node has gets a node of its own.
LEMMA GotNew ==
    ASSUME NEW t, Sound(t), NEW x \in Names, \A m \in t.used : t.name[m] # x,
           NEW n \in Nodes \ t.used
    PROVE  /\ n \in Spares(t, x) /\ Entry(t, x, n) = n /\ Sound(Got(t, x, n))
           /\ Searchable(t) => Searchable(Got(t, x, n))
           /\ Entered(Got(t, x, n), t, n, x)
<1>1. Found(t, x) = NULL
  BY FoundUsed DEF Sound
<1>2. n \in Spares(t, x) /\ Entry(t, x, n) = n
  BY <1>1 DEF Spares, Entry
<1>3. Sound(Got(t, x, n)) /\ (Searchable(t) => Searchable(Got(t, x, n)))
  BY <1>2, GotSound, GotSearchable
<1> QED BY <1>2, <1>3, GotKeeps DEF Sound, Entered

LEMMA StdDistinct ==
    /\ Stdout \in Names /\ Stdin \in Names /\ Stderr \in Names
    /\ Stdout # Stdin /\ Stdout # Stderr /\ Stdin # Stderr
<1>1. Stdout \in Names /\ Stdin \in Names /\ Stderr \in Names
  BY Zenon, FilesAssumption DEF Std
<1>2. Stdout \in Nat /\ Stdin \in Nat /\ Stderr \in Nat
  BY <1>1, SizeIsNat
<1>3. Stderr < Stdin /\ Stdin < Stdout
  BY Zenon, FilesAssumption
<1>4. Stdout # Stdin /\ Stdout # Stderr /\ Stdin # Stderr
  BY <1>2, <1>3
<1> QED BY <1>1, <1>4

LEMMA InitFInv == Init => FInv /\ OpenNames = Std /\ HasOutput /\ Outcome = "OK"
<1> SUFFICES ASSUME Init PROVE FInv /\ OpenNames = Std /\ HasOutput /\ Outcome = "OK"
  OBVIOUS
<1>1. PICK n \in [Std -> Nodes] :
         /\ \A x, y \in Std : n[x] = n[y] => x = y
         /\ table = Got(Got(Got(EmptyTable, Stdout, n[Stdout]), Stdin, n[Stdin]),
                        Stderr, n[Stderr])
         /\ stream = [m \in Nodes |->
                        IF m \in table.used THEN table.name[m] ELSE NULL]
         /\ opened = Std
         /\ crashed = FALSE /\ relocated = FALSE /\ silent = FALSE /\ result = "OK"
  BY DEF Init
<1> DEFINE t0 == EmptyTable
           t1 == Got(t0, Stdout, n[Stdout])
           t2 == Got(t1, Stdin, n[Stdin])
<1>2. Std = {Stdout, Stdin, Stderr} /\ n[Stdout] \in Nodes /\ n[Stdin] \in Nodes
      /\ n[Stderr] \in Nodes /\ n[Stdout] # n[Stdin] /\ n[Stdout] # n[Stderr]
      /\ n[Stdin] # n[Stderr]
  BY <1>1, StdDistinct DEF Std
<1>3. Sound(t0) /\ Searchable(t0) /\ t0.used = {} /\ t0.name = [m \in Nodes |-> NULL]
  BY EmptySound, EmptySearchable DEF EmptyTable
<1> HIDE DEF t0
<1>4. Sound(t1) /\ Searchable(t1) /\ t1.used = {n[Stdout]}
      /\ t1.name = [t0.name EXCEPT ![n[Stdout]] = Stdout]
  BY <1>2, <1>3, GotNew, StdDistinct DEF Entered
<1>5. t1.name[n[Stdout]] = Stdout
  BY <1>2, <1>3, <1>4
<1> HIDE DEF t1
<1>6. Sound(t2) /\ Searchable(t2) /\ t2.used = t1.used \cup {n[Stdin]}
      /\ t2.name = [t1.name EXCEPT ![n[Stdin]] = Stdin]
  <2>1. \A m \in t1.used : t1.name[m] # Stdin
    BY <1>4, <1>5, StdDistinct
  <2>2. n[Stdin] \in Nodes \ t1.used
    BY <1>2, <1>4
  <2> HIDE DEF t2
  <2>3. Stdin \in Names
    BY StdDistinct
  <2>4. Sound(t2) /\ Searchable(t2) /\ Entered(t2, t1, n[Stdin], Stdin)
    BY <1>4, <2>1, <2>2, <2>3, GotNew DEF t2
  <2> QED BY <2>4 DEF Entered
<1>7. t2.name[n[Stdout]] = Stdout /\ t2.name[n[Stdin]] = Stdin
      /\ t2.used = {n[Stdout], n[Stdin]}
  BY <1>2, <1>3, <1>4, <1>5, <1>6
<1> HIDE DEF t2
<1>8. Sound(table) /\ Searchable(table) /\ table.used = t2.used \cup {n[Stderr]}
      /\ table.name = [t2.name EXCEPT ![n[Stderr]] = Stderr]
  <2>1. table = Got(t2, Stderr, n[Stderr])
    BY <1>1 DEF t2, t1, t0
  <2>2. \A m \in t2.used : t2.name[m] # Stderr
    BY <1>7, StdDistinct
  <2>3. n[Stderr] \in Nodes \ t2.used
    BY <1>2, <1>7
  <2>4. Stderr \in Names
    BY StdDistinct
  <2>5. Sound(table) /\ Searchable(table) /\ Entered(table, t2, n[Stderr], Stderr)
    BY <1>6, <2>1, <2>2, <2>3, <2>4, GotNew
  <2> QED BY <2>5 DEF Entered
<1>9. /\ table.used = {n[x] : x \in Std} /\ \A x \in Std : table.name[n[x]] = x
  <2>1. table.used = {n[Stdout], n[Stdin], n[Stderr]}
    BY <1>7, <1>8
  <2>2. t2.name \in [Nodes -> Names \cup {NULL}]
    BY <1>6, Fields DEF Sound, Linked
  <2>3. table.name[n[Stdout]] = Stdout /\ table.name[n[Stdin]] = Stdin
        /\ table.name[n[Stderr]] = Stderr
    BY <1>2, <1>7, <1>8, <2>2
  <2> QED BY <1>2, <2>1, <2>3
<1>10. \A x \in Std : stream[n[x]] = x /\ n[x] \in Nodes /\ x \in FILEs
  BY <1>1, <1>9 DEF FILEs
<1>11. \A m \in Nodes : m \notin table.used => stream[m] = NULL
  BY <1>1
<1>12. NULL \notin FILEs /\ NULL \notin Std
  BY Zenon, FilesAssumption DEF FILEs
<1>13. \A m \in Nodes : stream[m] # NULL => \E x \in Std : m = n[x] /\ stream[m] = x
  BY <1>9, <1>10, <1>11
<1>14. stream \in [Nodes -> FILEs \cup {NULL}]
  <2>1. \A m \in Nodes : stream[m] \in FILEs \cup {NULL}
    BY <1>10, <1>13
  <2>2. stream = [m \in Nodes |-> stream[m]]
    BY <1>1
  <2> QED BY <2>1, <2>2
<1>15. opened \subseteq FILEs /\ \A m \in Nodes : stream[m] \in opened \cup {NULL}
  BY <1>1, <1>10, <1>13
<1>16. \A m1, m2 \in Nodes : stream[m1] # NULL /\ stream[m1] = stream[m2] => m1 = m2
  BY <1>1, <1>13, SMTT(30)
<1>17. \A g \in opened : \E m \in Nodes : stream[m] = g
  BY <1>1, <1>10
<1>18. table \in Tables
  BY <1>8 DEF Sound, Linked
<1>19. Owned
  BY <1>2, <1>9, <1>12, <1>13 DEF Owned
<1>20. FInv
  BY <1>1, <1>8, <1>11, <1>14, <1>15, <1>16, <1>17, <1>18, <1>19
     DEF FInv, TypeOK, Streamed, LookupsExact
<1>21. OpenNames = Std
  BY <1>9, <1>10, <1>12, <1>13 DEF OpenNames
<1>22. HasOutput /\ Outcome = "OK"
  BY <1>1, <1>2 DEF HasOutput, Outcome
<1> QED BY <1>20, <1>21, <1>22

\* What every command does to the table first.
LEMMA LookupKeeps ==
    ASSUME FInv, NEW x \in Names, NEW n \in Spares(table, x), Lookup(x, n)
    PROVE  LET e == Entry(table, x, n) IN
           /\ Sound(table') /\ table' \in Tables /\ e \in Nodes
           /\ table'.used = table.used \cup {e}
           /\ e \notin table.used => stream[e] = NULL
           /\ \A m \in Nodes : stream[m] # NULL => table'.name[m] = table.name[m]
           /\ ~relocated => Searchable(table')
<1> DEFINE e == Entry(table, x, n)
<1>1. table' = Got(table, x, n) /\ Sound(table) /\ Streamed
      /\ (~relocated => Searchable(table))
  BY DEF Lookup, FInv, LookupsExact
<1>2. Sound(table') /\ table' \in Tables
  BY <1>1, GotSound DEF Sound, Linked
<1>3. e \in Nodes /\ table'.used = table.used \cup {e}
  BY <1>1, GotKeeps DEF Sound
<1>4. ~relocated => Searchable(table')
  BY <1>1, GotSearchable
<1>5. table'.name = [table.name EXCEPT ![e] = x] /\ (e \in table.used => table.name[e] = x)
  BY <1>1, GotKeeps, FoundUsed DEF Sound, Entry, Spares
<1> HIDE DEF e
<1>6. \A m \in Nodes : stream[m] # NULL => table'.name[m] = table.name[m]
  BY <1>1, <1>3, <1>5, Fields DEF Streamed, Sound, Linked
<1> QED BY <1>1, <1>2, <1>3, <1>4, <1>6 DEF Streamed, e

LEMMA OpenKeeps ==
    ASSUME FInv, NEW x \in Names, NEW n \in Spares(table, x), Open(x, n)
    PROVE  FInv'
<1> DEFINE e == Entry(table, x, n)
<1>1. /\ Sound(table') /\ table' \in Tables /\ e \in Nodes
      /\ table'.used = table.used \cup {e} /\ (~relocated => Searchable(table'))
      /\ \A m \in Nodes : stream[m] # NULL => table'.name[m] = table.name[m]
  BY LookupKeeps DEF Open
<1>2. /\ \/ UNCHANGED <<stream, opened>> /\ result' \in {"OK", "EXCEPTION"}
         \/ \E f \in Streams \ opened :
               /\ stream[e] = NULL /\ stream' = [stream EXCEPT ![e] = f]
               /\ opened' = opened \cup {f} /\ result' = "OK"
      /\ silent' \in BOOLEAN /\ UNCHANGED <<crashed, relocated>>
  BY Zenon DEF Open
<1> HIDE DEF e
<1>3. TypeOK /\ Streamed /\ Owned
  BY DEF FInv
<1>4. CASE UNCHANGED <<stream, opened>> /\ result' \in {"OK", "EXCEPTION"}
  <2>1. Owned'
    BY <1>1, <1>3, <1>4, FilesAssumption DEF Owned, FILEs, Std
  <2> QED BY <1>1, <1>2, <1>3, <1>4, <2>1 DEF FInv, TypeOK, Streamed, LookupsExact
<1>5. ASSUME NEW f \in Streams \ opened,
             stream[e] = NULL, stream' = [stream EXCEPT ![e] = f],
             opened' = opened \cup {f}, result' = "OK"
      PROVE  FInv'
  <2>1. /\ stream \in [Nodes -> FILEs \cup {NULL}] /\ f \in FILEs /\ f # NULL /\ f # Stdout
        /\ NULL # Stdout
        /\ \A m \in Nodes : stream'[m] = IF m = e THEN f ELSE stream[m]
    BY <1>1, <1>3, <1>5, FilesAssumption DEF TypeOK, FILEs, Std
  <2>2. TypeOK'
    BY <1>1, <1>2, <1>3, <1>5, <2>1 DEF TypeOK
  <2>3. Streamed'
    <3>1. \A m \in Nodes \ table'.used : stream'[m] = NULL
      BY <1>1, <1>3, <2>1 DEF Streamed
    <3>2. \A m \in Nodes : stream'[m] \in opened' \cup {NULL}
      BY <1>3, <1>5, <2>1 DEF Streamed
    <3>3. \A m, k \in Nodes : stream'[m] # NULL /\ stream'[m] = stream'[k] => m = k
      <4>1. \A m \in Nodes : stream[m] # f
        BY <1>3, <1>5, <2>1 DEF Streamed
      <4> QED BY <1>3, <2>1, <4>1 DEF Streamed
    <3>4. \A h \in opened' : \E m \in Nodes : stream'[m] = h
      <4>1. stream'[e] = f
        BY <1>1, <2>1
      <4>2. ASSUME NEW h \in opened PROVE \E m \in Nodes : stream'[m] = h
        <5>1. PICK m \in Nodes : stream[m] = h
          BY <1>3 DEF Streamed
        <5>2. h # NULL
          BY <1>3, FilesAssumption DEF TypeOK
        <5> QED BY <1>5, <2>1, <5>1, <5>2
      <4> QED BY <1>1, <1>5, <4>1, <4>2
    <3> QED BY <3>1, <3>2, <3>3, <3>4 DEF Streamed
  <2>4. Owned'
    BY <1>1, <1>3, <2>1 DEF Owned
  <2> QED BY <1>1, <1>2, <2>2, <2>3, <2>4 DEF FInv, LookupsExact
<1> QED BY <1>2, <1>4, <1>5

\* A command that opens and closes nothing, even one that crashes.
LEMMA UseKeeps ==
    ASSUME FInv, NEW x \in Names, NEW n \in Spares(table, x), Lookup(x, n),
           UNCHANGED <<stream, opened, relocated>>, crashed' \in BOOLEAN,
           silent' \in BOOLEAN, result' \in {"OK", "EXCEPTION"}
    PROVE  FInv'
<1>1. Sound(table') /\ table' \in Tables /\ table'.used = table.used \cup {Entry(table, x, n)}
      /\ (~relocated => Searchable(table'))
      /\ \A m \in Nodes : stream[m] # NULL => table'.name[m] = table.name[m]
  BY LookupKeeps
<1>2. TypeOK /\ Streamed /\ Owned
  BY DEF FInv
<1>3. Owned'
  BY <1>1, <1>2, FilesAssumption DEF Owned, FILEs, Std
<1>4. TypeOK' /\ Streamed' /\ LookupsExact'
  BY <1>1, <1>2 DEF TypeOK, Streamed, LookupsExact
<1> QED BY <1>1, <1>3, <1>4 DEF FInv

LEMMA PutsKeeps ==
    ASSUME FInv, NEW x \in Names, NEW n \in Spares(table, x),
           Puts(x, n) \/ Gets(x, n) \/ CloseUnknown(x, n)
    PROVE  FInv'
<1>1. Lookup(x, n) /\ UNCHANGED <<stream, opened, relocated>> /\ crashed' \in BOOLEAN
      /\ silent' \in BOOLEAN /\ result' \in {"OK", "EXCEPTION"}
  BY DEF Puts, Gets, CloseUnknown, FInv, TypeOK
<1> QED BY <1>1, UseKeeps

LEMMA PutsStdoutKeeps == ASSUME FInv, PutsStdout PROVE FInv'
BY DEF PutsStdout, FInv, TypeOK, Streamed, Owned, LookupsExact

LEMMA CloseKeeps ==
    ASSUME FInv, NEW x \in Names, NEW g \in Cuts, Close(x, g)
    PROVE  FInv'
<1> DEFINE e == Found(table, x)
<1>1. TypeOK /\ Streamed /\ Owned /\ LookupsExact /\ Sound(table) /\ Linked(table) /\ table.used \subseteq Nodes
  BY DEF FInv, Sound, Linked, Within
<1>2. /\ e # NULL /\ stream[e] # NULL /\ opened' = opened \ {stream[e]}
      /\ stream' = [stream EXCEPT ![e] = NULL]
      /\ \/ crashed' = TRUE /\ UNCHANGED <<table, result, relocated, silent>>
         \/ /\ ~RemoveCrashes(table, e) /\ table' = Removed(table, e, g)
            /\ relocated' = (relocated \/ Relocates(table, e))
            /\ result' = "OK" /\ silent' = FALSE /\ UNCHANGED crashed
  BY Zenon DEF Close
<1>3. e \in table.used /\ e \in Nodes
  BY <1>1, <1>2, FoundUsed
<1> HIDE DEF e
<1>4. \/ UNCHANGED <<table, result, relocated, silent>> /\ crashed' = TRUE
      \/ /\ Sound(table') /\ table' \in Tables /\ table'.used = table.used \ {e}
         /\ \A m \in table'.used : table'.name[m] = table.name[m]
         /\ silent' = FALSE /\ relocated' \in BOOLEAN /\ result' = "OK" /\ UNCHANGED crashed
         /\ ~relocated' /\ ~crashed' => Searchable(table')
  <2>1. CASE crashed' = TRUE /\ UNCHANGED <<table, result, relocated, silent>>
    BY <2>1
  <2>2. CASE /\ ~RemoveCrashes(table, e) /\ table' = Removed(table, e, g)
             /\ relocated' = (relocated \/ Relocates(table, e))
             /\ result' = "OK" /\ silent' = FALSE /\ UNCHANGED crashed
    <3>1. Linked(table') /\ table'.used = table.used \ {e}
          /\ table'.name = [table.name EXCEPT ![e] = NULL]
      BY <1>1, <1>3, <2>2, RemovedLinked
    <3>5. \A m \in table'.used : table'.name[m] = table.name[m]
      BY <1>1, <3>1, Fields DEF Linked
    <3>2. Rooted(table')
      BY <1>1, <1>3, <2>2, RemovedRooted
    <3>3. relocated' \in BOOLEAN
      BY <1>1, <2>2, Zenon DEF TypeOK, Relocates
    <3>4. ~relocated' /\ ~crashed' => Searchable(table')
      BY <1>1, <1>3, <2>2, RemovedSearchable DEF LookupsExact
    <3> QED BY <2>2, <3>1, <3>2, <3>3, <3>4, <3>5 DEF Sound, Linked
  <2> QED BY <1>2, <2>1, <2>2
<1>5. /\ stream \in [Nodes -> FILEs \cup {NULL}]
      /\ \A m \in Nodes : stream'[m] = IF m = e THEN NULL ELSE stream[m]
  BY <1>1, <1>2, <1>3 DEF TypeOK
<1>6. TypeOK' /\ Sound(table')
  BY <1>1, <1>2, <1>3, <1>4 DEF TypeOK
<1>7. Streamed'
  <2>1. \A m \in Nodes \ table'.used : m = e \/ m \in Nodes \ table.used
    BY <1>4
  <2>2. \A m \in Nodes : stream[m] \in opened \cup {NULL}
    BY <1>1 DEF Streamed
  <2>3. \A m \in Nodes : stream'[m] \in opened' \cup {NULL}
    BY <1>1, <1>2, <1>3, <1>5, <2>2 DEF Streamed
  <2>4. \A f \in opened' : \E m \in Nodes : stream'[m] = f
    BY <1>1, <1>2, <1>5 DEF Streamed
  <2>5. \A m \in Nodes \ table'.used : stream'[m] = NULL
    BY <1>1, <1>5, <2>1 DEF Streamed
  <2>6. \A m, n \in Nodes : stream'[m] # NULL /\ stream'[m] = stream'[n] => m = n
    BY <1>1, <1>5 DEF Streamed
  <2> QED BY <2>3, <2>4, <2>5, <2>6 DEF Streamed
<1>8. LookupsExact'
  BY <1>4 DEF LookupsExact
<1>9. Owned'
  BY <1>1, <1>4, <1>5, <1>7, FilesAssumption DEF Owned, Streamed, FILEs, Std
<1> QED BY <1>6, <1>7, <1>8, <1>9 DEF FInv

LEMMA NextFInv == FInv /\ [Next]_vars => FInv'
<1> SUFFICES ASSUME FInv, [Next]_vars PROVE FInv'
  OBVIOUS
<1>1. CASE \E x \in Names : \E n \in Spares(table, x) : Open(x, n)
  BY <1>1, OpenKeeps
<1>2. CASE \E x \in Names : \E n \in Spares(table, x) :
              Puts(x, n) \/ Gets(x, n) \/ CloseUnknown(x, n)
  BY <1>2, PutsKeeps
<1>3. CASE PutsStdout
  BY <1>3, PutsStdoutKeeps
<1>4. CASE \E x \in Names, g \in Cuts : Close(x, g)
  BY <1>4, CloseKeeps
<1>5. CASE UNCHANGED vars
  BY <1>5 DEF vars, FInv, TypeOK, Streamed, Owned, LookupsExact
<1> QED BY <1>1, <1>2, <1>3, <1>4, <1>5 DEF Next

LEMMA SpecFInv == Spec => []FInv
  BY InitFInv, NextFInv, PTL DEF Spec

-----------------------------------------------------------------------------
(* The refinement of StreamTable: where every lookup finds its entry, an   *)
(* entry is its name.                                                      *)

Steady == FInv /\ ~relocated /\ ~crashed

LEMMA OneEntry ==
    ASSUME Steady
    PROVE  /\ \A m, n \in table.used : table.name[m] = table.name[n] => m = n
           /\ \A n \in table.used : Found(table, table.name[n]) = n /\ n # NULL
           /\ Linked(table) /\ Sound(table) /\ table \in Tables /\ table.used \subseteq Nodes
           /\ TypeOK /\ Streamed /\ Owned
<1>1. Searchable(table) /\ Sound(table) /\ TypeOK /\ Streamed /\ Owned
  BY DEF Steady, FInv, LookupsExact
<1>2. Linked(table) /\ table \in Tables /\ table.used \subseteq Nodes /\ NULL \notin table.used
  BY <1>1, SizeIsNat DEF Sound, Linked, Within
<1>3. \A n \in table.used : Found(table, table.name[n]) = n
  BY <1>1 DEF Searchable
<1>4. \A n \in table.used : n # NULL
  BY <1>2
<1>5. \A m, n \in table.used : table.name[m] = table.name[n] => m = n
  BY <1>3
<1> QED BY <1>1, <1>2, <1>3, <1>4, <1>5

\* A file id is open if the entry that its lookup ends at has a stream.
LEMMA OpenIsStreamed ==
    ASSUME Steady, NEW x \in Names, NEW n \in Spares(table, x)
    PROVE  x \in OpenNames <=> stream[Entry(table, x, n)] # NULL
<1> DEFINE e == Entry(table, x, n)
<1>1. CASE Found(table, x) # NULL
  <2>1. e = Found(table, x) /\ e \in table.used /\ table.name[e] = x
    BY <1>1, OneEntry, FoundUsed DEF Entry
  <2> HIDE DEF e
  <2>2. \A m \in table.used : table.name[m] = x => m = e
    BY <2>1, OneEntry
  <2> QED BY <2>1, <2>2 DEF OpenNames, e
<1>2. CASE Found(table, x) = NULL
  <2>1. e = n /\ n \in Nodes \ table.used
    BY <1>2 DEF Entry, Spares
  <2>2. stream[n] = NULL
    BY <2>1, OneEntry DEF Streamed
  <2>3. \A m \in table.used : table.name[m] # x
    BY <1>2, OneEntry
  <2> QED BY <2>1, <2>2, <2>3 DEF OpenNames
<1> QED BY <1>1, <1>2

LEMMA LookupNames ==
    ASSUME Steady, NEW x \in Names, NEW n \in Spares(table, x), Lookup(x, n)
    PROVE  LET e == Entry(table, x, n) IN
           /\ e \in Nodes /\ table'.used = table.used \cup {e}
           /\ \A m \in Nodes : table'.name[m] = IF m = e THEN x ELSE table.name[m]
           /\ e \in table.used => table.name[e] = x
           /\ e \notin table.used => stream[e] = NULL
<1> DEFINE e == Entry(table, x, n)
<1>1. table' = Got(table, x, n) /\ Linked(table) /\ table \in Tables /\ Streamed
  BY OneEntry DEF Lookup
<1>2. e \in Nodes /\ table'.used = table.used \cup {e} /\ table'.name = [table.name EXCEPT ![e] = x]
  BY <1>1, GotKeeps
<1>3. e \in table.used => table.name[e] = x
  BY <1>1, FoundUsed DEF Entry, Spares
<1> HIDE DEF e
<1>4. \A m \in Nodes : table'.name[m] = IF m = e THEN x ELSE table.name[m]
  BY <1>1, <1>2, Fields
<1> QED BY <1>1, <1>2, <1>3, <1>4 DEF Streamed, e

LEMMA SameNames ==
    ASSUME Steady, NEW x \in Names, NEW n \in Spares(table, x), Lookup(x, n),
           stream' = stream
    PROVE  OpenNames' = OpenNames
<1> DEFINE e == Entry(table, x, n)
<1>1. /\ e \in Nodes /\ table'.used = table.used \cup {e}
      /\ \A m \in Nodes : table'.name[m] = IF m = e THEN x ELSE table.name[m]
      /\ e \in table.used => table.name[e] = x
      /\ e \notin table.used => stream[e] = NULL
  BY LookupNames
<1> HIDE DEF e
<1>2. {m \in table'.used : stream'[m] # NULL} = {m \in table.used : stream[m] # NULL}
  BY <1>1
<1>3. \A m \in table.used : table'.name[m] = table.name[m]
  BY <1>1, OneEntry
<1>4. OpenNames' = {table'.name[m] : m \in {k \in table'.used : stream'[k] # NULL}}
  BY DEF OpenNames
<1>5. OpenNames' = {table.name[m] : m \in {k \in table.used : stream[k] # NULL}}
  BY <1>2, <1>3, <1>4
<1> QED BY <1>5 DEF OpenNames

LEMMA OpenImplements ==
    ASSUME Steady, NEW x \in Names, NEW n \in Spares(table, x), Open(x, n)
    PROVE  Abstract!Open(x)
<1> DEFINE e == Entry(table, x, n)
<1>1. /\ Lookup(x, n)
      /\ \/ /\ stream[e] # NULL
            /\ result' = "EXCEPTION" /\ silent' = FALSE /\ UNCHANGED <<stream, opened>>
         \/ /\ stream[e] = NULL
            /\ \/ silent' = TRUE /\ UNCHANGED <<stream, opened>>
               \/ \E f \in Streams \ opened :
                     /\ stream' = [stream EXCEPT ![e] = f]
                     /\ opened' = opened \cup {f} /\ silent' = FALSE
            /\ result' = "OK"
  BY Zenon DEF Open
<1>2. x \in OpenNames <=> stream[e] # NULL
  BY OpenIsStreamed
<1>3. /\ e \in Nodes /\ table'.used = table.used \cup {e}
      /\ \A m \in Nodes : table'.name[m] = IF m = e THEN x ELSE table.name[m]
      /\ e \in table.used => table.name[e] = x
  BY <1>1, LookupNames
<1>4. stream' = stream => OpenNames' = OpenNames
  BY <1>1, SameNames
<1> HIDE DEF e
<1>5. CASE UNCHANGED <<stream, opened>> /\ (silent' \/ result' = "EXCEPTION")
  BY <1>4, <1>5 DEF Abstract!Open, Abstract!Fail, HasOutput, Outcome
<1>6. ASSUME stream[e] = NULL, result' = "OK", silent' = FALSE,
             NEW f \in Streams \ opened, stream' = [stream EXCEPT ![e] = f],
             opened' = opened \cup {f}
      PROVE  Abstract!Open(x)
  <2>1. f # NULL /\ f # Stdout /\ stream \in [Nodes -> FILEs \cup {NULL}]
        /\ table.used \subseteq Nodes
    BY <1>6, OneEntry, FilesAssumption DEF TypeOK, FILEs, Std
  <2>2. \A m \in Nodes : stream'[m] = IF m = e THEN f ELSE stream[m]
    BY <1>3, <1>6, <2>1
  <2>3. OpenNames' = {table'.name[m] : m \in {k \in table'.used : stream'[k] # NULL}}
    BY DEF OpenNames
  <2>4. {k \in table'.used : stream'[k] # NULL} = {k \in table.used : stream[k] # NULL} \cup {e}
    BY <1>3, <2>1, <2>2
  <2>5. /\ \A m \in table.used : stream[m] # NULL => table'.name[m] = table.name[m]
        /\ table'.name[e] = x
    BY <1>3, <1>6, <2>1
  <2>6. OpenNames' = {table.name[m] : m \in {k \in table.used : stream[k] # NULL}} \cup {x}
    BY <2>3, <2>4, <2>5
  <2>7. OpenNames' = OpenNames \cup {x}
    BY <2>6 DEF OpenNames
  <2>8. HasOutput' = HasOutput /\ Outcome' = "OK"
    BY <1>6, <2>1 DEF HasOutput, Outcome
  <2> QED BY <1>2, <1>6, <2>7, <2>8 DEF Abstract!Open, Abstract!Succeed
<1> QED BY <1>1, <1>5, <1>6

LEMMA PutsImplements ==
    ASSUME Steady, NEW x \in Names, NEW n \in Spares(table, x)
    PROVE  /\ Puts(x, n) => Abstract!Use(x)
           /\ Gets(x, n) /\ ~crashed' => Abstract!Use(x)
           /\ CloseUnknown(x, n) => Abstract!Close(x)
<1> DEFINE e == Entry(table, x, n)
<1>1. x \in OpenNames <=> stream[e] # NULL
  BY OpenIsStreamed
<1>2. ASSUME Puts(x, n) PROVE Abstract!Use(x)
  <2>1. OpenNames' = OpenNames /\ HasOutput' = HasOutput
    BY <1>2, SameNames DEF Puts, HasOutput
  <2>2. Outcome' = IF stream[e] = NULL THEN "EXCEPTION" ELSE "OK"
    BY <1>2, Zenon DEF Puts, Outcome
  <2> QED BY <1>1, <2>1, <2>2 DEF Abstract!Use, Abstract!Succeed, Abstract!Fail
<1>3. ASSUME CloseUnknown(x, n) PROVE Abstract!Close(x)
  <2>1. OpenNames' = OpenNames /\ HasOutput' = HasOutput
    BY <1>3, SameNames DEF CloseUnknown, HasOutput
  <2>2. Outcome' = "EXCEPTION" /\ stream[e] = NULL
    BY <1>3 DEF CloseUnknown, Outcome
  <2> QED BY <1>1, <2>1, <2>2 DEF Abstract!Close, Abstract!Fail
<1> QED BY <1>2, <1>3 DEF Gets

LEMMA PutsStdoutImplements == ASSUME PutsStdout PROVE Abstract!PutsStdout
<1>1. OpenNames' = OpenNames /\ HasOutput' = HasOutput
  BY DEF PutsStdout, OpenNames, HasOutput
<1>2. Outcome' = IF HasOutput THEN "OK" ELSE "EXCEPTION"
  BY DEF PutsStdout, HasOutput, Outcome
<1> QED BY <1>1, <1>2 DEF Abstract!PutsStdout, Abstract!Succeed, Abstract!Fail

\* The entry that close removes is the only one of its name, and holds the
\* standard output if one that is named for it does.
LEMMA CloseImplements ==
    ASSUME Steady, ~crashed', NEW x \in Names, NEW g \in Cuts, Close(x, g)
    PROVE  Abstract!Close(x)
<1> DEFINE e == Found(table, x)
<1>1. /\ e # NULL /\ stream[e] # NULL /\ stream' = [stream EXCEPT ![e] = NULL]
      /\ opened' = opened \ {stream[e]}
      /\ ~RemoveCrashes(table, e) /\ table' = Removed(table, e, g) /\ result' = "OK"
      /\ silent' = FALSE
  BY DEF Close
<1>2. e \in table.used /\ table.name[e] = x
  BY <1>1, OneEntry, FoundUsed
<1>3. \A m \in table.used : table.name[m] = x => m = e
  BY <1>2, OneEntry
<1> HIDE DEF e
<1>4. table'.used = table.used \ {e} /\ table'.name = [table.name EXCEPT ![e] = NULL]
  BY <1>1, <1>2, OneEntry, RemovedLinked
<1>5. \A m \in table'.used : table'.name[m] = table.name[m] /\ stream'[m] = stream[m]
  BY <1>1, <1>2, <1>4, OneEntry, Fields DEF TypeOK
<1>6. {k \in table'.used : stream'[k] # NULL} = {k \in table.used : stream[k] # NULL} \ {e}
  BY <1>1, <1>4, <1>5
<1>7. OpenNames' = {table'.name[m] : m \in {k \in table'.used : stream'[k] # NULL}}
  BY DEF OpenNames
<1>8. OpenNames' = {table.name[m] : m \in {k \in table.used : stream[k] # NULL} \ {e}}
  BY <1>5, <1>6, <1>7
<1>9. OpenNames' = OpenNames \ {x} /\ x \in OpenNames
  BY <1>1, <1>2, <1>3, <1>8 DEF OpenNames
<1>10. Stdout \in opened' <=> Stdout \in opened /\ x # Stdout
  <2>1. stream[e] = Stdout => x = Stdout
    BY <1>2, OneEntry DEF Owned
  <2>2. ASSUME Stdout \in opened, x = Stdout PROVE stream[e] = Stdout
    <3>1. PICK m \in Nodes : stream[m] = Stdout
      BY <2>2, OneEntry DEF Streamed
    <3>2. m \in table.used /\ table.name[m] = Stdout
      BY <3>1, OneEntry, FilesAssumption DEF Streamed, Owned, FILEs, Std
    <3> QED BY <1>3, <2>2, <3>1, <3>2
  <2> QED BY <1>1, <2>1, <2>2
<1>11. HasOutput' = (HasOutput /\ x # Stdout) /\ Outcome' = "OK"
  BY <1>1, <1>10 DEF HasOutput, Outcome
<1> QED BY <1>9, <1>11 DEF Abstract!Close, Abstract!Succeed

LEMMA StepImplements ==
    ASSUME FInv, [Next]_vars, ~relocated', ~crashed'
    PROVE  vars' # vars =>
             /\ [Abstract!Next]_<<OpenNames, HasOutput, Outcome>>
             /\ PutsStdout => Abstract!PutsStdout
             /\ \A x \in Names : Refines(x)
<1> SUFFICES ASSUME Next
             PROVE  /\ Abstract!Next
                    /\ PutsStdout => Abstract!PutsStdout
                    /\ \A x \in Names : Refines(x)
  OBVIOUS
<1>1. Steady
  <2>1. ~crashed
    BY DEF Next, Open, Puts, Gets, PutsStdout, CloseUnknown, Lookup, Close
  <2>2. TypeOK
    BY DEF FInv
  <2>3. relocated => relocated'
    BY <2>2 DEF Next, Open, Puts, Gets, PutsStdout, CloseUnknown, Lookup, Close, TypeOK
  <2> QED BY <2>1, <2>3 DEF Steady
<1>2. \A x \in Names : Refines(x)
  BY <1>1, OpenImplements, PutsImplements, CloseImplements DEF Refines
<1>3. PutsStdout => Abstract!PutsStdout
  BY PutsStdoutImplements
<1>4. Abstract!Next
  BY <1>2, <1>3 DEF Next, Refines, Abstract!Next
<1> QED BY <1>2, <1>3, <1>4

-----------------------------------------------------------------------------
(* The theorems.                                                           *)

\* Every part of the table, its streams and the results has its type.
THEOREM FileTypes == Spec => []TypeOK
<1>1. FInv => TypeOK
  BY DEF FInv
<1> QED BY <1>1, SpecFInv, PTL

\* The links are a tree of the nodes in memory after any sequence of commands, in
\* tables of any size: BTree_remove neither loses a subtree nor makes a cycle nor
\* leaves a link to the node it frees.
THEOREM AlwaysATree == Spec => []StaysTree
<1>1. FInv => StaysTree
  BY BelowHead, OneLink DEF FInv, StaysTree, IsTree
<1> QED BY <1>1, SpecFInv, PTL

\* Each open FILE is in exactly one entry and no entry has a closed one, whatever
\* the tree looks like and wherever lookups end (open and close of io.c).
THEOREM OpenFilesHeld == Spec => []StreamsHeld
<1>1. ASSUME FInv PROVE StreamsHeld
  <2> DEFINE holders == {n \in table.used : stream[n] # NULL}
             b == [n \in holders |-> stream[n]]
  <2>1. Streamed /\ TypeOK /\ table.used \subseteq Nodes /\ IsFiniteSet(Nodes)
    BY <1>1, SizeIsNat DEF FInv, Sound, Linked, Within
  <2>2. holders = {n \in Nodes : stream[n] # NULL}
    BY <2>1 DEF Streamed
  <2>3. NULL \notin opened
    BY <2>1, FilesAssumption DEF TypeOK
  <2>4. {stream[n] : n \in holders} = opened
    BY <2>1, <2>2, <2>3 DEF Streamed
  <2>5. b \in [holders -> opened] /\ \A m, n \in holders : b[m] = b[n] => m = n
    BY <2>1, <2>2, <2>4 DEF Streamed
  <2>6. \A f \in opened : \E n \in holders : b[n] = f
    BY <2>4
  <2>7. holders \subseteq Nodes
    BY <2>1
  <2> HIDE DEF b, holders
  <2>8. b \in Bijection(holders, opened)
    BY <2>5, <2>6 DEF Bijection, Injection, Surjection, IsInjective
  <2>9. IsFiniteSet(holders)
    BY <2>1, <2>7, FS_Subset
  <2>10. Cardinality(opened) = Cardinality(holders)
    BY <2>8, <2>9, FS_Bijection DEF ExistsBijection
  <2> QED BY <2>4, <2>10 DEF StreamsHeld, holders
<1> QED BY <1>1, SpecFInv, PTL

\* As long as no removal relocates, the search for a name ends at its entry, in
\* tables of any size and shape (BTree_get after BTree_add and BTree_remove).
THEOREM LookupsFind == Spec => []LookupsExact
<1>1. FInv => LookupsExact
  BY DEF FInv
<1> QED BY <1>1, SpecFInv, PTL

\* The file commands implement StreamTable until a removal relocates or a command
\* crashes: every result is the abstract one, if a failure that is returned as OK
\* counts as a failure, and no command opens or closes another file id.
THEOREM CommandsAreStreamTable == Spec => IsStreamTable
<1> DEFINE Step == ~relocated' /\ ~crashed' =>
                     /\ [Abstract!Next]_<<OpenNames, HasOutput, Outcome>>
                     /\ PutsStdout => Abstract!PutsStdout
                     /\ \A x \in Names : Refines(x)
<1>1. Init => Abstract!Init
  BY InitFInv DEF Abstract!Init, HasOutput
<1>2. FInv /\ [Next]_vars => [Step]_vars
  BY StepImplements
<1>3. Spec => [][Step]_vars
  BY <1>2, SpecFInv, PTL DEF Spec
<1>4. Spec => Abstract!Init
  BY <1>1 DEF Spec
<1> QED BY <1>3, <1>4 DEF IsStreamTable
=============================================================================
