---------------------------- MODULE DListProofs ----------------------------
(***************************************************************************)
(* Proofs about DList, for any number of nodes and any data: the links of  *)
(* a list that is pushed, unshifted, popped, shifted and removed from are  *)
(* inverse to each other, its walks agree, and it implements a deque.      *)
(***************************************************************************)
EXTENDS DList, FiniteSetTheorems, SequenceTheorems, FunctionTheorems, TLAPS

\* The least element of a set of natural numbers, by the least of the finite
\* sets 0..x.
LEMMA LeastElement ==
    ASSUME NEW T, T \subseteq Nat, T # {}
    PROVE  \E x \in T : \A y \in T : x <= y
<1> DEFINE U == {0..x : x \in T}
           R == StrictSubsetOrdering(Nat)
<1>1. IsWellFoundedOn(R, FiniteSubsetsOf(Nat))
  BY FS_StrictSubsetOrderingWellFounded
<1>2. U \subseteq FiniteSubsetsOf(Nat) /\ U # {}
  <2>1. \A x \in T : 0..x \in SUBSET Nat /\ IsFiniteSet(0..x)
    BY FS_Interval
  <2> QED BY <2>1 DEF FiniteSubsetsOf
<1>3. PICK u \in U : \A v \in U : ~ (<<v, u>> \in R)
  <2> HIDE DEF U, R
  <2> QED BY <1>1, <1>2, WFMin, Zenon
<1>4. PICK x \in T : u = 0..x
  OBVIOUS
<1>5. ASSUME NEW y \in T, y < x PROVE FALSE
  <2>1. 0..y \subseteq 0..x /\ x \in 0..x /\ x \notin 0..y /\ 0..x \subseteq Nat
    BY <1>5
  <2>2. 0..y \in U /\ <<0..y, 0..x>> \in R
    BY <2>1 DEF StrictSubsetOrdering
  <2> QED BY <2>2, <1>3, <1>4
<1> QED BY <1>5

IInv == TypeOK /\ LinksInverse

\* A list of no nodes has its links in order.
LEMMA InitIInv == Init => IInv
  BY DListAssumption DEF Init, IInv, TypeOK, LinksInverse, Ref

\* List_push appends at the tail; a free node is in no list.
LEMMA PushKeepsLinks ==
    ASSUME IInv, NEW n \in Nodes \ used, NEW d \in Data, PushNode(n, d)
    PROVE  IInv'
<1>1. TypeOK'
  BY DListAssumption DEF IInv, TypeOK, LinksInverse, PushNode, Ref
<1>2. LinksInverse'
  <2>1. CASE head = NULL
    BY <2>1, DListAssumption DEF IInv, TypeOK, LinksInverse, PushNode, Ref
  <2>2. CASE head # NULL
    BY <2>2, DListAssumption DEF IInv, TypeOK, LinksInverse, PushNode, Ref
  <2> QED BY <2>1, <2>2
<1> QED BY <1>1, <1>2 DEF IInv

\* List_unshift inserts before the head, the one case in which
\* List_insertBefore sets every link.
LEMMA UnshiftKeepsLinks ==
    ASSUME IInv, NEW n \in Nodes, NEW d \in Data, Unshift(n, d)
    PROVE  IInv'
<1>0. n \in Nodes \ used /\ InsertBefore(n, head, d)
  BY DEF Unshift
<1>1. CASE head = NULL \/ tail = NULL
  BY <1>0, <1>1, PushKeepsLinks DEF InsertBefore
<1>2. CASE head # NULL /\ tail # NULL
  <2>1. /\ prev[head] = NULL
        /\ data' = [data EXCEPT ![n] = d]
        /\ used' = used \cup {n}
        /\ next' = [next EXCEPT ![n] = head]
        /\ prev' = [prev EXCEPT ![n] = prev[head], ![head] = n]
        /\ head' = n
        /\ tail' = tail
    BY <1>0, <1>2 DEF InsertBefore, IInv, LinksInverse
  <2>2. TypeOK'
    BY <1>0, <1>2, <2>1 DEF IInv, TypeOK, Ref
  <2>3. LinksInverse'
    BY <1>0, <1>2, <2>1, DListAssumption DEF IInv, TypeOK, LinksInverse, Ref
  <2> QED BY <2>2, <2>3 DEF IInv
<1> QED BY <1>1, <1>2

\* List_remove joins the neighbours of the node.
LEMMA RemoveKeepsLinks ==
    ASSUME IInv, NEW n \in used, Unlink(n)
    PROVE  IInv'
<1>0. n \in Nodes
  BY DEF IInv, TypeOK
<1>1. TypeOK'
  BY <1>0 DEF IInv, TypeOK, Unlink, Ref
<1>2. LinksInverse'
  <2>1. CASE prev[n] = NULL
    BY <1>0, <2>1, DListAssumption DEF IInv, TypeOK, LinksInverse, Unlink, Ref
  <2>2. CASE prev[n] # NULL
    BY <1>0, <2>2, DListAssumption DEF IInv, TypeOK, LinksInverse, Unlink, Ref
  <2> QED BY <2>1, <2>2
<1> QED BY <1>1, <1>2 DEF IInv

LEMMA NextKeepsIInv == IInv /\ [Next]_vars => IInv'
<1> SUFFICES ASSUME IInv, [Next]_vars PROVE IInv'
  OBVIOUS
<1>1. ASSUME NEW n \in Nodes, NEW d \in Data, Push(n, d) PROVE IInv'
  BY <1>1, PushKeepsLinks DEF Push
<1>2. ASSUME NEW n \in Nodes, NEW d \in Data, Unshift(n, d) PROVE IInv'
  BY <1>2, UnshiftKeepsLinks
<1>3. ASSUME NEW n, Remove(n) PROVE IInv'
  BY <1>3, RemoveKeepsLinks DEF Remove
<1>4. ASSUME UNCHANGED vars PROVE IInv'
  BY <1>4 DEF vars, IInv, TypeOK, LinksInverse, Ref
<1> QED BY <1>1, <1>2, <1>3, <1>4 DEF Next, Pop, Shift

-----------------------------------------------------------------------------
(* Sequences that grow at an end or lose an element, place by place.       *)

Grown(q, x) == [j \in 1..(Len(q) + 1) |-> IF j <= Len(q) THEN q[j] ELSE x]
Fronted(q, x) == [j \in 1..(Len(q) + 1) |-> IF j = 1 THEN x ELSE q[j - 1]]
Cut(q, i) == [j \in 1..(Len(q) - 1) |-> IF j < i THEN q[j] ELSE q[j + 1]]

LEMMA FunctionIsSeq ==
    ASSUME NEW S, NEW m \in Nat, NEW f \in [1..m -> S]
    PROVE  f \in Seq(S) /\ Len(f) = m
<1>1. f \in Seq(S)
  BY SeqDef
<1>2. DOMAIN f = 1..Len(f) /\ Len(f) \in Nat
  BY <1>1, LenProperties
<1> QED BY <1>1, <1>2

LEMMA GrownIs ==
    ASSUME NEW S, NEW q \in Seq(S), NEW x \in S
    PROVE  /\ Append(q, x) = Grown(q, x) /\ Grown(q, x) \in Seq(S)
           /\ Len(Grown(q, x)) = Len(q) + 1
<1>1. Len(q) \in Nat /\ q \in [1..Len(q) -> S]
  BY LenProperties
<1>2. Grown(q, x) \in [1..(Len(q) + 1) -> S]
  BY <1>1 DEF Grown
<1>3. Grown(q, x) \in Seq(S) /\ Len(Grown(q, x)) = Len(q) + 1
  BY <1>1, <1>2, FunctionIsSeq
<1>4. /\ Append(q, x) \in Seq(S) /\ Len(Append(q, x)) = Len(q) + 1
      /\ \A j \in 1..Len(q) : Append(q, x)[j] = q[j]
      /\ Append(q, x)[Len(q) + 1] = x
  BY AppendProperties
<1>5. \A j \in 1..(Len(q) + 1) : Append(q, x)[j] = Grown(q, x)[j]
  BY <1>1, <1>4 DEF Grown
<1> QED BY <1>3, <1>4, <1>5, SeqEqual

LEMMA FrontedIs ==
    ASSUME NEW S, NEW q \in Seq(S), NEW x \in S
    PROVE  /\ <<x>> \o q = Fronted(q, x) /\ Fronted(q, x) \in Seq(S)
           /\ Len(Fronted(q, x)) = Len(q) + 1
<1>1. Len(q) \in Nat /\ q \in [1..Len(q) -> S]
  BY LenProperties
<1>2. Fronted(q, x) \in [1..(Len(q) + 1) -> S]
  BY <1>1 DEF Fronted
<1>3. Fronted(q, x) \in Seq(S) /\ Len(Fronted(q, x)) = Len(q) + 1
  BY <1>1, <1>2, FunctionIsSeq
<1>4. <<x>> \in Seq(S) /\ Len(<<x>>) = 1 /\ <<x>>[1] = x
  OBVIOUS
<1>5. /\ <<x>> \o q \in Seq(S) /\ Len(<<x>> \o q) = Len(<<x>>) + Len(q)
      /\ \A j \in 1..(Len(<<x>>) + Len(q)) :
            (<<x>> \o q)[j] = IF j <= Len(<<x>>) THEN <<x>>[j] ELSE q[j - Len(<<x>>)]
  BY <1>4, ConcatProperties
<1>6. /\ Len(<<x>> \o q) = Len(q) + 1
      /\ \A j \in 1..(Len(q) + 1) : (<<x>> \o q)[j] = IF j <= 1 THEN <<x>>[j] ELSE q[j - 1]
  <2>1. Len(<<x>>) + Len(q) = Len(q) + 1
    BY <1>1, <1>4
  <2> QED BY <1>4, <1>5, <2>1
<1>7. \A j \in 1..(Len(q) + 1) : (<<x>> \o q)[j] = Fronted(q, x)[j]
  BY <1>1, <1>4, <1>6 DEF Fronted
<1> QED BY <1>3, <1>5, <1>6, <1>7, SeqEqual

LEMMA CutIs ==
    ASSUME NEW S, NEW q \in Seq(S), NEW i \in 1..Len(q)
    PROVE  /\ SubSeq(q, 1, i - 1) \o SubSeq(q, i + 1, Len(q)) = Cut(q, i)
           /\ Cut(q, i) \in Seq(S) /\ Len(Cut(q, i)) = Len(q) - 1
<1> DEFINE a == SubSeq(q, 1, i - 1)
           b == SubSeq(q, i + 1, Len(q))
<1>1. Len(q) \in Nat /\ q \in [1..Len(q) -> S] /\ i \in Nat /\ Len(q) - 1 \in Nat
  BY LenProperties
<1>2. Cut(q, i) \in [1..(Len(q) - 1) -> S]
  BY <1>1 DEF Cut
<1>3. Cut(q, i) \in Seq(S) /\ Len(Cut(q, i)) = Len(q) - 1
  BY <1>1, <1>2, FunctionIsSeq
<1>4. a \in Seq(S) /\ Len(a) = i - 1 /\ \A j \in 1..(i - 1) : a[j] = q[j]
  <2>1. 1 \in Int /\ i - 1 \in Int /\ \A j \in 1..(i - 1) : q[j] \in S
    BY <1>1
  <2>2. /\ a \in Seq(S)
        /\ Len(a) = IF 1 <= i - 1 THEN (i - 1) - 1 + 1 ELSE 0
        /\ \A j \in 1..((i - 1) - 1 + 1) : a[j] = q[1 + j - 1]
    BY <2>1, SubSeqProperties
  <2>3. (i - 1) - 1 + 1 = i - 1 /\ \A j \in 1..(i - 1) : 1 + j - 1 = j
    BY <1>1
  <2> HIDE DEF a
  <2> QED BY <1>1, <2>2, <2>3
<1>5. /\ b \in Seq(S) /\ Len(b) = Len(q) - i
      /\ \A j \in 1..(Len(q) - i) : b[j] = q[j + i]
  <2>1. i + 1 \in Int /\ Len(q) \in Int /\ \A j \in (i + 1)..Len(q) : q[j] \in S
    BY <1>1
  <2>2. /\ b \in Seq(S)
        /\ Len(b) = IF i + 1 <= Len(q) THEN Len(q) - (i + 1) + 1 ELSE 0
        /\ \A j \in 1..(Len(q) - (i + 1) + 1) : b[j] = q[(i + 1) + j - 1]
    BY <2>1, SubSeqProperties
  <2>3. /\ Len(q) - (i + 1) + 1 = Len(q) - i
        /\ (IF i + 1 <= Len(q) THEN Len(q) - (i + 1) + 1 ELSE 0) = Len(q) - i
    <3>1. \A m \in Nat : \A x \in 1..m :
             /\ m - (x + 1) + 1 = m - x
             /\ (IF x + 1 <= m THEN m - (x + 1) + 1 ELSE 0) = m - x
      OBVIOUS
    <3>2. Len(q) \in Nat /\ i \in 1..Len(q)
      BY <1>1
    <3> QED BY <3>1, <3>2, Zenon
  <2>4. \A j \in 1..(Len(q) - i) : (i + 1) + j - 1 = j + i
    BY <1>1
  <2> HIDE DEF b
  <2> QED BY <2>2, <2>3, <2>4
<1> HIDE DEF a, b
<1>6. /\ a \o b \in Seq(S) /\ Len(a \o b) = Len(a) + Len(b)
      /\ \A j \in 1..(Len(a) + Len(b)) :
            (a \o b)[j] = IF j <= Len(a) THEN a[j] ELSE b[j - Len(a)]
  BY <1>4, <1>5, ConcatProperties
<1>7. Len(a) + Len(b) = Len(q) - 1
  BY <1>1, <1>4, <1>5
<1>8. ASSUME NEW j \in 1..(Len(q) - 1) PROVE (a \o b)[j] = Cut(q, i)[j]
  <2>0. j \in Nat /\ Cut(q, i)[j] = IF j < i THEN q[j] ELSE q[j + 1]
    BY DEF Cut
  <2>1. CASE j < i
    <3>1. j \in 1..(i - 1)
      BY <1>1, <2>0, <2>1
    <3>2. (a \o b)[j] = a[j]
      BY <1>4, <1>6, <1>7, <3>1
    <3> QED BY <1>4, <2>0, <2>1, <3>1, <3>2
  <2>2. CASE ~(j < i)
    <3>1. ~(j <= Len(a)) /\ j - Len(a) \in 1..(Len(q) - i) /\ (j - Len(a)) + i = j + 1
      BY <1>1, <1>4, <2>0, <2>2
    <3>2. (a \o b)[j] = b[j - Len(a)]
      BY <1>6, <1>7, <3>1
    <3> QED BY <1>5, <2>0, <2>2, <3>1, <3>2
  <2> QED BY <2>1, <2>2
<1>9. a \o b = Cut(q, i)
  BY <1>3, <1>6, <1>7, <1>8, SeqEqual
<1> QED BY <1>3, <1>9 DEF a, b

-----------------------------------------------------------------------------
(* A walk along links that follow a sequence of nodes is that sequence.    *)

\* The i-th node of s, or where the links past its ends lead.
Nth(s, i) == IF i \in 1..Len(s) THEN s[i] ELSE NULL

Distinct(s) == \A i, j \in 1..Len(s) : s[i] = s[j] => i = j

LEMMA FitsNodes ==
    ASSUME NEW s \in Seq(Nodes), Distinct(s)
    PROVE  Len(s) \in Nat /\ Cardinality(Nodes) \in Nat /\ Len(s) <= Cardinality(Nodes)
<1>1. Len(s) \in Nat /\ s \in [1..Len(s) -> Nodes]
  BY LenProperties
<1>2. s \in Injection(1..Len(s), Nodes)
  BY <1>1 DEF Injection, IsInjective, Distinct
<1>3. Cardinality(1..Len(s)) <= Cardinality(Nodes)
  BY <1>2, DListAssumption, FS_Injection
<1>4. Cardinality(1..Len(s)) = Len(s)
  <2>1. Cardinality(1..Len(s)) = IF 1 <= Len(s) THEN Len(s) - 1 + 1 ELSE 0
    BY <1>1, FS_Interval, SMTT(30)
  <2> QED BY <1>1, <2>1
<1>5. Cardinality(Nodes) \in Nat
  BY DListAssumption, FS_CardinalityType
<1> QED BY <1>1, <1>3, <1>4, <1>5

\* The walk as the function that its definition names.
Steps(at, first, step) ==
    at = [i \in 1..(Cardinality(Nodes) + 1) |->
            IF i = 1 THEN first
            ELSE LET n == at[i - 1] IN IF n = NULL THEN NULL ELSE step[n]]

LEMMA WalkIs ==
    ASSUME NEW first, NEW step
    PROVE  Walk(first, step) =
             LET at == CHOOSE f : Steps(f, first, step)
             IN  [i \in {j \in DOMAIN at : at[j] # NULL} |-> at[i]]
  BY Zenon DEF Walk, Steps

LEMMA WalkFollows ==
    ASSUME NEW s \in Seq(Nodes), Distinct(s), NEW first, NEW step,
           first = Nth(s, 1),
           \A i \in 1..Len(s) : step[s[i]] = Nth(s, i + 1)
    PROVE  Walk(first, step) = s
<1> DEFINE m == Cardinality(Nodes) + 1
           g == [i \in 1..m |-> Nth(s, i)]
           at == CHOOSE f : Steps(f, first, step)
           T == {i \in 1..m : at[i] # g[i]}
<1>1. /\ Len(s) \in Nat /\ m \in Nat /\ Len(s) < m /\ s \in [1..Len(s) -> Nodes]
      /\ NULL \notin Nodes
  BY FitsNodes, LenProperties, DListAssumption
<1> HIDE DEF m
<1>2. ASSUME NEW i \in 1..m
      PROVE  Nth(s, i) = IF i = 1 THEN first
                         ELSE LET n == Nth(s, i - 1) IN IF n = NULL THEN NULL ELSE step[n]
  <2>1. CASE i = 1
    BY <2>1
  <2>2. CASE i # 1 /\ i - 1 \in 1..Len(s)
    <3>1. Nth(s, i - 1) = s[i - 1] /\ s[i - 1] # NULL
      BY <1>1, <2>2 DEF Nth
    <3>2. step[s[i - 1]] = Nth(s, (i - 1) + 1) /\ (i - 1) + 1 = i
      BY <1>1, <2>2
    <3> QED BY <2>2, <3>1, <3>2
  <2>3. CASE i # 1 /\ i - 1 \notin 1..Len(s)
    BY <1>1, <2>3 DEF Nth
  <2> QED BY <2>1, <2>2, <2>3
<1>3. Steps(g, first, step)
  <2>1. \A i \in 1..m : i # 1 => i - 1 \in 1..m
    BY <1>1
  <2>2. g = [i \in 1..m |-> IF i = 1 THEN first
                            ELSE LET n == g[i - 1] IN IF n = NULL THEN NULL ELSE step[n]]
    <3>1. \A i \in 1..m : g[i] = IF i = 1 THEN first
                            ELSE LET n == g[i - 1] IN IF n = NULL THEN NULL ELSE step[n]
      BY <1>2, <2>1
    <3> QED BY <3>1
  <2> HIDE DEF g
  <2> QED BY <2>2 DEF Steps, m
<1> HIDE DEF g
<1>4. Steps(at, first, step)
  BY <1>3
<1> HIDE DEF at
<1>5. DOMAIN at = 1..m /\ \A i \in 1..m :
         at[i] = IF i = 1 THEN first
                 ELSE LET n == at[i - 1] IN IF n = NULL THEN NULL ELSE step[n]
  BY <1>4 DEF Steps, m
<1>6. DOMAIN g = 1..m /\ \A i \in 1..m : g[i] = Nth(s, i)
  BY DEF g
<1>7. T = {}
  <2>1. SUFFICES ASSUME T # {} PROVE FALSE
    OBVIOUS
  <2>2. T \subseteq Nat
    BY <1>1
  <2>3. PICK k \in T : \A y \in T : k <= y
    <3> HIDE DEF T
    <3> QED BY <2>1, <2>2, LeastElement
  <2>4. k \in 1..m /\ at[k] # g[k]
    OBVIOUS
  <2>5. k # 1
    BY <1>2, <1>5, <1>6, <2>4
  <2>6. k - 1 \in 1..m /\ k - 1 \notin T
    BY <1>1, <2>3, <2>4, <2>5
  <2>7. at[k - 1] = Nth(s, k - 1)
    BY <1>6, <2>6
  <2> HIDE DEF T
  <2> QED BY <1>2, <1>5, <1>6, <2>4, <2>5, <2>7
<1>8. \A i \in 1..m : at[i] = Nth(s, i)
  BY <1>6, <1>7
<1> HIDE DEF T
<1>9. {j \in DOMAIN at : at[j] # NULL} = 1..Len(s)
  BY <1>1, <1>5, <1>8 DEF Nth
<1>10. \A i \in 1..Len(s) : at[i] = s[i]
  BY <1>1, <1>8 DEF Nth
<1>11. Walk(first, step) = [i \in 1..Len(s) |-> at[i]]
  <2>1. Walk(first, step) = [i \in {j \in DOMAIN at : at[j] # NULL} |-> at[i]]
    BY WalkIs DEF at
  <2> QED BY <1>9, <2>1
<1> QED BY <1>1, <1>10, <1>11

-----------------------------------------------------------------------------
(* The nodes in use are the nodes of one sequence, and the links follow it *)
(* in both directions.                                                     *)

Chain(s, u, h, t, nx, pv) ==
    /\ s \in Seq(Nodes) /\ Distinct(s)
    /\ u = {s[i] : i \in 1..Len(s)}
    /\ h = Nth(s, 1) /\ t = Nth(s, Len(s))
    /\ \A i \in 1..Len(s) : nx[s[i]] = Nth(s, i + 1) /\ pv[s[i]] = Nth(s, i - 1)

Chained(s) == Chain(s, used, head, tail, next, prev)

CInv == TypeOK /\ \E s : Chained(s)

\* The data of the nodes of s.
Along(s, f) == [i \in 1..Len(s) |-> f[s[i]]]

Backwards(s) == [i \in 1..Len(s) |-> s[Len(s) + 1 - i]]

LEMMA ChainWalks ==
    ASSUME NEW s, NEW u, NEW h, NEW t, NEW nx, NEW pv, Chain(s, u, h, t, nx, pv)
    PROVE  Walk(h, nx) = s /\ Walk(t, pv) = Backwards(s)
<1> DEFINE r == Backwards(s)
<1>1. s \in Seq(Nodes) /\ Distinct(s) /\ Len(s) \in Nat /\ s \in [1..Len(s) -> Nodes]
  BY LenProperties DEF Chain
<1>2. Walk(h, nx) = s
  BY <1>1, WalkFollows DEF Chain
<1>3. \A i \in 1..Len(s) : Len(s) + 1 - i \in 1..Len(s)
  BY <1>1
<1>4. r \in [1..Len(s) -> Nodes] /\ \A i \in 1..Len(s) : r[i] = s[Len(s) + 1 - i]
  BY <1>1, <1>3 DEF Backwards
<1> HIDE DEF r
<1>5. r \in Seq(Nodes) /\ Len(r) = Len(s)
  BY <1>1, <1>4, FunctionIsSeq
<1>6. Distinct(r)
  <2> SUFFICES ASSUME NEW i \in 1..Len(s), NEW j \in 1..Len(s), r[i] = r[j] PROVE i = j
    BY <1>5 DEF Distinct
  <2>1. Len(s) + 1 - i = Len(s) + 1 - j
    BY <1>1, <1>3, <1>4 DEF Distinct
  <2> QED BY <1>1, <2>1
<1>7. \A i : Nth(r, i) = IF i \in 1..Len(s) THEN s[Len(s) + 1 - i] ELSE NULL
  BY <1>4, <1>5 DEF Nth
<1>8. t = Nth(r, 1)
  <2>1. 1 \in 1..Len(s) <=> Len(s) \in 1..Len(s)
    BY <1>1
  <2>2. Len(s) + 1 - 1 = Len(s)
    BY <1>1
  <2> QED BY <1>7, <2>1, <2>2 DEF Chain, Nth
<1>9. ASSUME NEW i \in 1..Len(r) PROVE pv[r[i]] = Nth(r, i + 1)
  <2>1. /\ i \in 1..Len(s) /\ Len(s) + 1 - i \in 1..Len(s)
        /\ (Len(s) + 1 - i) - 1 = Len(s) + 1 - (i + 1)
        /\ i + 1 \in 1..Len(s) <=> (Len(s) + 1 - i) - 1 \in 1..Len(s)
    BY <1>1, <1>5
  <2>2. pv[s[Len(s) + 1 - i]] = Nth(s, (Len(s) + 1 - i) - 1)
    BY <2>1 DEF Chain
  <2> QED BY <1>4, <1>7, <2>1, <2>2 DEF Nth
<1>10. Walk(t, pv) = r
  BY <1>5, <1>6, <1>8, <1>9, WalkFollows
<1> QED BY <1>2, <1>10 DEF r

LEMMA ChainedWalks ==
    ASSUME NEW s, Chained(s)
    PROVE  /\ Forward = s /\ Backward = Backwards(s) /\ Contents = Along(s, data)
           /\ s \in Seq(Nodes) /\ Len(s) \in Nat /\ used = {s[i] : i \in 1..Len(s)}
<1>1. Chain(s, used, head, tail, next, prev)
  BY DEF Chained
<1>2. Forward = s /\ Backward = Backwards(s)
  BY <1>1, ChainWalks DEF Forward, Backward
<1>3. s \in Seq(Nodes) /\ Len(s) \in Nat /\ DOMAIN s = 1..Len(s)
  BY <1>1, LenProperties DEF Chain
<1> QED BY <1>1, <1>2, <1>3 DEF Contents, Along, Chain

LEMMA ChainsAgree == CInv => WalksAgree
<1> SUFFICES ASSUME CInv PROVE WalksAgree
  OBVIOUS
<1>1. PICK s : Chained(s)
  BY DEF CInv
<1>2. /\ Forward = s /\ Backward = Backwards(s)
      /\ s \in Seq(Nodes) /\ Len(s) \in Nat /\ used = {s[i] : i \in 1..Len(s)}
  BY <1>1, ChainedWalks
<1>3. DOMAIN s = 1..Len(s) /\ s \in [1..Len(s) -> Nodes]
  BY <1>2, LenProperties
<1>4. \A i \in 1..Len(s) : Len(s) + 1 - i \in 1..Len(s) /\ Len(s) + 1 - (Len(s) + 1 - i) = i
  BY <1>2
<1>5. Backwards(s) \in [1..Len(s) -> Nodes]
  BY <1>3, <1>4 DEF Backwards
<1>6. Len(Backwards(s)) = Len(s)
  BY <1>2, <1>5, FunctionIsSeq
<1>7. \A i \in 1..Len(s) : s[i] = Backwards(s)[Len(s) + 1 - i]
  BY <1>4 DEF Backwards
<1>8. Reached = used
  BY <1>2, <1>3 DEF Reached
<1> QED BY <1>2, <1>3, <1>6, <1>7, <1>8 DEF WalksAgree

-----------------------------------------------------------------------------
(* The steps, on the sequence.                                             *)

Linked(s) == Chain(s, used', head', tail', next', prev')

LEMMA PushChained ==
    ASSUME TypeOK, NEW s, Chained(s), NEW n \in Nodes \ used, NEW d \in Data, PushNode(n, d)
    PROVE  Linked(Grown(s, n)) /\ Along(Grown(s, n), data') = Grown(Along(s, data), d)
<1> DEFINE t == Grown(s, n)
           k == Len(s)
<1>1. /\ s \in Seq(Nodes) /\ k \in Nat /\ s \in [1..k -> Nodes] /\ Distinct(s)
      /\ used = {s[i] : i \in 1..k} /\ head = Nth(s, 1) /\ tail = Nth(s, k)
      /\ \A i \in 1..k : next[s[i]] = Nth(s, i + 1) /\ prev[s[i]] = Nth(s, i - 1)
  BY LenProperties DEF Chained, Chain
<1>2. t \in Seq(Nodes) /\ Len(t) = k + 1
  BY <1>1, GrownIs
<1>3. t[k + 1] = n /\ \A i \in 1..k : t[i] = s[i] /\ s[i] \in Nodes \ {n}
  BY <1>1 DEF Grown
<1>4. NULL \notin Nodes /\ n \in Nodes
  BY DListAssumption
<1>5. /\ prev \in [Nodes -> Ref] /\ next \in [Nodes -> Ref]
      /\ data \in [Nodes -> Data \cup {NULL}]
  BY DEF TypeOK
<1>6. /\ used' = used \cup {n} /\ tail' = n
      /\ data' = [data EXCEPT ![n] = d]
      /\ next' = IF head = NULL THEN [next EXCEPT ![n] = NULL]
                 ELSE [next EXCEPT ![n] = NULL, ![tail] = n]
      /\ prev' = [prev EXCEPT ![n] = IF head = NULL THEN NULL ELSE tail]
      /\ head' = IF head = NULL THEN n ELSE head
  BY DEF PushNode
<1>7. head = NULL <=> k = 0
  BY <1>1, <1>4 DEF Nth
<1>8. k # 0 => tail = s[k] /\ tail \in Nodes /\ tail # n /\ head = s[1] /\ k \in 1..k /\ 1 \in 1..k
  BY <1>1, <1>3 DEF Nth
<1> HIDE DEF t
<1>9. \A i : Nth(t, i) = IF i \in 1..k THEN s[i] ELSE IF i = k + 1 THEN n ELSE NULL
  BY <1>1, <1>2, <1>3 DEF Nth
<1>10. \A i \in 1..(k + 1) : i \in 1..k \/ i = k + 1
  BY <1>1
<1>11. Distinct(t)
  BY <1>1, <1>2, <1>3, <1>10 DEF Distinct
<1>12. used' = {t[i] : i \in 1..(k + 1)}
  <2>1. \A i \in 1..k : i \in 1..(k + 1)
    BY <1>1
  <2>2. k + 1 \in 1..(k + 1)
    BY <1>1
  <2> QED BY <1>1, <1>3, <1>6, <1>10, <2>1, <2>2
<1>13. head' = Nth(t, 1) /\ tail' = Nth(t, k + 1)
  <2>1. k = 0 => 1 = k + 1 /\ 1 \notin 1..k
    BY <1>1
  <2>2. k + 1 \notin 1..k
    BY <1>1
  <2> QED BY <1>6, <1>7, <1>8, <1>9, <2>1, <2>2
<1>14. next'[n] = NULL /\ prev'[n] = (IF k = 0 THEN NULL ELSE s[k])
  BY <1>4, <1>5, <1>6, <1>7, <1>8
<1>15. ASSUME NEW i \in 1..k
       PROVE  /\ next'[s[i]] = (IF i = k THEN n ELSE next[s[i]])
              /\ prev'[s[i]] = prev[s[i]]
  <2>1. k # 0 /\ k \in 1..k
    BY <1>1
  <2>2. s[i] = s[k] <=> i = k
    BY <1>1, <2>1 DEF Distinct
  <2> QED BY <1>3, <1>5, <1>6, <1>7, <1>8, <2>1, <2>2
<1>16. ASSUME NEW i \in 1..(k + 1)
       PROVE  next'[t[i]] = Nth(t, i + 1) /\ prev'[t[i]] = Nth(t, i - 1)
  <2>1. CASE i = k + 1
    <3>0. k \in Nat
      BY <1>1
    <3>1. /\ i + 1 \notin 1..k /\ i + 1 # k + 1 /\ i - 1 = k /\ k # k + 1
          /\ (k \in 1..k <=> k # 0)
      BY <3>0, <2>1
    <3> QED BY <1>3, <1>9, <1>14, <2>1, <3>1
  <2>2. CASE i # k + 1
    <3>1. i \in 1..k /\ i - 1 # k + 1
      BY <1>1, <2>2
    <3>2. /\ i = k => i + 1 \notin 1..k /\ i + 1 = k + 1
          /\ i # k => i + 1 \in 1..k
      BY <1>1, <3>1
    <3>3. next[s[i]] = Nth(s, i + 1) /\ prev[s[i]] = Nth(s, i - 1)
      BY <1>1, <3>1
    <3> QED BY <1>3, <1>9, <1>15, <3>1, <3>2, <3>3 DEF Nth
  <2> QED BY <2>1, <2>2
<1>17. Linked(t)
  BY <1>2, <1>11, <1>12, <1>13, <1>16 DEF Linked, Chain
<1>18. Along(t, data') = Grown(Along(s, data), d)
  <2>1. Along(s, data) \in [1..k -> Data \cup {NULL}]
    BY <1>1, <1>5 DEF Along
  <2>2. Len(Along(s, data)) = k
    BY <1>1, <2>1, FunctionIsSeq
  <2>3. \A i \in 1..(k + 1) : data'[t[i]] = IF i <= k THEN data[s[i]] ELSE d
    BY <1>1, <1>3, <1>4, <1>5, <1>6, <1>10
  <2>4. \A i \in 1..(k + 1) : i <= k => i \in 1..k
    BY <1>1
  <2>5. \A i \in 1..(k + 1) : i <= k => Along(s, data)[i] = data[s[i]]
    BY <2>4 DEF Along
  <2> QED BY <1>2, <2>2, <2>3, <2>5 DEF Along, Grown
<1> QED BY <1>17, <1>18 DEF t

LEMMA UnshiftChained ==
    ASSUME TypeOK, NEW s, Chained(s), NEW n \in Nodes, NEW d \in Data, Unshift(n, d)
    PROVE  Linked(Fronted(s, n)) /\ Along(Fronted(s, n), data') = Fronted(Along(s, data), d)
<1> DEFINE t == Fronted(s, n)
           k == Len(s)
<1>0. n \in Nodes \ used /\ InsertBefore(n, head, d)
  BY DEF Unshift
<1>1. /\ s \in Seq(Nodes) /\ k \in Nat /\ s \in [1..k -> Nodes] /\ Distinct(s)
      /\ used = {s[i] : i \in 1..k} /\ head = Nth(s, 1) /\ tail = Nth(s, k)
      /\ \A i \in 1..k : next[s[i]] = Nth(s, i + 1) /\ prev[s[i]] = Nth(s, i - 1)
  BY LenProperties DEF Chained, Chain
<1>2. NULL \notin Nodes /\ n \in Nodes
  BY DListAssumption
<1>3. /\ prev \in [Nodes -> Ref] /\ next \in [Nodes -> Ref]
      /\ data \in [Nodes -> Data \cup {NULL}]
  BY DEF TypeOK
<1>4. Along(s, data) \in [1..k -> Data \cup {NULL}]
  BY <1>1, <1>3 DEF Along
<1>5. Len(Along(s, data)) = k
  BY <1>1, <1>4, FunctionIsSeq
<1>6. CASE k = 0
  <2>1. head = NULL
    BY <1>1, <1>6 DEF Nth
  <2>2. PushNode(n, d)
    BY <1>0, <2>1 DEF InsertBefore
  <2>3. Linked(Grown(s, n)) /\ Along(Grown(s, n), data') = Grown(Along(s, data), d)
    BY <1>0, <2>2, PushChained
  <2>4. Grown(s, n) = Fronted(s, n) /\ Grown(Along(s, data), d) = Fronted(Along(s, data), d)
    <3>1. \A q, x : Len(q) = 0 => Grown(q, x) = Fronted(q, x)
      BY DEF Grown, Fronted
    <3> QED BY <1>5, <1>6, <3>1
  <2> QED BY <2>3, <2>4
<1>7. CASE k # 0
  <2>1. /\ head = s[1] /\ tail = s[k] /\ head \in Nodes /\ tail \in Nodes /\ prev[head] = NULL
        /\ 1 \in 1..k
    BY <1>1, <1>7 DEF Nth
  <2>2. /\ data' = [data EXCEPT ![n] = d]
        /\ used' = used \cup {n}
        /\ next' = [next EXCEPT ![n] = head]
        /\ prev' = [prev EXCEPT ![n] = NULL, ![head] = n]
        /\ head' = n /\ tail' = tail
    BY <1>0, <1>2, <2>1 DEF InsertBefore
  <2>3. t \in Seq(Nodes) /\ Len(t) = k + 1
    BY <1>1, FrontedIs
  <2>4. /\ t[1] = n /\ \A i \in 1..k : s[i] \in Nodes \ {n}
        /\ \A i \in 2..(k + 1) : t[i] = s[i - 1] /\ i - 1 \in 1..k
    <3>1. \A i \in 1..(k + 1) : t[i] = IF i = 1 THEN n ELSE s[i - 1]
      BY DEF Fronted
    <3>2. 1 \in 1..(k + 1) /\ \A i \in 2..(k + 1) : i \in 1..(k + 1) /\ i # 1 /\ i - 1 \in 1..k
      BY <1>1
    <3> HIDE DEF t
    <3> QED BY <1>0, <1>1, <3>1, <3>2
  <2> HIDE DEF t
  <2>5. \A i \in 1..(k + 1) : i = 1 \/ i \in 2..(k + 1)
    BY <1>1
  <2>6. \A i : Nth(t, i) = IF i = 1 THEN n ELSE IF i \in 2..(k + 1) THEN s[i - 1] ELSE NULL
    <3>1. 1 \in 1..(k + 1) /\ \A i \in 2..(k + 1) : i \in 1..(k + 1) /\ i # 1
      BY <1>1
    <3> QED BY <2>3, <2>4, <2>5, <3>1 DEF Nth
  <2>7. Distinct(t)
    <3> SUFFICES ASSUME NEW i \in 1..(k + 1), NEW j \in 1..(k + 1), t[i] = t[j] PROVE i = j
      BY <2>3 DEF Distinct
    <3>1. CASE i = 1 \/ j = 1
      BY <2>4, <2>5, <3>1
    <3>2. CASE i \in 2..(k + 1) /\ j \in 2..(k + 1)
      <4>1. i - 1 = j - 1
        BY <1>1, <2>4, <3>2 DEF Distinct
      <4> QED BY <4>1
    <3> QED BY <2>5, <3>1, <3>2
  <2>8. used' = {t[i] : i \in 1..(k + 1)}
    <3>1. \A i \in 1..k : i + 1 \in 2..(k + 1) /\ (i + 1) - 1 = i /\ i + 1 \in 1..(k + 1)
      BY <1>1
    <3>2. 1 \in 1..(k + 1)
      BY <1>1
    <3>3. \A i \in 1..k : t[i + 1] = s[i]
      BY <2>4, <3>1
    <3>4. ASSUME NEW m \in used' PROVE m \in {t[i] : i \in 1..(k + 1)}
      <4>1. m = n \/ \E i \in 1..k : m = s[i]
        BY <1>1, <2>2
      <4> QED BY <2>4, <3>1, <3>2, <3>3, <4>1
    <3>5. ASSUME NEW i \in 1..(k + 1) PROVE t[i] \in used'
      BY <1>1, <2>2, <2>4, <2>5
    <3> QED BY <3>4, <3>5
  <2>9. head' = Nth(t, 1) /\ tail' = Nth(t, k + 1)
    <3>1. k + 1 # 1 /\ k + 1 \in 2..(k + 1) /\ (k + 1) - 1 = k
      BY <1>1, <1>7
    <3> QED BY <2>1, <2>2, <2>6, <3>1
  <2>10. next'[n] = s[1] /\ prev'[n] = NULL
    BY <1>2, <1>3, <2>1, <2>2, <2>4
  <2>11. ASSUME NEW i \in 1..k
         PROVE  next'[s[i]] = next[s[i]] /\ prev'[s[i]] = IF i = 1 THEN n ELSE prev[s[i]]
    <3>1. s[i] = s[1] <=> i = 1
      BY <1>1, <2>1 DEF Distinct
    <3> QED BY <1>3, <2>1, <2>2, <2>4, <3>1
  <2>12. ASSUME NEW i \in 1..(k + 1)
         PROVE  next'[t[i]] = Nth(t, i + 1) /\ prev'[t[i]] = Nth(t, i - 1)
    <3>1. CASE i = 1
      <4>1. i + 1 \in 2..(k + 1) /\ (i + 1) - 1 = 1 /\ i + 1 # 1 /\ i - 1 # 1 /\ i - 1 \notin 2..(k + 1)
        BY <1>1, <1>7, <3>1
      <4> QED BY <2>4, <2>6, <2>10, <3>1, <4>1
    <3>2. CASE i # 1
      <4>1. i \in 2..(k + 1) /\ i - 1 \in 1..k /\ t[i] = s[i - 1]
        BY <2>4, <2>5, <3>2
      <4>2. next[s[i - 1]] = Nth(s, (i - 1) + 1) /\ prev[s[i - 1]] = Nth(s, (i - 1) - 1)
        BY <1>1, <4>1
      <4>3. /\ (i - 1) + 1 = i /\ (i + 1) - 1 = i /\ i + 1 # 1
            /\ i \in 1..k <=> i + 1 \in 2..(k + 1)
        BY <1>1, <4>1
      <4>4. next'[t[i]] = Nth(t, i + 1)
        <5>1. next'[t[i]] = Nth(s, i)
          BY <2>11, <4>1, <4>2, <4>3
        <5>2. Nth(t, i + 1) = IF i + 1 \in 2..(k + 1) THEN s[i] ELSE NULL
          BY <2>6, <4>3
        <5> QED BY <4>3, <5>1, <5>2 DEF Nth
      <4>5. /\ i - 1 = 1 => i - 1 \in {1}
            /\ i - 1 # 1 => /\ (i - 1) - 1 \in 1..k
                            /\ i - 1 \in 2..(k + 1)
        BY <1>1, <4>1
      <4>6. prev'[t[i]] = Nth(t, i - 1)
        BY <2>6, <2>11, <4>1, <4>2, <4>5 DEF Nth
      <4> QED BY <4>4, <4>6
    <3> QED BY <3>1, <3>2
  <2>13. Linked(t)
    BY <2>3, <2>7, <2>8, <2>9, <2>12 DEF Linked, Chain
  <2>14. Along(t, data') = Fronted(Along(s, data), d)
    <3>1. data'[n] = d /\ \A i \in 1..k : data'[s[i]] = data[s[i]]
      BY <1>2, <1>3, <2>2, <2>4
    <3>2. \A i \in 1..(k + 1) : data'[t[i]] = IF i = 1 THEN d ELSE Along(s, data)[i - 1]
      <4>1. \A i \in 1..k : Along(s, data)[i] = data[s[i]]
        BY DEF Along
      <4> QED BY <2>4, <2>5, <3>1, <4>1
    <3> QED BY <1>5, <2>3, <3>2 DEF Along, Fronted
  <2> QED BY <2>13, <2>14 DEF t
<1> QED BY <1>6, <1>7

LEMMA RemoveChained ==
    ASSUME TypeOK, NEW s, Chained(s), NEW e \in 1..Len(s), Unlink(s[e])
    PROVE  Linked(Cut(s, e)) /\ Along(Cut(s, e), data') = Cut(Along(s, data), e)
<1> DEFINE t == Cut(s, e)
           k == Len(s)
           n == s[e]
<1>1. /\ s \in Seq(Nodes) /\ k \in Nat /\ s \in [1..k -> Nodes] /\ Distinct(s)
      /\ used = {s[i] : i \in 1..k} /\ head = Nth(s, 1) /\ tail = Nth(s, k)
      /\ \A i \in 1..k : next[s[i]] = Nth(s, i + 1) /\ prev[s[i]] = Nth(s, i - 1)
  BY LenProperties DEF Chained, Chain
<1>2. NULL \notin Nodes /\ n \in Nodes
  BY <1>1, DListAssumption
<1>3. /\ prev \in [Nodes -> Ref] /\ next \in [Nodes -> Ref]
      /\ data \in [Nodes -> Data \cup {NULL}]
  BY DEF TypeOK
<1> DEFINE p == Nth(s, e - 1)
           q == Nth(s, e + 1)
<1>4. /\ used' = used \ {n}
      /\ data' = [data EXCEPT ![n] = NULL]
      /\ head' = (IF p = NULL THEN q ELSE head)
      /\ tail' = (IF q = NULL THEN p ELSE tail)
      /\ next' = [m \in Nodes |-> IF m = n THEN NULL ELSE IF m = p THEN q ELSE next[m]]
      /\ prev' = [m \in Nodes |-> IF m = n THEN NULL ELSE IF m = q THEN p ELSE prev[m]]
  <2>1. prev[n] = p /\ next[n] = q
    BY <1>1
  <2> HIDE DEF p, q
  <2> QED BY <2>1, Zenon DEF Unlink
<1>5. t \in Seq(Nodes) /\ Len(t) = k - 1
  BY <1>1, CutIs
\* Where the i-th node of the shorter list was.
<1> DEFINE at(i) == IF i < e THEN i ELSE i + 1
<1>6. /\ \A i \in 1..(k - 1) : t[i] = s[at(i)]
      /\ \A i \in 1..(k - 1) : at(i) \in 1..k /\ at(i) # e
      /\ \A i, j \in 1..(k - 1) : at(i) = at(j) => i = j
      /\ \A j \in 1..k : j # e => \E i \in 1..(k - 1) : j = at(i)
  <2>1. \A i \in 1..(k - 1) : t[i] = s[at(i)]
    BY DEF Cut
  <2>2. \A i \in 1..(k - 1) : at(i) \in 1..k /\ at(i) # e
    BY <1>1
  <2>3. \A i, j \in 1..(k - 1) : at(i) = at(j) => i = j
    BY <1>1
  <2>4. ASSUME NEW j \in 1..k, j # e PROVE \E i \in 1..(k - 1) : j = at(i)
    <3>1. CASE j < e
      <4>1. j \in 1..(k - 1) /\ j = at(j)
        BY <1>1, <3>1
      <4> QED BY <4>1
    <3>2. CASE ~(j < e)
      <4>1. j - 1 \in 1..(k - 1) /\ j = at(j - 1)
        BY <1>1, <2>4, <3>2
      <4> QED BY <4>1
    <3> QED BY <3>1, <3>2
  <2> QED BY <2>1, <2>2, <2>3, <2>4
<1>7. \A i, j \in 1..k : s[i] = s[j] => i = j
  BY <1>1 DEF Distinct
<1>8. \A i \in 1..k : s[i] \in Nodes
  BY <1>1
<1>9. k - 1 \in Nat /\ e \in Nat
  BY <1>1
<1> HIDE DEF t
<1>10. Distinct(t)
  <2> SUFFICES ASSUME NEW i \in 1..(k - 1), NEW j \in 1..(k - 1), t[i] = t[j] PROVE i = j
    BY <1>5 DEF Distinct
  <2>1. s[at(i)] = s[at(j)]
    BY <1>6
  <2>2. at(i) = at(j)
    BY <1>6, <1>7, <2>1
  <2> HIDE DEF at
  <2> QED BY <1>6, <2>2
<1>11. used' = {t[i] : i \in 1..(k - 1)}
  <2> HIDE DEF at
  <2>1. ASSUME NEW m \in used' PROVE m \in {t[i] : i \in 1..(k - 1)}
    <3>1. PICK j \in 1..k : m = s[j] /\ j # e
      BY <1>1, <1>4
    <3>2. PICK i \in 1..(k - 1) : j = at(i)
      BY <1>6, <3>1
    <3> QED BY <1>6, <3>1, <3>2
  <2>2. ASSUME NEW i \in 1..(k - 1) PROVE t[i] \in used'
    <3>1. s[at(i)] # s[e] /\ at(i) \in 1..k
      BY <1>6, <1>7
    <3> QED BY <1>1, <1>4, <1>6, <3>1
  <2> QED BY <2>1, <2>2
\* What follows and precedes the other nodes.
<1>12. ASSUME NEW j \in 1..k, j # e
       PROVE  /\ next'[s[j]] = Nth(s, IF j + 1 = e THEN e + 1 ELSE j + 1)
              /\ prev'[s[j]] = Nth(s, IF j - 1 = e THEN e - 1 ELSE j - 1)
  <2>1. s[j] # n /\ s[j] \in Nodes
    BY <1>7, <1>8, <1>12
  <2>2. s[j] = p <=> j + 1 = e
    <3>1. CASE e - 1 \in 1..k
      <4>1. p = s[e - 1]
        BY <3>1 DEF Nth
      <4>2. s[j] = s[e - 1] <=> j = e - 1
        BY <1>7, <3>1
      <4>3. j = e - 1 <=> j + 1 = e
        BY <1>9
      <4> QED BY <4>1, <4>2, <4>3
    <3>2. CASE e - 1 \notin 1..k
      <4>1. p = NULL
        BY <3>2 DEF Nth
      <4>2. j + 1 # e
        BY <1>1, <1>9, <3>2
      <4> QED BY <1>2, <2>1, <4>1, <4>2
    <3> QED BY <3>1, <3>2
  <2>3. s[j] = q <=> j - 1 = e
    <3>1. CASE e + 1 \in 1..k
      <4>1. q = s[e + 1]
        BY <3>1 DEF Nth
      <4>2. s[j] = s[e + 1] <=> j = e + 1
        BY <1>7, <3>1
      <4>3. j = e + 1 <=> j - 1 = e
        BY <1>9
      <4> QED BY <4>1, <4>2, <4>3
    <3>2. CASE e + 1 \notin 1..k
      <4>1. q = NULL
        BY <3>2 DEF Nth
      <4>2. j - 1 # e
        BY <1>1, <1>9, <3>2
      <4> QED BY <1>2, <2>1, <4>1, <4>2
    <3> QED BY <3>1, <3>2
  <2>4. next[s[j]] = Nth(s, j + 1) /\ prev[s[j]] = Nth(s, j - 1)
    BY <1>1
  <2>5. next'[s[j]] = (IF s[j] = p THEN q ELSE next[s[j]])
    <3> HIDE DEF p, q
    <3> QED BY <1>4, <2>1
  <2>6. prev'[s[j]] = (IF s[j] = q THEN p ELSE prev[s[j]])
    <3> HIDE DEF p, q
    <3> QED BY <1>4, <2>1
  <2>7. next'[s[j]] = Nth(s, IF j + 1 = e THEN e + 1 ELSE j + 1)
    BY <2>2, <2>4, <2>5
  <2>8. prev'[s[j]] = Nth(s, IF j - 1 = e THEN e - 1 ELSE j - 1)
    BY <2>3, <2>4, <2>6
  <2> QED BY <2>7, <2>8
<1>13. \A i : Nth(t, i) = IF i \in 1..(k - 1) THEN s[at(i)] ELSE NULL
  BY <1>5, <1>6 DEF Nth
<1>14. ASSUME NEW i \in 1..(k - 1)
       PROVE  next'[t[i]] = Nth(t, i + 1) /\ prev'[t[i]] = Nth(t, i - 1)
  <2>1. at(i) \in 1..k /\ at(i) # e /\ t[i] = s[at(i)]
    BY <1>6
  <2>2. /\ next'[t[i]] = Nth(s, IF at(i) + 1 = e THEN e + 1 ELSE at(i) + 1)
        /\ prev'[t[i]] = Nth(s, IF at(i) - 1 = e THEN e - 1 ELSE at(i) - 1)
    <3> HIDE DEF at
    <3> QED BY <1>12, <2>1
  <2>3. Nth(s, IF at(i) + 1 = e THEN e + 1 ELSE at(i) + 1) = Nth(t, i + 1)
    <3>1. CASE i + 1 \in 1..(k - 1)
      <4>1. (IF at(i) + 1 = e THEN e + 1 ELSE at(i) + 1) = at(i + 1) /\ at(i + 1) \in 1..k
        BY <1>9, <1>1, <3>1
      <4> HIDE DEF at
      <4> QED BY <1>13, <3>1, <4>1 DEF Nth
    <3>2. CASE i + 1 \notin 1..(k - 1)
      <4>1. (IF at(i) + 1 = e THEN e + 1 ELSE at(i) + 1) \notin 1..k
        BY <1>9, <1>1, <3>2, SMTT(30)
      <4> HIDE DEF at
      <4> QED BY <1>13, <3>2, <4>1 DEF Nth
    <3> QED BY <3>1, <3>2
  <2>4. Nth(s, IF at(i) - 1 = e THEN e - 1 ELSE at(i) - 1) = Nth(t, i - 1)
    <3>1. CASE i - 1 \in 1..(k - 1)
      <4>1. (IF at(i) - 1 = e THEN e - 1 ELSE at(i) - 1) = at(i - 1) /\ at(i - 1) \in 1..k
        BY <1>9, <1>1, <3>1
      <4> HIDE DEF at
      <4> QED BY <1>13, <3>1, <4>1 DEF Nth
    <3>2. CASE i - 1 \notin 1..(k - 1)
      <4>1. (IF at(i) - 1 = e THEN e - 1 ELSE at(i) - 1) \notin 1..k
        BY <1>9, <1>1, <3>2
      <4> HIDE DEF at
      <4> QED BY <1>13, <3>2, <4>1 DEF Nth
    <3> QED BY <3>1, <3>2
  <2> QED BY <2>2, <2>3, <2>4
<1>k. k \in Nat /\ e \in 1..k
  BY <1>1
<1>p. p = NULL <=> e = 1
  <2>1. e = 1 => e - 1 \notin 1..k
    OBVIOUS
  <2>2. e # 1 => e - 1 \in 1..k
    BY <1>k
  <2> QED BY <1>2, <1>8, <2>1, <2>2 DEF Nth
<1>q. q = NULL <=> e = k
  <2>1. e = k => e + 1 \notin 1..k
    BY <1>k
  <2>2. e # k => e + 1 \in 1..k
    BY <1>k
  <2> QED BY <1>2, <1>8, <2>1, <2>2 DEF Nth
<1>15. head' = Nth(t, 1)
  <2>1. CASE e = 1
    <3>1. head' = Nth(s, 2)
      BY <1>4, <1>p, <2>1
    <3>2. 2 \in 1..k <=> 1 \in 1..(k - 1)
      BY <1>k
    <3>3. at(1) = 2
      BY <2>1
    <3> HIDE DEF at
    <3> QED BY <1>13, <3>1, <3>2, <3>3 DEF Nth
  <2>2. CASE e # 1
    <3>1. head' = Nth(s, 1)
      BY <1>1, <1>4, <1>p, <2>2
    <3>2. 1 \in 1..k /\ 1 \in 1..(k - 1)
      BY <1>k, <2>2
    <3>3. at(1) = 1
      BY <1>k, <2>2
    <3> HIDE DEF at
    <3> QED BY <1>13, <3>1, <3>2, <3>3 DEF Nth
  <2> QED BY <2>1, <2>2
<1>16. tail' = Nth(t, k - 1)
  <2>1. CASE e = k
    <3>1. tail' = Nth(s, k - 1)
      BY <1>4, <1>q, <2>1
    <3>2. k - 1 \in 1..k <=> k - 1 \in 1..(k - 1)
      BY <1>k
    <3>3. at(k - 1) = k - 1
      BY <1>k, <2>1
    <3> HIDE DEF at
    <3> QED BY <1>13, <3>1, <3>2, <3>3 DEF Nth
  <2>2. CASE e # k
    <3>1. tail' = Nth(s, k)
      BY <1>1, <1>4, <1>q, <2>2
    <3>2. k \in 1..k /\ k - 1 \in 1..(k - 1)
      BY <1>k, <2>2
    <3>3. at(k - 1) = k
      BY <1>k, <2>2
    <3> HIDE DEF at
    <3> QED BY <1>13, <3>1, <3>2, <3>3 DEF Nth
  <2> QED BY <2>1, <2>2
<1>17. Linked(t)
  BY <1>5, <1>10, <1>11, <1>14, <1>15, <1>16 DEF Linked, Chain
<1>18. Along(t, data') = Cut(Along(s, data), e)
  <2>1. Along(s, data) \in [1..k -> Data \cup {NULL}]
    BY <1>1, <1>3 DEF Along
  <2>2. Len(Along(s, data)) = k
    BY <1>1, <2>1, FunctionIsSeq
  <2>3. \A i \in 1..k : Along(s, data)[i] = data[s[i]]
    BY DEF Along
  <2>4. ASSUME NEW i \in 1..(k - 1)
        PROVE  data'[t[i]] = IF i < e THEN Along(s, data)[i] ELSE Along(s, data)[i + 1]
    <3>1. at(i) \in 1..k /\ at(i) # e /\ t[i] = s[at(i)]
      BY <1>6
    <3>2. s[at(i)] # n /\ s[at(i)] \in Nodes
      <4> HIDE DEF at
      <4> QED BY <1>7, <1>8, <3>1
    <3>3. data'[t[i]] = data[s[at(i)]]
      <4> HIDE DEF at, n
      <4> QED BY <1>3, <1>4, <3>1, <3>2
    <3>4. data[s[at(i)]] = Along(s, data)[at(i)]
      <4> HIDE DEF at
      <4> QED BY <2>3, <3>1
    <3> QED BY <3>3, <3>4
  <2> QED BY <1>5, <2>2, <2>4 DEF Along, Cut
<1> QED BY <1>17, <1>18 DEF t

-----------------------------------------------------------------------------
(* The list as a deque.                                                    *)

\* What a step does to the contents, by the name of the operation.
Renders == /\ \A n \in Nodes, d \in Data : /\ Push(n, d) => D!PushBack(d)
                                           /\ Unshift(n, d) => D!PushFront(d)
           /\ Pop => D!RemoveAt(Len(Contents))
           /\ Shift => D!RemoveAt(1)

\* The sequence of the nodes after a step, and their data.
LEMMA LinkedContents ==
    ASSUME NEW s, Linked(s)
    PROVE  Contents' = Along(s, data')
<1>1. Walk(head', next') = s
  BY ChainWalks DEF Linked
<1>2. Forward' = s
  BY <1>1 DEF Forward
<1>3. DOMAIN s = 1..Len(s)
  BY LenProperties DEF Linked, Chain
<1> QED BY <1>2, <1>3 DEF Contents, Along

LEMMA ContentsAre ==
    ASSUME TypeOK, NEW s, Chained(s)
    PROVE  /\ Contents = Along(s, data) /\ Contents \in Seq(Data)
           /\ Len(Contents) = Len(s) /\ DOMAIN Contents = 1..Len(s)
<1>1. /\ Contents = Along(s, data) /\ s \in Seq(Nodes) /\ Len(s) \in Nat
      /\ used = {s[i] : i \in 1..Len(s)}
  BY ChainedWalks
<1>2. Along(s, data) \in [1..Len(s) -> Data]
  BY <1>1 DEF Along, TypeOK
<1> QED BY <1>1, <1>2, FunctionIsSeq

LEMMA PushRenders ==
    ASSUME TypeOK, NEW s, Chained(s), NEW n \in Nodes, NEW d \in Data, Push(n, d)
    PROVE  D!PushBack(d) /\ \E t : Linked(t)
<1>1. n \in Nodes \ used /\ PushNode(n, d)
  BY DEF Push
<1>2. Linked(Grown(s, n)) /\ Along(Grown(s, n), data') = Grown(Along(s, data), d)
  BY <1>1, PushChained
<1>3. Contents' = Grown(Contents, d)
  BY <1>2, LinkedContents, ContentsAre
<1>4. Contents' = Append(Contents, d)
  BY <1>3, ContentsAre, GrownIs
<1> QED BY <1>2, <1>4 DEF D!PushBack

LEMMA UnshiftRenders ==
    ASSUME TypeOK, NEW s, Chained(s), NEW n \in Nodes, NEW d \in Data, Unshift(n, d)
    PROVE  D!PushFront(d) /\ \E t : Linked(t)
<1>2. Linked(Fronted(s, n)) /\ Along(Fronted(s, n), data') = Fronted(Along(s, data), d)
  BY UnshiftChained
<1>3. Contents' = Fronted(Contents, d)
  BY <1>2, LinkedContents, ContentsAre
<1>4. Contents' = <<d>> \o Contents
  BY <1>3, ContentsAre, FrontedIs
<1> QED BY <1>2, <1>4 DEF D!PushFront

LEMMA RemoveRenders ==
    ASSUME TypeOK, NEW s, Chained(s), NEW e \in 1..Len(s), Remove(s[e])
    PROVE  D!RemoveAt(e) /\ e \in DOMAIN Contents /\ \E t : Linked(t)
<1>1. Unlink(s[e])
  BY DEF Remove
<1>2. Linked(Cut(s, e)) /\ Along(Cut(s, e), data') = Cut(Along(s, data), e)
  BY <1>1, RemoveChained
<1>3. Contents' = Cut(Contents, e)
  BY <1>2, LinkedContents, ContentsAre
<1>4. Contents \in Seq(Data) /\ e \in 1..Len(Contents) /\ e \in DOMAIN Contents
  BY ContentsAre
<1>5. Contents' = SubSeq(Contents, 1, e - 1) \o SubSeq(Contents, e + 1, Len(Contents))
  BY <1>3, <1>4, CutIs
<1> QED BY <1>2, <1>4, <1>5 DEF D!RemoveAt

LEMMA Ends ==
    ASSUME NEW s, Chained(s)
    PROVE  /\ head # NULL => 1 \in 1..Len(s) /\ head = s[1]
           /\ tail # NULL => Len(s) \in 1..Len(s) /\ tail = s[Len(s)]
  BY DEF Chained, Chain, Nth

LEMMA RemoveSomewhere ==
    ASSUME NEW s, Chained(s), NEW n, Remove(n)
    PROVE  \E e \in 1..Len(s) : n = s[e]
  BY DEF Remove, Chained, Chain

LEMMA StepRenders ==
    ASSUME CInv, [Next]_vars
    PROVE  (\E t : Linked(t)) /\ [D!Next]_Contents /\ [Renders]_vars
<1>0. PICK s : Chained(s)
  BY DEF CInv
<1>t. TypeOK
  BY DEF CInv
<1>1. ASSUME NEW n \in Nodes, NEW d \in Data, Push(n, d)
      PROVE  D!Next /\ \E t : Linked(t)
  BY <1>0, <1>t, <1>1, PushRenders DEF D!Next
<1>2. ASSUME NEW n \in Nodes, NEW d \in Data, Unshift(n, d)
      PROVE  D!Next /\ \E t : Linked(t)
  BY <1>0, <1>t, <1>2, UnshiftRenders DEF D!Next
<1>3. ASSUME NEW n, Remove(n)
      PROVE  D!Next /\ \E t : Linked(t)
  <2>1. PICK e \in 1..Len(s) : n = s[e]
    BY <1>0, <1>3, RemoveSomewhere
  <2> QED BY <1>0, <1>t, <1>3, <2>1, RemoveRenders DEF D!Next
<1>4. CASE UNCHANGED vars
  <2>1. Linked(s)
    BY <1>0, <1>4 DEF Linked, Chained, vars
  <2>2. Contents' = Contents
    BY <1>4 DEF Contents, Forward, vars
  <2> QED BY <1>4, <2>1, <2>2
<1>5. CASE Next
  <2>1. D!Next /\ \E t : Linked(t)
    BY <1>1, <1>2, <1>3, <1>5 DEF Next, Pop, Shift
  <2>2. ASSUME Pop PROVE D!RemoveAt(Len(Contents))
    <3>1. tail # NULL /\ Remove(tail)
      BY <2>2 DEF Pop
    <3>2. Len(s) \in 1..Len(s) /\ tail = s[Len(s)]
      BY <1>0, <3>1, Ends
    <3>3. Len(Contents) = Len(s)
      BY <1>0, <1>t, ContentsAre
    <3> QED BY <1>0, <1>t, <3>1, <3>2, <3>3, RemoveRenders
  <2>3. ASSUME Shift PROVE D!RemoveAt(1)
    <3>1. head # NULL /\ Remove(head)
      BY <2>3 DEF Shift
    <3>2. 1 \in 1..Len(s) /\ head = s[1]
      BY <1>0, <3>1, Ends
    <3> QED BY <1>0, <1>t, <3>1, <3>2, RemoveRenders
  <2>4. Renders
    BY <1>0, <1>t, <2>2, <2>3, PushRenders, UnshiftRenders DEF Renders
  <2> QED BY <2>1, <2>4
<1> QED BY <1>4, <1>5

LEMMA InitChained == Init => CInv /\ Contents = << >>
<1> SUFFICES ASSUME Init PROVE CInv /\ Contents = << >>
  OBVIOUS
<1>1. TypeOK
  BY InitIInv DEF IInv
<1>2. << >> \in Seq(Nodes) /\ Len(<< >>) = 0
  OBVIOUS
<1>3. Chained(<< >>)
  BY <1>2 DEF Init, Chained, Chain, Distinct, Nth
<1>4. Len(Contents) = 0 /\ Contents \in Seq(Data)
  BY <1>1, <1>2, <1>3, ContentsAre
<1> QED BY <1>1, <1>3, <1>4 DEF CInv

LEMMA ChainInvariance == Spec => [](IInv /\ CInv)
<1>1. Init => IInv /\ CInv
  BY InitIInv, InitChained
<1>2. IInv /\ CInv /\ [Next]_vars => IInv' /\ CInv'
  <2> SUFFICES ASSUME IInv, CInv, [Next]_vars PROVE IInv' /\ CInv'
    OBVIOUS
  <2>1. IInv'
    BY NextKeepsIInv
  <2>2. PICK t : Linked(t)
    BY StepRenders
  <2>3. Chained(t)'
    BY <2>2 DEF Linked, Chained
  <2> QED BY <2>1, <2>3 DEF IInv, CInv
<1> QED BY <1>1, <1>2, PTL DEF Spec

\* Every field of a list and its nodes keeps its type, and a node in use holds
\* a datum (List_new_node, List_remove).
THEOREM ListTypes == Spec => []TypeOK
<1>1. IInv => TypeOK
  BY DEF IInv
<1> QED BY <1>1, ChainInvariance, PTL

\* For every set of nodes and data: next and prev are inverse, and no link of a
\* node in use, head or tail leads to freed memory.
THEOREM LinksAlwaysInverse == Spec => []LinksInverse
<1>1. IInv => LinksInverse
  BY DEF IInv
<1> QED BY <1>1, ChainInvariance, PTL

\* List_index and List_rindex see the same nodes, in opposite order, and every
\* node that is allocated, in lists of every length.
THEOREM WalksAlwaysAgree == Spec => []WalksAgree
<1>1. CInv => WalksAgree
  BY ChainsAgree
<1> QED BY <1>1, ChainInvariance, PTL

\* The list implements a deque: push, unshift, pop and shift do to the contents
\* what the abstract operation of that name does, and remove takes out one.
THEOREM ListIsDeque == Spec => IsDeque
<1>1. Init => D!Init
  BY InitChained DEF D!Init
<1>2. CInv /\ [Next]_vars => [D!Next]_Contents
  BY StepRenders
<1>3. CInv /\ [Next]_vars => [Renders]_vars
  BY StepRenders
<1>4. Renders <=> /\ \A n \in Nodes, d \in Data : /\ Push(n, d) => D!PushBack(d)
                                                  /\ Unshift(n, d) => D!PushFront(d)
                  /\ Pop => D!RemoveAt(Len(Contents))
                  /\ Shift => D!RemoveAt(1)
  BY DEF Renders
<1>5. CInv /\ [Next]_vars =>
         [/\ \A n \in Nodes, d \in Data : /\ Push(n, d) => D!PushBack(d)
                                          /\ Unshift(n, d) => D!PushFront(d)
          /\ Pop => D!RemoveAt(Len(Contents))
          /\ Shift => D!RemoveAt(1)]_vars
  BY <1>3, <1>4
<1> QED BY <1>1, <1>2, <1>5, ChainInvariance, PTL DEF Spec, IsDeque, D!Spec
=============================================================================
