---------------------------- MODULE TclVarsProofs ---------------------------
(***************************************************************************)
(* Proofs about TclVars: for any number of cells, names and activations    *)
(* the reference counts are exact, a command writes only to containers     *)
(* that it has itself, and a string is copied onto itself only in a        *)
(* container that a variable or a forgotten handle has.                    *)
(***************************************************************************)
EXTENDS TclVars, FiniteSetTheorems, SequenceTheorems, TLAPS

-----------------------------------------------------------------------------
(* The inductive invariant.  Counts change by what a command takes and     *)
(* deletes, so that they are exact only if what it pops or overwrites is   *)
(* what it deletes: an activation of Inner has its result and no variable, *)
(* a proc's and an uplevel's has no result.                                *)

\* The handles on c of the activations of st.
Total(st, c) == FoldLeft(LAMBDA n, a : n + Holds(a, c), 0, st)

Framed(a) == IF a.kind \in RetKinds THEN a.own \in Cells ELSE a.own = NIL
Inner == {"bracket", "catch", "or", "and"}
Scopeless(a) == a.kind \in Inner => a.vars = Unbound

Frames(st) ==
    /\ st \in Seq(Activations) /\ Len(st) > 0 /\ st[1].kind = "top"
    /\ \A i \in 1..Len(st) : Framed(st[i]) /\ Scopeless(st[i])

IInv == /\ Frames(stack)
        /\ val \in [Cells -> Values]
        /\ ref \in [Cells -> Nat] /\ lost \in [Cells -> Nat]
        /\ \A c \in Cells : ref[c] = Total(stack, c) + lost[c]

-----------------------------------------------------------------------------
(* Sums over a stack, and the namespaces of a stack, one activation at a   *)
(* time.                                                                   *)

LEMMA LeastElement ==
    ASSUME NEW T, T \subseteq Nat, T # {}
    PROVE  \E x \in T : \A y \in T : x <= y
<1> DEFINE U == {0..x : x \in T}
           R == StrictSubsetOrdering(Nat)
<1>1. IsWellFoundedOn(R, FiniteSubsetsOf(Nat))
  BY FS_StrictSubsetOrderingWellFounded
<1>2. U \subseteq FiniteSubsetsOf(Nat) /\ U # {}
  <2>1. \A x \in T : 0..x \in SUBSET Nat /\ IsFiniteSet(0..x)
    BY FS_Interval
  <2> QED BY <2>1 DEF FiniteSubsetsOf
<1>3. PICK u \in U : \A v \in U : ~ (<<v, u>> \in R)
  <2> HIDE DEF U, R
  <2> QED BY <1>1, <1>2, WFMin, Zenon
<1>4. PICK x \in T : u = 0..x
  OBVIOUS
<1>5. ASSUME NEW y \in T, y < x PROVE FALSE
  <2>1. 0..y \subseteq 0..x /\ x \in 0..x /\ x \notin 0..y /\ 0..x \subseteq Nat
    BY <1>5
  <2>2. 0..y \in U /\ <<0..y, 0..x>> \in R
    BY <2>1 DEF StrictSubsetOrdering
  <2> QED BY <2>2, <1>3, <1>4
<1> QED BY <1>5

LEMMA GreatestElement ==
    ASSUME NEW k \in Nat, NEW S, S \subseteq 0..k, S # {}
    PROVE  Max(S) \in S /\ \A i \in S : i <= Max(S)
<1> DEFINE T == {k - i : i \in S}
<1>1. T \subseteq Nat /\ T # {}
  <2>1. \A i \in S : k - i \in Nat
    OBVIOUS
  <2> QED BY <2>1
<1>2. PICK x \in T : \A y \in T : x <= y
  <2> HIDE DEF T
  <2> QED BY <1>1, LeastElement
<1>3. PICK m \in S : x = k - m
  OBVIOUS
<1>4. ASSUME NEW i \in S PROVE m >= i
  <2>1. k - i \in T
    OBVIOUS
  <2>2. k - m <= k - i
    BY <2>1, <1>2, <1>3
  <2> QED BY <2>2
<1>5. Max(S) \in S /\ \A i \in S : Max(S) >= i
  BY <1>4 DEF Max
<1> QED BY <1>5


\* What an activation adds to the sum (for c) and to the namespaces.
Counted(n, a, c) == n + Holds(a, c)
Listed(spaces, a) == IF a.kind \in NsKinds THEN Append(spaces, a.vars) ELSE spaces

SpacesOf(st) == FoldLeft(LAMBDA spaces, a : Listed(spaces, a), << >>, st)

\* The two folds as one: f is the function over sets of places that the fold
\* of t is defined by, and which says which fold it is.
From(which) == IF which = "sum" THEN 0 ELSE << >>
Add(which, r, a, c) == IF which = "sum" THEN Counted(r, a, c) ELSE Listed(r, a)
FoldStep(which, c, f, t, s) ==
    IF s = {} THEN From(which) ELSE Add(which, f[s \ {Max(s)}], t[Max(s)], c)
Folds(which, c, f, t) == f = [s \in SUBSET DOMAIN t |-> FoldStep(which, c, f, t, s)]

SumStep(c, f, t, s) == IF s = {} THEN 0 ELSE f[s \ {Max(s)}] + Holds(t[Max(s)], c)
Sums(c, f, t) == f = [s \in SUBSET DOMAIN t |-> SumStep(c, f, t, s)]
ListStep(f, t, s) == IF s = {} THEN << >> ELSE Listed(f[s \ {Max(s)}], t[Max(s)])
Lists(f, t) == f = [s \in SUBSET DOMAIN t |-> ListStep(f, t, s)]

LEMMA FoldsAre ==
    ASSUME NEW t
    PROVE  /\ \A c : Total(t, c) = (CHOOSE f : Sums(c, f, t))[DOMAIN t]
           /\ SpacesOf(t) = (CHOOSE f : Lists(f, t))[DOMAIN t]
<1>1. ASSUME NEW c PROVE Total(t, c) = (CHOOSE f : Sums(c, f, t))[DOMAIN t]
  BY Zenon DEF Total, FoldLeft, MapThenFoldSet, Sums, SumStep
<1>2. SpacesOf(t) = (CHOOSE f : Lists(f, t))[DOMAIN t]
  BY Zenon DEF SpacesOf, FoldLeft, MapThenFoldSet, Lists, ListStep
<1> QED BY <1>1, <1>2

LEMMA OneFold ==
    ASSUME NEW t, NEW f, NEW c
    PROVE  /\ Sums(c, f, t) <=> Folds("sum", c, f, t)
           /\ Lists(f, t) <=> Folds("list", c, f, t)
<1>1. \A s : SumStep(c, f, t, s) = FoldStep("sum", c, f, t, s)
  BY DEF SumStep, FoldStep, From, Add, Counted
<1>2. \A s : ListStep(f, t, s) = FoldStep("list", c, f, t, s)
  BY DEF ListStep, FoldStep, From, Add
<1> QED BY <1>1, <1>2, Zenon DEF Sums, Lists, Folds

LEMMA FoldExists ==
    ASSUME NEW which, NEW c, NEW t \in Seq(Activations)
    PROVE  \E f : Folds(which, c, f, t)
<1> DEFINE D == SUBSET DOMAIN t
           Good(f, k) == /\ f = [s \in D |-> f[s]]
                         /\ \A s \in D : s \subseteq 1..k => f[s] = FoldStep(which, c, f, t, s)
           T == {k \in Nat : ~ \E f : Good(f, k)}
<1>1. Len(t) \in Nat /\ DOMAIN t = 1..Len(t)
  OBVIOUS
<1>2. \E f : Good(f, 0)
  <2> DEFINE f0 == [s \in D |-> From(which)]
  <2>1. ASSUME NEW s \in D, s \subseteq 1..0 PROVE f0[s] = FoldStep(which, c, f0, t, s)
    <3>1. s = {}
      BY <2>1
    <3> QED BY <3>1 DEF FoldStep
  <2>2. f0 = [s \in D |-> f0[s]]
    OBVIOUS
  <2> QED BY <2>1, <2>2
<1>3. ASSUME NEW k \in Nat, NEW f, Good(f, k) PROVE \E g : Good(g, k + 1)
  <2> DEFINE g == [s \in D |-> IF s \subseteq 1..k THEN f[s] ELSE FoldStep(which, c, f, t, s)]
  <2>1. ASSUME NEW s \in D, s \subseteq 1..(k + 1) PROVE g[s] = FoldStep(which, c, g, t, s)
    <3>1. CASE s = {}
      <4>1. s \subseteq 1..k
        BY <3>1
      <4>2. g[s] = f[s] /\ f[s] = FoldStep(which, c, f, t, s)
        BY <4>1, <1>3
      <4> QED BY <4>2, <3>1 DEF FoldStep
    <3>2. CASE s # {}
      <4> DEFINE r == s \ {Max(s)}
      <4>1. Max(s) \in s /\ \A i \in s : i <= Max(s)
        BY <2>1, <3>2, GreatestElement, k + 1 \in Nat, 1..(k + 1) \subseteq 0..(k + 1)
      <4>2. r \subseteq 1..k /\ r \in D
        BY <2>1, <4>1
      <4>3. g[r] = f[r]
        BY <4>2
      <4>4. g[s] = FoldStep(which, c, f, t, s)
        BY <1>3
      <4> QED BY <4>3, <4>4, <3>2 DEF FoldStep
    <3> QED BY <3>1, <3>2
  <2>2. g = [s \in D |-> g[s]]
    OBVIOUS
  <2> QED BY <2>1, <2>2
<1>4. T = {}
  <2> SUFFICES ASSUME T # {} PROVE FALSE
    OBVIOUS
  <2>1. T \subseteq Nat
    OBVIOUS
  <2>2. PICK k \in T : \A j \in T : k <= j
    <3> HIDE DEF T
    <3> QED BY <2>1, LeastElement
  <2>3. k \in Nat /\ ~ \E f : Good(f, k)
    OBVIOUS
  <2>4. k # 0
    <3> HIDE DEF Good
    <3> QED BY <2>3, <1>2
  <2>5. k - 1 \in Nat /\ k - 1 \notin T
    <3>1. k - 1 \in Nat /\ ~(k <= k - 1)
      BY <2>3, <2>4
    <3> HIDE DEF T
    <3> QED BY <2>2, <3>1
  <2>6. PICK f : Good(f, k - 1)
    BY <2>5
  <2>7. \E g : Good(g, (k - 1) + 1)
    <3> HIDE DEF Good
    <3> QED BY <2>5, <2>6, <1>3
  <2>8. (k - 1) + 1 = k
    BY <2>3
  <2> HIDE DEF Good
  <2> QED BY <2>3, <2>7, <2>8
<1>5. PICK f : Good(f, Len(t))
  BY <1>1, <1>4
<1>6. \A s \in D : f[s] = FoldStep(which, c, f, t, s)
  BY <1>1, <1>5
<1> QED BY <1>5, <1>6 DEF Folds

LEMMA FoldSteps ==
    ASSUME NEW which, NEW c, NEW t \in Seq(Activations), NEW a \in Activations, NEW f, NEW g,
           Folds(which, c, f, t), Folds(which, c, g, Append(t, a))
    PROVE  g[DOMAIN Append(t, a)] = Add(which, f[DOMAIN t], a, c)
<1> DEFINE n == Len(t)
           u == Append(t, a)
           T == {k \in 0..n : f[1..k] # g[1..k]}
<1>1. n \in Nat /\ u \in Seq(Activations) /\ Len(u) = n + 1 /\ u[n + 1] = a
      /\ DOMAIN t = 1..n /\ DOMAIN u = 1..(n + 1) /\ \A i \in 1..n : u[i] = t[i]
  OBVIOUS
<1>2. Folds(which, c, f, t) /\ Folds(which, c, g, u)
  OBVIOUS
<1> HIDE DEF n, u
<1>3. /\ \A s \in SUBSET (1..n) : f[s] = FoldStep(which, c, f, t, s)
      /\ \A s \in SUBSET (1..(n + 1)) : g[s] = FoldStep(which, c, g, u, s)
  BY <1>1, <1>2 DEF Folds
<1>4. ASSUME NEW k \in Nat, k # 0, NEW h, NEW v
      PROVE  FoldStep(which, c, h, v, 1..k) = Add(which, h[1..(k - 1)], v[k], c)
  <2>0. k \in 1..k /\ 1..k \subseteq 0..k
    BY <1>4
  <2>1. 1..k # {} /\ 1..k \subseteq 0..k
    BY <2>0
  <2>2. Max(1..k) \in 1..k /\ \A i \in 1..k : i <= Max(1..k)
    BY <2>1, GreatestElement
  <2>3. Max(1..k) = k
    BY <2>1, <2>2
  <2>4. (1..k) \ {k} = 1..(k - 1)
    BY <1>4
  <2> QED BY <2>1, <2>3, <2>4, Zenon DEF FoldStep
<1>5. T = {}
  <2> SUFFICES ASSUME T # {} PROVE FALSE
    OBVIOUS
  <2>1. T \subseteq Nat
    OBVIOUS
  <2>2. PICK k \in T : \A j \in T : k <= j
    <3> HIDE DEF T
    <3> QED BY <2>1, LeastElement
  <2>3. k \in 0..n /\ f[1..k] # g[1..k]
    OBVIOUS
  <2>4. k # 0
    <3>1. f[{}] = From(which) /\ g[{}] = From(which)
      BY <1>3 DEF FoldStep
    <3>2. 1..0 = {}
      OBVIOUS
    <3> QED BY <2>3, <3>1, <3>2
  <2>5. k \in 1..n /\ k - 1 \in 0..n /\ k - 1 \notin T
    BY <2>2, <2>3, <2>4, <1>1
  <2>6. f[1..(k - 1)] = g[1..(k - 1)]
    BY <2>5
  <2>7. f[1..k] = Add(which, f[1..(k - 1)], t[k], c)
    <3>1. 1..k \in SUBSET (1..n) /\ k \in Nat
      BY <2>5, <1>1
    <3>2. f[1..k] = FoldStep(which, c, f, t, 1..k)
      BY <3>1, <1>3
    <3> QED BY <3>1, <3>2, <1>4, <2>4
  <2>8. g[1..k] = Add(which, g[1..(k - 1)], u[k], c)
    <3>1. 1..k \in SUBSET (1..(n + 1)) /\ k \in Nat
      BY <2>5, <1>1
    <3>2. g[1..k] = FoldStep(which, c, g, u, 1..k)
      BY <3>1, <1>3
    <3> QED BY <3>1, <3>2, <1>4, <2>4
  <2>9. u[k] = t[k]
    BY <1>1, <2>5
  <2> QED BY <2>3, <2>6, <2>7, <2>8, <2>9
<1>6. f[1..n] = g[1..n]
  BY <1>1, <1>5
<1>7. g[1..(n + 1)] = Add(which, g[1..n], u[n + 1], c)
  <2>1. n + 1 \in Nat /\ n + 1 # 0 /\ (n + 1) - 1 = n /\ 1..(n + 1) \in SUBSET (1..(n + 1))
    BY <1>1
  <2> QED BY <2>1, <1>3, <1>4
<1> QED BY <1>1, <1>6, <1>7 DEF u

LEMMA TotalAppend ==
    ASSUME NEW c
    PROVE  /\ Total(<< >>, c) = 0
           /\ \A t \in Seq(Activations) : \A a \in Activations :
                 Total(Append(t, a), c) = Total(t, c) + Holds(a, c)
<1>1. ASSUME NEW t \in Seq(Activations)
      PROVE  /\ Folds("sum", c, CHOOSE f : Sums(c, f, t), t)
             /\ Total(t, c) = (CHOOSE f : Sums(c, f, t))[DOMAIN t]
  <2>1. PICK f : Folds("sum", c, f, t)
    BY FoldExists
  <2>2. Sums(c, f, t)
    BY <2>1, OneFold
  <2>3. Sums(c, CHOOSE h : Sums(c, h, t), t)
    BY <2>2, Zenon
  <2> QED BY <2>3, OneFold, FoldsAre
<1>2. Total(<< >>, c) = 0
  <2> DEFINE f == CHOOSE h : Sums(c, h, << >>)
  <2>1. << >> \in Seq(Activations) /\ DOMAIN << >> = {} /\ {} \in SUBSET DOMAIN << >>
    OBVIOUS
  <2>2. Folds("sum", c, f, << >>) /\ Total(<< >>, c) = f[{}]
    BY <1>1, <2>1
  <2> HIDE DEF f
  <2> QED BY <2>1, <2>2 DEF Folds, FoldStep, From
<1>3. ASSUME NEW t \in Seq(Activations), NEW a \in Activations
      PROVE  Total(Append(t, a), c) = Total(t, c) + Holds(a, c)
  <2> DEFINE f == CHOOSE h : Sums(c, h, t)
             g == CHOOSE h : Sums(c, h, Append(t, a))
  <2>1. Folds("sum", c, f, t) /\ Total(t, c) = f[DOMAIN t]
    BY <1>1
  <2>2. Append(t, a) \in Seq(Activations)
    OBVIOUS
  <2>3. Folds("sum", c, g, Append(t, a)) /\ Total(Append(t, a), c) = g[DOMAIN Append(t, a)]
    BY <1>1, <2>2
  <2> HIDE DEF f, g
  <2>4. g[DOMAIN Append(t, a)] = Add("sum", f[DOMAIN t], a, c)
    BY <2>1, <2>3, FoldSteps
  <2> QED BY <2>1, <2>3, <2>4 DEF Add, Counted
<1> QED BY <1>2, <1>3

LEMMA SpacesAppend ==
    /\ SpacesOf(<< >>) = << >>
    /\ \A t \in Seq(Activations) : \A a \in Activations :
          SpacesOf(Append(t, a)) = Listed(SpacesOf(t), a)
<1>1. ASSUME NEW t \in Seq(Activations)
      PROVE  /\ Folds("list", NIL, CHOOSE f : Lists(f, t), t)
             /\ SpacesOf(t) = (CHOOSE f : Lists(f, t))[DOMAIN t]
  <2>1. PICK f : Folds("list", NIL, f, t)
    BY FoldExists
  <2>2. Lists(f, t)
    BY <2>1, OneFold
  <2>3. Lists(CHOOSE h : Lists(h, t), t)
    BY <2>2, Zenon
  <2> QED BY <2>3, OneFold, FoldsAre
<1>2. SpacesOf(<< >>) = << >>
  <2> DEFINE f == CHOOSE h : Lists(h, << >>)
  <2>1. << >> \in Seq(Activations) /\ DOMAIN << >> = {} /\ {} \in SUBSET DOMAIN << >>
    OBVIOUS
  <2>2. Folds("list", NIL, f, << >>) /\ SpacesOf(<< >>) = f[{}]
    BY <1>1, <2>1
  <2> HIDE DEF f
  <2> QED BY <2>1, <2>2 DEF Folds, FoldStep, From
<1>3. ASSUME NEW t \in Seq(Activations), NEW a \in Activations
      PROVE  SpacesOf(Append(t, a)) = Listed(SpacesOf(t), a)
  <2> DEFINE f == CHOOSE h : Lists(h, t)
             g == CHOOSE h : Lists(h, Append(t, a))
  <2>1. Folds("list", NIL, f, t) /\ SpacesOf(t) = f[DOMAIN t]
    BY <1>1
  <2>2. Append(t, a) \in Seq(Activations)
    OBVIOUS
  <2>3. Folds("list", NIL, g, Append(t, a)) /\ SpacesOf(Append(t, a)) = g[DOMAIN Append(t, a)]
    BY <1>1, <2>2
  <2> HIDE DEF f, g
  <2>4. g[DOMAIN Append(t, a)] = Add("list", f[DOMAIN t], a, NIL)
    BY <2>1, <2>3, FoldSteps
  <2> QED BY <2>1, <2>3, <2>4 DEF Add
<1> QED BY <1>2, <1>3

-----------------------------------------------------------------------------
(* The handles of one activation.                                          *)

Named(b, c) == Cardinality({x \in Names : b[x] = c})

LEMMA NamedFacts ==
    ASSUME NEW b, NEW c
    PROVE  IsFiniteSet({x \in Names : b[x] = c}) /\ Named(b, c) \in Nat
<1>1. IsFiniteSet(Names)
  BY VarsAssumption
<1>2. {x \in Names : b[x] = c} \in SUBSET Names
  OBVIOUS
<1> QED BY <1>1, <1>2, FS_Subset, FS_CardinalityType DEF Named

LEMMA UnboundFacts ==
    Unbound \in Bindings /\ \A c \in Cells : Named(Unbound, c) = 0
<1>1. Unbound \in Bindings
  BY DEF Unbound, Bindings
<1>2. ASSUME NEW c \in Cells PROVE {x \in Names : Unbound[x] = c} = {}
  BY VarsAssumption DEF Unbound
<1> QED BY <1>1, <1>2, FS_EmptySet DEF Named

LEMMA OneFacts ==
    /\ None \in [Cells -> Nat] /\ \A c \in Cells : None[c] = 0
    /\ \A d : /\ One(d) \in [Cells -> Nat] /\ Times(2, d) \in [Cells -> Nat]
              /\ \A c \in Cells : /\ One(d)[c] \in Nat
                                  /\ One(d)[c] = IF c = d THEN 1 ELSE 0
                                  /\ Times(2, d)[c] = 2 * One(d)[c]
  BY DEF None, One, Times

LEMMA HoldsFacts ==
    ASSUME NEW a \in Activations, NEW c \in Cells
    PROVE  /\ Holds(a, c) = Named(a.vars, c) + One(a.own)[c] + One(a.word)[c]
           /\ Holds(a, c) \in Nat
<1>1. Named(a.vars, c) \in Nat
  BY NamedFacts
<1>2. Holds(a, c) = Named(a.vars, c) + (IF a.own = c THEN 1 ELSE 0)
                                     + (IF a.word = c THEN 1 ELSE 0)
  BY Zenon DEF Holds, Named
<1> QED BY <1>1, <1>2, OneFacts

Rebind(b, x, d) == [b EXCEPT ![x] = d]

LEMMA Rebound ==
    ASSUME NEW b \in Bindings, NEW x \in Names, NEW d \in Cells \cup {NIL}, NEW c \in Cells
    PROVE  /\ Rebind(b, x, d) \in Bindings
           /\ Named(Rebind(b, x, d), c) = Named(b, c) - One(b[x])[c] + One(d)[c]
<1> DEFINE n == Rebind(b, x, d)
           before == {y \in Names : b[y] = c}
           after == {y \in Names : n[y] = c}
<1>1. n \in Bindings /\ n[x] = d /\ \A y \in Names : y # x => n[y] = b[y]
  BY DEF Bindings, Rebind
<1> HIDE DEF n
<1>2. IsFiniteSet(before) /\ IsFiniteSet(after)
  BY NamedFacts
<1>3. Cardinality(before) \in Nat /\ Cardinality(after) \in Nat
  BY <1>2, FS_CardinalityType
<1>4. One(d)[c] = (IF c = d THEN 1 ELSE 0) /\ One(b[x])[c] = (IF c = b[x] THEN 1 ELSE 0)
  BY OneFacts
<1>5. (x \in after <=> d = c) /\ (x \in before <=> b[x] = c)
  BY <1>1
<1>6. after \ {x} = before \ {x}
  BY <1>1
<1>7. Named(n, c) = Cardinality(after) /\ Named(b, c) = Cardinality(before)
  BY Zenon DEF Named
<1> HIDE DEF before, after
<1>8. /\ Cardinality(after \ {x}) = IF x \in after THEN Cardinality(after) - 1 ELSE Cardinality(after)
      /\ Cardinality(before \ {x}) =
            IF x \in before THEN Cardinality(before) - 1 ELSE Cardinality(before)
  BY <1>2, FS_RemoveElement
<1>9. Named(n, c) = Named(b, c) - One(b[x])[c] + One(d)[c]
  <2>1. Cardinality(after \ {x}) = Cardinality(after) - One(d)[c]
    BY <1>3, <1>4, <1>5, <1>8
  <2>2. Cardinality(before \ {x}) = Cardinality(before) - One(b[x])[c]
    BY <1>3, <1>4, <1>5, <1>8
  <2>3. Cardinality(after \ {x}) = Cardinality(before \ {x})
    BY <1>6
  <2>4. One(d)[c] \in Nat /\ One(b[x])[c] \in Nat
    BY <1>4
  <2>5. Cardinality(after) - One(d)[c] = Cardinality(before) - One(b[x])[c]
    BY <2>1, <2>2, <2>3
  <2>6. Cardinality(after) = Cardinality(before) - One(b[x])[c] + One(d)[c]
    BY <2>4, <2>5, <1>3
  <2> QED BY <1>7, <2>6
<1> QED BY <1>1, <1>9 DEF n

-----------------------------------------------------------------------------
(* The handles of a stack, as one activation of it changes.                *)

LEMMA AppendExcept ==
    ASSUME NEW S, NEW t \in Seq(S), NEW b \in S, NEW a \in S
    PROVE  /\ \A i \in 1..Len(t) : [Append(t, b) EXCEPT ![i] = a] = Append([t EXCEPT ![i] = a], b)
           /\ [Append(t, b) EXCEPT ![Len(t) + 1] = a] = Append(t, a)
<1> DEFINE n == Len(t)
           u == Append(t, b)
<1>1. n \in Nat /\ u \in Seq(S) /\ Len(u) = n + 1 /\ DOMAIN u = 1..(n + 1)
      /\ u[n + 1] = b /\ \A i \in 1..n : u[i] = t[i]
  OBVIOUS
<1>2. ASSUME NEW i \in 1..n PROVE [u EXCEPT ![i] = a] = Append([t EXCEPT ![i] = a], b)
  <2> DEFINE v == [t EXCEPT ![i] = a]
             w == Append(v, b)
  <2>1. v \in Seq(S) /\ Len(v) = n /\ \A j \in 1..n : v[j] = IF j = i THEN a ELSE t[j]
    BY <1>2
  <2> HIDE DEF v
  <2>2. w \in Seq(S) /\ Len(w) = n + 1 /\ DOMAIN w = 1..(n + 1) /\ w[n + 1] = b
        /\ \A j \in 1..n : w[j] = v[j]
    BY <2>1
  <2>3. \A j \in 1..(n + 1) : [u EXCEPT ![i] = a][j] = w[j]
    <3> HIDE DEF n, u, w
    <3>1. \A j \in 1..(n + 1) : j \in 1..n \/ j = n + 1
      BY <1>1
    <3>2. i # n + 1
      BY <1>1, <1>2
    <3> QED BY <1>1, <1>2, <2>1, <2>2, <3>1, <3>2
  <2>4. [u EXCEPT ![i] = a] \in Seq(S) /\ Len([u EXCEPT ![i] = a]) = n + 1
    <3> HIDE DEF n, u
    <3> QED BY <1>1, <1>2
  <2> HIDE DEF n, u, w
  <2>5. [u EXCEPT ![i] = a] = w
    BY <2>2, <2>3, <2>4, SeqEqual
  <2> QED BY <2>5 DEF v, w
<1>3. [u EXCEPT ![n + 1] = a] = Append(t, a)
  <2> DEFINE w == Append(t, a)
  <2>1. w \in Seq(S) /\ Len(w) = n + 1 /\ w[n + 1] = a /\ \A j \in 1..n : w[j] = t[j]
    OBVIOUS
  <2>2. [u EXCEPT ![n + 1] = a] \in Seq(S) /\ Len([u EXCEPT ![n + 1] = a]) = n + 1
    <3> HIDE DEF n, u
    <3> QED BY <1>1
  <2>3. \A j \in 1..(n + 1) : [u EXCEPT ![n + 1] = a][j] = w[j]
    <3> HIDE DEF n, u, w
    <3> QED BY <1>1, <2>1
  <2> HIDE DEF n, u, w
  <2>4. [u EXCEPT ![n + 1] = a] = w
    BY <2>1, <2>2, <2>3, SeqEqual
  <2> QED BY <2>4 DEF w
<1> QED BY <1>2, <1>3

\* Changing one activation changes the total by the difference.
Additive(st, c) ==
    /\ Total(st, c) \in Nat
    /\ \A i \in 1..Len(st) : \A a \in Activations :
          Total([st EXCEPT ![i] = a], c) = Total(st, c) - Holds(st[i], c) + Holds(a, c)

LEMMA TotalExcept ==
    ASSUME NEW st \in Seq(Activations), NEW c \in Cells
    PROVE  Additive(st, c)
<1> DEFINE T == {k \in Nat : \E v \in Seq(Activations) : Len(v) = k /\ ~ Additive(v, c)}
<1>1. Additive(<< >>, c)
  <2>1. Total(<< >>, c) = 0 /\ 1..Len(<< >>) = {}
    BY TotalAppend
  <2> QED BY <2>1 DEF Additive
<1>2. ASSUME NEW u \in Seq(Activations), NEW b \in Activations, Additive(u, c)
      PROVE  Additive(Append(u, b), c)
  <2> DEFINE n == Len(u)
             v == Append(u, b)
  <2>1. n \in Nat /\ Len(v) = n + 1 /\ v[n + 1] = b /\ \A i \in 1..n : v[i] = u[i]
    OBVIOUS
  <2>2. Total(v, c) = Total(u, c) + Holds(b, c) /\ Total(u, c) \in Nat /\ Holds(b, c) \in Nat
    BY <1>2, TotalAppend, HoldsFacts DEF Additive
  <2>3. ASSUME NEW i \in 1..n, NEW a \in Activations
        PROVE  Total([v EXCEPT ![i] = a], c) = Total(v, c) - Holds(v[i], c) + Holds(a, c)
    <3>1. [v EXCEPT ![i] = a] = Append([u EXCEPT ![i] = a], b)
      BY AppendExcept
    <3>2. [u EXCEPT ![i] = a] \in Seq(Activations) /\ u[i] \in Activations
      OBVIOUS
    <3>3. Total([v EXCEPT ![i] = a], c) = Total([u EXCEPT ![i] = a], c) + Holds(b, c)
      BY <3>1, <3>2, TotalAppend, Zenon
    <3>4. Total([u EXCEPT ![i] = a], c) = Total(u, c) - Holds(u[i], c) + Holds(a, c)
      BY <1>2 DEF Additive
    <3>5. Holds(a, c) \in Nat /\ Holds(u[i], c) \in Nat /\ v[i] = u[i]
      BY <2>1, <3>2, HoldsFacts
    <3> HIDE DEF v
    <3> QED BY <2>2, <3>3, <3>4, <3>5
  <2>4. ASSUME NEW a \in Activations
        PROVE  Total([v EXCEPT ![n + 1] = a], c) = Total(v, c) - Holds(v[n + 1], c) + Holds(a, c)
    <3>1. [v EXCEPT ![n + 1] = a] = Append(u, a)
      BY AppendExcept
    <3>2. Total(Append(u, a), c) = Total(u, c) + Holds(a, c) /\ Holds(a, c) \in Nat
      BY TotalAppend, HoldsFacts
    <3>3. Total([v EXCEPT ![n + 1] = a], c) = Total(Append(u, a), c)
      BY <3>1
    <3>4. Holds(v[n + 1], c) = Holds(b, c)
      BY <2>1
    <3> HIDE DEF v, n
    <3> QED BY <2>2, <3>2, <3>3, <3>4
  <2>5. Total(v, c) \in Nat
    BY <2>2
  <2> HIDE DEF v, n
  <2>6. \A i \in 1..Len(v) : i \in 1..n \/ i = n + 1
    BY <2>1
  <2>7. Additive(v, c)
    BY <2>3, <2>4, <2>5, <2>6, Zenon DEF Additive
  <2> QED BY <2>7 DEF v
<1>3. T = {}
  <2> SUFFICES ASSUME T # {} PROVE FALSE
    OBVIOUS
  <2>1. T \subseteq Nat
    OBVIOUS
  <2>2. PICK k \in T : \A j \in T : k <= j
    <3> HIDE DEF T
    <3> QED BY <2>1, LeastElement
  <2>3. PICK v \in Seq(Activations) : Len(v) = k /\ ~ Additive(v, c)
    OBVIOUS
  <2>4. v # << >> /\ k \in Nat
    BY <1>1, <2>3
  <2>5. PICK u \in Seq(Activations), b \in Activations : v = Append(u, b)
    BY <2>4, SequenceEmptyOrAppend
  <2>6. k - 1 \in Nat /\ ~(k <= k - 1) /\ Len(u) = k - 1
    BY <2>3, <2>4, <2>5, AppendProperties
  <2>7. Additive(u, c)
    <3>1. k - 1 \notin T
      <4> HIDE DEF T
      <4> QED BY <2>2, <2>6
    <3> QED BY <2>6, <3>1
  <2> QED BY <2>3, <2>5, <2>7, <1>2
<1> QED BY <1>3

-----------------------------------------------------------------------------
(* What a command does to the stack, one activation at a time: u is st     *)
(* with another word, result or variable in the i-th activation.           *)

AsBefore(u, st) ==
    /\ Len(u) = Len(st)
    /\ \A j \in 1..Len(st) : u[j].kind = st[j].kind

LEMMA FrameTypes ==
    ASSUME NEW st, Frames(st)
    PROVE  /\ Len(st) \in Nat \ {0} /\ 1 \in 1..Len(st) /\ Len(st) \in 1..Len(st)
           /\ \A i \in 1..Len(st) :
                 /\ st[i] \in Activations /\ st[i].kind \in Kinds /\ st[i].vars \in Bindings
                 /\ st[i].own \in Cells \cup {NIL} /\ st[i].word \in Cells \cup {NIL}
                 /\ st[i].kind \in RetKinds => st[i].own \in Cells
           /\ \A c \in Cells : Total(st, c) \in Nat
<1>1. st \in Seq(Activations) /\ Len(st) > 0
  BY DEF Frames
<1>2. \A i \in 1..Len(st) : st[i] \in Activations
  BY <1>1
<1>3. \A c \in Cells : Total(st, c) \in Nat
  BY <1>1, TotalExcept DEF Additive
<1> QED BY <1>1, <1>2, <1>3 DEF Frames, Framed, Activations

Put(st, i, a) == [st EXCEPT ![i] = a]

LEMMA Replaced ==
    ASSUME NEW st, Frames(st), NEW i \in 1..Len(st), NEW a \in Activations,
           a.kind = st[i].kind, Framed(a), Scopeless(a)
    PROVE  /\ Frames(Put(st, i, a)) /\ AsBefore(Put(st, i, a), st)
           /\ Put(st, i, a)[i] = a
           /\ \A j \in 1..Len(st) : j # i => Put(st, i, a)[j] = st[j]
           /\ \A c \in Cells : Total(Put(st, i, a), c)
                                = Total(st, c) - Holds(st[i], c) + Holds(a, c)
<1> DEFINE u == Put(st, i, a)
<1>1. st \in Seq(Activations) /\ Len(st) > 0 /\ st[1].kind = "top"
      /\ \A j \in 1..Len(st) : Framed(st[j]) /\ Scopeless(st[j])
  BY DEF Frames
<1>2. \A c \in Cells : Total(u, c) = Total(st, c) - Holds(st[i], c) + Holds(a, c)
  BY <1>1, TotalExcept DEF Additive, Put
<1>3. u \in Seq(Activations) /\ Len(u) = Len(st) /\ u[i] = a
      /\ \A j \in 1..Len(st) : j # i => u[j] = st[j]
  BY <1>1 DEF Put
<1> HIDE DEF u
<1>4. AsBefore(u, st)
  BY <1>3 DEF AsBefore
<1>5. 1 \in 1..Len(st)
  BY FrameTypes
<1>6. Frames(u)
  BY <1>1, <1>3, <1>4, <1>5 DEF Frames, AsBefore
<1> QED BY <1>2, <1>3, <1>4, <1>6 DEF u

\* u is st with the word, the result or the variable x of its i-th activation
\* on cell d.
WithWord(st, i, d) == [st EXCEPT ![i].word = d]
WithOwn(st, i, d) == [st EXCEPT ![i].own = d]
WithVar(st, i, x, d) == [st EXCEPT ![i].vars[x] = d]

LEMMA WordChanged ==
    ASSUME NEW st, Frames(st), NEW i \in 1..Len(st), NEW d \in Cells \cup {NIL}
    PROVE  LET u == WithWord(st, i, d) IN
           /\ Frames(u) /\ AsBefore(u, st) /\ u[i].word = d
           /\ \A j \in 1..Len(st) : /\ u[j].own = st[j].own /\ u[j].vars = st[j].vars
                                    /\ j # i => u[j].word = st[j].word
           /\ \A c \in Cells : Total(u, c) = Total(st, c) - One(st[i].word)[c] + One(d)[c]
<1> DEFINE u == WithWord(st, i, d)
           a == [st[i] EXCEPT !.word = d]
<1>1. st[i] \in Activations /\ Framed(st[i]) /\ Scopeless(st[i])
  BY FrameTypes DEF Frames
<1>2. a \in Activations /\ a.kind = st[i].kind /\ a.vars = st[i].vars /\ a.own = st[i].own
      /\ a.word = d
  BY <1>1 DEF Activations
<1>3. Framed(a) /\ Scopeless(a)
  BY <1>1, <1>2, Zenon DEF Framed, Scopeless
<1>4. u = Put(st, i, a)
  BY DEF WithWord, Put
<1> HIDE DEF a, u
<1>5. /\ Frames(u) /\ AsBefore(u, st) /\ u[i] = a
      /\ \A j \in 1..Len(st) : j # i => u[j] = st[j]
      /\ \A c \in Cells : Total(u, c) = Total(st, c) - Holds(st[i], c) + Holds(a, c)
  BY <1>1, <1>2, <1>3, <1>4, Replaced, SMTT(30)
<1>6. ASSUME NEW c \in Cells PROVE Total(u, c) = Total(st, c) - One(st[i].word)[c] + One(d)[c]
  <2>1. /\ Holds(a, c) = Named(st[i].vars, c) + One(st[i].own)[c] + One(d)[c]
        /\ Holds(st[i], c) = Named(st[i].vars, c) + One(st[i].own)[c] + One(st[i].word)[c]
    BY <1>1, <1>2, HoldsFacts
  <2>2. Total(st, c) \in Nat /\ Named(st[i].vars, c) \in Nat /\ One(st[i].own)[c] \in Nat
        /\ One(d)[c] \in Nat /\ One(st[i].word)[c] \in Nat
    <3>1. Total(st, c) \in Nat
      BY FrameTypes
    <3> QED BY <3>1, NamedFacts, OneFacts
  <2>3. Total(u, c) = Total(st, c) - Holds(st[i], c) + Holds(a, c)
    BY <1>5
  <2> QED BY <2>1, <2>2, <2>3, SMTT(30)
<1>7. \A j \in 1..Len(st) : /\ u[j].own = st[j].own /\ u[j].vars = st[j].vars
                            /\ j # i => u[j].word = st[j].word
  BY <1>2, <1>5
<1> QED BY <1>2, <1>5, <1>6, <1>7 DEF u

LEMMA OwnChanged ==
    ASSUME NEW st, Frames(st), NEW i \in 1..Len(st), NEW d \in Cells,
           st[i].kind \in RetKinds
    PROVE  LET u == WithOwn(st, i, d) IN
           /\ Frames(u) /\ AsBefore(u, st) /\ u[i].own = d
           /\ \A j \in 1..Len(st) : /\ u[j].word = st[j].word /\ u[j].vars = st[j].vars
                                    /\ j # i => u[j].own = st[j].own
           /\ \A c \in Cells : Total(u, c) = Total(st, c) - One(st[i].own)[c] + One(d)[c]
<1> DEFINE u == WithOwn(st, i, d)
           a == [st[i] EXCEPT !.own = d]
<1>1. st[i] \in Activations /\ Framed(st[i]) /\ Scopeless(st[i])
  BY FrameTypes DEF Frames
<1>2. a \in Activations /\ a.kind = st[i].kind /\ a.vars = st[i].vars /\ a.word = st[i].word
      /\ a.own = d
  BY <1>1 DEF Activations
<1>3. Framed(a) /\ Scopeless(a)
  BY <1>1, <1>2, Zenon DEF Framed, Scopeless
<1>4. u = Put(st, i, a)
  BY DEF WithOwn, Put
<1> HIDE DEF a, u
<1>5. /\ Frames(u) /\ AsBefore(u, st) /\ u[i] = a
      /\ \A j \in 1..Len(st) : j # i => u[j] = st[j]
      /\ \A c \in Cells : Total(u, c) = Total(st, c) - Holds(st[i], c) + Holds(a, c)
  <2>1. Frames(Put(st, i, a)) /\ AsBefore(Put(st, i, a), st) /\ Put(st, i, a)[i] = a
    BY <1>2, <1>3, Replaced
  <2>2. \A j \in 1..Len(st) : j # i => Put(st, i, a)[j] = st[j]
    BY <1>2, <1>3, Replaced
  <2>3. \A c \in Cells : Total(Put(st, i, a), c) = Total(st, c) - Holds(st[i], c) + Holds(a, c)
    BY <1>2, <1>3, Replaced
  <2> QED BY <1>4, <2>1, <2>2, <2>3, Zenon
<1>6. ASSUME NEW c \in Cells PROVE Total(u, c) = Total(st, c) - One(st[i].own)[c] + One(d)[c]
  <2>1. /\ Holds(a, c) = Named(st[i].vars, c) + One(d)[c] + One(st[i].word)[c]
        /\ Holds(st[i], c) = Named(st[i].vars, c) + One(st[i].own)[c] + One(st[i].word)[c]
    BY <1>1, <1>2, HoldsFacts
  <2>2. Total(st, c) \in Nat /\ Named(st[i].vars, c) \in Nat /\ One(st[i].own)[c] \in Nat
        /\ One(d)[c] \in Nat /\ One(st[i].word)[c] \in Nat
    <3>1. Total(st, c) \in Nat
      BY FrameTypes
    <3> QED BY <3>1, NamedFacts, OneFacts
  <2>3. Total(u, c) = Total(st, c) - Holds(st[i], c) + Holds(a, c)
    BY <1>5
  <2> QED BY <2>1, <2>2, <2>3
<1>7. \A j \in 1..Len(st) : /\ u[j].word = st[j].word /\ u[j].vars = st[j].vars
                            /\ j # i => u[j].own = st[j].own
  BY <1>2, <1>5
<1> QED BY <1>2, <1>5, <1>6, <1>7 DEF u

LEMMA VarChanged ==
    ASSUME NEW st, Frames(st), NEW i \in 1..Len(st), NEW d \in Cells \cup {NIL},
           NEW x \in Names, st[i].kind \in NsKinds
    PROVE  /\ Frames(WithVar(st, i, x, d)) /\ AsBefore(WithVar(st, i, x, d), st)
           /\ \A j \in 1..Len(st) :
                 /\ WithVar(st, i, x, d)[j].own = st[j].own
                 /\ WithVar(st, i, x, d)[j].word = st[j].word
                 /\ j # i => WithVar(st, i, x, d)[j].vars = st[j].vars
           /\ \A c \in Cells : Total(WithVar(st, i, x, d), c)
                                = Total(st, c) - One(st[i].vars[x])[c] + One(d)[c]
<1> DEFINE u == WithVar(st, i, x, d)
           b == Rebind(st[i].vars, x, d)
           a == [st[i] EXCEPT !.vars = b]
<1>1. st[i] \in Activations /\ Framed(st[i]) /\ Scopeless(st[i]) /\ st[i].vars \in Bindings
  BY FrameTypes DEF Frames
<1>2. b \in Bindings /\ \A c \in Cells :
         Named(b, c) = Named(st[i].vars, c) - One(st[i].vars[x])[c] + One(d)[c]
  <2>1. b \in Bindings
    BY <1>1 DEF Rebind, Bindings
  <2> QED BY <1>1, <2>1, Rebound
<1>3. u = Put(st, i, a)
  BY DEF WithVar, Put, Rebind
<1> HIDE DEF b, u
<1>4. a \in Activations /\ a.kind = st[i].kind /\ a.own = st[i].own /\ a.word = st[i].word
      /\ a.vars = b
  BY <1>1, <1>2 DEF Activations
<1>5. Framed(a) /\ Scopeless(a)
  <2>1. a.kind \notin Inner
    BY <1>4 DEF NsKinds, Inner
  <2> QED BY <1>1, <1>4, <2>1, Zenon DEF Framed, Scopeless
<1> HIDE DEF a
<1>6. /\ Frames(u) /\ AsBefore(u, st) /\ u[i] = a
      /\ \A j \in 1..Len(st) : j # i => u[j] = st[j]
      /\ \A c \in Cells : Total(u, c) = Total(st, c) - Holds(st[i], c) + Holds(a, c)
  BY <1>1, <1>3, <1>4, <1>5, Replaced, SMTT(30)
<1>7. ASSUME NEW c \in Cells
      PROVE  Total(u, c) = Total(st, c) - One(st[i].vars[x])[c] + One(d)[c]
  <2>1. /\ Holds(a, c) = Named(b, c) + One(st[i].own)[c] + One(st[i].word)[c]
        /\ Holds(st[i], c) = Named(st[i].vars, c) + One(st[i].own)[c] + One(st[i].word)[c]
    BY <1>1, <1>4, HoldsFacts
  <2>2. Total(st, c) \in Nat /\ Named(st[i].vars, c) \in Nat /\ One(st[i].own)[c] \in Nat
        /\ One(d)[c] \in Nat /\ One(st[i].word)[c] \in Nat /\ One(st[i].vars[x])[c] \in Nat
    <3>1. Total(st, c) \in Nat
      BY FrameTypes
    <3> QED BY <3>1, NamedFacts, OneFacts
  <2>3. Total(u, c) = Total(st, c) - Holds(st[i], c) + Holds(a, c)
    BY <1>6
  <2>4. Named(b, c) = Named(st[i].vars, c) - One(st[i].vars[x])[c] + One(d)[c]
    BY <1>2
  <2> QED BY <2>1, <2>2, <2>3, <2>4, SMTT(60)
<1>8. \A j \in 1..Len(st) : /\ u[j].own = st[j].own /\ u[j].word = st[j].word
                            /\ j # i => u[j].vars = st[j].vars
  BY <1>4, <1>6
<1>9. Frames(u) /\ AsBefore(u, st)
  BY <1>6
<1> QED BY <1>7, <1>8, <1>9 DEF u

LEMMA Pushed ==
    ASSUME NEW st, Frames(st), NEW a \in Activations, Framed(a), Scopeless(a)
    PROVE  /\ Frames(Append(st, a)) /\ Len(Append(st, a)) = Len(st) + 1
           /\ \A j \in 1..Len(st) : Append(st, a)[j] = st[j]
           /\ \A c \in Cells : Total(Append(st, a), c) = Total(st, c) + Holds(a, c)
<1>1. st \in Seq(Activations) /\ Len(st) \in Nat \ {0} /\ st[1].kind = "top" /\ 1 \in 1..Len(st)
      /\ \A j \in 1..Len(st) : Framed(st[j]) /\ Scopeless(st[j])
  BY FrameTypes DEF Frames
<1> DEFINE u == Append(st, a)
<1>2. u \in Seq(Activations) /\ Len(u) = Len(st) + 1 /\ u[Len(st) + 1] = a
      /\ \A j \in 1..Len(st) : u[j] = st[j]
  BY <1>1
<1>3. \A c \in Cells : Total(u, c) = Total(st, c) + Holds(a, c)
  BY <1>1, TotalAppend
<1> HIDE DEF u
<1>4. Frames(u)
  <2>1. Len(u) > 0 /\ u[1].kind = "top"
    BY <1>1, <1>2
  <2>2. \A j \in 1..Len(u) : j \in 1..Len(st) \/ j = Len(st) + 1
    BY <1>1, <1>2
  <2> QED BY <1>1, <1>2, <2>1, <2>2 DEF Frames
<1> QED BY <1>2, <1>3, <1>4 DEF u

LEMMA Popped ==
    ASSUME NEW st, Frames(st), st[Len(st)].kind # "top"
    PROVE  /\ Frames(Front(st)) /\ Len(st) - 1 \in 1..Len(st) /\ Len(Front(st)) = Len(st) - 1
           /\ \A j \in 1..(Len(st) - 1) : Front(st)[j] = st[j]
           /\ \A c \in Cells : Total(Front(st), c) = Total(st, c) - Holds(st[Len(st)], c)
<1> DEFINE n == Len(st) - 1
           u == Front(st)
<1>1. st \in Seq(Activations) /\ Len(st) \in Nat \ {0} /\ st[1].kind = "top"
      /\ \A j \in 1..Len(st) : Framed(st[j]) /\ Scopeless(st[j])
  BY FrameTypes DEF Frames
<1>2. n \in Nat \ {0} /\ Len(st) = n + 1 /\ n \in 1..Len(st)
  BY <1>1
<1>3. u = SubSeq(st, 1, n)
  BY DEF Front
<1> HIDE DEF n, u
<1>4. \A i \in 1..n : st[i] \in Activations
  BY <1>1, <1>2, ElementOfSeq
<1>5. u \in Seq(Activations) /\ Len(u) = n /\ \A j \in 1..n : u[j] = st[j]
  <2>1. n \in Int /\ n - 1 + 1 = n /\ 1 <= n
    BY <1>2
  <2>2. /\ SubSeq(st, 1, n) \in Seq(Activations)
        /\ Len(SubSeq(st, 1, n)) = IF 1 <= n THEN n - 1 + 1 ELSE 0
        /\ \A i \in 1..(n - 1 + 1) : SubSeq(st, 1, n)[i] = st[1 + i - 1]
    BY <1>4, <2>1, SubSeqProperties
  <2> QED BY <1>3, <2>1, <2>2
<1>6. st = Append(u, st[n + 1]) /\ st[n + 1] \in Activations
  <2>1. st[n + 1] \in Activations
    BY <1>1, <1>2, ElementOfSeq
  <2> DEFINE v == Append(u, st[n + 1])
  <2>2. v \in Seq(Activations) /\ Len(v) = n + 1 /\ v[n + 1] = st[n + 1]
        /\ \A j \in 1..n : v[j] = st[j]
    BY <1>5, <2>1
  <2> HIDE DEF v
  <2>3. \A j \in 1..(n + 1) : v[j] = st[j]
    <3>1. \A j \in 1..(n + 1) : j \in 1..n \/ j = n + 1
      BY <1>2
    <3> QED BY <3>1, <2>2
  <2>4. v = st
    BY <1>1, <1>2, <2>2, <2>3, SeqEqual
  <2> QED BY <2>1, <2>4 DEF v
<1>7. \A c \in Cells : Total(u, c) = Total(st, c) - Holds(st[n + 1], c)
  <2> SUFFICES ASSUME NEW c \in Cells
               PROVE  Total(u, c) = Total(st, c) - Holds(st[n + 1], c)
    OBVIOUS
  <2>1. Total(Append(u, st[n + 1]), c) = Total(u, c) + Holds(st[n + 1], c)
    BY <1>5, <1>6, TotalAppend
  <2>2. Total(u, c) \in Nat /\ Holds(st[n + 1], c) \in Nat
    BY <1>5, <1>6, TotalExcept, HoldsFacts DEF Additive
  <2>3. Total(st, c) = Total(u, c) + Holds(st[n + 1], c)
    BY <2>1, <1>6
  <2> QED BY <2>2, <2>3
<1>8. Frames(u)
  BY <1>1, <1>2, <1>5 DEF Frames
<1> QED BY <1>2, <1>5, <1>7, <1>8 DEF n, u

-----------------------------------------------------------------------------
(* Where the running command finds what it works on.                       *)

LEMMA LastFacts ==
    ASSUME Frames(stack), NEW kinds, "top" \in kinds, NEW n \in 1..Top
    PROVE  /\ LastOf(kinds, n) \in 1..n /\ stack[LastOf(kinds, n)].kind \in kinds
           /\ \A j \in 1..n : LastOf(kinds, n) < j => stack[j].kind \notin kinds
<1> DEFINE S == {i \in 1..n : stack[i].kind \in kinds}
           P(i) == /\ stack[i].kind \in kinds
                   /\ \A j \in i + 1..n : stack[j].kind \notin kinds
<1>1. Top \in Nat /\ n \in Nat /\ 1 \in 1..n /\ stack[1].kind = "top"
  BY FrameTypes DEF Frames, Top
<1>2. S # {} /\ S \subseteq 0..n
  BY <1>1
<1>3. Max(S) \in S /\ \A i \in S : i <= Max(S)
  BY <1>1, <1>2, GreatestElement
<1>4. \E i \in 1..n : P(i)
  <2>1. Max(S) \in 1..n /\ stack[Max(S)].kind \in kinds
    BY <1>3
  <2>2. ASSUME NEW j \in Max(S) + 1..n PROVE stack[j].kind \notin kinds
    <3>1. j \in 1..n /\ ~(j <= Max(S))
      BY <1>1, <2>1
    <3> QED BY <1>3, <3>1
  <2> QED BY <2>1, <2>2
<1>5. LastOf(kinds, n) = CHOOSE i \in 1..n : P(i)
  BY Zenon DEF LastOf
<1>6. LastOf(kinds, n) \in 1..n /\ P(LastOf(kinds, n))
  <2> HIDE DEF P
  <2> QED BY <1>4, <1>5
<1>7. ASSUME NEW j \in 1..n, LastOf(kinds, n) < j PROVE stack[j].kind \notin kinds
  <2>1. j \in LastOf(kinds, n) + 1..n
    BY <1>1, <1>6, <1>7
  <2> QED BY <1>6, <2>1
<1> QED BY <1>6, <1>7

LEMMA Running ==
    ASSUME IInv
    PROVE  /\ Top \in Nat \ {0} /\ Top \in 1..Top /\ Top = Len(stack)
           /\ Ns \in 1..Top /\ stack[Ns].kind \in NsKinds
           /\ RetAt \in 1..Top /\ stack[RetAt].kind \in RetKinds
           /\ stack[Top].kind \in RetKinds => RetAt = Top
           /\ stack[Top].kind \in NsKinds => Ns = Top
           /\ Ret \in Cells /\ Word \in Cells \cup {NIL}
           /\ Local \in Bindings /\ \A x \in Names : Local[x] \in Cells \cup {NIL}
           /\ Within(Ret) /\ Within(Word) /\ \A x \in Names : Within(Local[x])
<1>1. Frames(stack) /\ Top \in 1..Top /\ Top \in Nat \ {0} /\ Top = Len(stack)
  BY FrameTypes DEF IInv, Top
<1>2. /\ Ns \in 1..Top /\ stack[Ns].kind \in NsKinds
      /\ \A j \in 1..Top : Ns < j => stack[j].kind \notin NsKinds
  <2>1. "top" \in NsKinds
    BY DEF NsKinds
  <2> QED BY <1>1, <2>1, LastFacts DEF Ns
<1>3. /\ RetAt \in 1..Top /\ stack[RetAt].kind \in RetKinds
      /\ \A j \in 1..Top : RetAt < j => stack[j].kind \notin RetKinds
  <2>1. "top" \in RetKinds
    BY DEF RetKinds
  <2> QED BY <1>1, <2>1, LastFacts DEF RetAt
<1>4. Ret \in Cells /\ Word \in Cells \cup {NIL} /\ Local \in Bindings
  BY <1>1, <1>2, <1>3, FrameTypes DEF Ret, Word, Local
<1>5. \A x \in Names : Local[x] \in Cells \cup {NIL}
  BY <1>4 DEF Bindings
<1>6. Within(Ret) /\ Within(Word) /\ \A x \in Names : Within(Local[x])
  BY <1>1 DEF Within, Ret, Word
<1> QED BY <1>1, <1>2, <1>3, <1>4, <1>5, <1>6

LEMMA ValueFacts ==
    ASSUME val \in [Cells -> Values]
    PROVE  /\ Null \in Values /\ \A t \in Texts : StrOf(t) \in Values
           /\ \A n \in Numbers : IntOf(n) \in Values /\ StrOf(n) \in Values
           /\ \A v \in Values : v.text \in Texts /\ AsInt(v) \in Values
           /\ \A t, u \in Texts : Joined(t, u) \in Texts
           /\ \A c, d \in Cells : Assigned(c, d) \in Values /\ Appended(c, d) \in Values
<1>1. /\ Null \in Values /\ \A t \in Texts : StrOf(t) \in Values
      /\ \A n \in Numbers : IntOf(n) \in Values /\ n \in Texts
      /\ "junk" \in Texts /\ "ww" \in Texts /\ "" \in Texts
  BY DEF Values, Texts
<1>2. ASSUME NEW v \in Values PROVE v.text \in Texts /\ AsInt(v) \in Values
  <2>1. v.text \in Texts
    <3>1. \/ \E t \in Texts : v = StrOf(t)
          \/ \E n \in Numbers : v = IntOf(n)
          \/ v = Null
      BY DEF Values
    <3>2. \A t : StrOf(t).text = t /\ IntOf(t).text = t
      BY DEF StrOf, IntOf
    <3>3. Null.text = ""
      BY DEF Null
    <3> QED BY <1>1, <3>1, <3>2, <3>3
  <2>2. AsInt(v) \in Values
    BY <1>1, VarsAssumption DEF AsInt
  <2> QED BY <2>1, <2>2
<1>3. \A t, u \in Texts : Joined(t, u) \in Texts
  BY <1>1 DEF Joined
<1>4. ASSUME NEW c \in Cells, NEW d \in Cells
      PROVE  Assigned(c, d) \in Values /\ Appended(c, d) \in Values
  <2>1. val[c].text \in Texts /\ val[d].text \in Texts
    BY <1>2
  <2>2. Joined(val[c].text, val[d].text) \in Texts
    BY <1>3, <2>1
  <2> QED BY <1>1, <2>1, <2>2 DEF Assigned, Appended
<1> QED BY <1>1, <1>2, <1>3, <1>4

-----------------------------------------------------------------------------
(* One step: the counts are exact again if the handles that the new stack  *)
(* has more are those taken, and nothing else changes if what is written   *)
(* was free or the running command's.                                      *)

\* The step of SuspendedUntouched.
Undisturbed ==
    /\ \A c \in Cells : ref[c] > 0 /\ ref'[c] > 0 /\ ~Within(c) => val'[c] = val[c]
    /\ \A i \in 1..Top : i # Ns /\ i <= Len(stack') => stack'[i].vars = stack[i].vars

\* The new stack u accounts for these handles.
Balance(u, taken, freed, gone) ==
    /\ taken \in [Cells -> Nat] /\ freed \in [Cells -> Nat] /\ gone \in [Cells -> Nat]
    /\ \A c \in Cells : Total(u, c) = Total(stack, c) + taken[c] - freed[c] - gone[c]

\* It is one, and has the variables of the other namespaces.
Moved(u) == /\ Frames(u)
            /\ \A i \in 1..Top : i # Ns /\ i <= Len(u) => u[i].vars = stack[i].vars

\* w is what the running command may write.
Allowed(w) ==
    \A c \in Cells : c \in DOMAIN w => w[c] \in Values /\ (Within(c) \/ ref[c] = 0)

LEMMA StepKeeps ==
    ASSUME IInv, NEW taken, NEW freed, NEW gone, NEW w, NEW u, u = stack',
           Moved(u), Balance(u, taken, freed, gone), Allowed(w),
           CountLosing(taken, freed, gone), Contents(w)
    PROVE  IInv' /\ Undisturbed
<1>1. /\ ref' = [c \in Cells |-> ref[c] + taken[c] - freed[c]]
      /\ lost' = [c \in Cells |-> lost[c] + gone[c]]
  BY DEF CountLosing
<1>2. val' = [c \in Cells |-> IF ref'[c] = 0 THEN Null ELSE IF c \in DOMAIN w THEN w[c] ELSE val[c]]
  BY DEF Contents
<1>3. val \in [Cells -> Values] /\ ref \in [Cells -> Nat] /\ lost \in [Cells -> Nat]
      /\ taken \in [Cells -> Nat] /\ freed \in [Cells -> Nat] /\ gone \in [Cells -> Nat]
      /\ Frames(stack')
  BY DEF IInv, Balance, Moved
<1>4. lost' \in [Cells -> Nat]
  BY <1>1, <1>3
<1>5. ASSUME NEW c \in Cells PROVE ref'[c] = Total(stack', c) + lost'[c] /\ ref'[c] \in Nat
  <2>1. ref[c] = Total(stack, c) + lost[c]
    BY DEF IInv
  <2>2. Total(stack, c) \in Nat
    BY FrameTypes DEF IInv
  <2>3. Total(stack', c) \in Nat
    BY <1>3, FrameTypes
  <2>4. Total(stack', c) = Total(stack, c) + taken[c] - freed[c] - gone[c]
    BY DEF Balance
  <2>5. taken[c] \in Nat /\ freed[c] \in Nat /\ gone[c] \in Nat /\ lost[c] \in Nat /\ ref[c] \in Nat
    BY <1>3
  <2>6. ref'[c] = ref[c] + taken[c] - freed[c] /\ lost'[c] = lost[c] + gone[c]
    BY <1>1
  <2>7. ref'[c] = Total(stack', c) + lost'[c]
    BY <2>1, <2>2, <2>3, <2>4, <2>5, <2>6
  <2>8. lost'[c] \in Nat
    BY <2>5, <2>6
  <2> QED BY <2>3, <2>7, <2>8
<1>6. ref' \in [Cells -> Nat]
  BY <1>1, <1>5
<1>7. val' \in [Cells -> Values]
  BY <1>2, <1>3, ValueFacts DEF Allowed
<1>8. ASSUME NEW c \in Cells, ref[c] > 0, ref'[c] > 0, ~Within(c) PROVE val'[c] = val[c]
  <2>1. c \notin DOMAIN w
    BY <1>3, <1>8 DEF Allowed
  <2>2. ref'[c] # 0
    BY <1>6, <1>8
  <2> QED BY <1>2, <2>1, <2>2
<1>9. Undisturbed
  BY <1>8, Zenon DEF Undisturbed, Moved
<1>10. IInv'
  BY <1>3, <1>4, <1>5, <1>6, <1>7 DEF IInv
<1> QED BY <1>9, <1>10

-----------------------------------------------------------------------------
(* Every action is such a step.                                            *)

LEMMA OneTypes ==
    /\ None \in [Cells -> Nat]
    /\ \A d : One(d) \in [Cells -> Nat] /\ Times(2, d) \in [Cells -> Nat]
    /\ \A d, e : Both(One(d), One(e)) \in [Cells -> Nat]
<1>1. /\ None \in [Cells -> Nat]
      /\ \A d : One(d) \in [Cells -> Nat] /\ Times(2, d) \in [Cells -> Nat]
  BY OneFacts
<1>2. ASSUME NEW d, NEW e PROVE Both(One(d), One(e)) \in [Cells -> Nat]
  <2>1. One(d) \in [Cells -> Nat] /\ One(e) \in [Cells -> Nat]
    BY <1>1
  <2> QED BY <2>1 DEF Both
<1> QED BY <1>1, <1>2

LEMMA OneAt ==
    ASSUME NEW c \in Cells
    PROVE  /\ None[c] = 0 /\ One(NIL)[c] = 0 /\ c # NIL
           /\ \A d : /\ One(d)[c] \in Nat
                     /\ Times(2, d)[c] = One(d)[c] + One(d)[c]
           /\ \A d, e : Both(One(d), One(e))[c] = One(d)[c] + One(e)[c]
<1>1. None[c] = 0 /\ \A d : One(d)[c] \in Nat /\ Times(2, d)[c] = 2 * One(d)[c]
  BY OneFacts
<1>2. c # NIL /\ One(NIL)[c] = 0
  BY VarsAssumption, OneFacts
<1>3. \A d : Times(2, d)[c] = One(d)[c] + One(d)[c]
  BY <1>1
<1>4. \A d, e : Both(One(d), One(e))[c] = One(d)[c] + One(e)[c]
  BY DEF Both
<1> QED BY <1>1, <1>2, <1>3, <1>4

LEMMA WriteAllowed ==
    /\ Allowed(NoWrite)
    /\ \A c : \A v \in Values : Within(c) \/ ref[c] = 0 => Allowed(Write(c, v))
<1>1. Allowed(NoWrite)
  <2>1. DOMAIN NoWrite = {}
    BY DEF NoWrite
  <2> QED BY <2>1 DEF Allowed
<1>2. ASSUME NEW c, NEW v \in Values, Within(c) \/ ref[c] = 0 PROVE Allowed(Write(c, v))
  <2>1. DOMAIN Write(c, v) = {c} /\ Write(c, v)[c] = v
    BY DEF Write
  <2> QED BY <1>2, <2>1 DEF Allowed
<1> QED BY <1>1, <1>2

LEMMA LiteralKeeps ==
    ASSUME IInv, NEW t \in {"w"} \cup Numbers, NEW c \in Cells, Literal(t, c)
    PROVE  IInv' /\ Undisturbed
<1> DEFINE u == WithWord(stack, Top, c)
<1>1. stack' = u
  BY DEF Literal, WithWord
<1>2. Frames(stack) /\ Top \in 1..Len(stack) /\ Top = Len(stack)
  BY Running DEF IInv
<1>3. /\ Frames(u) /\ AsBefore(u, stack) /\ \A j \in 1..Len(stack) : u[j].vars = stack[j].vars
      /\ \A d \in Cells : Total(u, d) = Total(stack, d) - One(stack[Top].word)[d] + One(c)[d]
  BY <1>2, WordChanged
<1> HIDE DEF u
<1>4. Moved(u) /\ Word = stack[Top].word
  BY <1>2, <1>3 DEF Moved, Word
<1>5. t \in Texts /\ val \in [Cells -> Values]
  BY DEF Texts, IInv
<1>6. \A d \in Cells : Total(stack, d) \in Nat
  BY FrameTypes DEF IInv
<1>7. CASE Word = NIL /\ c \in FreeCells
  <2>1. CountLosing(One(c), None, None) /\ Contents(Write(c, StrOf(t)))
    BY <1>7 DEF Literal, Count
  <2>2. Balance(u, One(c), None, None)
    <3>1. ASSUME NEW d \in Cells
          PROVE  Total(u, d) = Total(stack, d) + One(c)[d] - None[d] - None[d]
      <4>1. Total(u, d) = Total(stack, d) - One(NIL)[d] + One(c)[d] /\ Total(stack, d) \in Nat
        BY <1>3, <1>4, <1>6, <1>7
      <4>2. One(NIL)[d] = 0 /\ None[d] = 0 /\ One(c)[d] \in Nat
        BY OneAt
      <4> QED BY <4>1, <4>2
    <3> QED BY <3>1, OneTypes DEF Balance
  <2>3. ref[c] = 0 /\ StrOf(t) \in Values
    BY <1>5, <1>7, ValueFacts DEF FreeCells
  <2>4. Allowed(Write(c, StrOf(t)))
    BY <2>3, WriteAllowed
  <2> QED BY <1>1, <1>4, <2>1, <2>2, <2>4, StepKeeps
<1>8. CASE Word # NIL /\ c = Word
  <2>1. CountLosing(None, None, None)
        /\ Contents(Write(c, StrOf(Joined(val[c].text, t))))
    BY <1>8 DEF Literal, Count
  <2>2. Balance(u, None, None, None)
    <3>1. ASSUME NEW d \in Cells
          PROVE  Total(u, d) = Total(stack, d) + None[d] - None[d] - None[d]
      <4>1. Total(u, d) = Total(stack, d) - One(c)[d] + One(c)[d] /\ Total(stack, d) \in Nat
        BY <1>3, <1>4, <1>6, <1>8
      <4>2. None[d] = 0 /\ One(c)[d] \in Nat
        BY OneAt
      <4> QED BY <4>1, <4>2
    <3> QED BY <3>1, OneTypes DEF Balance
  <2>3. Within(c) /\ StrOf(Joined(val[c].text, t)) \in Values
    BY <1>5, <1>8, ValueFacts, Running
  <2>4. Allowed(Write(c, StrOf(Joined(val[c].text, t))))
    BY <2>3, WriteAllowed
  <2> QED BY <1>1, <1>4, <2>1, <2>2, <2>4, StepKeeps
<1> QED BY <1>7, <1>8 DEF Literal

LEMMA SubstituteKeeps ==
    ASSUME IInv, NEW x \in Names, NEW c \in Cells, Substitute(x, c)
    PROVE  IInv' /\ Undisturbed
<1> DEFINE u == WithWord(stack, Top, c)
           e == Local[x]
<1>1. stack' = u
  BY DEF Substitute, WithWord
<1>2. Frames(stack) /\ Top \in 1..Len(stack) /\ Top = Len(stack)
  BY Running DEF IInv
<1>3. /\ Frames(u) /\ AsBefore(u, stack) /\ \A j \in 1..Len(stack) : u[j].vars = stack[j].vars
      /\ \A d \in Cells : Total(u, d) = Total(stack, d) - One(stack[Top].word)[d] + One(c)[d]
  BY <1>2, WordChanged
<1> HIDE DEF u
<1>4. Moved(u) /\ Word = stack[Top].word
  BY <1>2, <1>3 DEF Moved, Word
<1>5. val \in [Cells -> Values] /\ e \in Cells /\ val[e].text \in Texts
  <2>1. val \in [Cells -> Values] /\ e \in Cells
    BY Running DEF IInv, Substitute
  <2> QED BY <2>1, ValueFacts
<1>6. \A d \in Cells : Total(stack, d) \in Nat
  BY FrameTypes DEF IInv
<1>7. CASE Word = NIL /\ c \in FreeCells
  <2>1. CountLosing(One(c), None, None) /\ Contents(Write(c, StrOf(val[e].text)))
    BY <1>7 DEF Substitute, Count
  <2>2. Balance(u, One(c), None, None)
    <3>1. ASSUME NEW d \in Cells
          PROVE  Total(u, d) = Total(stack, d) + One(c)[d] - None[d] - None[d]
      <4>1. Total(u, d) = Total(stack, d) - One(NIL)[d] + One(c)[d] /\ Total(stack, d) \in Nat
        BY <1>3, <1>4, <1>6, <1>7
      <4>2. One(NIL)[d] = 0 /\ None[d] = 0 /\ One(c)[d] \in Nat
        BY OneAt
      <4> QED BY <4>1, <4>2
    <3> QED BY <3>1, OneTypes DEF Balance
  <2>3. ref[c] = 0 /\ StrOf(val[e].text) \in Values
    BY <1>5, <1>7, ValueFacts DEF FreeCells
  <2>4. Allowed(Write(c, StrOf(val[e].text)))
    BY <2>3, WriteAllowed
  <2> QED BY <1>1, <1>4, <2>1, <2>2, <2>4, StepKeeps
<1>8. CASE Word # NIL /\ c = Word
  <2>1. CountLosing(None, None, None)
        /\ Contents(Write(c, Appended(c, e)))
    BY <1>8 DEF Substitute, Count
  <2>2. Balance(u, None, None, None)
    <3>1. ASSUME NEW d \in Cells
          PROVE  Total(u, d) = Total(stack, d) + None[d] - None[d] - None[d]
      <4>1. Total(u, d) = Total(stack, d) - One(c)[d] + One(c)[d] /\ Total(stack, d) \in Nat
        BY <1>3, <1>4, <1>6, <1>8
      <4>2. None[d] = 0 /\ One(c)[d] \in Nat
        BY OneAt
      <4> QED BY <4>1, <4>2
    <3> QED BY <3>1, OneTypes DEF Balance
  <2>3. Within(c) /\ Appended(c, e) \in Values
    BY <1>5, <1>8, ValueFacts, Running
  <2>4. Allowed(Write(c, Appended(c, e)))
    BY <2>3, WriteAllowed
  <2> QED BY <1>1, <1>4, <2>1, <2>2, <2>4, StepKeeps
<1> QED BY <1>7, <1>8 DEF Substitute

LEMMA StackFacts ==
    ASSUME IInv
    PROVE  /\ Frames(stack) /\ Top = Len(stack) /\ Top \in 1..Len(stack)
           /\ Ns \in 1..Len(stack) /\ stack[Ns].kind \in NsKinds
           /\ RetAt \in 1..Len(stack) /\ stack[RetAt].kind \in RetKinds
           /\ Word = stack[Top].word /\ Ret = stack[RetAt].own /\ Local = stack[Ns].vars
           /\ \A c \in Cells : Total(stack, c) \in Nat
           /\ val \in [Cells -> Values]
<1>1. Frames(stack) /\ val \in [Cells -> Values]
  BY DEF IInv
<1>2. \A c \in Cells : Total(stack, c) \in Nat
  BY <1>1, FrameTypes
<1>3. Word = stack[Top].word /\ Ret = stack[RetAt].own /\ Local = stack[Ns].vars
  BY DEF Word, Ret, Local
<1> QED BY <1>1, <1>2, <1>3, Running

\* The end of a command whose effects made st of the stack.
LEMMA SpentFacts ==
    ASSUME IInv, NEW st, Frames(st), Len(st) = Top
    PROVE  /\ Frames(Spent(st)) /\ Len(Spent(st)) = Top
           /\ \A j \in 1..Top : Spent(st)[j].vars = st[j].vars /\ Spent(st)[j].own = st[j].own
           /\ \A c \in Cells : Total(Spent(st), c) = Total(st, c) - One(st[Top].word)[c]
<1> DEFINE u == WithWord(st, Top, NIL)
<1>1. Top \in 1..Len(st) /\ NIL \in Cells \cup {NIL}
  BY Running
<1>2. /\ Frames(u) /\ AsBefore(u, st)
      /\ \A j \in 1..Len(st) : u[j].vars = st[j].vars /\ u[j].own = st[j].own
      /\ \A c \in Cells : Total(u, c) = Total(st, c) - One(st[Top].word)[c] + One(NIL)[c]
  BY <1>1, WordChanged
<1>3. Spent(st) = u
  BY DEF Spent, WithWord
<1> HIDE DEF u
<1>4. ASSUME NEW c \in Cells PROVE Total(u, c) = Total(st, c) - One(st[Top].word)[c]
  <2>1. Total(u, c) = Total(st, c) - One(st[Top].word)[c] + One(NIL)[c] /\ Total(st, c) \in Nat
    BY <1>2, FrameTypes
  <2>2. One(NIL)[c] = 0 /\ One(st[Top].word)[c] \in Nat
    BY OneAt
  <2> QED BY <2>1, <2>2
<1> QED BY <1>2, <1>3, <1>4 DEF AsBefore

LEMMA DropWordKeeps ==
    ASSUME IInv, DropWord PROVE IInv' /\ Undisturbed
<1> DEFINE u == Spent(stack)
<1>1. stack' = u /\ CountLosing(None, One(Word), None) /\ Contents(NoWrite)
  BY DEF DropWord, Count
<1>2. /\ Frames(u) /\ \A j \in 1..Top : u[j].vars = stack[j].vars
      /\ \A d \in Cells : Total(u, d) = Total(stack, d) - One(Word)[d]
  BY StackFacts, SpentFacts
<1> HIDE DEF u
<1>3. Moved(u)
  BY <1>2 DEF Moved
<1>4. Balance(u, None, One(Word), None)
  <2>1. ASSUME NEW d \in Cells
        PROVE  Total(u, d) = Total(stack, d) + None[d] - One(Word)[d] - None[d]
    BY <1>2, OneAt, StackFacts
  <2> QED BY <2>1, OneTypes DEF Balance
<1> QED BY <1>1, <1>3, <1>4, WriteAllowed, StepKeeps

LEMMA PushKeeps ==
    ASSUME IInv, NEW kind \in Inner, NEW c \in Cells, Push(kind, c)
    PROVE  IInv' /\ Undisturbed
<1> DEFINE a == [kind |-> kind, vars |-> Unbound, own |-> c, word |-> NIL]
           u == Append(stack, a)
<1>1. stack' = u /\ CountLosing(One(c), None, None) /\ Contents(Write(c, Null)) /\ ref[c] = 0
  BY DEF Push, Count, FreeCells
<1>2. a.kind = kind /\ a.vars = Unbound /\ a.own = c /\ a.word = NIL /\ a \in Activations
  BY UnboundFacts DEF Activations, Kinds, NsKinds, RetKinds, Inner
<1> HIDE DEF a
<1>3. Framed(a) /\ Scopeless(a)
  BY <1>2 DEF Framed, Scopeless, RetKinds, Inner
<1>4. /\ Frames(u) /\ \A j \in 1..Len(stack) : u[j] = stack[j]
      /\ \A d \in Cells : Total(u, d) = Total(stack, d) + Holds(a, d)
  BY <1>2, <1>3, Pushed, StackFacts
<1> HIDE DEF u
<1>5. Moved(u)
  BY <1>4, StackFacts DEF Moved
<1>6. Balance(u, One(c), None, None)
  <2>1. ASSUME NEW d \in Cells
        PROVE  Total(u, d) = Total(stack, d) + One(c)[d] - None[d] - None[d]
    <3>1. Holds(a, d) = Named(Unbound, d) + One(c)[d] + One(NIL)[d] /\ Named(Unbound, d) = 0
      BY <1>2, HoldsFacts, UnboundFacts
    <3>2. Total(u, d) = Total(stack, d) + Holds(a, d) /\ Total(stack, d) \in Nat
      BY <1>4, StackFacts
    <3>3. One(NIL)[d] = 0 /\ None[d] = 0 /\ One(c)[d] \in Nat
      BY OneAt
    <3> QED BY <3>1, <3>2, <3>3
  <2> QED BY <2>1, OneTypes DEF Balance
<1>7. Allowed(Write(c, Null))
  BY <1>1, WriteAllowed, ValueFacts, StackFacts
<1> QED BY <1>1, <1>5, <1>6, <1>7, StepKeeps

LEMMA SetReadKeeps ==
    ASSUME IInv, NEW x \in Names, SetRead(x) PROVE IInv' /\ Undisturbed
<1> DEFINE c == Local[x]
           u == WithOwn(stack, RetAt, c)
<1>1. stack' = u /\ CountLosing(One(c), One(Ret), None) /\ Contents(NoWrite)
  BY DEF SetRead, Count, WithOwn
<1>2. c \in Cells
  BY Running DEF SetRead
<1> HIDE DEF c
<1>3. /\ Frames(u) /\ \A j \in 1..Len(stack) : u[j].vars = stack[j].vars
      /\ \A d \in Cells : Total(u, d) = Total(stack, d) - One(stack[RetAt].own)[d] + One(c)[d]
  BY <1>2, StackFacts, OwnChanged, SMTT(30)
<1> HIDE DEF u
<1>4. Moved(u)
  BY <1>3, StackFacts DEF Moved
<1>5. Balance(u, One(c), One(Ret), None)
  <2>1. ASSUME NEW d \in Cells
        PROVE  Total(u, d) = Total(stack, d) + One(c)[d] - One(Ret)[d] - None[d]
    <3>1. Total(u, d) = Total(stack, d) - One(Ret)[d] + One(c)[d]
      BY <1>3, StackFacts
    <3> QED BY <3>1, OneAt, StackFacts, SMTT(30)
  <2> QED BY <2>1, OneTypes DEF Balance
<1> QED BY <1>1, <1>4, <1>5, WriteAllowed, StepKeeps

LEMMA SetNewKeeps ==
    ASSUME IInv, NEW x \in Names, SetNew(x) PROVE IInv' /\ Undisturbed
<1> DEFINE s == WithVar(stack, Ns, x, Word)
           t == WithOwn(s, RetAt, Word)
           u == Spent(t)
<1>1. /\ stack' = u /\ CountLosing(Times(2, Word), Both(One(Ret), One(Word)), None)
      /\ Contents(NoWrite)
  BY DEF SetNew, Count, Bind, WithVar, WithOwn
<1>2. Word \in Cells /\ Local[x] = NIL
  BY Running DEF SetNew
<1>3. /\ Frames(s) /\ AsBefore(s, stack)
      /\ \A j \in 1..Len(stack) : /\ s[j].own = stack[j].own /\ s[j].word = stack[j].word
                                  /\ j # Ns => s[j].vars = stack[j].vars
      /\ \A d \in Cells : Total(s, d) = Total(stack, d) - One(stack[Ns].vars[x])[d] + One(Word)[d]
  <2>1. /\ Frames(stack) /\ Ns \in 1..Len(stack) /\ stack[Ns].kind \in NsKinds
        /\ Word \in Cells \cup {NIL}
    BY <1>2, StackFacts
  <2> QED BY <2>1, VarChanged
<1> HIDE DEF s
<1>4. /\ RetAt \in 1..Len(s) /\ s[RetAt].kind \in RetKinds /\ s[RetAt].own = Ret /\ Len(s) = Top
      /\ s[Top].word = Word
  BY <1>3, StackFacts DEF AsBefore
<1>5. /\ Frames(t) /\ AsBefore(t, s)
      /\ \A j \in 1..Len(s) : t[j].word = s[j].word /\ t[j].vars = s[j].vars
      /\ \A d \in Cells : Total(t, d) = Total(s, d) - One(s[RetAt].own)[d] + One(Word)[d]
  BY <1>2, <1>3, <1>4, OwnChanged
<1> HIDE DEF t
<1>6. Len(t) = Top /\ t[Top].word = Word
  BY <1>4, <1>5, StackFacts DEF AsBefore
<1>7. /\ Frames(u) /\ Len(u) = Top /\ \A j \in 1..Top : u[j].vars = t[j].vars
      /\ \A d \in Cells : Total(u, d) = Total(t, d) - One(t[Top].word)[d]
  BY <1>5, <1>6, SpentFacts
<1> HIDE DEF u
<1>8. Moved(u)
  BY <1>3, <1>4, <1>5, <1>7, StackFacts DEF Moved
<1>9. Balance(u, Times(2, Word), Both(One(Ret), One(Word)), None)
  <2>1. ASSUME NEW d \in Cells
        PROVE  Total(u, d) = Total(stack, d) + Times(2, Word)[d]
                               - Both(One(Ret), One(Word))[d] - None[d]
    <3>1. Total(s, d) = Total(stack, d) - One(NIL)[d] + One(Word)[d]
      BY <1>2, <1>3, StackFacts
    <3>2. Total(t, d) = Total(s, d) - One(Ret)[d] + One(Word)[d]
      BY <1>4, <1>5
    <3>3. Total(u, d) = Total(t, d) - One(Word)[d]
      BY <1>6, <1>7
    <3>4. Total(stack, d) \in Nat
      BY StackFacts
    <3> QED BY <3>1, <3>2, <3>3, <3>4, OneAt
  <2> QED BY <2>1, OneTypes DEF Balance
<1> QED BY <1>1, <1>8, <1>9, WriteAllowed, StepKeeps

LEMMA SetOldKeeps ==
    ASSUME IInv, NEW x \in Names, SetOld(x) PROVE IInv' /\ Undisturbed
<1> DEFINE c == Local[x]
           t == WithOwn(stack, RetAt, c)
           u == Spent(t)
<1>1. /\ stack' = u /\ CountLosing(One(c), Both(One(Ret), One(Word)), None)
      /\ Contents(Write(c, Assigned(c, Word)))
  BY DEF SetOld, Count, WithOwn
<1>2. Word \in Cells /\ c \in Cells /\ Within(c)
  BY Running DEF SetOld
<1> HIDE DEF c
<1>3. /\ Frames(t) /\ AsBefore(t, stack)
      /\ \A j \in 1..Len(stack) : t[j].word = stack[j].word /\ t[j].vars = stack[j].vars
      /\ \A d \in Cells : Total(t, d) = Total(stack, d) - One(stack[RetAt].own)[d] + One(c)[d]
  BY <1>2, StackFacts, OwnChanged
<1> HIDE DEF t
<1>4. Len(t) = Top /\ t[Top].word = Word
  BY <1>3, StackFacts DEF AsBefore
<1>5. /\ Frames(u) /\ Len(u) = Top /\ \A j \in 1..Top : u[j].vars = t[j].vars
      /\ \A d \in Cells : Total(u, d) = Total(t, d) - One(t[Top].word)[d]
  BY <1>3, <1>4, SpentFacts
<1> HIDE DEF u
<1>6. Moved(u)
  BY <1>3, <1>5, StackFacts DEF Moved
<1>7. Balance(u, One(c), Both(One(Ret), One(Word)), None)
  <2>1. ASSUME NEW d \in Cells
        PROVE  Total(u, d) = Total(stack, d) + One(c)[d] - Both(One(Ret), One(Word))[d] - None[d]
    <3>1. Total(t, d) = Total(stack, d) - One(Ret)[d] + One(c)[d]
      BY <1>3, StackFacts
    <3>2. Total(u, d) = Total(t, d) - One(Word)[d]
      BY <1>4, <1>5
    <3>3. Total(stack, d) \in Nat
      BY StackFacts
    <3> QED BY <3>1, <3>2, <3>3, OneAt
  <2> QED BY <2>1, OneTypes DEF Balance
<1>8. Allowed(Write(c, Assigned(c, Word)))
  BY <1>2, ValueFacts, StackFacts, WriteAllowed
<1> QED BY <1>1, <1>6, <1>7, <1>8, StepKeeps

\* A command that does nothing to the stack but to end.
LEMMA SpentMoves ==
    ASSUME IInv
    PROVE  Moved(Spent(stack)) /\ Balance(Spent(stack), None, One(Word), None)
<1> DEFINE u == Spent(stack)
<1>1. /\ Frames(u) /\ \A j \in 1..Top : u[j].vars = stack[j].vars
      /\ \A d \in Cells : Total(u, d) = Total(stack, d) - One(Word)[d]
  BY StackFacts, SpentFacts
<1> HIDE DEF u
<1>2. ASSUME NEW d \in Cells
      PROVE  Total(u, d) = Total(stack, d) + None[d] - One(Word)[d] - None[d]
  BY <1>1, OneAt, StackFacts
<1>3. Moved(u) /\ Balance(u, None, One(Word), None)
  BY <1>1, <1>2, OneTypes DEF Moved, Balance
<1> QED BY <1>3 DEF u

LEMMA ComputeKeeps ==
    ASSUME IInv, NEW v \in Computed, NEW coerces \in BOOLEAN, Compute(v, coerces)
    PROVE  IInv' /\ Undisturbed
<1> DEFINE w == [c \in {Ret} \cup (IF coerces THEN {Word} ELSE {}) |->
                   IF c = Ret THEN v ELSE AsInt(val[Word])]
<1>1. stack' = Spent(stack) /\ CountLosing(None, One(Word), None) /\ Contents(w)
  BY DEF Compute, Count
<1>2. Word \in Cells /\ Within(Ret) /\ Within(Word)
  BY Running DEF Compute
<1>3. v \in Values /\ AsInt(val[Word]) \in Values
  BY <1>2, StackFacts, ValueFacts DEF Computed
<1>4. Allowed(w)
  BY <1>2, <1>3 DEF Allowed
<1> HIDE DEF w
<1> QED BY <1>1, <1>4, SpentMoves, StepKeeps

LEMMA GiveKeeps ==
    ASSUME IInv, Give PROVE IInv' /\ Undisturbed
<1>1. /\ stack' = Spent(stack) /\ CountLosing(None, One(Word), None)
      /\ Contents(Write(Ret, Assigned(Ret, Word)))
  BY DEF Give, Count
<1>2. Word \in Cells /\ Ret \in Cells /\ Within(Ret)
  BY Running DEF Give
<1>3. Allowed(Write(Ret, Assigned(Ret, Word)))
  BY <1>2, ValueFacts, StackFacts, WriteAllowed
<1> QED BY <1>1, <1>3, SpentMoves, StepKeeps

\* A command that does nothing to the stack.
LEMMA StaysMoves ==
    ASSUME IInv
    PROVE  Moved(stack) /\ Balance(stack, None, None, None)
<1>1. Moved(stack)
  BY StackFacts DEF Moved
<1>2. ASSUME NEW d \in Cells
      PROVE  Total(stack, d) = Total(stack, d) + None[d] - None[d] - None[d]
  BY OneAt, StackFacts
<1> QED BY <1>1, <1>2, OneTypes DEF Balance

LEMMA IncrKeeps ==
    ASSUME IInv, NEW x \in Names, NEW n \in Numbers, Incr(x, n)
    PROVE  IInv' /\ Undisturbed
<1> DEFINE w == [c \in {Local[x], Ret} |-> IntOf(n)]
<1>1. stack' = stack /\ CountLosing(None, None, None) /\ Contents(w)
  BY DEF Incr, Count
<1>2. Within(Ret) /\ Within(Local[x]) /\ IntOf(n) \in Values
  BY Running, StackFacts, ValueFacts
<1>3. Allowed(w)
  BY <1>2 DEF Allowed
<1> HIDE DEF w
<1> QED BY <1>1, <1>3, StaysMoves, StepKeeps

\* A name of the running command comes to be bound.
LEMMA BindFacts ==
    ASSUME IInv, NEW x \in Names, NEW c \in Cells
    PROVE  /\ Moved(Bind(x, c)) /\ AsBefore(Bind(x, c), stack)
           /\ \A j \in 1..Top : /\ Bind(x, c)[j].own = stack[j].own
                                /\ Bind(x, c)[j].word = stack[j].word
                                /\ j # Ns => Bind(x, c)[j].vars = stack[j].vars
           /\ \A d \in Cells : Total(Bind(x, c), d) = Total(stack, d) - One(Local[x])[d] + One(c)[d]
<1> DEFINE u == WithVar(stack, Ns, x, c)
<1>1. /\ Frames(stack) /\ Ns \in 1..Len(stack) /\ stack[Ns].kind \in NsKinds
      /\ c \in Cells \cup {NIL} /\ Local = stack[Ns].vars /\ Top = Len(stack)
  BY StackFacts
<1>2. /\ Frames(u) /\ AsBefore(u, stack)
      /\ \A j \in 1..Len(stack) : /\ u[j].own = stack[j].own /\ u[j].word = stack[j].word
                                  /\ j # Ns => u[j].vars = stack[j].vars
      /\ \A d \in Cells : Total(u, d) = Total(stack, d) - One(stack[Ns].vars[x])[d] + One(c)[d]
  BY <1>1, VarChanged
<1>3. u = Bind(x, c)
  BY DEF Bind, WithVar
<1> HIDE DEF u
<1>4. Moved(u)
  BY <1>1, <1>2 DEF Moved
<1> QED BY <1>1, <1>2, <1>3, <1>4

LEMMA ForeachAssignKeeps ==
    ASSUME IInv, NEW x \in Names, NEW c \in Cells, ForeachAssign(x, c)
    PROVE  IInv' /\ Undisturbed
<1>1. Contents(Write(c, StrOf("w"))) /\ StrOf("w") \in Values
  BY StackFacts, ValueFacts DEF ForeachAssign, Texts
<1>2. CASE Local[x] # NIL /\ c = Local[x] /\ Count(None, None) /\ UNCHANGED stack
  <2>1. stack' = stack /\ CountLosing(None, None, None)
    BY <1>2 DEF Count
  <2>2. Allowed(Write(c, StrOf("w")))
    BY <1>1, <1>2, Running, WriteAllowed
  <2> QED BY <1>1, <2>1, <2>2, StaysMoves, StepKeeps
<1>3. CASE Local[x] = NIL /\ c \in FreeCells /\ Count(One(c), None) /\ stack' = Bind(x, c)
  <2>1. CountLosing(One(c), None, None) /\ ref[c] = 0
    BY <1>3 DEF Count, FreeCells
  <2>2. Allowed(Write(c, StrOf("w")))
    BY <1>1, <2>1, WriteAllowed
  <2>3. Balance(Bind(x, c), One(c), None, None)
    <3>1. ASSUME NEW d \in Cells
          PROVE  Total(Bind(x, c), d) = Total(stack, d) + One(c)[d] - None[d] - None[d]
      <4>1. Total(Bind(x, c), d) = Total(stack, d) - One(NIL)[d] + One(c)[d] /\ Total(stack, d) \in Nat
        BY <1>3, BindFacts, StackFacts
      <4>2. One(NIL)[d] = 0 /\ None[d] = 0 /\ One(c)[d] \in Nat
        BY OneAt
      <4> QED BY <4>1, <4>2
    <3> QED BY <3>1, OneTypes DEF Balance
  <2> QED BY <1>1, <1>3, <2>1, <2>2, <2>3, BindFacts, StepKeeps
<1> QED BY <1>2, <1>3 DEF ForeachAssign

LEMMA CallKeeps ==
    ASSUME IInv, NEW x \in Names, Call(x) PROVE IInv' /\ Undisturbed
<1> DEFINE b == Rebind(Unbound, x, Word)
           a == [kind |-> "proc", own |-> NIL, word |-> NIL, vars |-> b]
           u == Append(stack, a)
<1>1. stack' = u /\ CountLosing(One(Word), None, None) /\ Contents(NoWrite)
  BY DEF Call, Count, Rebind
<1>2. Word \in Cells
  BY Running DEF Call
<1>3. b \in Bindings /\ \A d \in Cells :
         Named(b, d) = Named(Unbound, d) - One(Unbound[x])[d] + One(Word)[d]
  <2>1. b \in Bindings
    BY <1>2, UnboundFacts DEF Rebind, Bindings
  <2> QED BY <1>2, <2>1, UnboundFacts, Rebound
<1> HIDE DEF b
<1>4. a.kind = "proc" /\ a.vars = b /\ a.own = NIL /\ a.word = NIL /\ a \in Activations
  BY <1>3 DEF Activations, Kinds, NsKinds, RetKinds
<1> HIDE DEF a
<1>5. Framed(a) /\ Scopeless(a)
  BY <1>4 DEF Framed, Scopeless, RetKinds, Inner
<1>6. /\ Frames(u) /\ \A j \in 1..Len(stack) : u[j] = stack[j]
      /\ \A d \in Cells : Total(u, d) = Total(stack, d) + Holds(a, d)
  BY <1>4, <1>5, Pushed, StackFacts
<1> HIDE DEF u
<1>7. Moved(u)
  BY <1>6, StackFacts DEF Moved
<1>8. Balance(u, One(Word), None, None)
  <2>1. ASSUME NEW d \in Cells
        PROVE  Total(u, d) = Total(stack, d) + One(Word)[d] - None[d] - None[d]
    <3>1. Holds(a, d) = Named(b, d) + One(NIL)[d] + One(NIL)[d]
      BY <1>4, HoldsFacts
    <3>2. Named(b, d) = Named(Unbound, d) - One(NIL)[d] + One(Word)[d] /\ Named(Unbound, d) = 0
      BY <1>3, UnboundFacts DEF Unbound
    <3>3. Total(u, d) = Total(stack, d) + Holds(a, d) /\ Total(stack, d) \in Nat
      BY <1>6, StackFacts
    <3>4. One(NIL)[d] = 0 /\ None[d] = 0 /\ One(Word)[d] \in Nat
      BY OneAt
    <3> QED BY <3>1, <3>2, <3>3, <3>4
  <2> QED BY <2>1, OneTypes DEF Balance
<1> QED BY <1>1, <1>7, <1>8, WriteAllowed, StepKeeps

\* The innermost activation of st, not the script itself, is over.
LEMMA PopFacts ==
    ASSUME IInv, NEW st, Frames(st), Len(st) = Top, st[Top].kind # "top",
           NEW d \in Cells \cup {NIL}
    PROVE  /\ Frames(Front(st)) /\ Len(Front(st)) = Top - 1 /\ Top - 1 \in 1..Top
           /\ \A j \in 1..(Top - 1) : Front(st)[j] = st[j]
           /\ \A c \in Cells : Total(Front(st), c) = Total(st, c) - Holds(st[Top], c)
           /\ Frames(WithWord(Front(st), Top - 1, d)) /\ Len(WithWord(Front(st), Top - 1, d)) = Top - 1
           /\ \A j \in 1..(Top - 1) : WithWord(Front(st), Top - 1, d)[j].vars = st[j].vars
           /\ \A c \in Cells : Total(WithWord(Front(st), Top - 1, d), c)
                  = Total(st, c) - Holds(st[Top], c) - One(st[Top - 1].word)[c] + One(d)[c]
<1> DEFINE f == Front(st)
           u == WithWord(f, Top - 1, d)
<1>1. /\ Frames(f) /\ Len(f) = Top - 1 /\ Top - 1 \in 1..Top
      /\ \A j \in 1..(Top - 1) : f[j] = st[j]
      /\ \A c \in Cells : Total(f, c) = Total(st, c) - Holds(st[Top], c)
  BY Popped
<1> HIDE DEF f
<1>2. Top - 1 \in 1..Len(f)
  BY <1>1, Running
<1>3. /\ Frames(u) /\ AsBefore(u, f)
      /\ \A j \in 1..Len(f) : u[j].vars = f[j].vars
      /\ \A c \in Cells : Total(u, c) = Total(f, c) - One(f[Top - 1].word)[c] + One(d)[c]
  BY <1>1, <1>2, WordChanged, SMTT(30)
<1> HIDE DEF u
<1>4. Len(u) = Top - 1 /\ \A j \in 1..(Top - 1) : u[j].vars = st[j].vars
  BY <1>1, <1>3 DEF AsBefore
<1>5. \A c \in Cells : Total(u, c) = Total(st, c) - Holds(st[Top], c)
                                     - One(st[Top - 1].word)[c] + One(d)[c]
  BY <1>1, <1>2, <1>3
<1> QED BY <1>1, <1>3, <1>4, <1>5 DEF f, u

LEMMA PopNamespaceKeeps ==
    ASSUME IInv, NEW kind \in {"proc", "uplevel"}, PopNamespace(kind)
    PROVE  IInv' /\ Undisturbed
<1> DEFINE u == WithWord(Front(stack), Top - 1, NIL)
           freed == [c \in Cells |-> Holds(stack[Top], c) + One(stack[Top - 1].word)[c]]
<1>1. stack' = u /\ CountLosing(None, freed, None) /\ Contents(NoWrite) /\ stack[Top].kind = kind
  BY DEF PopNamespace, Count, WithWord
<1>2. stack[Top].kind # "top" /\ NIL \in Cells \cup {NIL} /\ Frames(stack) /\ Len(stack) = Top
  BY <1>1, StackFacts
<1>3. /\ Frames(u) /\ Len(u) = Top - 1 /\ \A j \in 1..(Top - 1) : u[j].vars = stack[j].vars
      /\ \A c \in Cells : Total(u, c) = Total(stack, c) - Holds(stack[Top], c)
                                   - One(stack[Top - 1].word)[c] + One(NIL)[c]
  BY <1>2, PopFacts
<1> HIDE DEF u
<1>4. Moved(u)
  BY <1>3, Running DEF Moved
<1>5. ASSUME NEW d \in Cells
      PROVE  /\ freed[d] = Holds(stack[Top], d) + One(stack[Top - 1].word)[d] /\ freed[d] \in Nat
             /\ Total(u, d) = Total(stack, d) + None[d] - freed[d] - None[d]
  <2>1. stack[Top] \in Activations
    BY StackFacts, FrameTypes
  <2>2. Holds(stack[Top], d) \in Nat
    BY <2>1, HoldsFacts
  <2>3. One(stack[Top - 1].word)[d] \in Nat /\ One(NIL)[d] = 0 /\ None[d] = 0
    BY OneAt
  <2>4. freed[d] = Holds(stack[Top], d) + One(stack[Top - 1].word)[d]
    OBVIOUS
  <2>5. Total(u, d) = Total(stack, d) - Holds(stack[Top], d)
                         - One(stack[Top - 1].word)[d] + One(NIL)[d] /\ Total(stack, d) \in Nat
    BY <1>3, StackFacts
  <2> HIDE DEF freed
  <2> QED BY <2>2, <2>3, <2>4, <2>5
<1>6. freed \in [Cells -> Nat]
  <2>1. \A d \in Cells : Holds(stack[Top], d) + One(stack[Top - 1].word)[d] \in Nat
    BY <1>5
  <2> QED BY <2>1
<1> HIDE DEF freed
<1>7. Balance(u, None, freed, None)
  BY <1>5, <1>6, OneTypes DEF Balance
<1> QED BY <1>1, <1>4, <1>7, WriteAllowed, StepKeeps

\* The activation of a bracket, a catch, an or or an and has its result only.
LEMMA ResultOnly ==
    ASSUME IInv, stack[Top].kind \in Inner, Word = NIL
    PROVE  /\ stack[Top].kind # "top" /\ RetAt = Top /\ Ns # Top /\ Ret = stack[Top].own
           /\ stack[Top].kind \in RetKinds /\ stack[Top].vars = Unbound
           /\ \A c \in Cells : Holds(stack[Top], c) = One(Ret)[c]
<1>1. /\ RetAt = Top /\ Ns # Top /\ Ret = stack[Top].own /\ stack[Top].word = NIL
      /\ stack[Top].kind # "top" /\ stack[Top].kind \in RetKinds
  BY Running, StackFacts DEF RetKinds, NsKinds, Inner
<1>2. stack[Top].vars = Unbound /\ stack[Top] \in Activations
  BY StackFacts, FrameTypes DEF Frames, Scopeless
<1>3. ASSUME NEW c \in Cells PROVE Holds(stack[Top], c) = One(Ret)[c]
  <2>1. Holds(stack[Top], c) = Named(Unbound, c) + One(Ret)[c] + One(NIL)[c]
    BY <1>1, <1>2, HoldsFacts
  <2>2. Named(Unbound, c) = 0 /\ One(NIL)[c] = 0 /\ One(Ret)[c] \in Nat
    BY UnboundFacts, OneAt
  <2> QED BY <2>1, <2>2
<1> QED BY <1>1, <1>2, <1>3

\* The result handle of the script around.
LEMMA OuterFacts ==
    ASSUME IInv, Top > 1, RetAt = Top
    PROVE  /\ Outer \in 1..(Top - 1) /\ stack[Outer].kind \in RetKinds
           /\ stack[Outer].own \in Cells /\ Within(stack[Outer].own)
           /\ \A j \in 1..(Top - 1) : Outer < j => stack[j].kind \notin RetKinds
<1>1. Frames(stack) /\ Len(stack) = Top
  BY StackFacts
<1>2. Top - 1 \in 1..Top
  BY Running
<1>3. /\ Outer \in 1..(Top - 1) /\ stack[Outer].kind \in RetKinds
      /\ \A j \in 1..(Top - 1) : Outer < j => stack[j].kind \notin RetKinds
  <2>1. "top" \in RetKinds
    BY DEF RetKinds
  <2> QED BY <1>1, <1>2, <2>1, LastFacts DEF Outer
<1>4. Outer \in 1..Len(stack) /\ RetAt > 1
  BY <1>1, <1>2, <1>3, Running
<1>5. stack[Outer].own \in Cells
  BY <1>1, <1>3, <1>4, FrameTypes
<1>6. Within(stack[Outer].own)
  BY <1>4 DEF Within, Outer
<1> QED BY <1>3, <1>5, <1>6

LEMMA CloseBracketKeeps ==
    ASSUME IInv, NEW ok \in BOOLEAN, CloseBracket(ok) PROVE IInv' /\ Undisturbed
<1> DEFINE w == stack[Top - 1].word
           f == Front(stack)
           u == WithWord(f, Top - 1, Ret)
<1>1. stack[Top].kind = "bracket" /\ Word = NIL
  BY DEF CloseBracket
<1>2. /\ stack[Top].kind # "top" /\ Ret \in Cells /\ Ret \in Cells \cup {NIL} /\ Frames(stack)
      /\ Len(stack) = Top /\ \A c \in Cells : Holds(stack[Top], c) = One(Ret)[c]
  BY <1>1, ResultOnly, Running, StackFacts DEF Inner
<1>3. /\ Frames(f) /\ Len(f) = Top - 1 /\ Top - 1 \in 1..Top
      /\ \A j \in 1..(Top - 1) : f[j] = stack[j]
      /\ \A c \in Cells : Total(f, c) = Total(stack, c) - Holds(stack[Top], c)
      /\ Frames(u) /\ Len(u) = Top - 1
      /\ \A j \in 1..(Top - 1) : u[j].vars = stack[j].vars
      /\ \A c \in Cells : Total(u, c) = Total(stack, c) - Holds(stack[Top], c)
                                             - One(stack[Top - 1].word)[c] + One(Ret)[c]
  BY <1>2, PopFacts
<1>4. /\ u = [f EXCEPT ![Top - 1].word = Ret]
      /\ \/ stack' = u /\ Count(None, One(w)) /\ Contents(NoWrite)
         \/ /\ w # NIL /\ stack' = f
            /\ Count(None, One(Ret)) /\ Contents(Write(w, Appended(w, Ret)))
         \/ stack' = f /\ Count(None, One(Ret)) /\ Contents(NoWrite)
  BY DEF CloseBracket, WithWord
<1>5. w \in Cells \cup {NIL} /\ Within(w)
  <2>1. w \in Cells \cup {NIL}
    BY <1>2, <1>3, FrameTypes
  <2>2. Within(w)
    BY <1>3, Running DEF Within
  <2> QED BY <2>1, <2>2
<1> HIDE DEF f, u
<1>6. Moved(f) /\ Moved(u)
  BY <1>3, Running DEF Moved
<1>7. Balance(u, None, One(w), None) /\ Balance(f, None, One(Ret), None)
  <2>1. ASSUME NEW d \in Cells
        PROVE  /\ Total(u, d) = Total(stack, d) + None[d] - One(w)[d] - None[d]
               /\ Total(f, d) = Total(stack, d) + None[d] - One(Ret)[d] - None[d]
    <3>1. Holds(stack[Top], d) = One(Ret)[d] /\ Total(stack, d) \in Nat
      BY <1>2, StackFacts
    <3>2. /\ Total(f, d) = Total(stack, d) - Holds(stack[Top], d)
          /\ Total(u, d) = Total(stack, d) - Holds(stack[Top], d) - One(w)[d] + One(Ret)[d]
      BY <1>3
    <3>3. None[d] = 0 /\ One(Ret)[d] \in Nat /\ One(w)[d] \in Nat
      BY OneAt
    <3> HIDE DEF w
    <3> QED BY <3>1, <3>2, <3>3
  <2> QED BY <2>1, OneTypes DEF Balance
<1> HIDE DEF w
<1>8. CASE stack' = u /\ Count(None, One(w)) /\ Contents(NoWrite)
  BY <1>6, <1>7, <1>8, WriteAllowed, StepKeeps DEF Count
<1>9. CASE /\ w # NIL /\ stack' = f
           /\ Count(None, One(Ret)) /\ Contents(Write(w, Appended(w, Ret)))
  <2>1. Allowed(Write(w, Appended(w, Ret)))
    BY <1>2, <1>5, <1>9, ValueFacts, StackFacts, WriteAllowed
  <2> QED BY <1>6, <1>7, <1>9, <2>1, StepKeeps DEF Count
<1>10. CASE stack' = f /\ Count(None, One(Ret)) /\ Contents(NoWrite)
  BY <1>6, <1>7, <1>10, WriteAllowed, StepKeeps DEF Count
<1> QED BY <1>4, <1>8, <1>9, <1>10

LEMMA CloseCatchKeeps ==
    ASSUME IInv, NEW x \in Names, NEW status \in Numbers, CloseCatch(x, status)
    PROVE  IInv' /\ Undisturbed
<1> DEFINE outer == stack[Outer].own
           c == Local[x]
           w == [d \in {c, outer} |-> IF d = outer THEN IntOf(status) ELSE Assigned(c, Ret)]
           f == Front(stack)
           t == Bind(x, Ret)
           g == Front(t)
<1>1. /\ stack[Top].kind = "catch" /\ Word = NIL
      /\ \/ c # NIL /\ stack' = f /\ Count(None, One(Ret)) /\ Contents(w)
         \/ /\ c = NIL /\ stack' = g /\ Count(None, None)
            /\ Contents(Write(outer, IntOf(status)))
  BY DEF CloseCatch
<1>2. /\ stack[Top].kind # "top" /\ RetAt = Top /\ Ns # Top /\ Ret = stack[Top].own
      /\ Ret \in Cells /\ Ret \in Cells \cup {NIL} /\ Frames(stack)
      /\ Len(stack) = Top /\ \A d \in Cells : Holds(stack[Top], d) = One(Ret)[d]
  BY <1>1, ResultOnly, Running, StackFacts DEF Inner
<1>3. /\ Frames(f) /\ Len(f) = Top - 1 /\ Top - 1 \in 1..Top
      /\ \A j \in 1..(Top - 1) : f[j] = stack[j]
      /\ \A d \in Cells : Total(f, d) = Total(stack, d) - Holds(stack[Top], d)
  BY <1>2, PopFacts
<1> HIDE DEF f
<1>4. outer \in Cells /\ Within(outer)
  BY <1>2, <1>3, Running, OuterFacts
<1>5. /\ c \in Cells \cup {NIL} /\ Within(c)
      /\ IntOf(status) \in Values /\ \A d \in Cells : Assigned(d, Ret) \in Values
  BY <1>2, Running, StackFacts, ValueFacts
<1> HIDE DEF outer, c
<1>6. CASE c # NIL /\ stack' = f /\ Count(None, One(Ret)) /\ Contents(w)
  <2>1. Allowed(w)
    BY <1>4, <1>5, <1>6 DEF Allowed
  <2> HIDE DEF w
  <2>2. Moved(f)
    BY <1>3, Running DEF Moved
  <2>3. ASSUME NEW d \in Cells
        PROVE  Total(f, d) = Total(stack, d) + None[d] - One(Ret)[d] - None[d]
    <3>1. Total(f, d) = Total(stack, d) - One(Ret)[d] /\ Total(stack, d) \in Nat
      BY <1>2, <1>3, StackFacts
    <3>2. None[d] = 0 /\ One(Ret)[d] \in Nat
      BY OneAt
    <3> QED BY <3>1, <3>2
  <2>4. Balance(f, None, One(Ret), None)
    BY <2>3, OneTypes DEF Balance
  <2> QED BY <1>6, <2>1, <2>2, <2>4, StepKeeps DEF Count
<1>7. CASE /\ c = NIL /\ stack' = g /\ Count(None, None)
           /\ Contents(Write(outer, IntOf(status)))
  <2>1. /\ Moved(t) /\ AsBefore(t, stack)
        /\ \A j \in 1..Top : /\ t[j].own = stack[j].own /\ t[j].word = stack[j].word
                             /\ j # Ns => t[j].vars = stack[j].vars
        /\ \A d \in Cells : Total(t, d) = Total(stack, d) - One(NIL)[d] + One(Ret)[d]
    BY <1>2, <1>7, BindFacts DEF c
  <2> HIDE DEF t
  <2>2. Frames(t) /\ Len(t) = Top /\ t[Top].kind = "catch" /\ t[Top].own = Ret /\ t[Top].word = NIL
        /\ t[Top].vars = stack[Top].vars
    BY <1>1, <1>2, <2>1, Running, StackFacts DEF Moved, AsBefore
  <2>3. stack[Top].vars = Unbound /\ t[Top] \in Activations
    <3>1. stack[Top].vars = Unbound
      BY <1>1, ResultOnly DEF Inner
    <3>2. t[Top] \in Activations
      BY <2>2, FrameTypes
    <3> QED BY <3>1, <3>2
  <2>4. /\ Frames(g) /\ Len(g) = Top - 1 /\ \A j \in 1..(Top - 1) : g[j] = t[j]
        /\ \A d \in Cells : Total(g, d) = Total(t, d) - Holds(t[Top], d)
    BY <1>2, <2>2, PopFacts
  <2> HIDE DEF g
  <2>5. Moved(g)
    <3>1. \A i \in 1..Top : i <= Len(g) => i \in 1..(Top - 1)
      BY <2>4, Running
    <3> QED BY <2>1, <2>4, <3>1 DEF Moved
  <2>6. ASSUME NEW d \in Cells
        PROVE  Total(g, d) = Total(stack, d) + None[d] - None[d] - None[d]
    <3>1. Holds(t[Top], d) = Named(Unbound, d) + One(Ret)[d] + One(NIL)[d]
      BY <2>2, <2>3, HoldsFacts
    <3>2. Named(Unbound, d) = 0 /\ One(NIL)[d] = 0 /\ One(Ret)[d] \in Nat /\ None[d] = 0
      BY UnboundFacts, OneAt
    <3>3. /\ Total(g, d) = Total(t, d) - Holds(t[Top], d)
          /\ Total(t, d) = Total(stack, d) - One(NIL)[d] + One(Ret)[d]
          /\ Total(stack, d) \in Nat
      BY <2>1, <2>4, StackFacts
    <3> QED BY <3>1, <3>2, <3>3
  <2>7. Balance(g, None, None, None)
    BY <2>6, OneTypes DEF Balance
  <2>8. Allowed(Write(outer, IntOf(status)))
    BY <1>4, <1>5, WriteAllowed
  <2> QED BY <1>7, <2>5, <2>7, <2>8, StepKeeps DEF Count
<1> QED BY <1>1, <1>6, <1>7

\* The end of a script with a result of its own, whose handle is deleted.
LEMMA FrontMoves ==
    ASSUME IInv, stack[Top].kind \in Inner, Word = NIL
    PROVE  /\ Frames(Front(stack)) /\ Len(Front(stack)) = Top - 1 /\ Top - 1 \in 1..Top
           /\ \A j \in 1..(Top - 1) : Front(stack)[j] = stack[j]
           /\ \A d \in Cells : Total(Front(stack), d) = Total(stack, d) - One(Ret)[d]
           /\ Moved(Front(stack)) /\ Balance(Front(stack), None, One(Ret), None)
<1> DEFINE f == Front(stack)
<1>1. /\ stack[Top].kind # "top" /\ Frames(stack) /\ Len(stack) = Top /\ NIL \in Cells \cup {NIL}
      /\ \A d \in Cells : Holds(stack[Top], d) = One(Ret)[d]
  BY ResultOnly, StackFacts
<1>2. /\ Frames(f) /\ Len(f) = Top - 1 /\ Top - 1 \in 1..Top
      /\ \A j \in 1..(Top - 1) : f[j] = stack[j]
      /\ \A d \in Cells : Total(f, d) = Total(stack, d) - One(Ret)[d]
  BY <1>1, PopFacts
<1> HIDE DEF f
<1>3. Moved(f)
  BY <1>2, Running DEF Moved
<1>4. ASSUME NEW d \in Cells
      PROVE  Total(f, d) = Total(stack, d) + None[d] - One(Ret)[d] - None[d]
  <2>1. Total(f, d) = Total(stack, d) - One(Ret)[d] /\ Total(stack, d) \in Nat
    BY <1>2, StackFacts
  <2>2. None[d] = 0 /\ One(Ret)[d] \in Nat
    BY OneAt
  <2> QED BY <2>1, <2>2
<1>5. Balance(f, None, One(Ret), None)
  BY <1>4, OneTypes DEF Balance
<1> QED BY <1>2, <1>3, <1>5 DEF f

LEMMA CloseCatchAloneKeeps ==
    ASSUME IInv, NEW status \in Numbers, CloseCatchAlone(status) PROVE IInv' /\ Undisturbed
<1>1. /\ stack[Top].kind \in Inner /\ Word = NIL
      /\ stack' = Front(stack) /\ CountLosing(None, One(Ret), None)
      /\ Contents(Write(stack[Outer].own, IntOf(status)))
  BY DEF CloseCatchAlone, Count, Inner
<1>2. Within(stack[Outer].own)
  <2>1. RetAt = Top /\ Top > 1
    BY <1>1, ResultOnly, FrontMoves, Running
  <2> QED BY <2>1, OuterFacts
<1>3. IntOf(status) \in Values
  BY StackFacts, ValueFacts
<1>4. Allowed(Write(stack[Outer].own, IntOf(status)))
  BY <1>2, <1>3, WriteAllowed
<1> QED BY <1>1, <1>4, FrontMoves, StepKeeps

LEMMA OrNextKeeps ==
    ASSUME IInv, OrNext PROVE IInv' /\ Undisturbed
<1>1. stack' = stack /\ CountLosing(None, None, None) /\ Contents(Write(Ret, AsInt(val[Ret])))
  BY DEF OrNext, Count
<1>2. Within(Ret) /\ AsInt(val[Ret]) \in Values
  BY Running, StackFacts, ValueFacts
<1>3. Allowed(Write(Ret, AsInt(val[Ret])))
  BY <1>2, WriteAllowed
<1> QED BY <1>1, <1>3, StaysMoves, StepKeeps

LEMMA AndNextKeeps ==
    ASSUME IInv, AndNext PROVE IInv' /\ Undisturbed
<1>1. stack' = stack /\ CountLosing(None, None, None) /\ Contents(Write(Ret, Null))
  BY DEF AndNext, Count
<1>2. Allowed(Write(Ret, Null))
  BY Running, StackFacts, ValueFacts, WriteAllowed
<1> QED BY <1>1, <1>2, StaysMoves, StepKeeps

\* The outer result handle moves to the cell of the inner one.
LEMMA CloseLogicKeeps ==
    ASSUME IInv, NEW ok \in BOOLEAN, CloseLogic(ok) PROVE IInv' /\ Undisturbed
<1> DEFINE f == Front(stack)
           e == stack[Outer].own
           u == WithOwn(f, Outer, Ret)
<1>1. /\ stack[Top].kind \in Inner /\ Word = NIL
      /\ \/ stack' = u /\ Count(None, One(e)) /\ Contents(Write(Ret, AsInt(val[Ret])))
         \/ stack' = f /\ Count(None, One(Ret)) /\ Contents(NoWrite)
  BY DEF CloseLogic, WithOwn, Inner
<1>2. CASE stack' = f /\ Count(None, One(Ret)) /\ Contents(NoWrite)
  BY <1>1, <1>2, FrontMoves, WriteAllowed, StepKeeps DEF Count
<1>3. CASE stack' = u /\ Count(None, One(e)) /\ Contents(Write(Ret, AsInt(val[Ret])))
  <2>1. /\ Frames(f) /\ Len(f) = Top - 1 /\ Top - 1 \in 1..Top
        /\ \A j \in 1..(Top - 1) : f[j] = stack[j]
        /\ \A d \in Cells : Total(f, d) = Total(stack, d) - One(Ret)[d]
    BY <1>1, FrontMoves
  <2>2. Outer \in 1..Len(f) /\ f[Outer] = stack[Outer] /\ f[Outer].kind \in RetKinds /\ Ret \in Cells
    <3>1. RetAt = Top /\ Top > 1 /\ Ret \in Cells
      BY <1>1, <2>1, ResultOnly, Running
    <3>2. Outer \in 1..(Top - 1) /\ stack[Outer].kind \in RetKinds
      BY <3>1, OuterFacts
    <3> QED BY <2>1, <3>1, <3>2
  <2> HIDE DEF f
  <2>3. /\ Frames(u) /\ AsBefore(u, f)
        /\ \A j \in 1..Len(f) : u[j].vars = f[j].vars
        /\ \A d \in Cells : Total(u, d) = Total(f, d) - One(e)[d] + One(Ret)[d]
    BY <2>1, <2>2, OwnChanged, SMTT(30)
  <2> HIDE DEF u
  <2>4. Moved(u)
    BY <2>1, <2>3, Running DEF Moved, AsBefore
  <2>5. ASSUME NEW d \in Cells
        PROVE  Total(u, d) = Total(stack, d) + None[d] - One(e)[d] - None[d]
    <3>1. /\ Total(u, d) = Total(f, d) - One(e)[d] + One(Ret)[d]
          /\ Total(f, d) = Total(stack, d) - One(Ret)[d] /\ Total(stack, d) \in Nat
      BY <2>1, <2>3, StackFacts
    <3>2. None[d] = 0 /\ One(Ret)[d] \in Nat /\ One(e)[d] \in Nat
      BY OneAt
    <3> QED BY <3>1, <3>2
  <2>6. Balance(u, None, One(e), None)
    BY <2>5, OneTypes DEF Balance
  <2>7. Within(Ret) /\ AsInt(val[Ret]) \in Values
    BY Running, StackFacts, ValueFacts
  <2>8. Allowed(Write(Ret, AsInt(val[Ret])))
    BY <2>7, WriteAllowed
  <2> HIDE DEF e
  <2> QED BY <1>3, <2>4, <2>6, <2>8, StepKeeps DEF Count
<1> QED BY <1>1, <1>2, <1>3

-----------------------------------------------------------------------------
(* The namespaces, and what upvar and uplevel find in them.                *)

\* The namespaces of st end with that of its last activation which has one.
Listing(st) ==
    /\ SpacesOf(st) \in Seq(Bindings) /\ SpacesOf(st) # << >>
    /\ \E i \in 1..Len(st) :
          /\ st[i].kind \in NsKinds /\ Current(SpacesOf(st)) = st[i].vars
          /\ \A j \in 1..Len(st) : i < j => st[j].kind \notin NsKinds

LEMMA ListingAppend ==
    ASSUME NEW st \in Seq(Activations), NEW a \in Activations,
           a.kind \in NsKinds \/ Listing(st),
           SpacesOf(st) \in Seq(Bindings)
    PROVE  Listing(Append(st, a))
<1> DEFINE u == Append(st, a)
           n == Len(st)
<1>1. /\ n \in Nat /\ Len(u) = n + 1 /\ u[n + 1] = a /\ \A i \in 1..n : u[i] = st[i]
      /\ a.vars \in Bindings
  BY DEF Activations
<1>2. SpacesOf(u) = Listed(SpacesOf(st), a)
  BY SpacesAppend
<1> HIDE DEF u, n
<1>3. CASE a.kind \in NsKinds
  <2> DEFINE l == SpacesOf(st)
  <2>1. SpacesOf(u) = Append(l, a.vars)
    BY <1>2, <1>3 DEF Listed
  <2>2. Append(l, a.vars) \in Seq(Bindings) /\ Append(l, a.vars) # << >>
        /\ Append(l, a.vars)[Len(Append(l, a.vars))] = a.vars
    <3> HIDE DEF l
    <3>1. l \in Seq(Bindings)
      BY DEF l
    <3> QED BY <1>1, <3>1, AppendProperties
  <2>3. n + 1 \in 1..Len(u) /\ \A j \in 1..Len(u) : ~(n + 1 < j)
    BY <1>1
  <2> QED BY <1>1, <1>3, <2>1, <2>2, <2>3 DEF Listing, Current, u
<1>4. CASE a.kind \notin NsKinds
  <2>1. SpacesOf(u) = SpacesOf(st) /\ Listing(st)
    BY <1>2, <1>4 DEF Listed
  <2>2. PICK i \in 1..n : /\ st[i].kind \in NsKinds /\ Current(SpacesOf(st)) = st[i].vars
                          /\ \A j \in 1..n : i < j => st[j].kind \notin NsKinds
    BY <2>1 DEF Listing, n
  <2>3. i \in 1..Len(u) /\ \A j \in 1..Len(u) : j \in 1..n \/ j = n + 1
    BY <1>1, <2>2
  <2>4. \A j \in 1..Len(u) : i < j => u[j].kind \notin NsKinds
    BY <1>1, <1>4, <2>2, <2>3
  <2> QED BY <1>1, <2>1, <2>2, <2>3, <2>4 DEF Listing, u
<1> QED BY <1>3, <1>4

LEMMA ListingOfFrames ==
    ASSUME NEW st \in Seq(Activations), Len(st) > 0, st[1].kind = "top"
    PROVE  Listing(st)
<1> DEFINE T == {k \in Nat : \E v \in Seq(Activations) :
                    Len(v) = k /\ k > 0 /\ v[1].kind = "top" /\ ~ Listing(v)}
<1>1. T = {}
  <2> SUFFICES ASSUME T # {} PROVE FALSE
    OBVIOUS
  <2>1. T \subseteq Nat
    OBVIOUS
  <2>2. PICK k \in T : \A j \in T : k <= j
    <3> HIDE DEF T
    <3> QED BY <2>1, LeastElement
  <2>3. PICK v \in Seq(Activations) : Len(v) = k /\ k > 0 /\ v[1].kind = "top" /\ ~ Listing(v)
    OBVIOUS
  <2>4. v # << >> /\ k \in Nat
    BY <2>3
  <2>5. PICK u \in Seq(Activations), b \in Activations : v = Append(u, b)
    BY <2>4, SequenceEmptyOrAppend
  <2>6. k - 1 \in Nat /\ ~(k <= k - 1) /\ Len(u) = k - 1 /\ v[k] = b
        /\ \A i \in 1..(k - 1) : v[i] = u[i]
    BY <2>3, <2>4, <2>5, AppendProperties
  <2>7. CASE k = 1
    <3>1. u = << >> /\ b.kind \in NsKinds
      BY <2>3, <2>6, <2>7, EmptySeq DEF NsKinds
    <3>2. SpacesOf(u) \in Seq(Bindings)
      <4>1. SpacesOf(u) = << >>
        BY <3>1, SpacesAppend, Zenon
      <4> QED BY <4>1
    <3> QED BY <2>3, <2>5, <3>1, <3>2, ListingAppend
  <2>8. CASE k # 1
    <3>1. k - 1 \notin T
      <4> HIDE DEF T
      <4> QED BY <2>2, <2>6
    <3>2. k - 1 > 0 /\ u[1].kind = "top"
      BY <2>3, <2>4, <2>6, <2>8
    <3>3. Listing(u)
      BY <2>6, <3>1, <3>2
    <3>4. SpacesOf(u) \in Seq(Bindings)
      BY <3>3 DEF Listing
    <3> QED BY <2>3, <2>5, <3>3, <3>4, ListingAppend
  <2> QED BY <2>7, <2>8
<1> QED BY <1>1

LEMMA SpacesFacts ==
    ASSUME IInv
    PROVE  Spaces \in Seq(Bindings) /\ Len(Spaces) \in Nat \ {0} /\ Current(Spaces) = Local
<1>1. Spaces = SpacesOf(stack)
  BY Zenon DEF Spaces, SpacesOf, Listed
<1>2. Listing(stack)
  BY StackFacts, ListingOfFrames DEF Frames
<1>3. PICK i \in 1..Top : /\ stack[i].kind \in NsKinds /\ Current(Spaces) = stack[i].vars
                          /\ \A j \in 1..Top : i < j => stack[j].kind \notin NsKinds
  BY <1>1, <1>2 DEF Listing, Top
<1>4. /\ Ns \in 1..Top /\ stack[Ns].kind \in NsKinds /\ Top \in Nat
      /\ \A j \in 1..Top : Ns < j => stack[j].kind \notin NsKinds
  <2>1. "top" \in NsKinds /\ Top \in 1..Top /\ Frames(stack)
    BY Running, StackFacts DEF NsKinds
  <2> QED BY <2>1, Running, LastFacts DEF Ns
<1>5. i = Ns
  BY <1>3, <1>4
<1>6. Len(Spaces) \in Nat \ {0}
  BY <1>1, <1>2, EmptySeq DEF Listing
<1> QED BY <1>1, <1>2, <1>3, <1>5, <1>6 DEF Listing, Local

\* What is found in a namespace is a cell, or nothing.
LEMMA NamespaceFacts ==
    ASSUME IInv, NEW idx \in Nat
    PROVE  GetNamespace(Spaces, idx) \in Bindings
<1> DEFINE n == Len(Spaces)
<1>1. Spaces \in Seq(Bindings) /\ n \in Nat \ {0}
  BY SpacesFacts
<1>2. \A i \in 1..n : Spaces[i] \in Bindings
  BY <1>1
<1>3. CASE idx < n
  <2>1. n - idx \in 1..n
    BY <1>1, <1>3
  <2> QED BY <1>2, <1>3, <2>1 DEF GetNamespace
<1>4. CASE ~(idx < n)
  BY <1>4, UnboundFacts DEF GetNamespace
<1> QED BY <1>3, <1>4

LEMMA UpNamespaceFacts ==
    ASSUME IInv, NEW level \in 0..MaxDepth
    PROVE  UpNamespace(Spaces, level) \in Bindings
<1>1. level \in Nat
  OBVIOUS
<1> QED BY <1>1, NamespaceFacts, UnboundFacts DEF UpNamespace

LEMMA VariableUpFacts ==
    ASSUME IInv, NEW level \in 0..MaxDepth, NEW x \in Names
    PROVE  VariableUp(Spaces, x, level) \in Cells \cup {NIL}
<1> DEFINE n == Len(Spaces)
           having == {i \in 1..n : Spaces[i][x] # NIL}
<1>1. Spaces \in Seq(Bindings) /\ n \in Nat \ {0} /\ Current(Spaces) = Local
  BY SpacesFacts
<1>2. level \in Nat
  OBVIOUS
<1>3. \A b \in Bindings : b[x] \in Cells \cup {NIL}
  BY DEF Bindings
<1>4. \A i \in 1..n : Spaces[i][x] \in Cells \cup {NIL}
  <2>1. \A i \in 1..n : Spaces[i] \in Bindings
    BY <1>1
  <2> QED BY <2>1, <1>3
<1>5. Local[x] \in Cells \cup {NIL}
  BY Running
<1>6. CASE level > 0
  <2>1. VariableUp(Spaces, x, level) = GetNamespace(Spaces, level - 1)[x]
    BY <1>6 DEF VariableUp
  <2>2. level - 1 \in Nat
    BY <1>2, <1>6
  <2> QED BY <1>3, <2>1, <2>2, NamespaceFacts
<1>7. CASE level = 0 /\ Local[x] # NIL
  <2>1. n \in 1..n /\ Spaces[n] = Local
    BY <1>1 DEF Current
  <2>2. having # {}
    BY <1>7, <2>1
  <2>3. VariableUp(Spaces, x, level) = Local[x]
    <3> HIDE DEF having
    <3> QED BY <1>1, <1>7, <2>2 DEF VariableUp, having
  <2> QED BY <1>5, <2>3
<1>8. CASE level = 0 /\ Local[x] = NIL /\ having = {}
  BY <1>1, <1>8 DEF VariableUp
<1>9. CASE level = 0 /\ Local[x] = NIL /\ having # {}
  <2> DEFINE i == CHOOSE i \in having : \A j \in having : i <= j
  <2>1. VariableUp(Spaces, x, level) = Spaces[i][x]
    BY <1>1, <1>9 DEF VariableUp
  <2>2. having \subseteq Nat
    BY <1>1
  <2>3. \E k \in having : \A j \in having : k <= j
    <3> HIDE DEF having
    <3> QED BY <1>9, <2>2, LeastElement
  <2>4. i \in having
    <3> HIDE DEF having
    <3> QED BY <2>3
  <2> HIDE DEF i
  <2> QED BY <1>4, <2>1, <2>4
<1> QED BY <1>2, <1>5, <1>6, <1>7, <1>8, <1>9

LEMMA UpvarKeeps ==
    ASSUME IInv, NEW level \in 0..MaxDepth, NEW x \in Names, NEW y \in Names,
           Upvar(level, x, y)
    PROVE  IInv' /\ Undisturbed
<1> DEFINE c == VariableUp(Spaces, x, level)
           u == Bind(y, c)
<1>1. /\ stack' = u /\ CountLosing(One(c), None, One(Local[y])) /\ Contents(NoWrite) /\ c # NIL
  BY DEF Upvar
<1>2. c \in Cells
  BY <1>1, VariableUpFacts
<1> HIDE DEF c
<1>3. /\ Moved(u)
      /\ \A d \in Cells : Total(u, d) = Total(stack, d) - One(Local[y])[d] + One(c)[d]
  BY <1>2, BindFacts
<1> HIDE DEF u
<1>4. ASSUME NEW d \in Cells
      PROVE  Total(u, d) = Total(stack, d) + One(c)[d] - None[d] - One(Local[y])[d]
  <2>1. Total(u, d) = Total(stack, d) - One(Local[y])[d] + One(c)[d] /\ Total(stack, d) \in Nat
    BY <1>3, StackFacts
  <2>2. None[d] = 0 /\ One(c)[d] \in Nat /\ One(Local[y])[d] \in Nat
    BY OneAt
  <2> QED BY <2>1, <2>2
<1>5. Balance(u, One(c), None, One(Local[y]))
  BY <1>4, OneTypes DEF Balance
<1> QED BY <1>1, <1>3, <1>5, WriteAllowed, StepKeeps

\* Of the names that are bound in both namespaces, the overlaid one has the
\* current binding; the handles on the other are forgotten.
LEMMA OverlaidFacts ==
    ASSUME NEW here \in Bindings, NEW up \in Bindings, NEW c \in Cells, NEW b \in Bindings,
           \A x \in Names : b[x] = IF here[x] # NIL THEN here[x] ELSE up[x]
    PROVE  LET hidden == Cardinality({x \in Names : up[x] = c /\ here[x] # NIL}) IN
           hidden \in Nat /\ Named(b, c) = Named(here, c) + Named(up, c) - hidden
<1> DEFINE H == {x \in Names : here[x] = c}
           U == {x \in Names : up[x] = c}
           G == {x \in Names : up[x] = c /\ here[x] # NIL}
           B == {x \in Names : b[x] = c}
           V == {x \in Names : up[x] = c /\ here[x] = NIL}
<1>1. IsFiniteSet(H) /\ IsFiniteSet(U) /\ IsFiniteSet(B)
  BY NamedFacts
<1>2. G \in SUBSET U /\ V \in SUBSET U
  OBVIOUS
<1>3. c # NIL
  BY VarsAssumption
<1>4. B = H \cup V /\ H \cap V = {} /\ U = G \cup V /\ G \cap V = {}
  BY <1>3
<1>5. Named(b, c) = Cardinality(B) /\ Named(here, c) = Cardinality(H) /\ Named(up, c) = Cardinality(U)
  BY Zenon DEF Named
<1> HIDE DEF H, U, G, B, V
<1>6. IsFiniteSet(G) /\ IsFiniteSet(V)
  BY <1>1, <1>2, FS_Subset
<1>7. Cardinality({}) = 0
  BY FS_EmptySet
<1>8. /\ Cardinality(H) \in Nat /\ Cardinality(U) \in Nat /\ Cardinality(G) \in Nat
      /\ Cardinality(V) \in Nat /\ Cardinality(B) \in Nat
  BY <1>1, <1>6, FS_CardinalityType
<1>9. Cardinality(B) = Cardinality(H) + Cardinality(V) - Cardinality(H \cap V)
  BY <1>1, <1>4, <1>6, FS_Union
<1>10. Cardinality(U) = Cardinality(G) + Cardinality(V) - Cardinality(G \cap V)
  BY <1>4, <1>6, FS_Union
<1>11. Named(b, c) = Named(here, c) + Named(up, c) - Cardinality(G)
  <2>1. Cardinality(H \cap V) = 0 /\ Cardinality(G \cap V) = 0
    BY <1>4, <1>7
  <2>2. /\ Cardinality(B) = Cardinality(H) + Cardinality(V)
        /\ Cardinality(U) = Cardinality(G) + Cardinality(V)
    BY <2>1, <1>8, <1>9, <1>10
  <2>3. Cardinality(B) = Cardinality(H) + Cardinality(U) - Cardinality(G)
    BY <2>2, <1>8
  <2> QED BY <2>3, <1>5
<1> QED BY <1>8, <1>11 DEF G

LEMMA UplevelKeeps ==
    ASSUME IInv, NEW level \in 0..MaxDepth, Uplevel(level) PROVE IInv' /\ Undisturbed
<1> DEFINE up == UpNamespace(Spaces, level)
           b == Overlaid(Spaces, level)
           hidden(c) == Cardinality({x \in Names : up[x] = c /\ Local[x] # NIL})
           taken == [c \in Cells |-> Named(Local, c) + Named(up, c)]
           gone == [c \in Cells |-> hidden(c)]
           a == [kind |-> "uplevel", own |-> NIL, word |-> NIL, vars |-> b]
           u == Append(stack, a)
<1>1. stack' = u /\ CountLosing(taken, None, gone) /\ Contents(NoWrite)
  BY Zenon DEF Uplevel, Named
<1>2. up \in Bindings /\ Local \in Bindings /\ Current(Spaces) = Local
  BY UpNamespaceFacts, Running, SpacesFacts
<1>3. \A x \in Names : b[x] = IF Local[x] # NIL THEN Local[x] ELSE up[x]
  BY <1>2 DEF Overlaid
<1>4. b \in Bindings
  BY <1>2 DEF Overlaid, Bindings
<1> HIDE DEF up, b
<1>5. ASSUME NEW c \in Cells
      PROVE  hidden(c) \in Nat /\ Named(b, c) = Named(Local, c) + Named(up, c) - hidden(c)
  BY <1>2, <1>3, <1>4, OverlaidFacts, ZenonT(60)
<1> HIDE DEF hidden
<1>6. taken \in [Cells -> Nat] /\ gone \in [Cells -> Nat]
      /\ \A c \in Cells : taken[c] = Named(Local, c) + Named(up, c) /\ gone[c] = hidden(c)
  <2>1. \A c \in Cells : Named(Local, c) + Named(up, c) \in Nat
    <3>1. \A c \in Cells : Named(Local, c) \in Nat /\ Named(up, c) \in Nat
      BY NamedFacts
    <3> QED BY <3>1
  <2> QED BY <1>5, <2>1
<1> HIDE DEF taken, gone
<1>7. a.kind = "uplevel" /\ a.vars = b /\ a.own = NIL /\ a.word = NIL /\ a \in Activations
  BY <1>4 DEF Activations, Kinds, NsKinds, RetKinds
<1> HIDE DEF a
<1>8. Framed(a) /\ Scopeless(a)
  BY <1>7 DEF Framed, Scopeless, RetKinds, Inner
<1>9. /\ Frames(u) /\ \A j \in 1..Len(stack) : u[j] = stack[j]
      /\ \A d \in Cells : Total(u, d) = Total(stack, d) + Holds(a, d)
  BY <1>7, <1>8, Pushed, StackFacts
<1> HIDE DEF u
<1>10. Moved(u)
  BY <1>9, StackFacts DEF Moved
<1>11. ASSUME NEW d \in Cells
       PROVE  Total(u, d) = Total(stack, d) + taken[d] - None[d] - gone[d]
  <2>1. Holds(a, d) = Named(b, d) + One(NIL)[d] + One(NIL)[d]
    BY <1>7, HoldsFacts
  <2>2. Total(u, d) = Total(stack, d) + Holds(a, d) /\ Total(stack, d) \in Nat
    BY <1>9, StackFacts
  <2>3. One(NIL)[d] = 0 /\ None[d] = 0 /\ Named(Local, d) \in Nat /\ Named(up, d) \in Nat
    BY OneAt, NamedFacts
  <2>4. /\ Named(b, d) = Named(Local, d) + Named(up, d) - hidden(d) /\ hidden(d) \in Nat
        /\ taken[d] = Named(Local, d) + Named(up, d) /\ gone[d] = hidden(d)
    BY <1>5, <1>6
  <2> QED BY <2>1, <2>2, <2>3, <2>4
<1>12. Balance(u, taken, None, gone)
  BY <1>6, <1>11, OneTypes DEF Balance
<1> QED BY <1>1, <1>10, <1>12, WriteAllowed, StepKeeps

-----------------------------------------------------------------------------
(* The theorems.                                                           *)

LEMMA InitHolds == Init => IInv
<1> SUFFICES ASSUME Init PROVE IInv
  OBVIOUS
<1>1. PICK c \in Cells :
         /\ stack = <<[kind |-> "top", vars |-> Unbound, own |-> c, word |-> NIL]>>
         /\ ref = One(c) /\ val = [d \in Cells |-> Null] /\ lost = None
  BY DEF Init
<1> DEFINE a == [kind |-> "top", vars |-> Unbound, own |-> c, word |-> NIL]
<1>2. a.kind = "top" /\ a.vars = Unbound /\ a.own = c /\ a.word = NIL /\ a \in Activations
  BY UnboundFacts DEF Activations, Kinds, NsKinds, RetKinds
<1>3. stack = Append(<< >>, a) /\ stack \in Seq(Activations) /\ Len(stack) = 1 /\ stack[1] = a
  BY <1>1, <1>2
<1> HIDE DEF a
<1>4. Frames(stack)
  BY <1>2, <1>3 DEF Frames, Framed, Scopeless, RetKinds
<1>5. ASSUME NEW d \in Cells PROVE ref[d] = Total(stack, d) + lost[d]
  <2>1. << >> \in Seq(Activations)
    OBVIOUS
  <2>2. Total(stack, d) = Total(<< >>, d) + Holds(a, d) /\ Total(<< >>, d) = 0
    BY <1>2, <1>3, <2>1, TotalAppend
  <2>3. Holds(a, d) = Named(Unbound, d) + One(c)[d] + One(NIL)[d] /\ Named(Unbound, d) = 0
    BY <1>2, HoldsFacts, UnboundFacts
  <2>4. One(NIL)[d] = 0 /\ None[d] = 0 /\ One(c)[d] \in Nat
    BY OneAt
  <2>5. ref[d] = One(c)[d] /\ lost[d] = None[d]
    BY <1>1
  <2> QED BY <2>2, <2>3, <2>4, <2>5
<1>6. val \in [Cells -> Values]
  BY <1>1 DEF Values
<1>7. ref \in [Cells -> Nat] /\ lost \in [Cells -> Nat]
  BY <1>1, OneTypes
<1> QED BY <1>4, <1>5, <1>6, <1>7 DEF IInv

LEMMA NextKeeps ==
    ASSUME IInv, Next PROVE IInv' /\ Undisturbed
<1>1. ASSUME NEW t \in {"w"} \cup Numbers, NEW c \in Cells, Literal(t, c) PROVE IInv' /\ Undisturbed
  BY <1>1, LiteralKeeps
<1>2. ASSUME DropWord PROVE IInv' /\ Undisturbed
  BY <1>2, DropWordKeeps
<1>3. ASSUME NEW c \in Cells, OpenBracket(c) PROVE IInv' /\ Undisturbed
  BY <1>3, PushKeeps DEF OpenBracket, Inner
<1>4. ASSUME NEW ok \in BOOLEAN, CloseBracket(ok) PROVE IInv' /\ Undisturbed
  BY <1>4, CloseBracketKeeps
<1>5. ASSUME NEW x \in Names, SetRead(x) \/ SetNew(x) \/ SetOld(x) PROVE IInv' /\ Undisturbed
  BY <1>5, SetReadKeeps, SetNewKeeps, SetOldKeeps
<1>6. ASSUME NEW v \in Computed, NEW b \in BOOLEAN, Compute(v, b) PROVE IInv' /\ Undisturbed
  BY <1>6, ComputeKeeps
<1>7. ASSUME Give PROVE IInv' /\ Undisturbed
  BY <1>7, GiveKeeps
<1>8. ASSUME NEW x \in Names, NEW n \in Numbers, Incr(x, n) PROVE IInv' /\ Undisturbed
  BY <1>8, IncrKeeps
<1>9. ASSUME NEW x \in Names, NEW c \in Cells, ForeachAssign(x, c) PROVE IInv' /\ Undisturbed
  BY <1>9, ForeachAssignKeeps
<1>10. ASSUME NEW x \in Names, Call(x) PROVE IInv' /\ Undisturbed
  BY <1>10, CallKeeps
<1>11. ASSUME Return \/ EndUplevel PROVE IInv' /\ Undisturbed
  BY <1>11, PopNamespaceKeeps DEF Return, EndUplevel
<1>12. ASSUME NEW c \in Cells, OpenCatch(c) PROVE IInv' /\ Undisturbed
  BY <1>12, PushKeeps DEF OpenCatch, Inner
<1>13. ASSUME NEW x \in Names, NEW s \in Numbers, CloseCatch(x, s) PROVE IInv' /\ Undisturbed
  BY <1>13, CloseCatchKeeps
<1>14. ASSUME NEW level \in 0..MaxDepth, Uplevel(level) PROVE IInv' /\ Undisturbed
  BY <1>14, UplevelKeeps
<1>15. ASSUME NEW level \in 0..MaxDepth, NEW x \in Names, NEW y \in Names, Upvar(level, x, y)
       PROVE  IInv' /\ Undisturbed
  BY <1>15, UpvarKeeps
<1>16. ASSUME NEW x \in Names, NEW c \in Cells, Substitute(x, c) PROVE IInv' /\ Undisturbed
  BY <1>16, SubstituteKeeps
<1>17. ASSUME NEW s \in Numbers, CloseCatchAlone(s) PROVE IInv' /\ Undisturbed
  BY <1>17, CloseCatchAloneKeeps
<1>18. ASSUME NEW kind \in {"or", "and"}, NEW c \in Cells, OpenLogic(kind, c)
       PROVE  IInv' /\ Undisturbed
  BY <1>18, PushKeeps DEF OpenLogic, Inner
<1>19. ASSUME OrNext \/ AndNext PROVE IInv' /\ Undisturbed
  BY <1>19, OrNextKeeps, AndNextKeeps
<1>20. ASSUME NEW ok \in BOOLEAN, CloseLogic(ok) PROVE IInv' /\ Undisturbed
  BY <1>20, CloseLogicKeeps
<1> QED
  BY <1>1, <1>2, <1>3, <1>4, <1>5, <1>6, <1>7, <1>8, <1>9, <1>10, <1>11, <1>12, <1>13, <1>14,
     <1>15, <1>16, <1>17, <1>18, <1>19, <1>20 DEF Next

LEMMA StutterKeeps == IInv /\ UNCHANGED vars => IInv'
  BY DEF IInv, vars

LEMMA Inductive == Spec => []IInv
<1>1. IInv /\ [Next]_vars => IInv'
  BY NextKeeps, StutterKeeps
<1> QED BY <1>1, InitHolds, PTL DEF Spec

\* Every part of the state has its type in every reachable state.
THEOREM VariableTypes == Spec => []TypeOK
<1>1. IInv => TypeOK
  BY DEF IInv, Frames, TypeOK
<1> QED BY <1>1, Inductive, PTL

\* However scripts nest brackets, procs, catch and uplevel, and however handles
\* come to share containers, each container counts its handles exactly (but for
\* those that upvar and uplevel forget): TclValue_delete never frees a
\* container that a variable, a result or a word still has.
THEOREM HandlesCounted == Spec => []RefExact
<1>1. \A c : Handles(c) = Total(stack, c)
  BY Zenon DEF Handles, Total
<1>2. IInv => RefExact
  BY <1>1 DEF IInv, RefExact
<1> QED BY <1>2, Inductive, PTL

\* The variables of the procs that wait keep their containers, whatever the running
\* command does, and what it writes is in containers that it has itself: of its
\* variables, its result or its word (which a waiting proc's variable may share).
THEOREM WaitingProcsKeepContainers == Spec => SuspendedUntouched
<1>1. ASSUME IInv, [Next]_vars PROVE [Undisturbed]_vars
  BY <1>1, NextKeeps
<1>2. [Undisturbed]_vars =>
         [/\ \A c \in Cells : ref[c] > 0 /\ ref'[c] > 0 /\ ~Within(c) => val'[c] = val[c]
          /\ \A i \in 1..Top : i # Ns /\ i <= Len(stack')
                              => stack'[i].vars = stack[i].vars]_vars
  BY DEF Undisturbed
<1> QED BY <1>1, <1>2, Inductive, PTL DEF Spec, SuspendedUntouched

-----------------------------------------------------------------------------
(* Strings that are freed before they are copied.  Two handles on a cell   *)
(* that no variable has are one too many: a cell gets a second handle only *)
(* from a variable, and the variable must not end before it does.          *)

\* One of the outermost n activations has a variable on cell c.
Bound(st, c, n) == \E i \in 1..n, x \in Names : st[i].vars[x] = c

\* At most one result or word is on cell c.
Single(st, c) ==
    \A i, j \in 1..Len(st) : /\ st[i].own = c /\ st[j].own = c => i = j
                             /\ st[i].word = c /\ st[j].word = c => i = j
                             /\ ~(st[i].own = c /\ st[j].word = c)

\* A result or word on c that the end of the k-th activation leaves as it is, and
\* that nothing of the activations below k will write before.
Waits(st, c, k) ==
    \/ \E i \in 1..(k - 2) : st[i].word = c
    \/ \E i, j \in 1..(k - 1) : i < j /\ st[j].kind \in RetKinds /\ st[i].own = c

Alone(st, c) == ~Bound(st, c, Len(st)) => Single(st, c)
AloneBelow(st, c) ==
    \A k \in 2..Len(st) : st[k].kind \in NsKinds /\ ~Bound(st, c, k - 1) /\ Waits(st, c, k)
                             => ~Bound(st, c, Len(st)) /\ Single(st, c)
Apart(st, c) == Alone(st, c) /\ AloneBelow(st, c)

AInv == IInv /\ \A c \in Cells : lost[c] = 0 => Apart(stack, c)

\* Nothing has a handle on a free cell.
LEMMA Unheld ==
    ASSUME IInv, NEW c \in Cells, ref[c] = 0
    PROVE  \A i \in 1..Len(stack) : /\ stack[i].own # c /\ stack[i].word # c
                                    /\ \A x \in Names : stack[i].vars[x] # c
<1> SUFFICES ASSUME NEW i \in 1..Len(stack)
             PROVE  /\ stack[i].own # c /\ stack[i].word # c
                    /\ \A x \in Names : stack[i].vars[x] # c
  OBVIOUS
<1>1. stack \in Seq(Activations) /\ stack[i] \in Activations /\ Total(stack, c) \in Nat
  BY StackFacts, FrameTypes DEF Frames
<1> DEFINE a == [kind |-> "top", vars |-> Unbound, own |-> NIL, word |-> NIL]
           u == [stack EXCEPT ![i] = a]
<1>2. a \in Activations /\ a.vars = Unbound /\ a.own = NIL /\ a.word = NIL
  BY UnboundFacts DEF Activations, Kinds, NsKinds
<1> HIDE DEF a
<1>3. u \in Seq(Activations)
  BY <1>1, <1>2
<1>4. Total(u, c) = Total(stack, c) - Holds(stack[i], c) + Holds(a, c)
  BY <1>1, <1>2, TotalExcept DEF Additive
<1>5. Total(u, c) \in Nat
  BY <1>3, TotalExcept DEF Additive
<1> HIDE DEF u
<1>6. Holds(a, c) = 0
  <2>1. Holds(a, c) = Named(Unbound, c) + One(NIL)[c] + One(NIL)[c]
    BY <1>2, HoldsFacts
  <2> QED BY <2>1, UnboundFacts, OneAt
<1>7. Total(stack, c) = 0
  <2>1. ref[c] = Total(stack, c) + lost[c] /\ lost[c] \in Nat
    BY DEF IInv
  <2> QED BY <2>1, <1>1
<1>8. /\ Holds(stack[i], c) = Named(stack[i].vars, c) + One(stack[i].own)[c] + One(stack[i].word)[c]
      /\ Holds(stack[i], c) \in Nat
  BY <1>1, HoldsFacts
<1>9. Named(stack[i].vars, c) \in Nat /\ One(stack[i].own)[c] \in Nat /\ One(stack[i].word)[c] \in Nat
  BY NamedFacts, OneFacts
<1>10. Named(stack[i].vars, c) = 0 /\ One(stack[i].own)[c] = 0 /\ One(stack[i].word)[c] = 0
  <2> DEFINE h == Holds(stack[i], c)
  <2>1. Total(u, c) = 0 - h + 0
    BY <1>4, <1>6, <1>7
  <2>2. h \in Nat
    BY <1>8
  <2>3. h = 0
    <3> HIDE DEF h
    <3> QED BY <1>5, <2>1, <2>2
  <2> QED BY <2>3, <1>8, <1>9
<1>11. stack[i].own # c /\ stack[i].word # c
  BY <1>10, OneFacts
<1>12. \A x \in Names : stack[i].vars[x] # c
  <2> DEFINE T == {x \in Names : stack[i].vars[x] = c}
  <2>1. IsFiniteSet(T)
    BY NamedFacts
  <2>2. Cardinality(T) = 0
    BY <1>10 DEF Named
  <2>3. T = {}
    <3> HIDE DEF T
    <3> QED BY <2>1, <2>2, FS_EmptySet
  <2> QED BY <2>3
<1> QED BY <1>11, <1>12

\* A cell that waits has a handle that is neither the running command's word nor
\* the result of the innermost script.
LEMMA WaitsFacts ==
    ASSUME IInv, NEW c \in Cells, NEW k \in 2..(Top + 1), Waits(stack, c, k), Single(stack, c)
    PROVE  /\ Word # c /\ ref[c] # 0
           /\ k <= Top /\ stack[Top].kind \in RetKinds => stack[Top].own # c
<1>1. Top \in Nat \ {0} /\ Top = Len(stack) /\ Word = stack[Top].word /\ Top \in 1..Top
  BY Running, StackFacts
<1>2. CASE \E i \in 1..(k - 2) : stack[i].word = c
  <2>1. PICK i \in 1..(k - 2) : stack[i].word = c
    BY <1>2
  <2>2. i \in 1..Top /\ i # Top
    BY <1>1, <2>1
  <2> QED BY <1>1, <2>1, <2>2, Unheld DEF Single
<1>3. CASE \E i, j \in 1..(k - 1) : i < j /\ stack[j].kind \in RetKinds /\ stack[i].own = c
  <2>1. PICK i \in 1..(k - 1), j \in 1..(k - 1) :
           i < j /\ stack[j].kind \in RetKinds /\ stack[i].own = c
    BY <1>3
  <2>2. i \in 1..Top /\ i # Top
    BY <1>1, <2>1
  <2> QED BY <1>1, <2>1, <2>2, Unheld DEF Single
<1> QED BY <1>2, <1>3 DEF Waits

\* A command that neither begins nor ends an activation.
LEMMA InPlaceApart ==
    ASSUME IInv, NEW c \in Cells, NEW u, Apart(stack, c),
           Len(u) = Top, \A i \in 1..Top : u[i].kind = stack[i].kind,
           \A i \in 1..Top : u[i].own = c =>
               stack[i].own = c \/ (i = RetAt /\ \E x \in Names : u[Ns].vars[x] = c),
           \A i \in 1..Top : u[i].word = c => stack[i].word = c \/ (i = Top /\ ref[c] = 0),
           \A i \in 1..Top : i # Ns => u[i].vars = stack[i].vars,
           \A x \in Names : stack[Ns].vars[x] = c => \E y \in Names : u[Ns].vars[y] = c,
           \A x \in Names : u[Ns].vars[x] = c => Bound(stack, c, Top) \/ Word = c \/ ref[c] = 0
    PROVE  Apart(u, c)
<1>1. /\ Top \in Nat \ {0} /\ Top = Len(stack) /\ Word = stack[Top].word /\ Top \in 1..Top
      /\ Ns \in 1..Top /\ RetAt \in 1..Top
  BY Running, StackFacts
<1>2. \A n \in 1..Top : Bound(stack, c, n) => Bound(u, c, n)
  BY <1>1 DEF Bound
<1>3. ASSUME ~Bound(u, c, Top), Single(stack, c) PROVE Single(u, c)
  <2>1. \A i \in 1..Top : u[i].own = c => stack[i].own = c
    BY <1>1, <1>3 DEF Bound
  <2>2. \A i \in 1..Top : u[i].word = c => stack[i].word = c \/ (i = Top /\ ref[c] = 0)
    OBVIOUS
  <2>3. CASE ref[c] # 0
    BY <1>1, <1>3, <2>1, <2>2, <2>3 DEF Single
  <2>4. CASE ref[c] = 0
    <3>1. \A i \in 1..Top : stack[i].own # c /\ stack[i].word # c
      BY <1>1, <2>4, Unheld
    <3> QED BY <3>1, <2>1, <2>2 DEF Single
  <2> QED BY <2>3, <2>4
<1>4. Alone(u, c)
  BY <1>1, <1>2, <1>3 DEF Alone, Apart
<1>5. ASSUME NEW k \in 2..Top, u[k].kind \in NsKinds, ~Bound(u, c, k - 1), Waits(u, c, k)
      PROVE  ~Bound(u, c, Top) /\ Single(u, c)
  <2>1. k \in 1..Top /\ k - 1 \in 1..Top /\ stack[k].kind \in NsKinds
    BY <1>1, <1>5
  <2>2. ~Bound(stack, c, k - 1)
    BY <1>2, <1>5, <2>1
  <2>3. Waits(stack, c, k)
    <3>1. CASE \E i \in 1..(k - 2) : u[i].word = c
      <4>1. PICK i \in 1..(k - 2) : u[i].word = c
        BY <3>1
      <4>2. i \in 1..Top /\ i # Top
        BY <1>1, <4>1
      <4> QED BY <4>1, <4>2 DEF Waits
    <3>2. CASE \E i, j \in 1..(k - 1) : i < j /\ u[j].kind \in RetKinds /\ u[i].own = c
      <4>1. PICK i \in 1..(k - 1), j \in 1..(k - 1) :
               i < j /\ u[j].kind \in RetKinds /\ u[i].own = c
        BY <3>2
      <4>2. i \in 1..Top /\ j \in 1..Top /\ stack[j].kind \in RetKinds
        BY <1>1, <4>1
      <4>3. i # RetAt
        <5>1. "top" \in RetKinds
          BY DEF RetKinds
        <5>2. \A m \in 1..Top : RetAt < m => stack[m].kind \notin RetKinds
          BY <1>1, <5>1, StackFacts, LastFacts DEF RetAt
        <5> QED BY <4>1, <4>2, <5>2
      <4>4. stack[i].own = c
        BY <4>1, <4>2, <4>3
      <4> QED BY <4>1, <4>2, <4>4 DEF Waits
    <3> QED BY <1>5, <3>1, <3>2 DEF Waits
  <2>4. ~Bound(stack, c, Top) /\ Single(stack, c)
    BY <1>1, <2>1, <2>2, <2>3 DEF Apart, AloneBelow
  <2>5. Word # c /\ ref[c] # 0
    BY <1>1, <2>3, <2>4, WaitsFacts
  <2>6. ~Bound(u, c, Top)
    <3>1. \A x \in Names : u[Ns].vars[x] # c
      BY <2>4, <2>5
    <3> QED BY <1>1, <2>4, <3>1 DEF Bound
  <2> QED BY <1>3, <2>4, <2>6
<1>6. AloneBelow(u, c)
  BY <1>5 DEF AloneBelow
<1> QED BY <1>4, <1>6 DEF Apart

\* A command that begins activation a.
LEMMA PushApart ==
    ASSUME IInv, NEW c \in Cells, NEW a \in Activations, Apart(stack, c),
           a.own = c => ref[c] = 0, a.word = NIL,
           \A x \in Names : a.vars[x] = c => Bound(stack, c, Top) \/ Word = c
    PROVE  Apart(Append(stack, a), c)
<1> DEFINE u == Append(stack, a)
<1>1. /\ Top \in Nat \ {0} /\ Top = Len(stack) /\ Word = stack[Top].word /\ Top \in 1..Top
      /\ stack \in Seq(Activations) /\ a.word # c
  BY Running, StackFacts, OneAt DEF Frames
<1>2. Len(u) = Top + 1 /\ u[Top + 1] = a /\ \A i \in 1..Top : u[i] = stack[i]
  BY <1>1
<1> HIDE DEF u
<1>3. /\ \A n \in 1..Top : Bound(u, c, n) <=> Bound(stack, c, n)
      /\ Bound(stack, c, Top) => Bound(u, c, Top + 1)
      /\ Bound(u, c, Top + 1) => Bound(stack, c, Top) \/ Word = c
  <2>1. \A i \in 1..(Top + 1) : i \in 1..Top \/ i = Top + 1
    BY <1>1
  <2>2. \A n \in 1..Top : \A i \in 1..n : i \in 1..Top /\ i \in 1..(Top + 1)
    BY <1>1
  <2> QED BY <1>1, <1>2, <2>1, <2>2 DEF Bound
<1>4. ASSUME Single(stack, c) PROVE Single(u, c)
  <2>1. \A i \in 1..(Top + 1) : i \in 1..Top \/ i = Top + 1
    BY <1>1
  <2>2. CASE ref[c] # 0
    BY <1>1, <1>2, <1>4, <2>1, <2>2 DEF Single
  <2>3. CASE ref[c] = 0
    <3>1. \A i \in 1..Top : stack[i].own # c /\ stack[i].word # c
      BY <1>1, <2>3, Unheld
    <3> QED BY <1>1, <1>2, <2>1, <3>1 DEF Single
  <2> QED BY <2>2, <2>3
<1>5. Alone(u, c)
  BY <1>1, <1>2, <1>3, <1>4 DEF Alone, Apart
<1>6. ASSUME NEW k \in 2..(Top + 1), u[k].kind \in NsKinds, ~Bound(u, c, k - 1), Waits(u, c, k)
      PROVE  ~Bound(u, c, Top + 1) /\ Single(u, c)
  <2>1. k - 1 \in 1..Top /\ ~Bound(stack, c, k - 1)
    BY <1>1, <1>3, <1>6
  <2>2. Waits(stack, c, k)
    <3>1. \A i \in 1..(k - 1) : i \in 1..Top
      BY <1>1
    <3>2. \A i \in 1..(k - 2) : i \in 1..Top
      BY <1>1
    <3> QED BY <1>2, <1>6, <3>1, <3>2 DEF Waits
  <2>3. ~Bound(stack, c, Top) /\ Single(stack, c)
    <3>1. CASE k = Top + 1
      BY <1>1, <2>1, <3>1 DEF Apart, Alone
    <3>2. CASE k # Top + 1
      <4>1. k \in 2..Top /\ k \in 1..Top
        BY <1>1, <3>2
      <4> QED BY <1>1, <1>2, <1>6, <2>1, <2>2, <4>1 DEF Apart, AloneBelow
    <3> QED BY <3>1, <3>2
  <2>4. Word # c
    BY <1>1, <2>2, <2>3, WaitsFacts
  <2> QED BY <1>3, <1>4, <2>3, <2>4
<1>7. AloneBelow(u, c)
  BY <1>2, <1>6 DEF AloneBelow
<1> QED BY <1>5, <1>7 DEF Apart, u

\* The end of a bracket, a catch, an or or an and: the word below, or the result of
\* the script around, may come to be on the cell of its result.
LEMMA PopApart ==
    ASSUME IInv, NEW c \in Cells, NEW u, Apart(stack, c),
           Top > 1, Len(u) = Top - 1, \A i \in 1..(Top - 1) : u[i].kind = stack[i].kind,
           stack[Top].kind \in RetKinds, \A x \in Names : stack[Top].vars[x] # c,
           \A i \in 1..(Top - 1) : u[i].own = c =>
               stack[i].own = c \/ (i = Outer /\ stack[Top].own = c),
           \A i \in 1..(Top - 1) : u[i].word = c =>
               stack[i].word = c \/ (i = Top - 1 /\ stack[Top].own = c),
           \A i, j \in 1..(Top - 1) : ~(u[i].own = c /\ stack[i].own # c
                                      /\ u[j].word = c /\ stack[j].word # c),
           \A i \in 1..(Top - 1) : \A x \in Names : stack[i].vars[x] = c =>
               \E y \in Names : u[i].vars[y] = c,
           \A i \in 1..(Top - 1) : \A x \in Names : u[i].vars[x] = c =>
               stack[i].vars[x] = c \/ stack[Top].own = c
    PROVE  Apart(u, c)
<1>1. Top \in Nat \ {0} /\ Top = Len(stack) /\ Top \in 1..Top
      /\ \A i \in 1..(Top - 1) : i \in 1..Top /\ i # Top
  BY Running
<1>6. RetAt = Top
  BY Running
<1>2. /\ \A n \in 1..(Top - 1) : Bound(stack, c, n) => Bound(u, c, n)
      /\ Bound(stack, c, Top) => Bound(u, c, Top - 1)
  <2>1. \A n \in 1..(Top - 1) : \A i \in 1..n : i \in 1..(Top - 1)
    BY <1>1
  <2>2. \A i \in 1..Top : i \in 1..(Top - 1) \/ i = Top
    BY <1>1
  <2> QED BY <2>1, <2>2 DEF Bound
<1>3. ASSUME Single(stack, c) PROVE Single(u, c)
  BY <1>1, <1>3 DEF Single
<1>4. Alone(u, c)
  BY <1>1, <1>2, <1>3 DEF Alone, Apart
<1>5. ASSUME NEW k \in 2..(Top - 1), u[k].kind \in NsKinds, ~Bound(u, c, k - 1), Waits(u, c, k)
      PROVE  ~Bound(u, c, Top - 1) /\ Single(u, c)
  <2>1. k - 1 \in 1..(Top - 1) /\ k \in 2..Top /\ k \in 1..(Top - 1) /\ ~Bound(stack, c, k - 1)
    BY <1>1, <1>2, <1>5
  <2>2. Waits(stack, c, k)
    <3>1. \A i \in 1..(k - 1) : i \in 1..(Top - 1)
      BY <1>1
    <3>2. \A i \in 1..(k - 2) : i \in 1..(Top - 1) /\ i # Top - 1
      BY <1>1
    <3>3. CASE \E i \in 1..(k - 2) : u[i].word = c
      BY <3>2, <3>3 DEF Waits
    <3>4. CASE \E i, j \in 1..(k - 1) : i < j /\ u[j].kind \in RetKinds /\ u[i].own = c
      <4>1. PICK i \in 1..(k - 1), j \in 1..(k - 1) :
               i < j /\ u[j].kind \in RetKinds /\ u[i].own = c
        BY <3>4
      <4>2. i \in 1..(Top - 1) /\ j \in 1..(Top - 1) /\ stack[j].kind \in RetKinds
        BY <3>1, <4>1
      <4>3. i # Outer
        BY <1>6, <4>1, <4>2, OuterFacts
      <4>4. stack[i].own = c
        BY <4>1, <4>2, <4>3
      <4> QED BY <4>1, <4>2, <4>4 DEF Waits
    <3> QED BY <1>5, <3>3, <3>4 DEF Waits
  <2>3. ~Bound(stack, c, Top) /\ Single(stack, c)
    BY <1>1, <1>5, <2>1, <2>2 DEF Apart, AloneBelow
  <2>4. stack[Top].own # c
    BY <1>1, <2>1, <2>2, <2>3, WaitsFacts
  <2>5. ~Bound(u, c, Top - 1)
    BY <1>1, <2>3, <2>4 DEF Bound
  <2> QED BY <1>3, <2>3, <2>5
<1>7. AloneBelow(u, c)
  BY <1>5 DEF AloneBelow
<1> QED BY <1>4, <1>7 DEF Apart

\* The end of a proc or an uplevel, and of the command that has begun it.
LEMMA PopNamespaceApart ==
    ASSUME IInv, NEW c \in Cells, NEW u, Apart(stack, c),
           Top > 1, Len(u) = Top - 1, stack[Top].kind \in NsKinds,
           \A i \in 1..(Top - 1) : /\ u[i].kind = stack[i].kind /\ u[i].own = stack[i].own
                                   /\ u[i].vars = stack[i].vars
                                   /\ u[i].word = c => stack[i].word = c /\ i # Top - 1
    PROVE  Apart(u, c)
<1>1. /\ Top \in Nat \ {0} /\ Top = Len(stack) /\ Top \in 1..Top /\ Top \in 2..Top
      /\ Top - 1 \in 1..Top /\ \A i \in 1..(Top - 1) : i \in 1..Top /\ i # Top
  BY Running
<1>2. \A n \in 1..(Top - 1) : Bound(stack, c, n) <=> Bound(u, c, n)
  <2>1. \A n \in 1..(Top - 1) : \A i \in 1..n : i \in 1..(Top - 1)
    BY <1>1
  <2> QED BY <2>1 DEF Bound
<1>3. ASSUME Single(stack, c) PROVE Single(u, c)
  <2>1. \A i \in 1..Len(u) : /\ i \in 1..Len(stack)
                             /\ u[i].own = c => stack[i].own = c
                             /\ u[i].word = c => stack[i].word = c
    BY <1>1
  <2> QED BY <1>3, <2>1 DEF Single
<1>4. ASSUME ~Bound(u, c, Top - 1), Bound(stack, c, Top) PROVE Single(u, c)
  <2>1. ~Waits(stack, c, Top)
    BY <1>1, <1>2, <1>4 DEF Apart, AloneBelow
  <2>2. \A i \in 1..(Top - 2) : stack[i].word # c
    BY <2>1 DEF Waits
  <2>3. \A i \in 1..(Top - 1) : u[i].word # c
    <3>1. \A i \in 1..(Top - 1) : i \in 1..(Top - 2) \/ i = Top - 1
      BY <1>1
    <3> QED BY <2>2, <3>1
  <2>4. \A i, j \in 1..(Top - 1) : i < j /\ stack[j].kind \in RetKinds => stack[i].own # c
    BY <2>1 DEF Waits
  <2>5. \A i \in 1..(Top - 1) : stack[i].own = c => stack[i].kind \in RetKinds
    <3>1. \A i \in 1..Top : Framed(stack[i])
      BY <1>1, StackFacts DEF Frames
    <3> QED BY <1>1, <3>1, OneAt DEF Framed
  <2>6. \A i, j \in 1..(Top - 1) : i < j \/ j < i \/ i = j
    BY <1>1
  <2> QED BY <2>3, <2>4, <2>5, <2>6 DEF Single
<1>5. Alone(u, c)
  BY <1>1, <1>3, <1>4 DEF Alone, Apart
<1>6. ASSUME NEW k \in 2..(Top - 1), u[k].kind \in NsKinds, ~Bound(u, c, k - 1), Waits(u, c, k)
      PROVE  ~Bound(u, c, Top - 1) /\ Single(u, c)
  <2>1. k - 1 \in 1..(Top - 1) /\ k \in 2..Top /\ k \in 1..(Top - 1) /\ ~Bound(stack, c, k - 1)
    BY <1>1, <1>2, <1>6
  <2>2. Waits(stack, c, k)
    <3>1. \A i \in 1..(k - 1) : i \in 1..(Top - 1)
      BY <1>1
    <3>2. \A i \in 1..(k - 2) : i \in 1..(Top - 1)
      BY <1>1
    <3> QED BY <1>6, <3>1, <3>2 DEF Waits
  <2>3. ~Bound(stack, c, Top) /\ Single(stack, c)
    BY <1>1, <1>6, <2>1, <2>2 DEF Apart, AloneBelow
  <2>4. ~Bound(u, c, Top - 1)
    <3>1. \A i \in 1..(Top - 1) : \A x \in Names : stack[i].vars[x] # c
      BY <1>1, <2>3 DEF Bound
    <3> QED BY <3>1 DEF Bound
  <2> QED BY <1>3, <2>3, <2>4
<1>7. AloneBelow(u, c)
  BY <1>6 DEF AloneBelow
<1> QED BY <1>5, <1>7 DEF Apart

\* Every namespace is that of an activation.
LEMMA SpacesAreBound ==
    ASSUME IInv, NEW m \in 1..Len(Spaces)
    PROVE  \E i \in 1..Top : Spaces[m] = stack[i].vars
<1> DEFINE Collects(st) == /\ SpacesOf(st) \in Seq(Bindings)
                           /\ \A n \in 1..Len(SpacesOf(st)) :
                                 \E i \in 1..Len(st) : SpacesOf(st)[n] = st[i].vars
           T == {k \in Nat : \E v \in Seq(Activations) : Len(v) = k /\ ~ Collects(v)}
<1>1. Collects(<< >>)
  <2>1. SpacesOf(<< >>) = << >>
    BY SpacesAppend, Zenon
  <2>2. << >> \in Seq(Bindings) /\ 1..Len(<< >>) = {}
    OBVIOUS
  <2> QED BY <2>1, <2>2
<1>2. ASSUME NEW u \in Seq(Activations), NEW b \in Activations, Collects(u)
      PROVE  Collects(Append(u, b))
  <2> DEFINE v == Append(u, b)
             l == SpacesOf(u)
  <2>1. Len(u) \in Nat /\ Len(v) = Len(u) + 1 /\ v[Len(u) + 1] = b
        /\ \A i \in 1..Len(u) : v[i] = u[i] /\ i \in 1..Len(v)
    OBVIOUS
  <2>2. SpacesOf(v) = Listed(l, b) /\ b.vars \in Bindings /\ l \in Seq(Bindings)
    BY <1>2, SpacesAppend DEF Activations
  <2>3. \A n \in 1..Len(l) : \E i \in 1..Len(v) : l[n] = v[i].vars
    BY <1>2, <2>1
  <2> HIDE DEF v, l
  <2>4. CASE b.kind \in NsKinds
    <3>1. SpacesOf(v) = Append(l, b.vars)
      BY <2>2, <2>4 DEF Listed
    <3>2. /\ Append(l, b.vars) \in Seq(Bindings) /\ Len(Append(l, b.vars)) = Len(l) + 1
          /\ Append(l, b.vars)[Len(l) + 1] = b.vars /\ Len(l) \in Nat
          /\ \A n \in 1..Len(l) : Append(l, b.vars)[n] = l[n]
      BY <2>2
    <3>3. \A n \in 1..(Len(l) + 1) : n \in 1..Len(l) \/ n = Len(l) + 1
      BY <3>2
    <3>4. Len(u) + 1 \in 1..Len(v)
      BY <2>1
    <3>5. \A n \in 1..(Len(l) + 1) : \E i \in 1..Len(v) : Append(l, b.vars)[n] = v[i].vars
      BY <2>1, <2>3, <3>2, <3>3, <3>4
    <3> QED BY <3>1, <3>2, <3>5 DEF v
  <2>5. CASE b.kind \notin NsKinds
    BY <2>2, <2>3, <2>5 DEF Listed, v
  <2> QED BY <2>4, <2>5
<1>3. T = {}
  <2> SUFFICES ASSUME T # {} PROVE FALSE
    OBVIOUS
  <2> HIDE DEF Collects
  <2>1. T \subseteq Nat
    OBVIOUS
  <2>2. PICK k \in T : \A j \in T : k <= j
    <3> HIDE DEF T
    <3> QED BY <2>1, LeastElement
  <2>3. PICK v \in Seq(Activations) : Len(v) = k /\ ~ Collects(v)
    OBVIOUS
  <2>4. v # << >> /\ k \in Nat
    BY <1>1, <2>3
  <2>5. PICK u \in Seq(Activations), b \in Activations : v = Append(u, b)
    BY <2>4, SequenceEmptyOrAppend
  <2>6. k - 1 \in Nat /\ ~(k <= k - 1) /\ Len(u) = k - 1
    BY <2>3, <2>4, <2>5, AppendProperties
  <2>7. Collects(u)
    <3>1. k - 1 \notin T
      <4> HIDE DEF T
      <4> QED BY <2>2, <2>6
    <3> QED BY <2>6, <3>1
  <2> QED BY <2>3, <2>5, <2>7, <1>2
<1>4. stack \in Seq(Activations) /\ Top = Len(stack)
  BY StackFacts DEF Frames
<1>5. Spaces = SpacesOf(stack)
  BY Zenon DEF Spaces, SpacesOf, Listed
<1>6. Collects(stack)
  <2> HIDE DEF Collects
  <2> QED BY <1>3, <1>4
<1> QED BY <1>4, <1>5, <1>6

LEMMA GetNamespaceBound ==
    ASSUME IInv, NEW idx \in Nat, NEW x \in Names, NEW c \in Cells,
           GetNamespace(Spaces, idx)[x] = c
    PROVE  Bound(stack, c, Top)
<1> DEFINE n == Len(Spaces)
<1>1. n \in Nat \ {0}
  BY SpacesFacts
<1>2. idx < n
  <2>1. ASSUME ~(idx < n) PROVE FALSE
    <3>1. GetNamespace(Spaces, idx) = Unbound
      BY <2>1 DEF GetNamespace
    <3> QED BY <3>1, OneAt DEF Unbound
  <2> QED BY <2>1
<1>3. n - idx \in 1..n /\ Spaces[n - idx][x] = c
  BY <1>1, <1>2 DEF GetNamespace
<1> QED BY <1>3, SpacesAreBound DEF Bound

LEMMA VariableUpBound ==
    ASSUME IInv, NEW level \in 0..MaxDepth, NEW x \in Names, NEW c \in Cells,
           VariableUp(Spaces, x, level) = c
    PROVE  Bound(stack, c, Top)
<1> DEFINE n == Len(Spaces)
           having == {i \in 1..n : Spaces[i][x] # NIL}
<1>1. Spaces \in Seq(Bindings) /\ n \in Nat \ {0} /\ Current(Spaces) = Local /\ c # NIL
  BY SpacesFacts, OneAt
<1>2. level \in Nat /\ Ns \in 1..Top /\ Local = stack[Ns].vars
  BY Running DEF Local
<1>3. CASE level > 0
  <2>1. GetNamespace(Spaces, level - 1)[x] = c /\ level - 1 \in Nat
    BY <1>2, <1>3 DEF VariableUp
  <2> QED BY <2>1, GetNamespaceBound
<1>4. CASE level = 0 /\ Local[x] # NIL
  <2>1. VariableUp(Spaces, x, level) = Local[x]
    <3>1. n \in 1..n /\ Spaces[n] = Local
      BY <1>1 DEF Current
    <3>2. having # {}
      BY <1>4, <3>1
    <3> HIDE DEF having
    <3> QED BY <1>1, <1>4, <3>2 DEF VariableUp, having
  <2> QED BY <1>2, <2>1 DEF Bound
<1>5. CASE level = 0 /\ Local[x] = NIL /\ having = {}
  BY <1>1, <1>5 DEF VariableUp
<1>6. CASE level = 0 /\ Local[x] = NIL /\ having # {}
  <2> DEFINE i == CHOOSE i \in having : \A j \in having : i <= j
  <2>1. VariableUp(Spaces, x, level) = Spaces[i][x]
    BY <1>1, <1>6 DEF VariableUp
  <2>2. having \subseteq Nat
    BY <1>1
  <2>3. \E k \in having : \A j \in having : k <= j
    <3> HIDE DEF having
    <3> QED BY <1>6, <2>2, LeastElement
  <2>4. i \in having
    <3> HIDE DEF having
    <3> QED BY <2>3
  <2> HIDE DEF i
  <2>5. i \in 1..n /\ Spaces[i][x] = c
    BY <2>1, <2>4
  <2> QED BY <2>5, SpacesAreBound DEF Bound
<1> QED BY <1>2, <1>3, <1>4, <1>5, <1>6

-----------------------------------------------------------------------------
(* Every action keeps the handles apart.                                   *)

\* A step as far as cell c goes.
Passes(c) == lost'[c] = 0 => lost[c] = 0 /\ (Apart(stack, c) => Apart(stack', c))

LEMMA CountPasses ==
    ASSUME IInv, NEW c \in Cells, NEW taken, NEW freed, Count(taken, freed)
    PROVE  lost'[c] = lost[c]
  BY OneAt DEF Count, CountLosing, IInv

LEMMA SpentWords ==
    ASSUME IInv, NEW st, Frames(st), Len(st) = Top
    PROVE  /\ Len(Spent(st)) = Top /\ Spent(st)[Top].word = NIL
           /\ \A j \in 1..Top : /\ Spent(st)[j].kind = st[j].kind
                                /\ Spent(st)[j].vars = st[j].vars /\ Spent(st)[j].own = st[j].own
                                /\ j # Top => Spent(st)[j].word = st[j].word
<1> DEFINE u == WithWord(st, Top, NIL)
<1>1. Top \in 1..Len(st) /\ NIL \in Cells \cup {NIL}
  BY Running
<1>2. /\ Frames(u) /\ AsBefore(u, st) /\ u[Top].word = NIL
      /\ \A j \in 1..Len(st) : /\ u[j].vars = st[j].vars /\ u[j].own = st[j].own
                               /\ j # Top => u[j].word = st[j].word
  BY <1>1, WordChanged
<1>3. Spent(st) = u
  BY DEF Spent, WithWord
<1> HIDE DEF u
<1> QED BY <1>2, <1>3 DEF AsBefore

\* The variables of the running command, after one of them is bound anew.
LEMMA BindVars ==
    ASSUME IInv, NEW x \in Names, NEW d
    PROVE  \A y \in Names : Bind(x, d)[Ns].vars[y] = IF y = x THEN d ELSE Local[y]
<1>1. stack \in Seq(Activations) /\ Ns \in 1..Len(stack) /\ Local = stack[Ns].vars
  BY StackFacts DEF Frames
<1>2. stack[Ns] \in Activations /\ stack[Ns].vars \in Bindings
  BY <1>1, StackFacts, FrameTypes
<1> DEFINE a == [stack[Ns] EXCEPT !.vars = Rebind(stack[Ns].vars, x, d)]
<1>3. Bind(x, d)[Ns] = a
  BY <1>1 DEF Bind, Rebind
<1>4. a.vars = Rebind(stack[Ns].vars, x, d)
  BY <1>2 DEF Activations
<1> QED BY <1>1, <1>2, <1>3, <1>4 DEF Bindings, Rebind

\* A word begins, or grows.
LEMMA WordApart ==
    ASSUME IInv, NEW c \in Cells, NEW d \in Cells, d = Word \/ ref[d] = 0, Apart(stack, c)
    PROVE  Apart(WithWord(stack, Top, d), c)
<1> DEFINE u == WithWord(stack, Top, d)
<1>1. /\ Word = stack[Top].word /\ Top = Len(stack) /\ Local = stack[Ns].vars
      /\ Ns \in 1..Len(stack) /\ Frames(stack) /\ Top \in 1..Len(stack) /\ d \in Cells \cup {NIL}
  BY StackFacts
<1>2. /\ AsBefore(u, stack) /\ u[Top].word = d
      /\ \A j \in 1..Len(stack) : /\ u[j].own = stack[j].own /\ u[j].vars = stack[j].vars
                                  /\ j # Top => u[j].word = stack[j].word
  BY <1>1, WordChanged, SMTT(30)
<1> HIDE DEF u
<1>3. Len(u) = Top /\ \A i \in 1..Top : u[i].kind = stack[i].kind
  BY <1>1, <1>2 DEF AsBefore
<1>4. \A i \in 1..Top : u[i].word = c => stack[i].word = c \/ (i = Top /\ ref[c] = 0)
  BY <1>1, <1>2
<1>5. \A x \in Names : u[Ns].vars[x] = c => Bound(stack, c, Top)
  BY <1>1, <1>2 DEF Bound
<1>6. Apart(u, c)
  BY <1>1, <1>2, <1>3, <1>4, <1>5, InPlaceApart
<1> QED BY <1>6 DEF u

LEMMA LiteralApart ==
    ASSUME IInv, NEW c \in Cells, NEW t \in {"w"} \cup Numbers, NEW d \in Cells, Literal(t, d)
    PROVE  Passes(c)
<1>1. /\ stack' = WithWord(stack, Top, d) /\ lost'[c] = lost[c]
      /\ d = Word \/ ref[d] = 0
  BY CountPasses DEF Literal, WithWord, FreeCells
<1> QED BY <1>1, WordApart DEF Passes

LEMMA SubstituteApart ==
    ASSUME IInv, NEW c \in Cells, NEW x \in Names, NEW d \in Cells, Substitute(x, d)
    PROVE  Passes(c)
<1>1. /\ stack' = WithWord(stack, Top, d) /\ lost'[c] = lost[c]
      /\ d = Word \/ ref[d] = 0
  BY CountPasses DEF Substitute, WithWord, FreeCells
<1> QED BY <1>1, WordApart DEF Passes

LEMMA SpentApart ==
    ASSUME IInv, NEW c \in Cells, Apart(stack, c) PROVE Apart(Spent(stack), c)
<1> DEFINE u == Spent(stack)
<1>1. /\ Len(u) = Top /\ u[Top].word = NIL
      /\ \A j \in 1..Top : /\ u[j].kind = stack[j].kind
                           /\ u[j].vars = stack[j].vars /\ u[j].own = stack[j].own
                           /\ j # Top => u[j].word = stack[j].word
  BY StackFacts, SpentWords
<1> HIDE DEF u
<1>2. c # NIL /\ Ns \in 1..Top
  BY OneAt, Running
<1>3. \A x \in Names : u[Ns].vars[x] = c => Bound(stack, c, Top)
  BY <1>1, <1>2 DEF Bound
<1>4. Apart(u, c)
  BY <1>1, <1>2, <1>3, InPlaceApart
<1> QED BY <1>4 DEF u

LEMMA SetReadApart ==
    ASSUME IInv, NEW c \in Cells, NEW x \in Names, SetRead(x) PROVE Passes(c)
<1> DEFINE d == Local[x]
           u == WithOwn(stack, RetAt, d)
<1>1. stack' = u /\ lost'[c] = lost[c]
  BY CountPasses DEF SetRead, WithOwn
<1>2. d \in Cells /\ Local = stack[Ns].vars /\ Ns \in 1..Top /\ Top = Len(stack)
  BY Running, StackFacts DEF SetRead
<1> HIDE DEF d
<1>3. /\ AsBefore(u, stack) /\ u[RetAt].own = d
      /\ \A j \in 1..Len(stack) : /\ u[j].word = stack[j].word /\ u[j].vars = stack[j].vars
                                  /\ j # RetAt => u[j].own = stack[j].own
  BY <1>2, StackFacts, OwnChanged, SMTT(30)
<1> HIDE DEF u
<1>4. ASSUME Apart(stack, c) PROVE Apart(u, c)
  <2>1. Len(u) = Top /\ \A i \in 1..Top : u[i].kind = stack[i].kind
    BY <1>2, <1>3 DEF AsBefore
  <2>2. \A i \in 1..Top : u[i].own = c =>
           stack[i].own = c \/ (i = RetAt /\ \E y \in Names : u[Ns].vars[y] = c)
    BY <1>2, <1>3 DEF d
  <2>3. \A y \in Names : u[Ns].vars[y] = c => Bound(stack, c, Top)
    BY <1>2, <1>3 DEF Bound
  <2> QED BY <1>2, <1>3, <1>4, <2>1, <2>2, <2>3, InPlaceApart
<1> QED BY <1>1, <1>4 DEF Passes

LEMMA SetOldApart ==
    ASSUME IInv, NEW c \in Cells, NEW x \in Names, SetOld(x) PROVE Passes(c)
<1> DEFINE d == Local[x]
           t == WithOwn(stack, RetAt, d)
           u == Spent(t)
<1>1. stack' = u /\ lost'[c] = lost[c]
  BY CountPasses DEF SetOld, WithOwn
<1>2. d \in Cells /\ Local = stack[Ns].vars /\ Ns \in 1..Top /\ Top = Len(stack)
  BY Running, StackFacts DEF SetOld
<1> HIDE DEF d
<1>3. /\ Frames(t) /\ AsBefore(t, stack) /\ t[RetAt].own = d
      /\ \A j \in 1..Len(stack) : /\ t[j].word = stack[j].word /\ t[j].vars = stack[j].vars
                                  /\ j # RetAt => t[j].own = stack[j].own
  BY <1>2, StackFacts, OwnChanged, SMTT(30)
<1> HIDE DEF t
<1>4. /\ Len(u) = Top /\ u[Top].word = NIL
      /\ \A j \in 1..Top : /\ u[j].kind = t[j].kind
                           /\ u[j].vars = t[j].vars /\ u[j].own = t[j].own
                           /\ j # Top => u[j].word = t[j].word
  BY <1>2, <1>3, SpentWords DEF AsBefore
<1> HIDE DEF u
<1>5. ASSUME Apart(stack, c) PROVE Apart(u, c)
  <2>1. Len(u) = Top /\ \A i \in 1..Top : u[i].kind = stack[i].kind
    BY <1>2, <1>3, <1>4 DEF AsBefore
  <2>2. \A i \in 1..Top : u[i].own = c =>
           stack[i].own = c \/ (i = RetAt /\ \E y \in Names : u[Ns].vars[y] = c)
    BY <1>2, <1>3, <1>4 DEF d
  <2>3. \A y \in Names : u[Ns].vars[y] = c => Bound(stack, c, Top)
    BY <1>2, <1>3, <1>4 DEF Bound
  <2>4. \A i \in 1..Top : u[i].word = c => stack[i].word = c
    BY <1>2, <1>3, <1>4, OneAt
  <2>5. \A i \in 1..Top : u[i].vars = stack[i].vars
    BY <1>2, <1>3, <1>4
  <2> QED BY <1>2, <1>5, <2>1, <2>2, <2>3, <2>4, <2>5, InPlaceApart
<1> QED BY <1>1, <1>5 DEF Passes

LEMMA SetNewApart ==
    ASSUME IInv, NEW c \in Cells, NEW x \in Names, SetNew(x) PROVE Passes(c)
<1> DEFINE s == Bind(x, Word)
           t == WithOwn(s, RetAt, Word)
           u == Spent(t)
<1>1. stack' = u /\ lost'[c] = lost[c]
  BY CountPasses DEF SetNew, WithOwn
<1>2. /\ Word \in Cells /\ Local[x] = NIL /\ Local = stack[Ns].vars /\ Ns \in 1..Top
      /\ Top = Len(stack) /\ c # NIL
  BY Running, StackFacts, OneAt DEF SetNew
<1>3. /\ Frames(s) /\ AsBefore(s, stack)
      /\ \A j \in 1..Top : /\ s[j].own = stack[j].own /\ s[j].word = stack[j].word
                           /\ j # Ns => s[j].vars = stack[j].vars
      /\ \A y \in Names : s[Ns].vars[y] = IF y = x THEN Word ELSE Local[y]
  BY <1>2, BindFacts, BindVars DEF Moved
<1> HIDE DEF s
<1>4. RetAt \in 1..Len(s) /\ s[RetAt].kind \in RetKinds /\ Len(s) = Top
  BY <1>3, StackFacts DEF AsBefore
<1>5. /\ Frames(t) /\ AsBefore(t, s) /\ t[RetAt].own = Word
      /\ \A j \in 1..Len(s) : /\ t[j].word = s[j].word /\ t[j].vars = s[j].vars
                              /\ j # RetAt => t[j].own = s[j].own
  BY <1>2, <1>3, <1>4, OwnChanged
<1> HIDE DEF t
<1>6. /\ Len(u) = Top /\ u[Top].word = NIL
      /\ \A j \in 1..Top : /\ u[j].kind = t[j].kind
                           /\ u[j].vars = t[j].vars /\ u[j].own = t[j].own
                           /\ j # Top => u[j].word = t[j].word
  BY <1>4, <1>5, SpentWords DEF AsBefore
<1> HIDE DEF u
<1>7. ASSUME Apart(stack, c) PROVE Apart(u, c)
  <2>1. Len(u) = Top /\ \A i \in 1..Top : u[i].kind = stack[i].kind
    BY <1>2, <1>3, <1>4, <1>5, <1>6 DEF AsBefore
  <2>2. \A y \in Names : u[Ns].vars[y] = IF y = x THEN Word ELSE Local[y]
    <3>1. u[Ns].vars = s[Ns].vars
      BY <1>2, <1>4, <1>5, <1>6
    <3> QED BY <1>3, <3>1
  <2>3. \A i \in 1..Top : u[i].own = c =>
           stack[i].own = c \/ (i = RetAt /\ \E y \in Names : u[Ns].vars[y] = c)
    BY <1>2, <1>3, <1>4, <1>5, <1>6, <2>2
  <2>4. \A i \in 1..Top : u[i].word = c => stack[i].word = c
    BY <1>2, <1>3, <1>4, <1>5, <1>6
  <2>5. \A i \in 1..Top : i # Ns => u[i].vars = stack[i].vars
    BY <1>2, <1>3, <1>4, <1>5, <1>6
  <2>6. /\ \A y \in Names : stack[Ns].vars[y] = c => u[Ns].vars[y] = c
        /\ \A y \in Names : u[Ns].vars[y] = c => stack[Ns].vars[y] = c \/ Word = c
    BY <1>2, <2>2
  <2>7. \A y \in Names : u[Ns].vars[y] = c => Bound(stack, c, Top) \/ Word = c
    BY <1>2, <2>6 DEF Bound
  <2> QED BY <1>7, <2>1, <2>3, <2>4, <2>5, <2>6, <2>7, InPlaceApart
<1> QED BY <1>1, <1>7 DEF Passes

\* A variable of the running command comes to be bound to a cell that was free
\* or that some variable has; the cell it had is forgotten.
LEMMA BindApart ==
    ASSUME IInv, NEW c \in Cells, NEW x \in Names, NEW d \in Cells, Apart(stack, c),
           Local[x] # c, ref[d] = 0 \/ Bound(stack, d, Top)
    PROVE  Apart(Bind(x, d), c)
<1> DEFINE u == Bind(x, d)
<1>1. /\ AsBefore(u, stack)
      /\ \A j \in 1..Top : /\ u[j].own = stack[j].own /\ u[j].word = stack[j].word
                           /\ j # Ns => u[j].vars = stack[j].vars
      /\ \A y \in Names : u[Ns].vars[y] = IF y = x THEN d ELSE Local[y]
  BY BindFacts, BindVars
<1> HIDE DEF u
<1>2. Local = stack[Ns].vars /\ Ns \in 1..Top /\ Top = Len(stack)
  BY StackFacts
<1>3. Len(u) = Top /\ \A i \in 1..Top : u[i].kind = stack[i].kind
  BY <1>1, <1>2 DEF AsBefore
<1>4. /\ \A y \in Names : stack[Ns].vars[y] = c => u[Ns].vars[y] = c
      /\ \A y \in Names : u[Ns].vars[y] = c => stack[Ns].vars[y] = c \/ d = c
  BY <1>1, <1>2
<1>5. \A y \in Names : u[Ns].vars[y] = c => Bound(stack, c, Top) \/ ref[c] = 0
  BY <1>2, <1>4 DEF Bound
<1>6. Apart(u, c)
  BY <1>1, <1>3, <1>4, <1>5, InPlaceApart
<1> QED BY <1>6 DEF u

LEMMA ForeachAssignApart ==
    ASSUME IInv, NEW c \in Cells, NEW x \in Names, NEW d \in Cells, ForeachAssign(x, d)
    PROVE  Passes(c)
<1>1. lost'[c] = lost[c] /\ c # NIL
  BY CountPasses, OneAt DEF ForeachAssign
<1>2. stack' = stack \/ (Local[x] = NIL /\ ref[d] = 0 /\ stack' = Bind(x, d))
  BY DEF ForeachAssign, FreeCells
<1>3. ASSUME Apart(stack, c) PROVE Apart(stack', c)
  <2>1. CASE stack' = stack
    BY <1>3, <2>1
  <2>2. CASE Local[x] = NIL /\ ref[d] = 0 /\ stack' = Bind(x, d)
    <3>1. Apart(Bind(x, d), c)
      BY <1>1, <1>3, <2>2, BindApart
    <3> QED BY <2>2, <3>1
  <2> QED BY <1>2, <2>1, <2>2
<1> QED BY <1>1, <1>3 DEF Passes

LEMMA UpvarApart ==
    ASSUME IInv, NEW c \in Cells, NEW level \in 0..MaxDepth, NEW x \in Names, NEW y \in Names,
           Upvar(level, x, y)
    PROVE  Passes(c)
<1> DEFINE d == VariableUp(Spaces, x, level)
<1>1. stack' = Bind(y, d) /\ CountLosing(One(d), None, One(Local[y])) /\ d # NIL
  BY DEF Upvar
<1>2. d \in Cells
  BY <1>1, VariableUpFacts
<1>3. Bound(stack, d, Top)
  BY <1>2, VariableUpBound
<1> HIDE DEF d
<1>4. lost'[c] = lost[c] + One(Local[y])[c] /\ lost[c] \in Nat
  BY <1>1 DEF CountLosing, IInv
<1>5. One(Local[y])[c] = IF c = Local[y] THEN 1 ELSE 0
  BY OneFacts
<1>6. lost'[c] = 0 => lost[c] = 0 /\ Local[y] # c
  BY <1>4, <1>5
<1>7. ASSUME Apart(stack, c), Local[y] # c PROVE Apart(Bind(y, d), c)
  BY <1>2, <1>3, <1>7, BindApart
<1> QED BY <1>1, <1>6, <1>7 DEF Passes

LEMMA PushPasses ==
    ASSUME IInv, NEW c \in Cells, NEW kind \in Inner, NEW d \in Cells, Push(kind, d)
    PROVE  Passes(c)
<1> DEFINE a == [kind |-> kind, vars |-> Unbound, own |-> d, word |-> NIL]
<1>1. stack' = Append(stack, a) /\ lost'[c] = lost[c] /\ ref[d] = 0 /\ c # NIL
  BY CountPasses, OneAt DEF Push, FreeCells
<1>2. a \in Activations /\ a.own = d /\ a.word = NIL /\ a.vars = Unbound
  BY UnboundFacts DEF Activations, Kinds, NsKinds, RetKinds, Inner
<1> HIDE DEF a
<1>3. \A x \in Names : a.vars[x] # c
  BY <1>1, <1>2 DEF Unbound
<1>4. ASSUME Apart(stack, c) PROVE Apart(Append(stack, a), c)
  BY <1>1, <1>2, <1>3, <1>4, PushApart
<1> QED BY <1>1, <1>4 DEF Passes

LEMMA CallPasses ==
    ASSUME IInv, NEW c \in Cells, NEW x \in Names, Call(x) PROVE Passes(c)
<1> DEFINE b == Rebind(Unbound, x, Word)
           a == [kind |-> "proc", own |-> NIL, word |-> NIL, vars |-> b]
<1>1. stack' = Append(stack, a) /\ lost'[c] = lost[c] /\ Word \in Cells /\ c # NIL
  BY CountPasses, Running, OneAt DEF Call, Rebind
<1>2. b \in Bindings /\ \A y \in Names : b[y] = IF y = x THEN Word ELSE NIL
  BY <1>1, UnboundFacts DEF Rebind, Bindings, Unbound
<1> HIDE DEF b
<1>3. a \in Activations /\ a.own = NIL /\ a.word = NIL /\ a.vars = b
  BY <1>2 DEF Activations, Kinds, NsKinds
<1> HIDE DEF a
<1>4. ASSUME Apart(stack, c) PROVE Apart(Append(stack, a), c)
  BY <1>1, <1>2, <1>3, <1>4, PushApart
<1> QED BY <1>1, <1>4 DEF Passes

LEMMA UplevelPasses ==
    ASSUME IInv, NEW c \in Cells, NEW level \in 0..MaxDepth, Uplevel(level) PROVE Passes(c)
<1> DEFINE up == UpNamespace(Spaces, level)
           b == Overlaid(Spaces, level)
           hidden(d) == Cardinality({x \in Names : up[x] = d /\ Local[x] # NIL})
           a == [kind |-> "uplevel", own |-> NIL, word |-> NIL, vars |-> b]
<1>1. stack' = Append(stack, a) /\ lost'[c] = lost[c] + hidden(c) /\ c # NIL /\ lost[c] \in Nat
  BY OneAt DEF Uplevel, CountLosing, IInv
<1>2. up \in Bindings /\ Local \in Bindings /\ Current(Spaces) = Local
      /\ Local = stack[Ns].vars /\ Ns \in 1..Top
  BY UpNamespaceFacts, Running, SpacesFacts, StackFacts
<1>3. \A x \in Names : b[x] = IF Local[x] # NIL THEN Local[x] ELSE up[x]
  BY <1>2 DEF Overlaid
<1>4. b \in Bindings
  BY <1>2 DEF Overlaid, Bindings
<1>5. \A x \in Names : up[x] = c => Bound(stack, c, Top)
  <2> SUFFICES ASSUME NEW x \in Names, up[x] = c PROVE Bound(stack, c, Top)
    OBVIOUS
  <2>1. level # 0
    BY <1>1 DEF UpNamespace, Unbound
  <2>2. level \in Nat /\ GetNamespace(Spaces, level)[x] = c
    BY <2>1 DEF UpNamespace
  <2> QED BY <2>2, GetNamespaceBound
<1>6. hidden(c) \in Nat
  <2>1. {x \in Names : up[x] = c /\ Local[x] # NIL} \in SUBSET Names /\ IsFiniteSet(Names)
    BY VarsAssumption
  <2> QED BY <2>1, FS_Subset, FS_CardinalityType
<1> HIDE DEF up, b, hidden
<1>7. a \in Activations /\ a.own = NIL /\ a.word = NIL /\ a.vars = b
  BY <1>4 DEF Activations, Kinds, NsKinds
<1> HIDE DEF a
<1>8. \A x \in Names : a.vars[x] = c => Bound(stack, c, Top)
  <2>1. \A x \in Names : Local[x] = c => Bound(stack, c, Top)
    BY <1>2 DEF Bound
  <2> QED BY <1>3, <1>5, <1>7, <2>1
<1>9. ASSUME Apart(stack, c) PROVE Apart(Append(stack, a), c)
  BY <1>1, <1>7, <1>8, <1>9, PushApart
<1>10. lost'[c] = 0 => lost[c] = 0
  BY <1>1, <1>6
<1> QED BY <1>1, <1>9, <1>10 DEF Passes

LEMMA PopNamespacePasses ==
    ASSUME IInv, NEW c \in Cells, NEW kind \in {"proc", "uplevel"}, PopNamespace(kind)
    PROVE  Passes(c)
<1> DEFINE f == Front(stack)
           u == WithWord(f, Top - 1, NIL)
<1>1. stack' = u /\ lost'[c] = lost[c] /\ stack[Top].kind = kind /\ c # NIL
  BY CountPasses, OneAt DEF PopNamespace, WithWord
<1>2. /\ stack[Top].kind # "top" /\ stack[Top].kind \in NsKinds /\ NIL \in Cells \cup {NIL}
      /\ Frames(stack) /\ Len(stack) = Top
  BY <1>1, StackFacts DEF NsKinds
<1>3. /\ Frames(f) /\ Len(f) = Top - 1 /\ Top - 1 \in 1..Top
      /\ \A j \in 1..(Top - 1) : f[j] = stack[j]
  BY <1>2, PopFacts
<1> HIDE DEF f
<1>4. Top - 1 \in 1..Len(f) /\ Top > 1
  BY <1>3, Running
<1>5. /\ AsBefore(u, f) /\ u[Top - 1].word = NIL
      /\ \A j \in 1..Len(f) : /\ u[j].own = f[j].own /\ u[j].vars = f[j].vars
                              /\ j # Top - 1 => u[j].word = f[j].word
  <2>1. Frames(f) /\ Top - 1 \in 1..Len(f) /\ NIL \in Cells \cup {NIL}
    BY <1>3, <1>4
  <2> QED BY <2>1, WordChanged
<1> HIDE DEF u
<1>6. /\ Len(u) = Top - 1
      /\ \A i \in 1..(Top - 1) : /\ u[i].kind = stack[i].kind /\ u[i].own = stack[i].own
                                 /\ u[i].vars = stack[i].vars
                                 /\ u[i].word = c => stack[i].word = c /\ i # Top - 1
  BY <1>1, <1>3, <1>5 DEF AsBefore
<1>7. ASSUME Apart(stack, c) PROVE Apart(u, c)
  BY <1>2, <1>4, <1>6, <1>7, PopNamespaceApart
<1> QED BY <1>1, <1>7 DEF Passes

\* The end of a script with a result of its own, whose handle is deleted.
LEMMA FrontApart ==
    ASSUME IInv, NEW c \in Cells, stack[Top].kind \in Inner, Word = NIL, Apart(stack, c)
    PROVE  Apart(Front(stack), c)
<1> DEFINE f == Front(stack)
<1>1. /\ Len(f) = Top - 1 /\ Top - 1 \in 1..Top
      /\ \A j \in 1..(Top - 1) : f[j] = stack[j]
  BY FrontMoves
<1> HIDE DEF f
<1>2. /\ stack[Top].kind \in RetKinds /\ \A x \in Names : stack[Top].vars[x] # c
      /\ Top > 1
  <2>1. stack[Top].kind \in RetKinds /\ stack[Top].vars = Unbound
    BY ResultOnly
  <2>2. Top > 1 /\ c # NIL
    BY <1>1, Running, OneAt
  <2> QED BY <2>1, <2>2 DEF Unbound
<1>3. \A i \in 1..(Top - 1) : /\ f[i].kind = stack[i].kind /\ f[i].own = stack[i].own
                              /\ f[i].word = stack[i].word /\ f[i].vars = stack[i].vars
  BY <1>1
<1>4. Apart(f, c)
  BY <1>1, <1>2, <1>3, PopApart
<1> QED BY <1>4 DEF f

LEMMA CloseBracketPasses ==
    ASSUME IInv, NEW c \in Cells, NEW ok \in BOOLEAN, CloseBracket(ok) PROVE Passes(c)
<1> DEFINE f == Front(stack)
           u == WithWord(f, Top - 1, Ret)
<1>1. stack[Top].kind = "bracket" /\ Word = NIL
  BY DEF CloseBracket
<1>2. /\ stack[Top].kind # "top" /\ stack[Top].kind \in RetKinds /\ Ret \in Cells \cup {NIL}
      /\ Ret = stack[Top].own /\ Frames(stack) /\ Len(stack) = Top /\ Top \in 1..Top
  BY <1>1, ResultOnly, Running, StackFacts DEF Inner
<1>3. /\ Frames(f) /\ Len(f) = Top - 1 /\ Top - 1 \in 1..Top
      /\ \A j \in 1..(Top - 1) : f[j] = stack[j]
  BY <1>2, PopFacts
<1>4. (stack' = f \/ stack' = u) /\ lost'[c] = lost[c] /\ c # NIL
  BY CountPasses, OneAt DEF CloseBracket, WithWord
<1> HIDE DEF f
<1>5. Top - 1 \in 1..Len(f) /\ Top > 1
  BY <1>3, Running
<1>6. /\ AsBefore(u, f) /\ u[Top - 1].word = Ret
      /\ \A j \in 1..Len(f) : /\ u[j].own = f[j].own /\ u[j].vars = f[j].vars
                              /\ j # Top - 1 => u[j].word = f[j].word
  BY <1>2, <1>3, <1>5, WordChanged
<1> HIDE DEF u
<1>7. \A x \in Names : stack[Top].vars[x] # c
  <2>1. stack[Top].vars = Unbound
    BY <1>1, ResultOnly DEF Inner
  <2> QED BY <1>4, <2>1 DEF Unbound
<1>8. ASSUME Apart(stack, c) PROVE Apart(f, c)
  BY <1>1, <1>8, FrontApart DEF Inner, f
<1>9. ASSUME Apart(stack, c) PROVE Apart(u, c)
  <2>1. \A i \in 1..(Top - 1) : /\ u[i].kind = stack[i].kind /\ u[i].own = stack[i].own
                                /\ u[i].vars = stack[i].vars
                                /\ i # Top - 1 => u[i].word = stack[i].word
    BY <1>3, <1>6 DEF AsBefore
  <2>2. Len(u) = Top - 1
    BY <1>3, <1>6 DEF AsBefore
  <2>3. \A i \in 1..(Top - 1) : u[i].word = c =>
           stack[i].word = c \/ (i = Top - 1 /\ stack[Top].own = c)
    BY <1>2, <1>6, <2>1
  <2> QED BY <1>2, <1>5, <1>7, <1>9, <2>1, <2>2, <2>3, PopApart
<1> QED BY <1>4, <1>8, <1>9 DEF Passes

LEMMA CloseCatchAlonePasses ==
    ASSUME IInv, NEW c \in Cells, NEW status \in Numbers, CloseCatchAlone(status)
    PROVE  Passes(c)
<1>1. /\ stack[Top].kind \in Inner /\ Word = NIL /\ stack' = Front(stack)
      /\ lost'[c] = lost[c]
  BY CountPasses DEF CloseCatchAlone, Inner
<1> QED BY <1>1, FrontApart DEF Passes

LEMMA CloseLogicPasses ==
    ASSUME IInv, NEW c \in Cells, NEW ok \in BOOLEAN, CloseLogic(ok) PROVE Passes(c)
<1> DEFINE f == Front(stack)
           u == WithOwn(f, Outer, Ret)
<1>1. /\ stack[Top].kind \in Inner /\ Word = NIL /\ lost'[c] = lost[c]
      /\ stack' = u \/ stack' = f
  BY CountPasses DEF CloseLogic, WithOwn, Inner
<1>2. ASSUME Apart(stack, c) PROVE Apart(f, c)
  BY <1>1, <1>2, FrontApart
<1>3. ASSUME Apart(stack, c) PROVE Apart(u, c)
  <2>1. /\ Frames(f) /\ Len(f) = Top - 1 /\ Top - 1 \in 1..Top
        /\ \A j \in 1..(Top - 1) : f[j] = stack[j]
    BY <1>1, FrontMoves
  <2>2. /\ stack[Top].kind \in RetKinds /\ stack[Top].vars = Unbound /\ RetAt = Top
        /\ Ret = stack[Top].own /\ Ret \in Cells /\ Top > 1 /\ c # NIL
    BY <1>1, <2>1, ResultOnly, Running, OneAt
  <2>3. Outer \in 1..(Top - 1) /\ stack[Outer].kind \in RetKinds
    BY <2>2, OuterFacts
  <2>4. Outer \in 1..Len(f) /\ f[Outer].kind \in RetKinds
    BY <2>1, <2>3
  <2> HIDE DEF f
  <2>5. /\ AsBefore(u, f) /\ u[Outer].own = Ret
        /\ \A j \in 1..Len(f) : /\ u[j].word = f[j].word /\ u[j].vars = f[j].vars
                                /\ j # Outer => u[j].own = f[j].own
    BY <2>1, <2>2, <2>4, OwnChanged, SMTT(30)
  <2> HIDE DEF u
  <2>6. Len(u) = Top - 1 /\ \A i \in 1..(Top - 1) : u[i].kind = stack[i].kind
    BY <2>1, <2>5 DEF AsBefore
  <2>7. \A i \in 1..(Top - 1) : /\ u[i].word = stack[i].word /\ u[i].vars = stack[i].vars
                                /\ i # Outer => u[i].own = stack[i].own
    BY <2>1, <2>5
  <2>8. \A x \in Names : stack[Top].vars[x] # c
    BY <2>2 DEF Unbound
  <2>9. \A i \in 1..(Top - 1) : u[i].own = c =>
           stack[i].own = c \/ (i = Outer /\ stack[Top].own = c)
    BY <2>2, <2>5, <2>7
  <2> QED BY <1>3, <2>2, <2>6, <2>7, <2>8, <2>9, PopApart
<1> QED BY <1>1, <1>2, <1>3 DEF Passes

LEMMA CloseCatchPasses ==
    ASSUME IInv, NEW c \in Cells, NEW x \in Names, NEW status \in Numbers, CloseCatch(x, status)
    PROVE  Passes(c)
<1> DEFINE t == Bind(x, Ret)
<1>1. /\ stack[Top].kind = "catch" /\ Word = NIL
      /\ stack' = Front(stack) \/ (Local[x] = NIL /\ stack' = Front(t))
  BY DEF CloseCatch
<1>2. lost'[c] = lost[c] /\ c # NIL
  BY CountPasses, OneAt DEF CloseCatch
<1>3. /\ stack[Top].kind # "top" /\ stack[Top].kind \in RetKinds /\ Ret \in Cells
      /\ Ns # Top /\ Ret = stack[Top].own /\ Frames(stack) /\ Len(stack) = Top /\ Top \in 1..Top
      /\ Local = stack[Ns].vars /\ Ns \in 1..Top
  BY <1>1, ResultOnly, Running, StackFacts DEF Inner
<1>4. \A y \in Names : stack[Top].vars[y] # c
  <2>1. stack[Top].vars = Unbound
    BY <1>1, ResultOnly DEF Inner
  <2> QED BY <1>2, <2>1 DEF Unbound
<1>5. NIL \in Cells \cup {NIL}
  OBVIOUS
<1>6. ASSUME Apart(stack, c), stack' = Front(stack) PROVE Apart(stack', c)
  BY <1>1, <1>6, FrontApart DEF Inner
<1>7. ASSUME Apart(stack, c), Local[x] = NIL, stack' = Front(t) PROVE Apart(stack', c)
  <2>1. /\ Frames(t) /\ AsBefore(t, stack)
        /\ \A j \in 1..Top : /\ t[j].own = stack[j].own /\ t[j].word = stack[j].word
                             /\ j # Ns => t[j].vars = stack[j].vars
        /\ \A y \in Names : t[Ns].vars[y] = IF y = x THEN Ret ELSE Local[y]
    BY <1>3, BindFacts, BindVars DEF Moved
  <2> HIDE DEF t
  <2>2. Len(t) = Top /\ t[Top].kind # "top"
    BY <1>3, <2>1 DEF AsBefore
  <2>3. /\ Len(stack') = Top - 1 /\ Top - 1 \in 1..Top
        /\ \A j \in 1..(Top - 1) : stack'[j] = t[j]
    BY <1>5, <1>7, <2>1, <2>2, PopFacts
  <2>4. Top > 1
    BY <2>3, Running
  <2>5. \A j \in 1..(Top - 1) : j \in 1..Top
    BY Running
  <2>6. \A j \in 1..(Top - 1) : /\ stack'[j].kind = stack[j].kind /\ stack'[j].own = stack[j].own
                                /\ stack'[j].word = stack[j].word
                                /\ j # Ns => stack'[j].vars = stack[j].vars
    BY <1>3, <2>1, <2>3, <2>5 DEF AsBefore
  <2>7. \A j \in 1..(Top - 1) : \A y \in Names :
           stack[j].vars[y] = c => \E z \in Names : stack'[j].vars[z] = c
    BY <1>2, <1>3, <1>7, <2>1, <2>3, <2>5, <2>6
  <2>8. \A j \in 1..(Top - 1) : \A y \in Names :
           stack'[j].vars[y] = c => stack[j].vars[y] = c \/ stack[Top].own = c
    BY <1>2, <1>3, <1>7, <2>1, <2>3, <2>5, <2>6
  <2>9. /\ Len(stack') = Top - 1 /\ stack[Top].kind \in RetKinds
        /\ \A j \in 1..(Top - 1) : stack'[j].own = c => stack[j].own = c
        /\ \A j \in 1..(Top - 1) : stack'[j].word = c => stack[j].word = c
    BY <1>3, <2>3, <2>6
  <2>10. \A j \in 1..(Top - 1) : stack'[j].kind = stack[j].kind
    BY <2>6
  <2> QED BY <1>4, <1>7, <2>4, <2>7, <2>8, <2>9, <2>10, PopApart, SMTT(30)
<1> QED BY <1>1, <1>2, <1>6, <1>7 DEF Passes

-----------------------------------------------------------------------------
(* What the steps write.                                                   *)

\* A string is made of what is freed for a cell that a variable has, or that two
\* results and words are on.
Clean == \A d \in Cells : val[d].text # "junk"
Exposed(c) == Bound(stack, c, Top) \/ ~Single(stack, c)

LEMMA CleanTexts ==
    ASSUME IInv, Clean
    PROVE  /\ \A d \in Cells : val[d].text \in Texts \ {"junk"}
           /\ \A t, u \in Texts \ {"junk"} : Joined(t, u) # "junk"
           /\ \A n \in Numbers : n # "junk" /\ n \in Texts /\ IntOf(n).text # "junk"
                                 /\ StrOf(n).text # "junk"
           /\ "w" \in Texts \ {"junk"} /\ Null.text # "junk"
           /\ \A t : StrOf(t).text = t
           /\ \A d \in Cells : AsInt(val[d]).text # "junk"
<1>1. val \in [Cells -> Values]
  BY DEF IInv
<1>2. \A d \in Cells : val[d].text \in Texts \ {"junk"}
  BY <1>1, ValueFacts DEF Clean
<1>3. \A n \in Numbers : n # "junk" /\ n \in Texts
  BY VarsAssumption DEF Texts
<1>4. "0" \in Numbers
  BY VarsAssumption
<1>5. \A t : StrOf(t).text = t /\ IntOf(t).text = t
  BY DEF StrOf, IntOf
<1>6. "w" \in Texts /\ "w" # "junk" /\ Null.text # "junk"
  BY DEF Texts, Null
<1>7. \A t, u \in Texts \ {"junk"} : Joined(t, u) # "junk"
  BY DEF Joined
<1>8. ASSUME NEW d \in Cells PROVE AsInt(val[d]).text # "junk"
  BY <1>2, <1>3, <1>4, <1>5 DEF AsInt
<1> QED BY <1>2, <1>3, <1>5, <1>6, <1>7, <1>8

\* What a step writes to a cell is not of freed memory, or the cell is exposed.
LEMMA WritesClean ==
    ASSUME IInv, Clean, NEW w, Contents(w), NEW c \in Cells, val'[c].text = "junk",
           c \in DOMAIN w => w[c].text # "junk" \/ Exposed(c)
    PROVE  Exposed(c)
<1>1. val'[c] = IF ref'[c] = 0 THEN Null ELSE IF c \in DOMAIN w THEN w[c] ELSE val[c]
  BY DEF Contents
<1>2. Null.text # "junk" /\ val[c].text # "junk"
  BY CleanTexts
<1> QED BY <1>1, <1>2

LEMMA NoWriteClean ==
    ASSUME IInv, Clean, Contents(NoWrite), NEW c \in Cells, val'[c].text = "junk"
    PROVE  Exposed(c)
<1>1. c \notin DOMAIN NoWrite
  BY DEF NoWrite
<1> QED BY <1>1, WritesClean

LEMMA WriteClean ==
    ASSUME IInv, Clean, NEW d, NEW v, Contents(Write(d, v)),
           v.text # "junk" \/ Exposed(d), NEW c \in Cells, val'[c].text = "junk"
    PROVE  Exposed(c)
<1>1. c \in DOMAIN Write(d, v) => c = d /\ Write(d, v)[c] = v
  BY DEF Write
<1> DEFINE w == Write(d, v)
<1>2. Contents(w) /\ (c \in DOMAIN w => w[c].text # "junk" \/ Exposed(c))
  BY <1>1
<1> HIDE DEF w
<1> QED BY <1>2, WritesClean

LEMMA LocalExposed ==
    ASSUME IInv, NEW x \in Names
    PROVE  Local[x] \in Cells => Exposed(Local[x])
  BY Running DEF Exposed, Bound, Local

LEMMA NextFrees ==
    ASSUME IInv, Clean, Next, NEW c \in Cells, val'[c].text = "junk"
    PROVE  Exposed(c)
<1>0. /\ Top \in Nat \ {0} /\ Top = Len(stack) /\ Top \in 1..Top /\ RetAt \in 1..Top
      /\ Ret \in Cells /\ Ret = stack[RetAt].own /\ Word = stack[Top].word
      /\ Word \in Cells \cup {NIL} /\ c # NIL
  BY Running, StackFacts, OneAt
<1>1. ASSUME Contents(NoWrite) PROVE Exposed(c)
  BY <1>1, NoWriteClean
<1>2. ASSUME NEW t \in {"w"} \cup Numbers, NEW d \in Cells, Literal(t, d) PROVE Exposed(c)
  <2>1. t \in Texts \ {"junk"}
    BY CleanTexts
  <2>2. val[d].text \in Texts \ {"junk"}
    BY CleanTexts
  <2>3. Joined(val[d].text, t) # "junk"
    BY <2>1, <2>2, CleanTexts
  <2>4. StrOf(t).text # "junk" /\ StrOf(Joined(val[d].text, t)).text # "junk"
    BY <2>1, <2>3 DEF StrOf
  <2>5. CASE Contents(Write(d, StrOf(t)))
    BY <2>4, <2>5, WriteClean
  <2>6. CASE Contents(Write(d, StrOf(Joined(val[d].text, t))))
    BY <2>4, <2>6, WriteClean
  <2> QED BY <1>2, <2>5, <2>6 DEF Literal
<1>11. ASSUME NEW x \in Names, NEW d \in Cells, Substitute(x, d) PROVE Exposed(c)
  <2> DEFINE e == Local[x]
  <2>1. e \in Cells /\ val[e].text \in Texts \ {"junk"} /\ val[d].text \in Texts \ {"junk"}
    BY <1>11, Running, CleanTexts DEF Substitute
  <2>2. Exposed(e)
    BY <2>1, LocalExposed
  <2>3. Contents(Write(d, StrOf(val[e].text))) \/ Contents(Write(d, Appended(d, e)))
    BY <1>11 DEF Substitute
  <2> HIDE DEF e
  <2>4. StrOf(val[e].text).text # "junk"
    BY <2>1 DEF StrOf
  <2>5. Appended(d, e).text # "junk" \/ Exposed(d)
    BY <2>1, <2>2, CleanTexts DEF Appended
  <2>6. CASE Contents(Write(d, StrOf(val[e].text)))
    BY <2>4, <2>6, WriteClean
  <2>7. CASE Contents(Write(d, Appended(d, e)))
    BY <2>5, <2>7, WriteClean
  <2> QED BY <2>3, <2>6, <2>7
<1>12. ASSUME NEW s \in Numbers, CloseCatchAlone(s) PROVE Exposed(c)
  <2>1. Contents(Write(stack[Outer].own, IntOf(s))) /\ IntOf(s).text # "junk"
    BY <1>12, CleanTexts DEF CloseCatchAlone
  <2> QED BY <2>1, WriteClean
<1>13. ASSUME Contents(Write(Ret, AsInt(val[Ret]))) \/ Contents(Write(Ret, Null))
       PROVE  Exposed(c)
  <2>1. AsInt(val[Ret]).text # "junk" /\ Null.text # "junk"
    BY <1>0, CleanTexts
  <2> QED BY <1>13, <2>1, WriteClean
<1>3. ASSUME NEW kind, NEW d \in Cells, Push(kind, d) PROVE Exposed(c)
  <2>1. Contents(Write(d, Null)) /\ Null.text # "junk"
    BY <1>3, CleanTexts DEF Push
  <2> QED BY <2>1, WriteClean
<1>4. ASSUME NEW ok \in BOOLEAN, CloseBracket(ok) PROVE Exposed(c)
  <2> DEFINE w == stack[Top - 1].word
  <2>1. \/ Contents(NoWrite)
        \/ w # NIL /\ Contents(Write(w, Appended(w, Ret)))
    BY <1>4 DEF CloseBracket
  <2>2. CASE w # NIL /\ Contents(Write(w, Appended(w, Ret)))
    <3>1. stack[Top].kind = "bracket" /\ Word = NIL
      BY <1>4 DEF CloseBracket
    <3>2. Ret = stack[Top].own /\ Top - 1 \in 1..Top /\ Frames(stack)
      <4>1. Ret = stack[Top].own /\ stack[Top].kind # "top" /\ Frames(stack) /\ Len(stack) = Top
            /\ NIL \in Cells \cup {NIL}
        BY <3>1, ResultOnly, StackFacts DEF Inner
      <4> QED BY <4>1, PopFacts
    <3>3. w \in Cells
      BY <1>0, <2>2, <3>2, FrameTypes
    <3>4. CASE w = Ret
      <4>1. ~Single(stack, w)
        BY <1>0, <3>2, <3>4 DEF Single
      <4> QED BY <2>2, <4>1, WriteClean DEF Exposed
    <3>5. CASE w # Ret
      <4>1. Appended(w, Ret).text # "junk"
        BY <1>0, <3>3, <3>5, CleanTexts DEF Appended
      <4> HIDE DEF w
      <4> QED BY <2>2, <4>1, WriteClean
    <3> QED BY <3>4, <3>5
  <2> QED BY <1>1, <2>1, <2>2
<1>5. ASSUME NEW x \in Names, SetOld(x) PROVE Exposed(c)
  <2>1. Local[x] \in Cells /\ Contents(Write(Local[x], Assigned(Local[x], Word)))
    BY <1>5, Running DEF SetOld
  <2>2. Exposed(Local[x])
    BY <2>1, LocalExposed
  <2> QED BY <2>1, <2>2, WriteClean
<1>6. ASSUME NEW v \in Computed, NEW b \in BOOLEAN, Compute(v, b) PROVE Exposed(c)
  <2> DEFINE w == [d \in {Ret} \cup (IF b THEN {Word} ELSE {}) |->
                     IF d = Ret THEN v ELSE AsInt(val[Word])]
  <2>1. Contents(w) /\ Word \in Cells
    BY <1>0, <1>6 DEF Compute
  <2>2. v.text # "junk" /\ AsInt(val[Word]).text # "junk"
    BY <2>1, CleanTexts DEF Computed
  <2>3. c \in DOMAIN w => w[c].text # "junk"
    BY <2>2
  <2> HIDE DEF w
  <2> QED BY <2>1, <2>3, WritesClean
<1>7. ASSUME Give PROVE Exposed(c)
  <2>1. Contents(Write(Ret, Assigned(Ret, Word))) /\ Word \in Cells
    BY <1>0, <1>7 DEF Give
  <2>2. CASE Ret = Word
    <3>1. ~Single(stack, Ret)
      BY <1>0, <2>2 DEF Single
    <3> QED BY <2>1, <3>1, WriteClean DEF Exposed
  <2>3. CASE Ret # Word
    <3>1. Assigned(Ret, Word).text # "junk"
      BY <2>1, <2>3, CleanTexts DEF Assigned
    <3> QED BY <2>1, <3>1, WriteClean
  <2> QED BY <2>2, <2>3
<1>8. ASSUME NEW x \in Names, NEW n \in Numbers, Incr(x, n) PROVE Exposed(c)
  <2> DEFINE w == [d \in {Local[x], Ret} |-> IntOf(n)]
  <2>1. Contents(w) /\ IntOf(n).text # "junk"
    BY <1>8, CleanTexts DEF Incr
  <2>2. c \in DOMAIN w => w[c].text # "junk"
    BY <2>1
  <2> HIDE DEF w
  <2> QED BY <2>1, <2>2, WritesClean
<1>9. ASSUME NEW x \in Names, NEW d \in Cells, ForeachAssign(x, d) PROVE Exposed(c)
  <2>1. Contents(Write(d, StrOf("w"))) /\ StrOf("w").text # "junk"
    BY <1>9, CleanTexts DEF ForeachAssign
  <2> QED BY <2>1, WriteClean
<1>10. ASSUME NEW x \in Names, NEW s \in Numbers, CloseCatch(x, s) PROVE Exposed(c)
  <2> DEFINE outer == stack[Outer].own
             e == Local[x]
             w == [d \in {e, outer} |-> IF d = outer THEN IntOf(s) ELSE Assigned(e, Ret)]
  <2>1. IntOf(s).text # "junk"
    BY CleanTexts
  <2>2. (e # NIL /\ Contents(w)) \/ Contents(Write(outer, IntOf(s)))
    BY <1>10 DEF CloseCatch
  <2>3. CASE e # NIL /\ Contents(w)
    <3>1. Exposed(e)
      BY <2>3, Running, LocalExposed
    <3>2. c \in DOMAIN w => w[c].text # "junk" \/ Exposed(c)
      <4> HIDE DEF outer, e
      <4> QED BY <2>1, <3>1
    <3> HIDE DEF w
    <3> QED BY <2>3, <3>2, WritesClean
  <2>4. CASE Contents(Write(outer, IntOf(s)))
    <3> HIDE DEF outer
    <3> QED BY <2>1, <2>4, WriteClean
  <2> QED BY <2>2, <2>3, <2>4
<1> QED
  <2>1. DropWord \/ Return \/ EndUplevel => Contents(NoWrite)
    BY DEF DropWord, Return, EndUplevel, PopNamespace
  <2>2. \A x \in Names : SetRead(x) \/ SetNew(x) \/ Call(x) => Contents(NoWrite)
    BY DEF SetRead, SetNew, Call
  <2>3. \A level \in 0..MaxDepth : Uplevel(level) => Contents(NoWrite)
    BY DEF Uplevel
  <2>4. \A level \in 0..MaxDepth, x, y \in Names : Upvar(level, x, y) => Contents(NoWrite)
    BY DEF Upvar
  <2>5. \A d \in Cells : OpenBracket(d) \/ OpenCatch(d) => \E kind : Push(kind, d)
    BY DEF OpenBracket, OpenCatch
  <2>6. \A k \in {"or", "and"}, d \in Cells : OpenLogic(k, d) => Push(k, d)
    BY DEF OpenLogic
  <2>7. /\ OrNext => Contents(Write(Ret, AsInt(val[Ret])))
        /\ AndNext => Contents(Write(Ret, Null))
    BY DEF OrNext, AndNext
  <2>8. \A ok \in BOOLEAN : CloseLogic(ok) =>
           Contents(NoWrite) \/ Contents(Write(Ret, AsInt(val[Ret])))
    BY DEF CloseLogic
  <2> QED
    BY <1>1, <1>2, <1>3, <1>4, <1>5, <1>6, <1>7, <1>8, <1>9, <1>10, <1>11, <1>12, <1>13,
       <2>1, <2>2, <2>3, <2>4, <2>5, <2>6, <2>7, <2>8
    DEF Next

LEMMA NextPasses ==
    ASSUME IInv, Next, NEW c \in Cells PROVE Passes(c)
<1>1. ASSUME NEW t \in {"w"} \cup Numbers, NEW d \in Cells, Literal(t, d) PROVE Passes(c)
  BY <1>1, LiteralApart
<1>2. ASSUME Count(None, One(Word)), stack' = Spent(stack) PROVE Passes(c)
  BY <1>2, CountPasses, SpentApart DEF Passes
<1>3. ASSUME NEW d \in Cells, OpenBracket(d) PROVE Passes(c)
  BY <1>3, PushPasses DEF OpenBracket, Inner
<1>4. ASSUME NEW ok \in BOOLEAN, CloseBracket(ok) PROVE Passes(c)
  BY <1>4, CloseBracketPasses
<1>5. ASSUME NEW x \in Names, SetRead(x) \/ SetNew(x) \/ SetOld(x) PROVE Passes(c)
  BY <1>5, SetReadApart, SetNewApart, SetOldApart
<1>6. ASSUME NEW x \in Names, NEW n \in Numbers, Incr(x, n) PROVE Passes(c)
  <2>1. Count(None, None) /\ stack' = stack
    BY <1>6 DEF Incr
  <2> QED BY <2>1, CountPasses DEF Passes
<1>7. ASSUME NEW x \in Names, NEW d \in Cells, ForeachAssign(x, d) PROVE Passes(c)
  BY <1>7, ForeachAssignApart
<1>8. ASSUME NEW x \in Names, Call(x) PROVE Passes(c)
  BY <1>8, CallPasses
<1>9. ASSUME Return \/ EndUplevel PROVE Passes(c)
  BY <1>9, PopNamespacePasses DEF Return, EndUplevel
<1>10. ASSUME NEW d \in Cells, OpenCatch(d) PROVE Passes(c)
  BY <1>10, PushPasses DEF OpenCatch, Inner
<1>11. ASSUME NEW x \in Names, NEW s \in Numbers, CloseCatch(x, s) PROVE Passes(c)
  BY <1>11, CloseCatchPasses
<1>12. ASSUME NEW level \in 0..MaxDepth, Uplevel(level) PROVE Passes(c)
  BY <1>12, UplevelPasses
<1>13. ASSUME NEW level \in 0..MaxDepth, NEW x \in Names, NEW y \in Names, Upvar(level, x, y)
       PROVE  Passes(c)
  BY <1>13, UpvarApart
<1>14. DropWord \/ Give => Count(None, One(Word)) /\ stack' = Spent(stack)
  BY DEF DropWord, Give
<1>15. \A v \in Computed, b \in BOOLEAN : Compute(v, b) => Count(None, One(Word)) /\ stack' = Spent(stack)
  BY DEF Compute
<1>16. ASSUME NEW x \in Names, NEW d \in Cells, Substitute(x, d) PROVE Passes(c)
  BY <1>16, SubstituteApart
<1>17. ASSUME NEW s \in Numbers, CloseCatchAlone(s) PROVE Passes(c)
  BY <1>17, CloseCatchAlonePasses
<1>18. ASSUME NEW kind \in {"or", "and"}, NEW d \in Cells, OpenLogic(kind, d) PROVE Passes(c)
  BY <1>18, PushPasses DEF OpenLogic, Inner
<1>19. ASSUME OrNext \/ AndNext PROVE Passes(c)
  <2>1. Count(None, None) /\ stack' = stack
    BY <1>19 DEF OrNext, AndNext
  <2> QED BY <2>1, CountPasses DEF Passes
<1>20. ASSUME NEW ok \in BOOLEAN, CloseLogic(ok) PROVE Passes(c)
  BY <1>20, CloseLogicPasses
<1> QED
  BY <1>1, <1>2, <1>3, <1>4, <1>5, <1>6, <1>7, <1>8, <1>9, <1>10, <1>11, <1>12, <1>13, <1>14,
     <1>15, <1>16, <1>17, <1>18, <1>19, <1>20 DEF Next

LEMMA InitApart == Init => AInv
<1> SUFFICES ASSUME Init PROVE AInv
  OBVIOUS
<1>1. PICK d \in Cells : stack = <<[kind |-> "top", vars |-> Unbound, own |-> d, word |-> NIL]>>
  BY DEF Init
<1>2. Len(stack) = 1 /\ stack[1].word = NIL
  BY <1>1
<1>3. ASSUME NEW c \in Cells PROVE Apart(stack, c)
  <2>1. \A i \in 1..Len(stack) : i = 1
    BY <1>2
  <2>2. 2..Len(stack) = {}
    BY <1>2
  <2>3. Single(stack, c)
    BY <1>2, <2>1, OneAt DEF Single
  <2> QED BY <2>2, <2>3 DEF Apart, Alone, AloneBelow
<1> QED BY <1>3, InitHolds DEF AInv

LEMMA NextApart == AInv /\ [Next]_vars => AInv'
<1>1. ASSUME AInv, Next PROVE AInv'
  <2>1. IInv' /\ \A c \in Cells : Passes(c)
    BY <1>1, NextKeeps, NextPasses DEF AInv
  <2> QED BY <1>1, <2>1 DEF AInv, Passes
<1>2. ASSUME AInv, UNCHANGED vars PROVE AInv'
  <2>1. IInv' /\ stack' = stack /\ lost' = lost
    BY <1>2, StutterKeeps DEF AInv, vars
  <2> QED BY <1>2, <2>1 DEF AInv
<1> QED BY <1>1, <1>2

\* The step FreedOnlyUnderVariable allows.
SpentByItself ==
  \A c \in Cells : /\ \A d \in Cells : val[d].text # "junk"
                   /\ val'[c].text = "junk"
                   => \/ lost[c] > 0
                      \/ \E i \in 1..Top, x \in Names : stack[i].vars[x] = c

\* A command assigns or appends a string to itself only in a container that some
\* variable on the stack has, or that has a forgotten handle: two results and words
\* never share a container that neither is true of.
THEOREM OnlyVariablesSelfAssign == Spec => FreedOnlyUnderVariable
<1>1. ASSUME AInv, Next PROVE SpentByItself
  <2>0. \A c \in Cells : lost[c] \in Nat
    BY <1>1 DEF AInv, IInv
  <2> SUFFICES ASSUME NEW c \in Cells, Clean, val'[c].text = "junk", lost[c] = 0
               PROVE  Bound(stack, c, Top)
    BY <2>0 DEF Clean, Bound, SpentByItself
  <2>1. Exposed(c)
    BY <1>1, NextFrees DEF AInv
  <2>2. Apart(stack, c) /\ Top = Len(stack)
    BY <1>1, StackFacts DEF AInv
  <2> QED BY <2>1, <2>2 DEF Exposed, Apart, Alone
<1>2. AInv /\ [Next]_vars => [SpentByItself]_vars
  BY <1>1
<1>3. [][SpentByItself]_vars => FreedOnlyUnderVariable
  BY DEF FreedOnlyUnderVariable, SpentByItself
<1> QED BY <1>2, <1>3, InitApart, NextApart, PTL DEF Spec

=============================================================================
