---------------------------- MODULE LabelsProofs ----------------------------
(***************************************************************************)
(* Proofs about Labels: until a label is carried to another namespace, the *)
(* namespaces match the calls and no jump leaves a proc, and always a      *)
(* label is stale only if a jump has crossed it, for any number of labels  *)
(* and names and any nesting of frames.                                    *)
(***************************************************************************)
EXTENDS Labels, SequenceTheorems, FiniteSetTheorems, TLAPS

-----------------------------------------------------------------------------
(* Lookups.                                                                *)

\* The least element of a set of natural numbers, by the least of the finite
\* sets 0..x.
LEMMA LeastElement ==
    ASSUME NEW T, T \subseteq Nat, T # {}
    PROVE  \E x \in T : \A y \in T : x <= y
<1> DEFINE U == {0..x : x \in T}
           R == StrictSubsetOrdering(Nat)
<1>1. IsWellFoundedOn(R, FiniteSubsetsOf(Nat))
  BY FS_StrictSubsetOrderingWellFounded
<1>2. U \subseteq FiniteSubsetsOf(Nat) /\ U # {}
  <2>1. \A x \in T : 0..x \in SUBSET Nat /\ IsFiniteSet(0..x)
    BY FS_Interval
  <2> QED BY <2>1 DEF FiniteSubsetsOf
<1>3. PICK u \in U : \A v \in U : ~ (<<v, u>> \in R)
  <2> HIDE DEF U, R
  <2> QED BY <1>1, <1>2, WFMin, Zenon
<1>4. PICK x \in T : u = 0..x
  OBVIOUS
<1>5. ASSUME NEW y \in T, y < x PROVE FALSE
  <2>1. 0..y \subseteq 0..x /\ x \in 0..x /\ x \notin 0..y /\ 0..x \subseteq Nat
    BY <1>5
  <2>2. 0..y \in U /\ <<0..y, 0..x>> \in R
    BY <2>1 DEF StrictSubsetOrdering
  <2> QED BY <2>2, <1>3, <1>4
<1> QED BY <1>5

Bindings == [Names -> Objects \cup {NIL}]

LEMMA UnboundType == Unbound \in Bindings /\ \A x \in Names : Unbound[x] = NIL
  BY DEF Unbound, Bindings

LEMMA StackNotEmpty ==
    ASSUME NEW S, NEW s \in Seq(S), s # << >>
    PROVE  Len(s) \in Nat \ {0} /\ \A i \in 1..Len(s) : s[i] \in S
  BY EmptySeq, LenProperties, ElementOfSeq

LEMMA FrontFacts ==
    ASSUME NEW S, NEW s \in Seq(S), s # << >>
    PROVE  /\ Front(s) \in Seq(S) /\ Len(Front(s)) = Len(s) - 1
           /\ \A i \in 1..(Len(s) - 1) : Front(s)[i] = s[i]
<1> DEFINE n == Len(s) - 1
<1>1. Len(s) \in Nat \ {0} /\ 1 \in 1..(Len(s) + 1) /\ n \in 0..Len(s)
  BY StackNotEmpty
<1>2. Front(s) = SubSeq(s, 1, n)
  BY DEF Front
<1>3. (1 - 1) + n = n /\ n = n - 1 + 1 /\ n \in Int
  BY <1>1
<1> HIDE DEF n
<1>4. SubSeq(s, 1, n) \in Seq(S)
  BY <1>1, SubSeqProperties
<1>5. Len(SubSeq(s, 1, n)) = n
  BY <1>1, <1>3, SubSeqProperties
<1>6. \A i \in 1..n : SubSeq(s, 1, n)[i] = s[i]
  BY <1>1, <1>3, SubSeqProperties
<1> QED BY <1>2, <1>4, <1>5, <1>6 DEF n

LEMMA GetNamespaceType ==
    ASSUME NEW s \in Seq(Bindings), NEW n \in Nat
    PROVE  GetNamespace(s, n) \in Bindings
<1>1. CASE n < Len(s)
  <2>1. Len(s) - n \in 1..Len(s)
    BY <1>1, LenProperties
  <2> QED BY <1>1, <2>1, ElementOfSeq DEF GetNamespace
<1>2. CASE ~(n < Len(s))
  BY <1>2, UnboundType DEF GetNamespace
<1> QED BY <1>1, <1>2

LEMMA VariableUpType ==
    ASSUME NEW s \in Seq(Bindings), s # << >>, NEW x \in Names, NEW n \in Nat
    PROVE  VariableUp(s, x, n) \in Objects \cup {NIL}
<1> DEFINE having == {i \in 1..Len(s) : s[i][x] # NIL}
           i0 == CHOOSE i \in having : \A j \in having : i <= j
<1>1. Len(s) \in Nat \ {0} /\ \A i \in 1..Len(s) : s[i] \in Bindings
  BY StackNotEmpty
<1>2. Current(s)[x] \in Objects \cup {NIL}
  BY <1>1 DEF Current, Bindings
<1>3. CASE n > 0
  <2>1. GetNamespace(s, n - 1) \in Bindings
    BY <1>3, GetNamespaceType
  <2> QED BY <1>3, <2>1 DEF VariableUp, Bindings
<1>4. CASE n = 0 /\ Current(s)[x] # NIL
  BY <1>2, <1>4 DEF VariableUp
<1>5. CASE n = 0 /\ Current(s)[x] = NIL /\ having = {}
  BY <1>5 DEF VariableUp
<1>6. CASE n = 0 /\ Current(s)[x] = NIL /\ having # {}
  <2>1. having \subseteq Nat
    BY <1>1
  <2>2. i0 \in having
    <3> HIDE DEF having
    <3>1. \E i \in having : \A j \in having : i <= j
      BY <1>6, <2>1, LeastElement
    <3> QED BY <3>1
  <2>3. s[i0][x] \in Objects \cup {NIL}
    <3> HIDE DEF i0
    <3> QED BY <1>1, <2>2 DEF Bindings
  <2>4. VariableUp(s, x, n) = s[i0][x]
    BY <1>6 DEF VariableUp
  <2> QED BY <2>3, <2>4
<1> QED BY <1>3, <1>4, <1>5, <1>6

\* A jump looks in the current namespace.
LEMMA TargetIsCurrent ==
    ASSUME spaces \in Seq(Bindings), spaces # << >>, NEW x \in Names
    PROVE  Target(x) = spaces[Len(spaces)][x] /\ Target(x) \in Objects \cup {NIL}
<1>1. Len(spaces) \in Nat \ {0}
  BY StackNotEmpty
<1>2. GetNamespace(spaces, 1 - 1) = spaces[Len(spaces)]
  BY <1>1 DEF GetNamespace
<1>3. VariableUp(spaces, x, 1) = GetNamespace(spaces, 1 - 1)[x]
  BY DEF VariableUp
<1>4. VariableUp(spaces, x, 1) \in Objects \cup {NIL}
  BY VariableUpType
<1> QED BY <1>2, <1>3, <1>4 DEF Target

LEMMA OverlaidType ==
    ASSUME NEW s \in Seq(Bindings), s # << >>, NEW n \in Nat
    PROVE  Overlaid(s, n) \in Bindings
<1>1. UpNamespace(s, n) \in Bindings
  BY GetNamespaceType, UnboundType DEF UpNamespace
<1>2. Current(s) \in Bindings
  BY StackNotEmpty DEF Current
<1> QED BY <1>1, <1>2 DEF Overlaid, Bindings

-----------------------------------------------------------------------------
(* Counting the frames that push a namespace.                              *)

PushingIn(fs, n) == {i \in 1..n : fs[i].kind \in Pushing}
PushedIn(fs, n) == Cardinality(PushingIn(fs, n))

LEMMA PushingInFinite ==
    ASSUME NEW fs, NEW n \in Nat
    PROVE  IsFiniteSet(PushingIn(fs, n)) /\ PushedIn(fs, n) \in Nat
<1>1. IsFiniteSet(1..n) /\ PushingIn(fs, n) \in SUBSET (1..n)
  BY FS_Interval DEF PushingIn
<1>2. IsFiniteSet(PushingIn(fs, n))
  BY <1>1, FS_Subset
<1> QED BY <1>2, FS_CardinalityType DEF PushedIn

LEMMA PushedInStep ==
    ASSUME NEW fs, NEW n \in Nat
    PROVE  PushedIn(fs, n + 1) = IF fs[n + 1].kind \in Pushing THEN PushedIn(fs, n) + 1
                                                             ELSE PushedIn(fs, n)
<1>1. CASE fs[n + 1].kind \in Pushing
  <2>1. PushingIn(fs, n + 1) = PushingIn(fs, n) \cup {n + 1} /\ n + 1 \notin PushingIn(fs, n)
    BY <1>1 DEF PushingIn
  <2> QED BY <1>1, <2>1, PushingInFinite, FS_AddElement DEF PushedIn
<1>2. CASE fs[n + 1].kind \notin Pushing
  <2>1. PushingIn(fs, n + 1) = PushingIn(fs, n)
    BY <1>2 DEF PushingIn
  <2> QED BY <1>2, <2>1 DEF PushedIn
<1> QED BY <1>1, <1>2

\* Outer frames have pushed at most as much; if they have pushed as much, no
\* frame above them pushes.
LEMMA PushedInOuter ==
    ASSUME NEW fs, NEW n \in Nat, NEW i \in 0..n
    PROVE  /\ PushedIn(fs, i) <= PushedIn(fs, n)
           /\ PushedIn(fs, i) = PushedIn(fs, n)
                => \A j \in (i + 1)..n : fs[j].kind \notin Pushing
<1>1. PushingIn(fs, i) \in SUBSET PushingIn(fs, n)
  BY DEF PushingIn
<1>2. /\ PushedIn(fs, i) <= PushedIn(fs, n)
      /\ PushedIn(fs, n) = PushedIn(fs, i) => PushingIn(fs, n) = PushingIn(fs, i)
  BY <1>1, PushingInFinite, FS_Subset DEF PushedIn
<1>3. PushingIn(fs, n) = PushingIn(fs, i)
        => \A j \in (i + 1)..n : fs[j].kind \notin Pushing
  BY DEF PushingIn
<1> QED BY <1>2, <1>3

\* Frames of labels push nothing.
LEMMA PushedInLabels ==
    ASSUME NEW fs, NEW n \in Nat, NEW i \in 0..n,
           \A j \in (i + 1)..n : fs[j].kind \notin Pushing
    PROVE  PushedIn(fs, i) = PushedIn(fs, n)
<1>1. PushingIn(fs, i) = PushingIn(fs, n)
  BY DEF PushingIn
<1> QED BY <1>1 DEF PushedIn

LEMMA PushedInSame ==
    ASSUME NEW fs, NEW gs, NEW n \in Nat, \A i \in 1..n : fs[i] = gs[i]
    PROVE  PushedIn(fs, n) = PushedIn(gs, n)
<1>1. PushingIn(fs, n) = PushingIn(gs, n)
  BY DEF PushingIn
<1> QED BY <1>1 DEF PushedIn

-----------------------------------------------------------------------------
(* The inductive invariant.                                                *)

\* Until a label is carried to another namespace, each is bound in the one its frame
\* is in, by any number of names, and nowhere else.
BoundWhereMade ==
    ~carried => \A i \in 1..Len(frames) : frames[i].kind = "label" =>
        \A k \in 1..Len(spaces), x \in Names :
            spaces[k][x] = frames[i].label => k = 1 + PushedIn(frames, i)

\* Of any label, and not of the visible ones only: see StaleOnlyIfCrossed.
LiveOrCrossed == \A l \in armed : FramesOf(l) = {} => l \in crossed

\* NamespacesMatch, with the count of the lemmas above.
Matches == /\ Len(spaces) >= 1 + PushedIn(frames, Len(frames))
           /\ ~carried => Len(spaces) = 1 + PushedIn(frames, Len(frames))

IInv == TypeOK /\ Matches /\ BoundWhereMade /\ LiveOrCrossed

LEMMA FrameKinds ==
    ASSUME NEW f \in Frames
    PROVE  /\ f.label \in Objects \cup {NIL}
           /\ f.kind = "label" <=> f.label \in Objects
           /\ f.kind = "label" <=> f.kind \notin Pushing
  BY LabelsAssumption DEF Frames, Pushing

LEMMA TypeFacts ==
    ASSUME IInv
    PROVE  /\ Len(frames) \in Nat /\ \A i \in 1..Len(frames) : frames[i] \in Frames
           /\ spaces \in Seq(Bindings) /\ spaces # << >> /\ Len(spaces) \in Nat \ {0}
           /\ \A k \in 1..Len(spaces) : spaces[k] \in Bindings
<1>1. spaces \in Seq(Bindings) /\ spaces # << >> /\ frames \in Seq(Frames)
  BY DEF IInv, TypeOK, Bindings
<1> QED BY <1>1, StackNotEmpty, LenProperties, ElementOfSeq

\* The innermost frames vanish.
LEMMA FramesCut ==
    ASSUME IInv, NEW n \in 0..Len(frames), frames' = SubSeq(frames, 1, n)
    PROVE  /\ frames' \in Seq(Frames) /\ Len(frames') = n
           /\ \A j \in 1..n : frames'[j] = frames[j]
           /\ \A i \in 0..n : PushedIn(frames', i) = PushedIn(frames, i)
<1>1. frames \in Seq(Frames) /\ 1 \in 1..(Len(frames) + 1) /\ Len(frames) \in Nat
  BY TypeFacts DEF IInv, TypeOK
<1>2. /\ frames' \in Seq(Frames) /\ Len(frames') = n
      /\ \A j \in 1..n : frames'[j] = frames[j]
  BY <1>1, SubSeqProperties
<1>4. ASSUME NEW i \in 0..n PROVE PushedIn(frames', i) = PushedIn(frames, i)
  <2>1. i \in Nat /\ \A j \in 1..i : frames'[j] = frames[j]
    BY <1>1, <1>2
  <2> QED BY <2>1, PushedInSame
<1> QED BY <1>2, <1>4

LEMMA FrontIsCut ==
    ASSUME IInv, frames # << >>, frames' = Front(frames)
    PROVE  /\ Len(frames) \in Nat \ {0} /\ Len(frames) - 1 \in 0..Len(frames)
           /\ frames' = SubSeq(frames, 1, Len(frames) - 1)
           /\ Last(frames) = frames[Len(frames)] /\ Last(frames) \in Frames
<1>1. Len(frames) \in Nat \ {0}
  BY EmptySeq, LenProperties DEF IInv, TypeOK
<1> QED BY <1>1, TypeFacts DEF Front, Last

\* Where labels are bound, when frames vanish.
LEMMA CutBound ==
    ASSUME IInv, NEW n \in 0..Len(frames), frames' = SubSeq(frames, 1, n),
           spaces' = spaces, carried' = carried
    PROVE  BoundWhereMade'
<1>1. /\ Len(frames') = n /\ n <= Len(frames) /\ Len(frames) \in Nat
      /\ \A j \in 1..n : frames'[j] = frames[j]
      /\ \A i \in 0..n : PushedIn(frames', i) = PushedIn(frames, i)
  BY FramesCut, TypeFacts
<1>2. SUFFICES ASSUME ~carried', NEW i \in 1..n, frames'[i].kind = "label",
                      NEW k \in 1..Len(spaces), NEW x \in Names,
                      spaces[k][x] = frames'[i].label
               PROVE  k = 1 + PushedIn(frames', i)
  BY <1>1 DEF BoundWhereMade
<1>3. frames'[i] = frames[i] /\ i \in 1..Len(frames)
  BY <1>1
<1>4. k = 1 + PushedIn(frames, i)
  BY <1>2, <1>3 DEF IInv, BoundWhereMade
<1> QED BY <1>1, <1>4

LEMMA TypeAfterCut ==
    ASSUME IInv, NEW n \in 0..Len(frames), frames' = SubSeq(frames, 1, n),
           spaces' = spaces, armed' \subseteq Objects, crossed' \subseteq Objects,
           carried' = carried
    PROVE  TypeOK'
  BY FramesCut DEF IInv, TypeOK

-----------------------------------------------------------------------------
(* The steps.                                                              *)

\* A jump to the frame i: it stays (n = i) or ends with its label (n = i - 1).
LEMMA JumpIInv ==
    ASSUME IInv, NEW x \in Names, NEW i \in 1..Len(frames), Land(Target(x), i),
           NEW n \in {i - 1, i}, frames' = SubSeq(frames, 1, n),
           armed' = IF n = i THEN armed ELSE armed \ {Target(x)}
    PROVE  IInv'
<1> DEFINE l == Target(x)
<1>0. /\ Len(frames) \in Nat /\ n \in 0..Len(frames) /\ n <= i
      /\ \A j \in 1..Len(frames) : frames[j] \in Frames
      /\ spaces' = spaces /\ carried' = carried
      /\ armed \subseteq Objects /\ crossed \subseteq Objects
  BY TypeFacts DEF Land, IInv, TypeOK
<1>1. /\ l \in armed /\ frames[i].label = l
      /\ crossed' = crossed \cup ({frames[j].label : j \in i + 1..Len(frames)} \ {NIL})
  BY DEF Land, FramesOf
<1>2. /\ Len(frames') = n
      /\ \A j \in 1..n : frames'[j] = frames[j]
      /\ \A j \in 0..n : PushedIn(frames', j) = PushedIn(frames, j)
  BY <1>0, FramesCut
<1>3. frames[i].kind = "label" /\ frames[i].kind \notin Pushing
  BY <1>0, <1>1, FrameKinds
<1>4. TypeOK'
  <2>1. crossed' \subseteq Objects
    BY <1>0, <1>1, FrameKinds
  <2> QED BY <1>0, <2>1, TypeAfterCut
<1>5. Matches'
  <2>1. PushedIn(frames, n) <= PushedIn(frames, Len(frames))
    BY <1>0, PushedInOuter
  <2>2. PushedIn(frames, n) \in Nat /\ PushedIn(frames, Len(frames)) \in Nat
    BY <1>0, PushingInFinite
  <2>3. ASSUME ~carried PROVE PushedIn(frames, n) = PushedIn(frames, Len(frames))
    <3>1. Len(spaces) \in 1..Len(spaces) /\ spaces[Len(spaces)][x] = l
      BY TypeFacts, TargetIsCurrent
    <3>2. Len(spaces) = 1 + PushedIn(frames, i)
      BY <1>1, <1>3, <2>3, <3>1 DEF IInv, BoundWhereMade
    <3>3. PushedIn(frames, i) = PushedIn(frames, Len(frames))
      BY <1>0, <2>2, <2>3, <3>2, PushingInFinite DEF IInv, Matches
    <3>4. \A j \in (i + 1)..Len(frames) : frames[j].kind \notin Pushing
      BY <1>0, <3>3, PushedInOuter
    <3>5. \A j \in (n + 1)..Len(frames) : frames[j].kind \notin Pushing
      BY <1>0, <1>3, <3>4
    <3> QED BY <1>0, <3>5, PushedInLabels
  <2>4. PushedIn(frames', Len(frames')) = PushedIn(frames, n)
    BY <1>0, <1>2
  <2>5. Len(spaces) \in Nat
    BY TypeFacts
  <2> QED BY <1>0, <2>1, <2>2, <2>3, <2>4, <2>5 DEF Matches, IInv
<1>6. BoundWhereMade'
  BY <1>0, CutBound
<1>7. LiveOrCrossed'
  <2>1. SUFFICES ASSUME NEW m \in armed', FramesOf(m)' = {} PROVE m \in crossed'
    BY DEF LiveOrCrossed
  <2>2. m \in armed /\ m \in Objects /\ m # NIL /\ crossed \subseteq crossed'
    BY <1>0, <1>1, LabelsAssumption
  <2>3. CASE FramesOf(m) = {}
    BY <2>2, <2>3 DEF IInv, LiveOrCrossed
  <2>4. CASE FramesOf(m) # {}
    <3>1. PICK j \in 1..Len(frames) : frames[j].label = m
      BY <2>4 DEF FramesOf
    <3>2. j \notin 1..n
      BY <1>0, <1>2, <2>1, <3>1 DEF FramesOf
    <3>3. j # i
      BY <1>0, <1>1, <2>1, <3>1, <3>2
    <3>4. j \in i + 1..Len(frames)
      BY <1>0, <3>1, <3>2, <3>3
    <3> QED BY <1>1, <2>2, <3>1, <3>4
  <2> QED BY <2>3, <2>4
<1> QED BY <1>4, <1>5, <1>6, <1>7 DEF IInv

\* The innermost frame ends without a jump: a label is cleared.
LEMMA EndLabelIInv == ASSUME IInv, EndLabel PROVE IInv'
<1> DEFINE n == Len(frames) - 1
<1>0. /\ Len(frames) \in Nat \ {0} /\ n \in 0..Len(frames) /\ frames' = SubSeq(frames, 1, n)
      /\ Last(frames) = frames[Len(frames)] /\ Last(frames) \in Frames
      /\ spaces' = spaces /\ carried' = carried /\ crossed' = crossed
      /\ armed' = armed \ {Last(frames).label} /\ Last(frames).kind = "label"
  BY FrontIsCut DEF EndLabel
<1>1. frames[Len(frames)].kind \notin Pushing
  BY <1>0, FrameKinds
<1>2. /\ Len(frames') = n
      /\ \A j \in 1..n : frames'[j] = frames[j]
      /\ \A j \in 0..n : PushedIn(frames', j) = PushedIn(frames, j)
  BY <1>0, FramesCut
<1>3. TypeOK' /\ BoundWhereMade'
  BY <1>0, TypeAfterCut, CutBound DEF IInv, TypeOK
<1>4. Matches'
  <2>1. n \in Nat /\ n + 1 = Len(frames)
    BY <1>0
  <2>2. PushedIn(frames, Len(frames)) = PushedIn(frames, n)
    BY <1>1, <2>1, PushedInStep
  <2> QED BY <1>0, <1>2, <2>2 DEF Matches, IInv
<1>5. LiveOrCrossed'
  <2>1. SUFFICES ASSUME NEW m \in armed', FramesOf(m)' = {} PROVE m \in crossed
    BY <1>0 DEF LiveOrCrossed
  <2>2. \A j \in 1..Len(frames) : frames[j].label = m => j \in 1..n
    BY <1>0, <2>1
  <2>3. FramesOf(m) = {}
    BY <1>2, <2>1, <2>2 DEF FramesOf
  <2> QED BY <1>0, <2>1, <2>3 DEF IInv, LiveOrCrossed
<1> QED BY <1>3, <1>4, <1>5 DEF IInv

\* A proc or an uplevel ends: the innermost namespace goes with it, and what the
\* others have more was bound in it.
LEMMA PoppedIInv ==
    ASSUME IInv, frames # << >>, Last(frames).kind \in Pushing, frames' = Front(frames),
           carried' = carried, crossed' = crossed, armed' = armed,
           spaces' \in Seq(Bindings), Len(spaces') = Len(spaces) - 1,
           \A k \in 1..(Len(spaces) - 1), y \in Names :
              \/ spaces'[k][y] = spaces[k][y]
              \/ \E z \in Names : spaces'[k][y] = spaces[Len(spaces)][z]
    PROVE  IInv'
<1> DEFINE n == Len(frames) - 1
<1>0. /\ Len(frames) \in Nat \ {0} /\ n \in 0..Len(frames) /\ frames' = SubSeq(frames, 1, n)
      /\ Last(frames) = frames[Len(frames)] /\ Last(frames) \in Frames
  BY FrontIsCut
<1>1. n \in Nat /\ n + 1 = Len(frames)
  BY <1>0
<1>2. /\ Len(frames') = n /\ frames' \in Seq(Frames)
      /\ \A j \in 1..n : frames'[j] = frames[j]
      /\ \A i \in 0..n : PushedIn(frames', i) = PushedIn(frames, i)
  BY <1>0, FramesCut
<1>3. /\ PushedIn(frames, Len(frames)) = PushedIn(frames, n) + 1
      /\ PushedIn(frames, n) \in Nat
  BY <1>0, <1>1, PushedInStep, PushingInFinite
<1>4. /\ Len(spaces) \in Nat \ {0} /\ spaces \in Seq(Bindings)
      /\ Len(spaces) >= 2 + PushedIn(frames, n)
  BY <1>3, TypeFacts DEF IInv, Matches
<1>6. TypeOK'
  <2>1. spaces' # << >>
    BY <1>3, <1>4, EmptySeq
  <2> QED BY <1>0, <1>2, <2>1 DEF IInv, TypeOK, Bindings
<1>7. Matches'
  <2>1. PushedIn(frames', Len(frames')) = PushedIn(frames, n)
    BY <1>1, <1>2
  <2>2. Len(spaces') = Len(spaces) - 1 /\ Len(spaces) \in Nat
    BY <1>4
  <2> QED BY <1>0, <1>3, <2>1, <2>2 DEF IInv, Matches
<1>8. BoundWhereMade'
  <2>1. SUFFICES ASSUME ~carried', NEW i \in 1..n, frames'[i].kind = "label",
                        NEW k \in 1..(Len(spaces) - 1), NEW x \in Names,
                        spaces'[k][x] = frames'[i].label
                 PROVE  k = 1 + PushedIn(frames', i)
    BY <1>2 DEF BoundWhereMade
  <2>2. /\ frames'[i] = frames[i] /\ i \in 1..Len(frames) /\ i \in 0..n
        /\ k \in 1..Len(spaces) /\ Len(spaces) \in 1..Len(spaces)
    BY <1>0, <1>2, <1>4
  <2>3. CASE spaces'[k][x] = spaces[k][x]
    <3>1. k = 1 + PushedIn(frames, i)
      BY <2>1, <2>2, <2>3 DEF IInv, BoundWhereMade
    <3> QED BY <1>2, <2>2, <3>1
  <2>4. ASSUME NEW z \in Names, spaces'[k][x] = spaces[Len(spaces)][z] PROVE FALSE
    <3>1. Len(spaces) = 1 + PushedIn(frames, i)
      BY <2>1, <2>2, <2>4 DEF IInv, BoundWhereMade
    <3>2. PushedIn(frames, i) <= PushedIn(frames, n) /\ PushedIn(frames, i) \in Nat
      BY <1>1, <2>2, PushedInOuter, PushingInFinite
    <3> QED BY <1>3, <1>4, <3>1, <3>2
  <2> QED BY <2>3, <2>4
<1>9. LiveOrCrossed'
  <2>1. SUFFICES ASSUME NEW m \in armed, FramesOf(m)' = {} PROVE m \in crossed
    BY <1>0 DEF LiveOrCrossed
  <2>2. m # frames[Len(frames)].label
    BY <1>0, <2>1, FrameKinds DEF IInv, TypeOK
  <2>3. \A j \in 1..Len(frames) : frames[j].label = m => j \in 1..n
    BY <1>0, <2>2
  <2>4. FramesOf(m) = {}
    BY <1>2, <2>1, <2>3 DEF FramesOf
  <2> QED BY <2>1, <2>4 DEF IInv, LiveOrCrossed
<1> QED BY <1>6, <1>7, <1>8, <1>9 DEF IInv

LEMMA PopIInv == ASSUME IInv, PopNamespace PROVE IInv'
<1>1. /\ frames # << >> /\ Last(frames).kind \in Pushing /\ frames' = Front(frames)
      /\ carried' = carried /\ crossed' = crossed /\ armed' = armed /\ spaces' = Front(spaces)
  BY DEF PopNamespace
<1>2. /\ spaces' \in Seq(Bindings) /\ Len(spaces') = Len(spaces) - 1
      /\ \A k \in 1..(Len(spaces) - 1) : spaces'[k] = spaces[k]
  BY <1>1, TypeFacts, FrontFacts
<1> QED BY <1>1, <1>2, PoppedIInv

LEMMA PopReturningIInv ==
    ASSUME IInv, NEW x \in Names, NEW y \in Names, PopReturning(x, y) PROVE IInv'
<1> DEFINE below == Len(spaces) - 1
           f == Front(spaces)
           l == Target(x)
           b == [f[below] EXCEPT ![y] = l]
<1>1. /\ frames # << >> /\ Last(frames).kind \in Pushing /\ frames' = Front(frames)
      /\ carried' = carried /\ crossed' = crossed /\ armed' = armed
      /\ spaces' = [f EXCEPT ![below] = b] /\ below > 0
  BY DEF PopReturning
<1>2. /\ f \in Seq(Bindings) /\ Len(f) = below
      /\ \A k \in 1..below : f[k] = spaces[k]
      /\ l = spaces[Len(spaces)][x] /\ l \in Objects \cup {NIL} /\ Len(spaces) \in Nat
  BY TypeFacts, FrontFacts, TargetIsCurrent
<1> HIDE DEF f, l
<1>3. below \in 1..Len(f) /\ f[below] \in Bindings
  BY <1>1, <1>2, ElementOfSeq
<1>4. b \in Bindings /\ \A z \in Names : b[z] = f[below][z] \/ b[z] = l
  BY <1>2, <1>3 DEF Bindings
<1> HIDE DEF b
<1>5. /\ spaces' \in Seq(Bindings) /\ Len(spaces') = below
      /\ \A k \in 1..below : spaces'[k] = IF k = below THEN b ELSE f[k]
  BY <1>1, <1>2, <1>3, <1>4, ExceptSeq
<1>6. ASSUME NEW k \in 1..below, NEW z \in Names
      PROVE  spaces'[k][z] = spaces[k][z] \/ spaces'[k][z] = spaces[Len(spaces)][x]
  BY <1>2, <1>4, <1>5
<1> QED BY <1>1, <1>5, <1>6, PoppedIInv

\* A name of the current namespace is bound to l.
LEMMA BindFacts ==
    ASSUME IInv, NEW x \in Names, NEW l \in Objects \cup {NIL}, Bind(x, l)
    PROVE  /\ spaces' \in Seq(Bindings) /\ spaces' # << >> /\ Len(spaces') = Len(spaces)
           /\ \A k \in 1..Len(spaces), y \in Names :
                spaces'[k][y] = IF k = Len(spaces) /\ y = x THEN l ELSE spaces[k][y]
<1> DEFINE b == [spaces[Len(spaces)] EXCEPT ![x] = l]
<1>1. /\ spaces \in Seq(Bindings) /\ Len(spaces) \in Nat \ {0}
      /\ \A k \in 1..Len(spaces) : spaces[k] \in Bindings
  BY TypeFacts
<1>2. spaces' = [spaces EXCEPT ![Len(spaces)] = b]
  BY DEF Bind
<1>3. b \in Bindings
  BY <1>1 DEF Bindings
<1>4. \A y \in Names : b[y] = IF y = x THEN l ELSE spaces[Len(spaces)][y]
  BY <1>1 DEF Bindings
<1> HIDE DEF b
<1>5. /\ spaces' \in Seq(Bindings) /\ Len(spaces') = Len(spaces)
      /\ \A k \in 1..Len(spaces) :
            spaces'[k] = IF k = Len(spaces) THEN b ELSE spaces[k]
  BY <1>1, <1>2, <1>3, ExceptSeq
<1>6. spaces' # << >>
  BY <1>1, <1>5, EmptySeq
<1> QED BY <1>4, <1>5, <1>6

\* A frame is added.
LEMMA FrameAdded ==
    ASSUME IInv, NEW f \in Frames, frames' = Append(frames, f)
    PROVE  /\ frames' \in Seq(Frames) /\ Len(frames') = Len(frames) + 1
           /\ Len(frames) \in Nat
           /\ \A j \in 1..Len(frames) : frames'[j] = frames[j]
           /\ frames'[Len(frames) + 1] = f
           /\ \A i \in 0..Len(frames) : PushedIn(frames', i) = PushedIn(frames, i)
           /\ PushedIn(frames', Len(frames) + 1)
                = PushedIn(frames, Len(frames)) + IF f.kind \in Pushing THEN 1 ELSE 0
<1>1. /\ frames' \in Seq(Frames) /\ Len(frames') = Len(frames) + 1
      /\ Len(frames) \in Nat
      /\ \A j \in 1..Len(frames) : frames'[j] = frames[j]
      /\ frames'[Len(frames) + 1] = f
  BY AppendProperties, TypeFacts DEF IInv, TypeOK
<1>2. ASSUME NEW i \in 0..Len(frames) PROVE PushedIn(frames', i) = PushedIn(frames, i)
  <2>1. i \in Nat /\ \A j \in 1..i : frames'[j] = frames[j]
    BY <1>1
  <2> QED BY <2>1, PushedInSame
<1>3. /\ PushedIn(frames', Len(frames) + 1)
           = IF f.kind \in Pushing THEN PushedIn(frames', Len(frames)) + 1
                                   ELSE PushedIn(frames', Len(frames))
      /\ PushedIn(frames', Len(frames)) = PushedIn(frames, Len(frames))
      /\ PushedIn(frames, Len(frames)) \in Nat
  <2>1. Len(frames) \in Nat /\ Len(frames) \in 0..Len(frames)
    BY <1>1
  <2>2. PushedIn(frames', Len(frames)) = PushedIn(frames, Len(frames))
    BY <1>2, <2>1
  <2> QED BY <1>1, <2>1, <2>2, PushedInStep, PushingInFinite
<1> QED BY <1>1, <1>2, <1>3

LEMMA LabelIInv ==
    ASSUME IInv, NEW x \in Names, NEW l \in Objects, Label(x, l)
    PROVE  IInv'
<1> DEFINE n == Len(frames)
           f == [kind |-> "label", label |-> l]
<1>0. /\ l \in Unused /\ Bind(x, l) /\ frames' = Append(frames, f)
      /\ armed' = armed \cup {l} /\ crossed' = crossed \ {l} /\ carried' = carried
  BY DEF Label
<1>1. f \in Frames /\ f.kind \notin Pushing /\ f.label = l
  BY DEF Frames, Pushing
<1> HIDE DEF f
<1>2. /\ frames' \in Seq(Frames) /\ Len(frames') = n + 1 /\ n \in Nat
      /\ \A j \in 1..n : frames'[j] = frames[j]
      /\ frames'[n + 1] = f
      /\ \A i \in 0..n : PushedIn(frames', i) = PushedIn(frames, i)
      /\ PushedIn(frames', n + 1) = PushedIn(frames, n)
  BY <1>0, <1>1, FrameAdded, PushingInFinite
<1>3. /\ spaces' \in Seq(Bindings) /\ spaces' # << >> /\ Len(spaces') = Len(spaces)
      /\ \A k \in 1..Len(spaces), y \in Names :
            spaces'[k][y] = IF k = Len(spaces) /\ y = x THEN l ELSE spaces[k][y]
  BY <1>0, BindFacts
<1>4. TypeOK'
  BY <1>0, <1>2, <1>3 DEF IInv, TypeOK, Bindings
<1>5. Matches'
  BY <1>0, <1>2, <1>3 DEF IInv, Matches
<1>6. BoundWhereMade'
  <2>1. SUFFICES ASSUME ~carried', NEW i \in 1..(n + 1), frames'[i].kind = "label",
                        NEW k \in 1..Len(spaces), NEW y \in Names,
                        spaces'[k][y] = frames'[i].label
                 PROVE  k = 1 + PushedIn(frames', i)
    BY <1>2, <1>3 DEF BoundWhereMade
  <2>2. \A j \in 1..Len(spaces), z \in Names : spaces[j][z] # l
    BY <1>0 DEF Unused
  <2>3. CASE i \in 1..n
    <3>1. frames'[i] = frames[i] /\ frames[i].label # l
      BY <1>0, <1>2, <2>3 DEF Unused, FramesOf
    <3>2. spaces[k][y] = frames[i].label
      BY <1>3, <2>1, <3>1
    <3>3. k = 1 + PushedIn(frames, i)
      BY <1>0, <2>1, <2>3, <3>1, <3>2 DEF IInv, BoundWhereMade
    <3> QED BY <1>2, <2>3, <3>3
  <2>4. CASE i = n + 1
    <3>1. spaces'[k][y] = l
      BY <1>1, <1>2, <2>1, <2>4
    <3>2. k = Len(spaces)
      BY <1>3, <2>2, <3>1
    <3> QED BY <1>0, <1>2, <2>1, <2>4, <3>2 DEF IInv, Matches
  <2> QED BY <1>2, <2>3, <2>4
<1>7. LiveOrCrossed'
  <2>1. SUFFICES ASSUME NEW m \in armed', FramesOf(m)' = {} PROVE m \in crossed'
    BY DEF LiveOrCrossed
  <2>2. \A j \in 1..(n + 1) : frames'[j].label # m
    BY <1>2, <2>1 DEF FramesOf
  <2>3. m # l
    BY <1>1, <1>2, <2>2
  <2>4. FramesOf(m) = {}
    BY <1>2, <2>2 DEF FramesOf
  <2> QED BY <1>0, <2>1, <2>3, <2>4 DEF IInv, LiveOrCrossed
<1> QED BY <1>4, <1>5, <1>6, <1>7 DEF IInv

LEMMA PushIInv ==
    ASSUME IInv, NEW kind \in Pushing, NEW b \in Bindings, PushNamespace(kind, b),
           carried' \in BOOLEAN, carried => carried',
           ~carried' => b = Unbound
    PROVE  IInv'
<1> DEFINE n == Len(frames)
           f == [kind |-> kind, label |-> NIL]
<1>0. /\ frames' = Append(frames, f) /\ spaces' = Append(spaces, b)
      /\ armed' = armed /\ crossed' = crossed
  BY DEF PushNamespace
<1>1. f \in Frames /\ f.kind \in Pushing
  BY DEF Frames
<1> HIDE DEF f
<1>2. /\ frames' \in Seq(Frames) /\ Len(frames') = n + 1 /\ n \in Nat
      /\ \A j \in 1..n : frames'[j] = frames[j]
      /\ frames'[n + 1] = f
      /\ \A i \in 0..n : PushedIn(frames', i) = PushedIn(frames, i)
      /\ PushedIn(frames', n + 1) = PushedIn(frames, n) + 1
  BY <1>0, <1>1, FrameAdded
<1>3. /\ spaces \in Seq(Bindings) /\ Len(spaces) \in Nat \ {0}
      /\ spaces' \in Seq(Bindings) /\ Len(spaces') = Len(spaces) + 1
      /\ \A k \in 1..Len(spaces) : spaces'[k] = spaces[k]
      /\ spaces'[Len(spaces) + 1] = b
  BY <1>0, TypeFacts, AppendProperties
<1>4. TypeOK'
  <2>1. spaces' # << >>
    BY <1>3, EmptySeq
  <2> QED BY <1>0, <1>2, <1>3, <2>1 DEF IInv, TypeOK, Bindings
<1>5. Matches'
  <2>1. PushedIn(frames, n) \in Nat
    BY <1>2, PushingInFinite
  <2> QED BY <1>0, <1>2, <1>3, <2>1 DEF IInv, Matches
<1>6. BoundWhereMade'
  <2>1. SUFFICES ASSUME ~carried', NEW i \in 1..(n + 1), frames'[i].kind = "label",
                        NEW k \in 1..(Len(spaces) + 1), NEW y \in Names,
                        spaces'[k][y] = frames'[i].label
                 PROVE  k = 1 + PushedIn(frames', i)
    BY <1>2, <1>3 DEF BoundWhereMade
  <2>2. i \in 1..n /\ frames'[i] = frames[i]
    BY <1>1, <1>2, <2>1 DEF Pushing
  <2>3. frames[i].label # NIL
    BY <2>1, <2>2, FrameKinds, TypeFacts, LabelsAssumption
  <2>4. k # Len(spaces) + 1
    BY <1>3, <2>1, <2>2, <2>3, UnboundType
  <2>5. k \in 1..Len(spaces) /\ spaces'[k] = spaces[k]
    BY <1>3, <2>4
  <2>6. k = 1 + PushedIn(frames, i)
    BY <2>1, <2>2, <2>5 DEF IInv, BoundWhereMade
  <2> QED BY <1>2, <2>2, <2>6
<1>7. LiveOrCrossed'
  <2>1. SUFFICES ASSUME NEW m \in armed, FramesOf(m)' = {} PROVE m \in crossed
    BY <1>0 DEF LiveOrCrossed
  <2>2. FramesOf(m) = {}
    BY <1>2, <2>1 DEF FramesOf
  <2> QED BY <2>1, <2>2 DEF IInv, LiveOrCrossed
<1> QED BY <1>4, <1>5, <1>6, <1>7 DEF IInv

LEMMA OverwriteIInv ==
    ASSUME IInv, NEW l \in Objects, Overwrite(l)
    PROVE  IInv'
<1>1. /\ armed' = armed \ {l}
      /\ frames' = frames /\ spaces' = spaces /\ crossed' = crossed /\ carried' = carried
  BY DEF Overwrite
<1>2. TypeOK' /\ Matches' /\ BoundWhereMade'
  BY <1>1 DEF IInv, TypeOK, Matches, BoundWhereMade
<1>3. LiveOrCrossed'
  BY <1>1 DEF IInv, LiveOrCrossed, FramesOf
<1> QED BY <1>2, <1>3 DEF IInv

\* Another name of the same namespace comes to share a label.
LEMMA SetAliasIInv ==
    ASSUME IInv, NEW x \in Names, NEW y \in Names, SetAlias(x, y)
    PROVE  IInv'
<1> DEFINE l == Target(x)
<1>1. /\ Bind(y, l) /\ frames' = frames /\ armed' = armed /\ crossed' = crossed
      /\ carried' = carried
  BY DEF SetAlias
<1>2. l = spaces[Len(spaces)][x] /\ l \in Objects \cup {NIL}
  BY TypeFacts, TargetIsCurrent
<1> HIDE DEF l
<1>3. /\ spaces' \in Seq(Bindings) /\ spaces' # << >> /\ Len(spaces') = Len(spaces)
      /\ \A k \in 1..Len(spaces), z \in Names :
            spaces'[k][z] = IF k = Len(spaces) /\ z = y THEN l ELSE spaces[k][z]
  BY <1>1, <1>2, BindFacts
<1>4. TypeOK' /\ Matches'
  BY <1>1, <1>3 DEF IInv, TypeOK, Bindings, Matches
<1>5. BoundWhereMade'
  <2>1. SUFFICES ASSUME ~carried, NEW i \in 1..Len(frames), frames[i].kind = "label",
                        NEW k \in 1..Len(spaces), NEW z \in Names,
                        spaces'[k][z] = frames[i].label
                 PROVE  k = 1 + PushedIn(frames, i)
    BY <1>1, <1>3 DEF BoundWhereMade
  <2>2. \E w \in Names : spaces[k][w] = frames[i].label
    BY <1>2, <1>3, <2>1
  <2> QED BY <2>1, <2>2 DEF IInv, BoundWhereMade
<1>6. LiveOrCrossed'
  BY <1>1 DEF IInv, LiveOrCrossed, FramesOf
<1> QED BY <1>4, <1>5, <1>6 DEF IInv

LEMMA UpvarIInv ==
    ASSUME IInv, NEW level \in 0..MaxDepth, NEW x \in Names, NEW y \in Names,
           Upvar(level, x, y)
    PROVE  IInv'
<1> DEFINE l == VariableUp(spaces, x, level)
<1>1. /\ Bind(y, l) /\ carried' = TRUE
      /\ frames' = frames /\ armed' = armed /\ crossed' = crossed
  BY DEF Upvar
<1>2. l \in Objects \cup {NIL}
  BY VariableUpType, TypeFacts, LabelsAssumption
<1> HIDE DEF l
<1>3. spaces' \in Seq(Bindings) /\ spaces' # << >> /\ Len(spaces') = Len(spaces)
  BY <1>1, <1>2, BindFacts
<1>4. TypeOK'
  BY <1>1, <1>3 DEF IInv, TypeOK, Bindings
<1>5. Matches' /\ BoundWhereMade'
  BY <1>1, <1>3 DEF IInv, Matches, BoundWhereMade
<1>6. LiveOrCrossed'
  BY <1>1 DEF IInv, LiveOrCrossed, FramesOf
<1> QED BY <1>4, <1>5, <1>6 DEF IInv

LEMMA InitIInv == Init => IInv
<1> SUFFICES ASSUME Init PROVE IInv
  OBVIOUS
<1>1. frames = << >> /\ Len(frames) = 0 /\ frames \in Seq(Frames)
  BY EmptySeq DEF Init
<1>2. spaces = <<Unbound>> /\ spaces \in Seq(Bindings) /\ Len(spaces) = 1 /\ spaces # << >>
  BY UnboundType DEF Init
<1>3. PushedIn(frames, 0) = 0
  BY FS_EmptySet DEF PushedIn, PushingIn
<1>4. armed = {} /\ crossed = {} /\ carried \in BOOLEAN
  BY Zenon DEF Init
<1>5. TypeOK
  BY <1>1, <1>2, <1>4 DEF TypeOK, Bindings
<1>6. Matches /\ BoundWhereMade /\ LiveOrCrossed
  BY <1>1, <1>2, <1>3, <1>4 DEF Matches, BoundWhereMade, LiveOrCrossed
<1> QED BY <1>5, <1>6 DEF IInv

LEMMA NextIInv == ASSUME IInv, [Next]_vars PROVE IInv'
<1>1. ASSUME NEW x \in Names, NEW l \in Objects, Label(x, l) PROVE IInv'
  BY <1>1, LabelIInv
<1>2. CASE EndLabel
  BY <1>2, EndLabelIInv
<1>3. ASSUME NEW x \in Names, Goto(x) PROVE IInv'
  <2>1. PICK i \in 1..Len(frames) : /\ Land(Target(x), i) /\ frames' = SubSeq(frames, 1, i)
                                    /\ armed' = armed
    BY <1>3 DEF Goto
  <2> QED BY <2>1, JumpIInv
<1>4. ASSUME NEW x \in Names, Leave(x) PROVE IInv'
  <2>1. PICK i \in 1..Len(frames) : /\ Land(Target(x), i)
                                    /\ frames' = SubSeq(frames, 1, i - 1)
                                    /\ armed' = armed \ {Target(x)}
    BY <1>4 DEF Leave
  <2>2. i - 1 # i /\ i - 1 \in {i - 1, i}
    BY TypeFacts
  <2> QED BY <2>1, <2>2, JumpIInv
<1>5. ASSUME NEW l \in Objects, Overwrite(l) PROVE IInv'
  BY <1>5, OverwriteIInv
<1>6. ASSUME NEW b \in Parameters, Call(b) PROVE IInv'
  <2>1. /\ PushNamespace("proc", b) /\ carried' = (carried \/ b # Unbound)
        /\ "proc" \in Pushing
    BY <1>6 DEF Call, Pushing
  <2>2. carried \in BOOLEAN
    BY DEF IInv, TypeOK
  <2>3. b \in Bindings
    <3>1. \A x \in Names : Target(x) \in Objects \cup {NIL}
      BY TypeFacts, TargetIsCurrent
    <3> QED BY <3>1 DEF Parameters, Bindings
  <2>4. carried' \in BOOLEAN /\ (carried => carried') /\ (~carried' => b = Unbound)
    BY <2>1, <2>2
  <2> QED BY <2>1, <2>3, <2>4, PushIInv
<1>7. ASSUME NEW level \in 0..MaxDepth, Uplevel(level) PROVE IInv'
  <2>1. /\ PushNamespace("uplevel", Overlaid(spaces, level)) /\ carried' = TRUE
        /\ "uplevel" \in Pushing
    BY <1>7 DEF Uplevel, Pushing
  <2>2. Overlaid(spaces, level) \in Bindings
    BY OverlaidType, TypeFacts, LabelsAssumption
  <2> QED BY <2>1, <2>2, PushIInv
<1>8. CASE PopNamespace
  BY <1>8, PopIInv
<1>9. ASSUME NEW level \in 0..MaxDepth, NEW x \in Names, NEW y \in Names,
             Upvar(level, x, y)
      PROVE  IInv'
  BY <1>9, UpvarIInv
<1>10. ASSUME NEW x \in Names, NEW y \in Names, SetAlias(x, y) \/ PopReturning(x, y)
       PROVE  IInv'
  BY <1>10, SetAliasIInv, PopReturningIInv
<1>11. CASE UNCHANGED vars
  BY <1>11 DEF vars, IInv, TypeOK, Matches, BoundWhereMade, LiveOrCrossed, FramesOf
<1> QED BY <1>1, <1>2, <1>3, <1>4, <1>5, <1>6, <1>7, <1>8, <1>9, <1>10, <1>11 DEF Next

LEMMA SpecIInv == Spec => []IInv
  BY InitIInv, NextIInv, PTL DEF Spec

-----------------------------------------------------------------------------
\* Frames, namespaces and labels are of their types, and there is a current
\* namespace whatever has been jumped over (Tcl_popNamespace).
THEOREM LabelTypes == Spec => []TypeOK
<1>1. IInv => TypeOK
  BY DEF IInv
<1> QED BY <1>1, SpecIInv, PTL

\* A call that runs has its own namespace, and until an upvar, an uplevel or an
\* argument has carried a label to another namespace, every namespace has a call that
\* runs (Tcl_pushNamespace, Tcl_popNamespace, longjmp).
THEOREM NamespacesAndCalls == Spec => []NamespacesMatch
<1>1. IInv => NamespacesMatch
  BY DEF IInv, Matches, NamespacesMatch, Pushed, PushedIn, PushingIn
<1> QED BY <1>1, SpecIInv, PTL

\* Until then a jump stays in the proc it is in: goto and leave find a label in the
\* namespace it was made in, by whatever names.
THEOREM JumpsAreLocal == Spec => []JumpsStayInProc
<1>1. IInv => JumpsStayInProc
  <2>1. SUFFICES ASSUME IInv, ~carried, NEW x \in Names, Target(x) \in armed,
                        NEW i \in FramesOf(Target(x)), NEW j \in i..Len(frames)
                 PROVE  frames[j].kind = "label"
    BY DEF JumpsStayInProc
  <2>2. /\ i \in 1..Len(frames) /\ i \in 0..Len(frames) /\ Len(frames) \in Nat
        /\ frames[i].label = Target(x) /\ frames[i] \in Frames
        /\ Target(x) \in Objects
    BY <2>1, TypeFacts DEF FramesOf, IInv, TypeOK
  <2>3. Len(spaces) \in 1..Len(spaces) /\ spaces[Len(spaces)][x] = frames[i].label
    BY <2>1, <2>2, TypeFacts, TargetIsCurrent
  <2>4. frames[i].kind = "label"
    BY <2>2, FrameKinds
  <2>5. Len(spaces) = 1 + PushedIn(frames, i)
    BY <2>1, <2>2, <2>3, <2>4 DEF IInv, BoundWhereMade
  <2>6. PushedIn(frames, i) = PushedIn(frames, Len(frames))
    BY <2>1, <2>2, <2>5, PushingInFinite DEF IInv, Matches
  <2>7. \A k \in (i + 1)..Len(frames) : frames[k].kind \notin Pushing
    BY <2>2, <2>6, PushedInOuter
  <2>8. j = i \/ j \in (i + 1)..Len(frames)
    BY <2>2
  <2> QED BY <2>1, <2>2, <2>4, <2>7, <2>8, TypeFacts, FrameKinds
<1> QED BY <1>1, SpecIInv, PTL

\* A label that can still be jumped to and whose command has ended was crossed
\* by a jump: every other ending of a label clears it (TclStd_label).
THEOREM OnlyCrossedAreStale == Spec => []StaleOnlyIfCrossed
<1>1. IInv => StaleOnlyIfCrossed
  BY DEF IInv, LiveOrCrossed, StaleOnlyIfCrossed
<1> QED BY <1>1, SpecIInv, PTL

=============================================================================
