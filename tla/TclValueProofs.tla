--------------------------- MODULE TclValueProofs ---------------------------
(***************************************************************************)
(* Proofs about TclValue: the counts are exact, every allocated handle has *)
(* one owner, and nothing is in use once C code has deleted what it got,   *)
(* for any number of handles, cells and list elements.                     *)
(***************************************************************************)
EXTENDS TclValue, FiniteSetTheorems, SequenceTheorems, TLAPS

\* The least element of a set of natural numbers, by the least of the finite
\* sets 0..x.
LEMMA LeastElement ==
    ASSUME NEW T, T \subseteq Nat, T # {}
    PROVE  \E x \in T : \A y \in T : x <= y
<1> DEFINE U == {0..x : x \in T}
           R == StrictSubsetOrdering(Nat)
<1>1. IsWellFoundedOn(R, FiniteSubsetsOf(Nat))
  BY FS_StrictSubsetOrderingWellFounded
<1>2. U \subseteq FiniteSubsetsOf(Nat) /\ U # {}
  <2>1. \A x \in T : 0..x \in SUBSET Nat /\ IsFiniteSet(0..x)
    BY FS_Interval
  <2> QED BY <2>1 DEF FiniteSubsetsOf
<1>3. PICK u \in U : \A v \in U : ~ (<<v, u>> \in R)
  <2> HIDE DEF U, R
  <2> QED BY <1>1, <1>2, WFMin, Zenon
<1>4. PICK x \in T : u = 0..x
  OBVIOUS
<1>5. ASSUME NEW y \in T, y < x PROVE FALSE
  <2>1. 0..y \subseteq 0..x /\ x \in 0..x /\ x \notin 0..y /\ 0..x \subseteq Nat
    BY <1>5
  <2>2. 0..y \in U /\ <<0..y, 0..x>> \in R
    BY <2>1 DEF StrictSubsetOrdering
  <2> QED BY <2>2, <1>3, <1>4
<1> QED BY <1>5

Good(s) == s \in Heaps /\ Counted(s)

LEMMA RefsFinite ==
    ASSUME NEW s, NEW c \in Cells
    PROVE  IsFiniteSet(Refs(s, c))
  BY FS_Subset, ValueAssumption DEF Refs

-----------------------------------------------------------------------------
(* What the primitives do to a heap: their fields, and that the counts stay *)
(* exact.                                                                  *)

LEMMA AttachFields ==
    ASSUME NEW s \in Heaps, NEW h \in Handles, NEW c \in Cells
    PROVE  /\ Attach(s, h, c) \in Heaps
           /\ Attach(s, h, c).ptr = [s.ptr EXCEPT ![h] = c]
           /\ Attach(s, h, c).ref = [s.ref EXCEPT ![c] = s.ref[c] + 1]
           /\ Attach(s, h, c).type = s.type
           /\ Attach(s, h, c).elems = s.elems
           /\ Attach(s, h, c).own = s.own
           /\ Attach(s, h, c).doomed = s.doomed
           /\ \A d \in Cells : s.ref[d] > 0 => Attach(s, h, c).ref[d] > 0
           /\ \A x \in Handles \ {h} : Attach(s, h, c).ptr[x] = s.ptr[x]
<1>1. [s.ptr EXCEPT ![h] = c] \in [Handles -> Cells \cup {FREE}]
  BY DEF Heaps
<1>2. [s.ref EXCEPT ![c] = s.ref[c] + 1] \in [Cells -> Nat]
  BY DEF Heaps
<1>3. Attach(s, h, c) \in Heaps
  BY <1>1, <1>2 DEF Heaps, Attach
<1>4. /\ \A d \in Cells : s.ref[d] > 0 => Attach(s, h, c).ref[d] > 0
      /\ \A x \in Handles \ {h} : Attach(s, h, c).ptr[x] = s.ptr[x]
  BY <1>3 DEF Heaps, Attach
<1> QED BY <1>3, <1>4 DEF Heaps, Attach

\* Pointing a free handle to a cell adds it to the references of that cell.
LEMMA AttachGood ==
    ASSUME NEW s, Good(s), NEW h \in FreeHandles(s), NEW c \in Cells
    PROVE  Good(Attach(s, h, c))
<1> DEFINE t == Attach(s, h, c)
<1>1. s \in Heaps /\ h \in Handles /\ s.ptr[h] = FREE /\ FREE \notin Cells
  BY ValueAssumption DEF FreeHandles, Good
<1>2. /\ t \in Heaps
      /\ t.ptr = [s.ptr EXCEPT ![h] = c]
      /\ t.ref = [s.ref EXCEPT ![c] = s.ref[c] + 1]
  BY <1>1, AttachFields
<1>3. s.ptr \in [Handles -> Cells \cup {FREE}] /\ s.ref \in [Cells -> Nat]
  BY <1>1 DEF Heaps
<1> HIDE DEF t
<1>4. ASSUME NEW d \in Cells PROVE t.ref[d] = Cardinality(Refs(t, d))
  <2>0. s.ref[d] = Cardinality(Refs(s, d))
    BY DEF Good, Counted
  <2>1. CASE d = c
    <3>1. Refs(t, d) = Refs(s, d) \cup {h} /\ h \notin Refs(s, d)
      BY <1>1, <1>2, <1>3, <2>1 DEF Refs
    <3>2. Cardinality(Refs(t, d)) = Cardinality(Refs(s, d)) + 1
      BY <3>1, RefsFinite, FS_AddElement
    <3> QED BY <1>2, <1>3, <2>0, <2>1, <3>2
  <2>2. CASE d # c
    <3>1. Refs(t, d) = Refs(s, d)
      BY <1>1, <1>2, <1>3, <2>2 DEF Refs
    <3> QED BY <1>2, <1>3, <2>0, <2>2, <3>1
  <2> QED BY <2>1, <2>2
<1>5. Good(t)
  BY <1>2, <1>4 DEF Good, Counted
<1> QED BY <1>5 DEF t

LEMMA FreeValueFields ==
    ASSUME NEW s \in Heaps, NEW c \in Cells, NEW x \in Types
    PROVE  /\ FreeValue(s, c, x) \in Heaps
           /\ FreeValue(s, c, x).ptr = s.ptr
           /\ FreeValue(s, c, x).ref = s.ref
           /\ FreeValue(s, c, x).type = [s.type EXCEPT ![c] = x]
           /\ FreeValue(s, c, x).elems = [s.elems EXCEPT ![c] = << >>]
           /\ FreeValue(s, c, x).own = s.own
           /\ FreeValue(s, c, x).doomed = s.doomed \cup Elements(s, c)
<1>1. [s.type EXCEPT ![c] = x] \in [Cells -> Types]
  BY DEF Heaps
<1>2. [s.elems EXCEPT ![c] = << >>] \in [Cells -> Seq(Handles)]
  BY DEF Heaps
<1>3. Elements(s, c) \subseteq Handles
  <2>1. s.elems[c] \in Seq(Handles)
    BY DEF Heaps
  <2> QED BY <2>1 DEF Elements, Items
<1>4. s.doomed \cup Elements(s, c) \in SUBSET Handles
  BY <1>3 DEF Heaps
<1>5. FreeValue(s, c, x) \in Heaps
  BY <1>1, <1>2, <1>4 DEF Heaps, FreeValue
<1> QED BY <1>5 DEF Heaps, FreeValue

\* Freeing a value moves no pointer and no count.
LEMMA FreeValueGood ==
    ASSUME NEW s, Good(s), NEW c \in Cells, NEW x \in Types
    PROVE  Good(FreeValue(s, c, x))
<1> DEFINE t == FreeValue(s, c, x)
<1>1. t \in Heaps /\ t.ptr = s.ptr /\ t.ref = s.ref
  <2>1. s \in Heaps
    BY DEF Good
  <2>2. t \in Heaps
    BY <2>1, FreeValueFields
  <2> QED BY <2>1, <2>2 DEF FreeValue, Heaps
<1> HIDE DEF t
<1>2. \A d \in Cells : Refs(t, d) = Refs(s, d)
  BY <1>1 DEF Refs
<1>3. Good(t)
  BY <1>1, <1>2 DEF Good, Counted
<1> QED BY <1>3 DEF t

LEMMA UnrefFields ==
    ASSUME NEW s, Good(s), NEW h \in Handles, s.ptr[h] # FREE
    PROVE  /\ Unref(s, h) \in Heaps
           /\ Unref(s, h).ptr = [s.ptr EXCEPT ![h] = FREE]
           /\ Unref(s, h).ref = [s.ref EXCEPT ![s.ptr[h]] = s.ref[s.ptr[h]] - 1]
           /\ Unref(s, h).own = s.own
           /\ s.ref[s.ptr[h]] > 0
           /\ s.ref[s.ptr[h]] # 1 =>
                /\ Unref(s, h).type = s.type
                /\ Unref(s, h).elems = s.elems
                /\ Unref(s, h).doomed = s.doomed
           /\ s.ref[s.ptr[h]] = 1 =>
                /\ Unref(s, h).type = [s.type EXCEPT ![s.ptr[h]] = "NULL"]
                /\ Unref(s, h).elems = [s.elems EXCEPT ![s.ptr[h]] = << >>]
                /\ Unref(s, h).doomed = s.doomed \cup Elements(s, s.ptr[h])
<1> DEFINE c == s.ptr[h]
           t == [s EXCEPT !.ptr[h] = FREE, !.ref[c] = @ - 1]
<1>1. s \in Heaps /\ c \in Cells
  BY DEF Good, Heaps
<1>2. s.ref[c] = Cardinality(Refs(s, c)) /\ h \in Refs(s, c)
  BY <1>1 DEF Good, Counted, Refs
<1>3. s.ref[c] \in Nat /\ s.ref[c] # 0
  <2>1. Refs(s, c) # {}
    BY <1>2
  <2> QED BY <1>1, <1>2, <2>1, RefsFinite, FS_EmptySet DEF Heaps
<1>4. [s.ptr EXCEPT ![h] = FREE] \in [Handles -> Cells \cup {FREE}]
  BY <1>1 DEF Heaps
<1>5. [s.ref EXCEPT ![c] = s.ref[c] - 1] \in [Cells -> Nat]
  BY <1>1, <1>3 DEF Heaps
<1>6. /\ t \in Heaps
      /\ t.ptr = [s.ptr EXCEPT ![h] = FREE]
      /\ t.ref = [s.ref EXCEPT ![c] = s.ref[c] - 1]
      /\ t.type = s.type /\ t.elems = s.elems
      /\ t.own = s.own /\ t.doomed = s.doomed
  <2>1. t \in Heaps
    BY <1>1, <1>4, <1>5 DEF Heaps
  <2> QED BY <1>1, <2>1 DEF Heaps
<1>7. Unref(s, h) = IF s.ref[c] = 1 THEN FreeValue(t, c, "NULL") ELSE t
  BY DEF Unref
<1> HIDE DEF t
<1>8. CASE s.ref[c] = 1
  <2>1. Elements(t, c) = Elements(s, c)
    BY <1>6 DEF Elements
  <2>2. "NULL" \in Types
    BY DEF Types
  <2> DEFINE u == FreeValue(t, c, "NULL")
  <2>3. /\ u \in Heaps
        /\ u.ptr = t.ptr /\ u.ref = t.ref /\ u.own = t.own
        /\ u.type = [t.type EXCEPT ![c] = "NULL"]
        /\ u.elems = [t.elems EXCEPT ![c] = << >>]
        /\ u.doomed = t.doomed \cup Elements(t, c)
    <3>1. t \in Heaps /\ c \in Cells
      BY <1>1, <1>6
    <3>2. u \in Heaps
      BY <3>1, <2>2, FreeValueFields
    <3>3. u.ptr = t.ptr /\ u.ref = t.ref /\ u.own = t.own
      BY <3>1, <2>2 DEF FreeValue, Heaps
    <3>4. u.type = [t.type EXCEPT ![c] = "NULL"]
      BY <3>1, <2>2 DEF FreeValue, Heaps
    <3>5. u.elems = [t.elems EXCEPT ![c] = << >>]
      BY <3>1, <2>2, FreeValueFields
    <3>6. u.doomed = t.doomed \cup Elements(t, c)
      BY <1>6 DEF FreeValue, Heaps
    <3> QED BY <3>2, <3>3, <3>4, <3>5, <3>6
  <2>4. Unref(s, h) = u
    BY <1>7, <1>8
  <2> HIDE DEF u
  <2> QED BY <1>3, <1>6, <1>8, <2>1, <2>3, <2>4
<1>9. CASE s.ref[c] # 1
  BY <1>3, <1>6, <1>7, <1>9
<1> QED BY <1>8, <1>9

\* A deleted handle leaves the references of its cell.
LEMMA UnrefGood ==
    ASSUME NEW s, Good(s), NEW h \in Handles, s.ptr[h] # FREE
    PROVE  Good(Unref(s, h))
<1> DEFINE t == Unref(s, h)
           c == s.ptr[h]
<1>1. /\ t \in Heaps
      /\ t.ptr = [s.ptr EXCEPT ![h] = FREE]
      /\ t.ref = [s.ref EXCEPT ![c] = s.ref[c] - 1]
  BY UnrefFields
<1>2. s.ptr \in [Handles -> Cells \cup {FREE}] /\ s.ref \in [Cells -> Nat]
  BY DEF Good, Heaps
<1> HIDE DEF t
<1>3. ASSUME NEW d \in Cells PROVE t.ref[d] = Cardinality(Refs(t, d))
  <2>0. s.ref[d] = Cardinality(Refs(s, d)) /\ FREE \notin Cells
    BY ValueAssumption DEF Good, Counted
  <2>1. CASE d = c
    <3>1. Refs(t, d) = Refs(s, d) \ {h} /\ h \in Refs(s, d)
      BY <1>1, <1>2, <2>0, <2>1 DEF Refs
    <3>2. Cardinality(Refs(t, d)) = Cardinality(Refs(s, d)) - 1
      BY <3>1, RefsFinite, FS_RemoveElement
    <3> QED BY <1>1, <1>2, <2>0, <2>1, <3>2
  <2>2. CASE d # c
    <3>1. Refs(t, d) = Refs(s, d)
      BY <1>1, <1>2, <2>0, <2>2 DEF Refs
    <3> QED BY <1>1, <1>2, <2>0, <2>2, <3>1
  <2> QED BY <2>1, <2>2
<1>4. Good(t)
  BY <1>1, <1>3 DEF Good, Counted
<1> QED BY <1>4 DEF t


-----------------------------------------------------------------------------
(* Ownership, inside the steps too: E are the handles that are just between *)
(* two places, F the cells that have elements but no handle yet.           *)

InPlace(s, h) == \/ h \in s.own \cup s.doomed
                 \/ \E c \in Cells : h \in Elements(s, c)

SoundBut(s, E, F) ==
    /\ Good(s)
    /\ PlacedOnce(s)
    /\ \A h \in Handles \ E : Live(s, h) <=> InPlace(s, h)
    /\ \A c \in Cells : s.elems[c] # << >> =>
          s.type[c] = "LIST" /\ (c \in F \/ s.ref[c] > 0)

Sound(s) == SoundBut(s, {}, {})

LEMMA SoundOwnership == Sound(heap) => TypeOK /\ RefExact /\ Ownership
<1>1. Placed(heap) <=> \A h \in Handles : Live(heap, h) <=> InPlace(heap, h)
  BY DEF Placed, InPlace
<1> QED
  BY <1>1 DEF Sound, SoundBut, Good, TypeOK, RefExact, Ownership, ListsHold

LEMMA ElementsAreHandles ==
    ASSUME NEW s \in Heaps, NEW c \in Cells
    PROVE  Elements(s, c) \subseteq Handles
<1>1. s.elems[c] \in Seq(Handles)
  BY DEF Heaps
<1> QED BY <1>1 DEF Elements, Items

LEMMA NoElements ==
    ASSUME NEW s, NEW c, s.elems[c] = << >>
    PROVE  Elements(s, c) = {} /\ Injective(s.elems[c])
  BY DEF Elements, Items, Injective

\* An exception is over when the handle is live just when it has a place.
LEMMA Settle ==
    ASSUME NEW s, NEW E, NEW F, NEW h, SoundBut(s, E \cup {h}, F),
           Live(s, h) <=> InPlace(s, h)
    PROVE  SoundBut(s, E, F)
  BY DEF SoundBut

\* What a handle is pointed to is a cell.
LEMMA PlacedPoints ==
    ASSUME NEW s, NEW E, NEW F, SoundBut(s, E, F),
           NEW h \in Handles \ E, InPlace(s, h)
    PROVE  s.ptr[h] \in Cells /\ Live(s, h)
<1>1. Live(s, h) /\ s.ptr \in [Handles -> Cells \cup {FREE}]
  BY DEF SoundBut, Good, Heaps
<1> QED BY <1>1 DEF Live

\* Attach moves no handle from its place.
LEMMA AttachSound ==
    ASSUME NEW s, NEW E, NEW F, SoundBut(s, E, F),
           NEW h \in FreeHandles(s), NEW c \in Cells
    PROVE  /\ SoundBut(Attach(s, h, c), E \cup {h}, F \ {c})
           /\ Live(Attach(s, h, c), h)
           /\ \A x : InPlace(Attach(s, h, c), x) <=> InPlace(s, x)
<1> DEFINE t == Attach(s, h, c)
<1>1. s \in Heaps /\ h \in Handles /\ FREE \notin Cells /\ Good(t)
  BY ValueAssumption, AttachGood DEF FreeHandles, SoundBut, Good
<1>2. /\ t.ptr = [s.ptr EXCEPT ![h] = c]
      /\ t.ref = [s.ref EXCEPT ![c] = s.ref[c] + 1]
      /\ t.type = s.type /\ t.elems = s.elems
      /\ t.own = s.own /\ t.doomed = s.doomed
  BY <1>1, AttachFields
<1>3. /\ s.ptr \in [Handles -> Cells \cup {FREE}]
      /\ s.ref \in [Cells -> Nat]
  BY <1>1 DEF Heaps
<1> HIDE DEF t
<1>4. \A d : Elements(t, d) = Elements(s, d)
  BY <1>2 DEF Elements
<1>5. \A x : InPlace(t, x) <=> InPlace(s, x)
  BY <1>2, <1>4 DEF InPlace
<1>6. PlacedOnce(t)
  <2>1. PlacedOnce(s)
    BY DEF SoundBut
  <2> QED BY <2>1, <1>2, <1>4 DEF PlacedOnce
<1>7. \A x \in Handles \ (E \cup {h}) : Live(t, x) <=> InPlace(t, x)
  BY <1>2, <1>3, <1>5 DEF SoundBut, Live
<1>8. ASSUME NEW d \in Cells, t.elems[d] # << >>
      PROVE  t.type[d] = "LIST" /\ (d \in F \ {c} \/ t.ref[d] > 0)
  <2>1. s.type[d] = "LIST" /\ (d \in F \/ s.ref[d] > 0)
    BY <1>2, <1>8 DEF SoundBut
  <2> QED BY <1>2, <1>3, <2>1
<1>9. SoundBut(t, E \cup {h}, F \ {c})
  BY <1>1, <1>6, <1>7, <1>8 DEF SoundBut
<1>10. Live(t, h)
  BY <1>1, <1>2, <1>3 DEF Live
<1> QED BY <1>5, <1>9, <1>10 DEF t

\* The elements of a freed list pass to the cascade.
LEMMA FreeValueSound ==
    ASSUME NEW s, NEW E, NEW F, SoundBut(s, E, F),
           NEW c \in Cells, NEW y \in Types
    PROVE  SoundBut(FreeValue(s, c, y), E, F)
<1> DEFINE t == FreeValue(s, c, y)
<1>1. s \in Heaps /\ Good(t)
  BY FreeValueGood DEF SoundBut, Good
<1>2. /\ t.ptr = s.ptr /\ t.ref = s.ref
      /\ t.type = [s.type EXCEPT ![c] = y]
      /\ t.elems = [s.elems EXCEPT ![c] = << >>]
      /\ t.own = s.own /\ t.doomed = s.doomed \cup Elements(s, c)
  BY <1>1, FreeValueFields
<1>3. /\ s.type \in [Cells -> Types]
      /\ s.elems \in [Cells -> Seq(Handles)]
  BY <1>1 DEF Heaps
<1> HIDE DEF t
<1>4. /\ t.elems[c] = << >> /\ Elements(t, c) = {} /\ Injective(t.elems[c])
      /\ \A d \in Cells \ {c} : /\ t.elems[d] = s.elems[d]
                                /\ Elements(t, d) = Elements(s, d)
  <2>1. t.elems[c] = << >> /\ \A d \in Cells \ {c} : t.elems[d] = s.elems[d]
    BY <1>2, <1>3
  <2> QED BY <2>1, NoElements DEF Elements
<1>5. \A x : InPlace(t, x) <=> InPlace(s, x)
  BY <1>2, <1>4 DEF InPlace
<1>6. PlacedOnce(t)
  <2>1. PlacedOnce(s)
    BY DEF SoundBut
  <2>2. t.own \cap t.doomed = {}
    BY <1>2, <2>1 DEF PlacedOnce
  <2>3. \A d \in Cells : Elements(t, d) \cap (t.own \cup t.doomed) = {}
    BY <1>2, <1>4, <2>1 DEF PlacedOnce
  <2>4. \A d \in Cells : Injective(t.elems[d])
    BY <1>4, <2>1 DEF PlacedOnce
  <2>5. \A d, e \in Cells : d # e => Elements(t, d) \cap Elements(t, e) = {}
    BY <1>4, <2>1 DEF PlacedOnce
  <2> QED BY <2>2, <2>3, <2>4, <2>5 DEF PlacedOnce
<1>7. \A x \in Handles \ E : Live(t, x) <=> InPlace(t, x)
  BY <1>2, <1>5 DEF SoundBut, Live
<1>8. \A d \in Cells : t.elems[d] # << >> =>
          t.type[d] = "LIST" /\ (d \in F \/ t.ref[d] > 0)
  BY <1>2, <1>3, <1>4 DEF SoundBut
<1>9. SoundBut(t, E, F)
  BY <1>1, <1>6, <1>7, <1>8 DEF SoundBut
<1> QED BY <1>9 DEF t

\* Deleting a handle moves no handle from its place: the elements of a list
\* that is freed pass to the cascade.
LEMMA UnrefSound ==
    ASSUME NEW s, NEW E, NEW F, SoundBut(s, E, F),
           NEW h \in Handles, Live(s, h)
    PROVE  /\ SoundBut(Unref(s, h), E \cup {h}, F)
           /\ ~Live(Unref(s, h), h)
           /\ Unref(s, h).own = s.own
           /\ Unref(s, h).ptr = [s.ptr EXCEPT ![h] = FREE]
           /\ \A x : InPlace(Unref(s, h), x) <=> InPlace(s, x)
<1> DEFINE t == Unref(s, h)
           c == s.ptr[h]
<1>1. s \in Heaps /\ Good(s) /\ s.ptr[h] # FREE /\ Good(t)
  BY UnrefGood DEF SoundBut, Good, Live
<1>2. /\ s.ptr \in [Handles -> Cells \cup {FREE}] /\ c \in Cells
      /\ s.ref \in [Cells -> Nat] /\ s.type \in [Cells -> Types]
      /\ s.elems \in [Cells -> Seq(Handles)]
  BY <1>1 DEF Heaps
<1>3. /\ t.ptr = [s.ptr EXCEPT ![h] = FREE]
      /\ t.ref = [s.ref EXCEPT ![c] = s.ref[c] - 1]
      /\ t.own = s.own /\ s.ref[c] > 0
  BY <1>1, UnrefFields
<1>4. s.ref[c] # 1 =>
         t.type = s.type /\ t.elems = s.elems /\ t.doomed = s.doomed
  BY <1>1, UnrefFields
<1>5. s.ref[c] = 1 => /\ t.type = [s.type EXCEPT ![c] = "NULL"]
                      /\ t.elems = [s.elems EXCEPT ![c] = << >>]
                      /\ t.doomed = s.doomed \cup Elements(s, c)
  <2> SUFFICES ASSUME s.ref[c] = 1
               PROVE  /\ t.type = [s.type EXCEPT ![c] = "NULL"]
                      /\ t.elems = [s.elems EXCEPT ![c] = << >>]
                      /\ t.doomed = s.doomed \cup Elements(s, c)
    OBVIOUS
  <2>1. t.type = [s.type EXCEPT ![c] = "NULL"]
    BY <1>1, UnrefFields
  <2>2. t.elems = [s.elems EXCEPT ![c] = << >>]
    BY <1>1, UnrefFields
  <2>3. t.doomed = s.doomed \cup Elements(s, c)
    BY <1>1 DEF Unref, FreeValue, Elements, Heaps, Items
  <2> QED BY <2>1, <2>2, <2>3
<1> HIDE DEF t, c
<1>7. \A d \in Cells \ {c} : /\ t.ref[d] = s.ref[d] /\ t.type[d] = s.type[d]
                             /\ t.elems[d] = s.elems[d]
                             /\ Elements(t, d) = Elements(s, d)
  <2>1. \A d \in Cells \ {c} : /\ t.ref[d] = s.ref[d] /\ t.type[d] = s.type[d]
                               /\ t.elems[d] = s.elems[d]
    BY <1>2, <1>3, <1>4, <1>5
  <2> QED BY <2>1 DEF Elements
<1>8. \/ /\ Elements(t, c) = Elements(s, c) /\ t.elems[c] = s.elems[c]
         /\ t.type[c] = s.type[c] /\ t.doomed = s.doomed /\ t.ref[c] > 0
      \/ /\ Elements(t, c) = {} /\ Injective(t.elems[c]) /\ t.elems[c] = << >>
         /\ t.doomed = s.doomed \cup Elements(s, c)
  <2>1. CASE s.ref[c] = 1
    <3>1. t.elems[c] = << >>
      BY <1>2, <1>5, <2>1
    <3> QED BY <3>1, <1>5, <2>1, NoElements
  <2>2. CASE s.ref[c] # 1
    <3>1. t.ref[c] > 0
      BY <1>2, <1>3, <2>2
    <3> QED BY <3>1, <1>4, <2>2 DEF Elements
  <2> QED BY <2>1, <2>2
<1>9. \A x : InPlace(t, x) <=> InPlace(s, x)
  BY <1>2, <1>3, <1>7, <1>8 DEF InPlace
<1>10. PlacedOnce(t)
  <2>1. PlacedOnce(s)
    BY DEF SoundBut
  <2>2. t.own \cap t.doomed = {}
    BY <1>2, <1>3, <1>8, <2>1 DEF PlacedOnce
  <2>3. \A d \in Cells : Elements(t, d) \cap (t.own \cup t.doomed) = {}
    BY <1>2, <1>3, <1>7, <1>8, <2>1 DEF PlacedOnce
  <2>4. \A d \in Cells : Injective(t.elems[d])
    BY <1>7, <1>8, <2>1 DEF PlacedOnce
  <2>5. \A d, e \in Cells : d # e => Elements(t, d) \cap Elements(t, e) = {}
    BY <1>7, <1>8, <2>1 DEF PlacedOnce
  <2> QED BY <2>2, <2>3, <2>4, <2>5 DEF PlacedOnce
<1>11. ~Live(t, h) /\ \A x \in Handles \ {h} : Live(t, x) <=> Live(s, x)
  BY <1>2, <1>3 DEF Live
<1>12. \A x \in Handles \ (E \cup {h}) : Live(t, x) <=> InPlace(t, x)
  BY <1>9, <1>11 DEF SoundBut
<1>13. \A d \in Cells : t.elems[d] # << >> =>
          t.type[d] = "LIST" /\ (d \in F \/ t.ref[d] > 0)
  BY <1>7, <1>8 DEF SoundBut
<1>14. SoundBut(t, E \cup {h}, F)
  BY <1>1, <1>10, <1>12, <1>13 DEF SoundBut
<1> QED BY <1>3, <1>9, <1>11, <1>14 DEF t, c

LEMMA UnrefElsewhere ==
    ASSUME NEW s, Good(s), NEW h \in Handles, Live(s, h),
           NEW d \in Cells, d # s.ptr[h]
    PROVE  /\ Unref(s, h).type[d] = s.type[d]
           /\ Unref(s, h).elems[d] = s.elems[d]
<1> DEFINE t == Unref(s, h)
           c == s.ptr[h]
<1>1. s.ptr[h] # FREE
  BY DEF Live
<1>2. /\ s.type \in [Cells -> Types]
      /\ s.elems \in [Cells -> Seq(Handles)]
      /\ c \in Cells
  BY <1>1 DEF Good, Heaps
<1>3. s.ref[c] # 1 => t.type = s.type /\ t.elems = s.elems
  BY <1>1, UnrefFields
<1>4. s.ref[c] = 1 => /\ t.type = [s.type EXCEPT ![c] = "NULL"]
                      /\ t.elems = [s.elems EXCEPT ![c] = << >>]
  BY <1>1, UnrefFields
<1>5. d # c
  OBVIOUS
<1> HIDE DEF t, c
<1>6. t.type[d] = s.type[d] /\ t.elems[d] = s.elems[d]
  BY <1>2, <1>3, <1>4, <1>5
<1> QED BY <1>6 DEF t

-----------------------------------------------------------------------------
(* Changes of place.                                                       *)

\* C code gets a handle that has no place.
LEMMA OwnedSound ==
    ASSUME NEW s, NEW E, NEW F, NEW h \in Handles,
           SoundBut(s, E \cup {h}, F), ~InPlace(s, h), Live(s, h)
    PROVE  SoundBut(Owned(s, h), E, F)
<1> DEFINE t == Owned(s, h)
<1>1. s \in Heaps /\ Counted(s)
  BY DEF SoundBut, Good
<1>2. /\ t \in Heaps /\ t.own = s.own \cup {h}
      /\ t.ptr = s.ptr /\ t.ref = s.ref /\ t.type = s.type
      /\ t.elems = s.elems /\ t.doomed = s.doomed
  <2>1. s.own \cup {h} \in SUBSET Handles
    BY <1>1 DEF Heaps
  <2>2. t \in Heaps
    BY <1>1, <2>1 DEF Heaps, Owned
  <2> QED BY <1>1, <2>2 DEF Heaps, Owned
<1> HIDE DEF t
<1>3. \A d : Elements(t, d) = Elements(s, d) /\ Refs(t, d) = Refs(s, d)
  BY <1>2 DEF Elements, Refs
<1>4. Good(t)
  BY <1>1, <1>2, <1>3 DEF Good, Counted
<1>5. \A x : InPlace(t, x) <=> x = h \/ InPlace(s, x)
  BY <1>2, <1>3 DEF InPlace
<1>6. PlacedOnce(t)
  <2>1. PlacedOnce(s)
    BY DEF SoundBut
  <2>2. h \notin s.own \cup s.doomed /\ \A d \in Cells : h \notin Elements(s, d)
    BY DEF InPlace
  <2> QED BY <2>1, <2>2, <1>2, <1>3 DEF PlacedOnce
<1>7. \A x \in Handles \ E : Live(t, x) <=> InPlace(t, x)
  BY <1>2, <1>5 DEF SoundBut, Live
<1>8. SoundBut(t, E, F)
  BY <1>2, <1>4, <1>6, <1>7 DEF SoundBut
<1> QED BY <1>8 DEF t

\* C code, or the cascade, is done with a handle.
LEMMA ReleasedSound ==
    ASSUME NEW s, NEW E, NEW F, NEW h \in Handles, SoundBut(s, E, F), NEW t,
           \/ t = Disowned(s, h) /\ h \in s.own
           \/ t = [s EXCEPT !.doomed = @ \ {h}] /\ h \in s.doomed
    PROVE  SoundBut(t, E \cup {h}, F) /\ ~InPlace(t, h) /\ t.ptr = s.ptr
<1>1. s \in Heaps /\ Counted(s) /\ PlacedOnce(s)
  BY DEF SoundBut, Good
<1>2. /\ t \in Heaps
      /\ t.own \subseteq s.own /\ t.doomed \subseteq s.doomed
      /\ t.own \cup t.doomed = (s.own \cup s.doomed) \ {h}
      /\ t.ptr = s.ptr /\ t.ref = s.ref /\ t.type = s.type /\ t.elems = s.elems
  <2>1. CASE t = Disowned(s, h) /\ h \in s.own
    <3>1. s.own \ {h} \in SUBSET Handles
      BY <1>1 DEF Heaps
    <3>2. t \in Heaps
      BY <1>1, <2>1, <3>1 DEF Heaps, Disowned
    <3>3. h \notin s.doomed
      BY <1>1, <2>1 DEF PlacedOnce
    <3> QED BY <1>1, <2>1, <3>2, <3>3 DEF Heaps, Disowned
  <2>2. CASE t = [s EXCEPT !.doomed = @ \ {h}] /\ h \in s.doomed
    <3>1. s.doomed \ {h} \in SUBSET Handles
      BY <1>1 DEF Heaps
    <3>2. t \in Heaps
      BY <1>1, <2>2, <3>1 DEF Heaps
    <3>3. h \notin s.own
      BY <1>1, <2>2 DEF PlacedOnce
    <3> QED BY <1>1, <2>2, <3>2, <3>3 DEF Heaps
  <2> QED BY <2>1, <2>2
<1>3. \A d : Elements(t, d) = Elements(s, d) /\ Refs(t, d) = Refs(s, d)
  BY <1>2 DEF Elements, Refs
<1>4. Good(t)
  BY <1>1, <1>2, <1>3 DEF Good, Counted
<1>5. \A d \in Cells : h \notin Elements(s, d)
  BY <1>1 DEF PlacedOnce
<1>6. ~InPlace(t, h) /\ \A x : x # h => (InPlace(t, x) <=> InPlace(s, x))
  BY <1>2, <1>3, <1>5 DEF InPlace
<1>7. PlacedOnce(t)
  BY <1>1, <1>2, <1>3 DEF PlacedOnce
<1>8. \A x \in Handles \ (E \cup {h}) : Live(t, x) <=> InPlace(t, x)
  BY <1>2, <1>6 DEF SoundBut, Live
<1>9. SoundBut(t, E \cup {h}, F)
  BY <1>2, <1>4, <1>7, <1>8 DEF SoundBut
<1> QED BY <1>2, <1>6, <1>9

HoldsList(s, F, c) == s.type[c] = "LIST" /\ (c \in F \/ s.ref[c] > 0)

Relisted(s, c, q) == [s EXCEPT !.elems[c] = q]

\* A list of C code gets or loses an element; h is the one it gets or loses.
LEMMA RelistedSound ==
    ASSUME NEW s, NEW E, NEW F, SoundBut(s, E, F),
           NEW c \in Cells, NEW q \in Seq(Handles), NEW h \in Handles,
           HoldsList(s, F, c), Injective(q),
           \/ Items(q) = Elements(s, c) \cup {h} /\ ~InPlace(s, h)
           \/ Items(q) = Elements(s, c) \ {h} /\ h \in Elements(s, c)
    PROVE  /\ SoundBut(Relisted(s, c, q), E \cup {h}, F)
           /\ Relisted(s, c, q).ptr = s.ptr
           /\ InPlace(Relisted(s, c, q), h) <=> h \in Items(q)
<1> DEFINE t == Relisted(s, c, q)
<1>1. s \in Heaps /\ Counted(s) /\ PlacedOnce(s)
  BY DEF SoundBut, Good
<1>2. s.elems \in [Cells -> Seq(Handles)]
  BY <1>1 DEF Heaps
<1>3. [s.elems EXCEPT ![c] = q] \in [Cells -> Seq(Handles)]
  BY <1>2
<1>4. t \in Heaps
  BY <1>1, <1>3 DEF Heaps, Relisted
<1>5. /\ t.elems = [s.elems EXCEPT ![c] = q]
      /\ t.ptr = s.ptr /\ t.ref = s.ref /\ t.type = s.type
      /\ t.own = s.own /\ t.doomed = s.doomed
  BY <1>1, <1>4 DEF Heaps, Relisted
<1> HIDE DEF t
<1>6. t.elems[c] = q /\ \A d \in Cells \ {c} : t.elems[d] = s.elems[d]
  BY <1>2, <1>5
<1>7. /\ Elements(t, c) = Items(q)
      /\ \A d \in Cells \ {c} : Elements(t, d) = Elements(s, d)
  BY <1>6 DEF Elements
<1>8. Good(t)
  <2>1. \A d : Refs(t, d) = Refs(s, d)
    BY <1>5 DEF Refs
  <2> QED BY <1>1, <1>4, <1>5, <2>1 DEF Good, Counted
<1>9. \A x : x # h => (InPlace(t, x) <=> InPlace(s, x))
  BY <1>5, <1>7 DEF InPlace
<1>10. PlacedOnce(t) /\ (InPlace(t, h) <=> h \in Items(q))
  <2>1. CASE Items(q) = Elements(s, c) \cup {h} /\ ~InPlace(s, h)
    <3>1. h \notin s.own \cup s.doomed /\ \A d \in Cells : h \notin Elements(s, d)
      BY <2>1 DEF InPlace
    <3>2. PlacedOnce(t)
      <4>1. t.own \cap t.doomed = {}
        BY <1>1, <1>5 DEF PlacedOnce
      <4>2. \A d \in Cells : Elements(t, d) \cap (t.own \cup t.doomed) = {}
        BY <1>1, <1>5, <1>7, <2>1, <3>1 DEF PlacedOnce
      <4>3. \A d \in Cells : Injective(t.elems[d])
        BY <1>1, <1>6 DEF PlacedOnce
      <4>4. \A d, e \in Cells : d # e => Elements(t, d) \cap Elements(t, e) = {}
        BY <1>1, <1>7, <2>1, <3>1 DEF PlacedOnce
      <4> QED BY <4>1, <4>2, <4>3, <4>4 DEF PlacedOnce
    <3>3. InPlace(t, h) /\ h \in Items(q)
      BY <1>7, <2>1 DEF InPlace
    <3> QED BY <3>2, <3>3
  <2>2. CASE Items(q) = Elements(s, c) \ {h} /\ h \in Elements(s, c)
    <3>1. PlacedOnce(t)
      <4>1. t.own \cap t.doomed = {}
        BY <1>1, <1>5 DEF PlacedOnce
      <4>2. \A d \in Cells : Elements(t, d) \cap (t.own \cup t.doomed) = {}
        BY <1>1, <1>5, <1>7, <2>2 DEF PlacedOnce
      <4>3. \A d \in Cells : Injective(t.elems[d])
        BY <1>1, <1>6 DEF PlacedOnce
      <4>4. \A d, e \in Cells : d # e => Elements(t, d) \cap Elements(t, e) = {}
        BY <1>1, <1>7, <2>2 DEF PlacedOnce
      <4> QED BY <4>1, <4>2, <4>3, <4>4 DEF PlacedOnce
    <3>2. h \notin s.own \cup s.doomed /\ \A d \in Cells \ {c} : h \notin Elements(s, d)
      BY <1>1, <2>2 DEF PlacedOnce
    <3>3. ~InPlace(t, h) /\ h \notin Items(q)
      BY <1>5, <1>7, <2>2, <3>2 DEF InPlace
    <3> QED BY <3>1, <3>3
  <2> QED BY <2>1, <2>2
<1>11. \A x \in Handles \ (E \cup {h}) : Live(t, x) <=> InPlace(t, x)
  BY <1>5, <1>9 DEF SoundBut, Live
<1>12. \A d \in Cells : t.elems[d] # << >> =>
          t.type[d] = "LIST" /\ (d \in F \/ t.ref[d] > 0)
  BY <1>5, <1>6 DEF SoundBut, HoldsList
<1>13. SoundBut(t, E \cup {h}, F)
  BY <1>8, <1>10, <1>11, <1>12 DEF SoundBut
<1> QED BY <1>5, <1>10, <1>13 DEF t

\* The tag of a cell without elements changes.
LEMMA RetypedSound ==
    ASSUME NEW s, NEW E, NEW F, SoundBut(s, E, F),
           NEW c \in Cells, s.elems[c] = << >>, NEW y \in Types,
           NEW t, t = [s EXCEPT !.type[c] = y]
    PROVE  /\ SoundBut(t, E, F)
           /\ t.ptr = s.ptr /\ t.ref = s.ref
           /\ \A x : InPlace(t, x) <=> InPlace(s, x)
<1>1. s \in Heaps /\ Counted(s) /\ PlacedOnce(s)
  BY DEF SoundBut, Good
<1>2. s.type \in [Cells -> Types] /\ [s.type EXCEPT ![c] = y] \in [Cells -> Types]
  BY <1>1 DEF Heaps
<1>3. t \in Heaps
  BY <1>1, <1>2 DEF Heaps
<1>4. /\ t.type = [s.type EXCEPT ![c] = y]
      /\ t.ptr = s.ptr /\ t.ref = s.ref /\ t.elems = s.elems
      /\ t.own = s.own /\ t.doomed = s.doomed
  BY <1>1, <1>3 DEF Heaps
<1>5. \A d : Elements(t, d) = Elements(s, d) /\ Refs(t, d) = Refs(s, d)
  BY <1>4 DEF Elements, Refs
<1>6. Good(t)
  BY <1>1, <1>3, <1>4, <1>5 DEF Good, Counted
<1>7. PlacedOnce(t)
  BY <1>1, <1>4, <1>5 DEF PlacedOnce
<1>8. \A x : InPlace(t, x) <=> InPlace(s, x)
  BY <1>4, <1>5 DEF InPlace
<1>9. \A x \in Handles \ E : Live(t, x) <=> InPlace(t, x)
  BY <1>4, <1>8 DEF SoundBut, Live
<1>10. \A d \in Cells : t.elems[d] # << >> =>
          t.type[d] = "LIST" /\ (d \in F \/ t.ref[d] > 0)
  BY <1>2, <1>4 DEF SoundBut
<1>11. SoundBut(t, E, F)
  BY <1>6, <1>7, <1>9, <1>10 DEF SoundBut
<1> QED BY <1>4, <1>8, <1>11

-----------------------------------------------------------------------------
(* The composed operators.                                                 *)

LEMMA FreeCellEmpty ==
    ASSUME NEW s, Sound(s), NEW c \in FreeCells(s)
    PROVE  c \in Cells /\ s.ref[c] = 0 /\ s.elems[c] = << >>
  BY DEF Sound, SoundBut, FreeCells

LEMMA FreeHandleNowhere ==
    ASSUME NEW s, Sound(s), NEW h \in FreeHandles(s)
    PROVE  h \in Handles /\ ~InPlace(s, h) /\ ~Live(s, h)
  BY DEF Sound, SoundBut, FreeHandles, Live

LEMMA OwnPoints ==
    ASSUME NEW s, Sound(s), NEW h \in s.own
    PROVE  /\ h \in Handles /\ s.ptr[h] \in Cells
           /\ Live(s, h) /\ InPlace(s, h)
           /\ s.ref[s.ptr[h]] > 0
<1>1. h \in Handles /\ Good(s)
  BY DEF Sound, SoundBut, Good, Heaps
<1>2. InPlace(s, h)
  BY DEF InPlace
<1>3. s.ptr[h] \in Cells /\ Live(s, h)
  BY <1>1, <1>2, PlacedPoints DEF Sound
<1>4. s.ref[s.ptr[h]] > 0
  BY <1>1, <1>3, UnrefFields DEF Live
<1> QED BY <1>1, <1>2, <1>3, <1>4

LEMMA VisiblePoints ==
    ASSUME NEW s, Sound(s), NEW h \in Visible(s)
    PROVE  h \in Handles /\ s.ptr[h] \in Cells /\ InPlace(s, h)
<1>1. CASE h \in s.own
  BY <1>1, OwnPoints
<1>2. CASE h \in ElementsOf(s, s.own)
  <2>1. PICK l \in s.own : h \in Elements(s, s.ptr[l])
    BY <1>2 DEF ElementsOf
  <2>2. s.ptr[l] \in Cells /\ s \in Heaps
    BY OwnPoints DEF Sound, SoundBut, Good
  <2>3. h \in Handles /\ InPlace(s, h)
    BY <2>1, <2>2, ElementsAreHandles DEF InPlace
  <2> QED BY <2>3, PlacedPoints DEF Sound
<1> QED BY <1>1, <1>2 DEF Visible

\* A new handle on a cell is C code's.
LEMMA NewRefSound ==
    ASSUME NEW s, Sound(s), NEW h \in FreeHandles(s), NEW c \in Cells
    PROVE  Sound(Owned(Attach(s, h, c), h))
<1> DEFINE t == Attach(s, h, c)
<1>1. SoundBut(s, {}, {}) /\ ~InPlace(s, h) /\ h \in Handles
  BY FreeHandleNowhere DEF Sound
<1>2. /\ SoundBut(t, {} \cup {h}, {} \ {c}) /\ Live(t, h)
      /\ \A x : InPlace(t, x) <=> InPlace(s, x)
  BY <1>1, AttachSound
<1> HIDE DEF t
<1>3. SoundBut(t, {} \cup {h}, {}) /\ ~InPlace(t, h)
  BY <1>1, <1>2
<1>4. SoundBut(Owned(t, h), {}, {})
  BY <1>1, <1>2, <1>3, OwnedSound
<1> QED BY <1>4 DEF Sound, t

LEMMA NewValueSound ==
    ASSUME NEW s, Sound(s), NEW h \in FreeHandles(s), NEW c \in FreeCells(s),
           NEW y \in Types
    PROVE  Sound(NewValue(s, h, c, y))
<1> DEFINE t == [s EXCEPT !.type[c] = y]
<1>1. c \in Cells /\ s.ref[c] = 0 /\ s.elems[c] = << >> /\ s \in Heaps
  BY FreeCellEmpty DEF Sound, SoundBut, Good
<1>2. h \in Handles
  BY FreeHandleNowhere
<1>3. SoundBut(t, {}, {}) /\ t.ptr = s.ptr /\ t.ref = s.ref
  BY <1>1, RetypedSound DEF Sound
<1>4. Sound(t) /\ h \in FreeHandles(t)
  BY <1>3 DEF Sound, FreeHandles
<1>5. Fresh(s, h, c, y) = Attach(t, h, c)
  <2>1. [s EXCEPT !.ptr[h] = c, !.ref[c] = 1, !.type[c] = y]
        = [[s EXCEPT !.type[c] = y] EXCEPT !.ptr[h] = c, !.ref[c] = 1]
    BY <1>1, <1>2 DEF Heaps
  <2>2. t.ref[c] + 1 = 1
    BY <1>1, <1>3
  <2> QED BY <2>1, <2>2 DEF Fresh, Attach
<1> HIDE DEF t
<1>6. Sound(Owned(Attach(t, h, c), h))
  BY <1>1, <1>4, NewRefSound
<1> QED BY <1>5, <1>6 DEF NewValue

LEMMA DeleteSound ==
    ASSUME NEW s, Sound(s), NEW h \in s.own
    PROVE  Sound(Disowned(Unref(s, h), h))
<1> DEFINE t == Unref(s, h)
           u == Disowned(t, h)
<1>1. h \in Handles /\ Live(s, h) /\ SoundBut(s, {}, {})
  BY OwnPoints DEF Sound
<1>2. SoundBut(t, {} \cup {h}, {}) /\ ~Live(t, h) /\ t.own = s.own
  BY <1>1, UnrefSound
<1> HIDE DEF t
<1>3. SoundBut(t, {h}, {})
  BY <1>2
<1>4. SoundBut(u, {h} \cup {h}, {}) /\ ~InPlace(u, h) /\ u.ptr = t.ptr
  BY <1>1, <1>2, <1>3, ReleasedSound
<1> HIDE DEF u
<1>5. SoundBut(u, {} \cup {h}, {}) /\ ~Live(u, h)
  BY <1>2, <1>4 DEF Live
<1>6. SoundBut(u, {}, {})
  BY <1>4, <1>5, Settle
<1> QED BY <1>6 DEF Sound, t, u

LEMMA DrainSound ==
    ASSUME NEW s, Sound(s), NEW h \in s.doomed
    PROVE  Sound(Unref([s EXCEPT !.doomed = @ \ {h}], h))
<1> DEFINE t == [s EXCEPT !.doomed = @ \ {h}]
           u == Unref(t, h)
<1>1. h \in Handles /\ SoundBut(s, {}, {})
  BY DEF Sound, SoundBut, Good, Heaps
<1>2. Live(s, h)
  BY <1>1, PlacedPoints DEF InPlace
<1>3. SoundBut(t, {} \cup {h}, {}) /\ ~InPlace(t, h) /\ t.ptr = s.ptr
  BY <1>1, ReleasedSound
<1> HIDE DEF t
<1>4. SoundBut(t, {h}, {}) /\ Live(t, h)
  BY <1>2, <1>3 DEF Live
<1>5. /\ SoundBut(u, {h} \cup {h}, {}) /\ ~Live(u, h)
      /\ \A x : InPlace(u, x) <=> InPlace(t, x)
  BY <1>1, <1>4, UnrefSound
<1> HIDE DEF u
<1>6. SoundBut(u, {} \cup {h}, {}) /\ ~InPlace(u, h)
  BY <1>3, <1>5
<1>7. SoundBut(u, {}, {})
  BY <1>5, <1>6, Settle
<1> QED BY <1>7 DEF Sound, t, u

\* A handle of C code is pointed to another cell, which may have the elements
\* of a fresh list.
LEMMA RedirectSound ==
    ASSUME NEW s, NEW F, SoundBut(s, {}, F),
           NEW v \in s.own, Live(s, v), NEW c \in Cells,
           NEW t, \/ t = Unref(s, v)
                  \/ /\ Unref(s, v).elems[c] = << >>
                     /\ \E y \in Types : t = [Unref(s, v) EXCEPT !.type[c] = y]
    PROVE  SoundBut(Attach(t, v, c), {}, F \ {c})
<1> DEFINE r == Unref(s, v)
           u == Attach(t, v, c)
<1>1. v \in Handles /\ InPlace(s, v)
  BY DEF SoundBut, Good, Heaps, InPlace
<1>2. /\ SoundBut(r, {} \cup {v}, F) /\ ~Live(r, v)
      /\ \A x : InPlace(r, x) <=> InPlace(s, x)
  BY <1>1, UnrefSound
<1> HIDE DEF r
<1>3. SoundBut(r, {v}, F)
  BY <1>2
<1>4. SoundBut(t, {v}, F) /\ ~Live(t, v) /\ InPlace(t, v)
  <2>1. CASE t = r
    BY <1>1, <1>2, <1>3, <2>1
  <2>2. CASE r.elems[c] = << >> /\ \E y \in Types : t = [r EXCEPT !.type[c] = y]
    <3>1. PICK y \in Types : t = [r EXCEPT !.type[c] = y]
      BY <2>2
    <3>2. /\ SoundBut(t, {v}, F) /\ t.ptr = r.ptr
          /\ \A x : InPlace(t, x) <=> InPlace(r, x)
      BY <1>3, <2>2, <3>1, RetypedSound
    <3> QED BY <1>1, <1>2, <3>2 DEF Live
  <2> QED BY <2>1, <2>2 DEF r
<1>5. v \in FreeHandles(t)
  BY <1>1, <1>4 DEF FreeHandles, Live
<1>6. /\ SoundBut(u, {v} \cup {v}, F \ {c}) /\ Live(u, v)
      /\ \A x : InPlace(u, x) <=> InPlace(t, x)
  BY <1>4, <1>5, AttachSound
<1> HIDE DEF u
<1>7. SoundBut(u, {} \cup {v}, F \ {c}) /\ InPlace(u, v)
  BY <1>4, <1>6
<1>8. SoundBut(u, {}, F \ {c})
  BY <1>6, <1>7, Settle
<1> QED BY <1>8 DEF u

LEMMA ReplacedSound ==
    ASSUME NEW s, NEW F, SoundBut(s, {}, F),
           NEW v \in s.own, Live(s, v), NEW c \in Cells
    PROVE  SoundBut(Replaced(s, v, c), {}, F \ {c})
<1>1. SoundBut(Attach(Unref(s, v), v, c), {}, F \ {c})
  BY RedirectSound
<1> QED BY <1>1 DEF Replaced

LEMMA RedirectedSound ==
    ASSUME NEW s, Sound(s), NEW v \in s.own, NEW c \in FreeCells(s),
           NEW y \in Types
    PROVE  Sound(Redirected(s, v, c, y))
<1>1. c \in Cells /\ s.ref[c] = 0 /\ s.elems[c] = << >>
  BY FreeCellEmpty
<1>2. /\ SoundBut(s, {}, {}) /\ v \in Handles /\ Live(s, v)
      /\ s.ref[s.ptr[v]] > 0
  BY OwnPoints DEF Sound
<1>3. Unref(s, v).elems[c] = << >>
  <2>1. c \in Cells \ {s.ptr[v]}
    BY <1>1, <1>2
  <2>2. Good(s)
    BY DEF Sound, SoundBut
  <2> QED BY <1>1, <1>2, <2>1, <2>2, UnrefElsewhere
<1> DEFINE t == [Unref(s, v) EXCEPT !.type[c] = y]
<1>4. SoundBut(Attach(t, v, c), {}, {} \ {c})
  BY <1>1, <1>2, <1>3, RedirectSound
<1> QED BY <1>4 DEF Sound, Redirected

-----------------------------------------------------------------------------
(* Lists.                                                                  *)

LEMMA AppendItems ==
    ASSUME NEW S, NEW q \in Seq(S), NEW x \in S, x \notin Items(q), Injective(q)
    PROVE  /\ Append(q, x) \in Seq(S) /\ Injective(Append(q, x))
           /\ Items(Append(q, x)) = Items(q) \cup {x}
<1> DEFINE r == Append(q, x)
<1>1. /\ r \in Seq(S) /\ Len(r) = Len(q) + 1 /\ Len(q) \in Nat
      /\ \A i \in 1..Len(q) : r[i] = q[i] /\ q[i] \in Items(q)
      /\ r[Len(q) + 1] = x
  BY DEF Items
<1> HIDE DEF r
<1>2. Injective(r)
  BY <1>1 DEF Injective
<1>3. Items(r) = Items(q) \cup {x}
  <2>1. \A i \in 1..Len(r) : i \in 1..Len(q) \/ i = Len(q) + 1
    BY <1>1
  <2>2. \A i \in 1..Len(q) : i \in 1..Len(r) /\ r[i] = q[i]
    BY <1>1
  <2>3. Len(q) + 1 \in 1..Len(r)
    BY <1>1
  <2> QED BY <1>1, <2>1, <2>2, <2>3 DEF Items
<1> QED BY <1>1, <1>2, <1>3 DEF r

LEMMA LastTaken ==
    ASSUME NEW S, NEW q \in Seq(S), Injective(q), Len(q) > 0
    PROVE  /\ q[Len(q)] \in Items(q)
           /\ SubSeq(q, 1, Len(q) - 1) \in Seq(S)
           /\ Injective(SubSeq(q, 1, Len(q) - 1))
           /\ Items(SubSeq(q, 1, Len(q) - 1)) = Items(q) \ {q[Len(q)]}
<1> DEFINE n == Len(q)
           r == SubSeq(q, 1, n - 1)
<1>1. n \in Nat /\ n > 0 /\ \A i \in 1..n : q[i] \in S
  BY LenProperties
<1>2. r \in Seq(S) /\ Len(r) = n - 1 /\ \A i \in 1..n - 1 : r[i] = q[i]
  <2>1. \A i \in 1..n - 1 : q[i] \in S
    BY <1>1
  <2>2. r \in Seq(S)
    BY <1>1, <2>1, SubSeqProperties
  <2>3. Len(r) = IF 1 <= n - 1 THEN n - 1 - 1 + 1 ELSE 0
    BY <1>1, <2>1, SubSeqProperties
  <2>4. \A i \in 1..(n - 1) - 1 + 1 : r[i] = q[1 + i - 1]
    BY <1>1, <2>1, SubSeqProperties
  <2> HIDE DEF n, r
  <2>5. ASSUME NEW i \in 1..n - 1 PROVE r[i] = q[i]
    <3>1. i \in 1..(n - 1) - 1 + 1 /\ 1 + i - 1 = i
      BY <1>1
    <3> QED BY <2>4, <3>1
  <2>6. Len(r) = n - 1
    BY <1>1, <2>3
  <2> QED BY <2>2, <2>5, <2>6
<1> HIDE DEF n, r
<1>3. Injective(r)
  BY <1>1, <1>2 DEF Injective, n
<1>4. q[n] \in Items(q) /\ Items(r) = Items(q) \ {q[n]}
  BY <1>1, <1>2 DEF Items, Injective, n
<1> QED BY <1>2, <1>3, <1>4 DEF n, r

LEMMA FirstTaken ==
    ASSUME NEW S, NEW q \in Seq(S), Injective(q), Len(q) > 0
    PROVE  /\ q[1] \in Items(q)
           /\ SubSeq(q, 2, Len(q)) \in Seq(S)
           /\ Injective(SubSeq(q, 2, Len(q)))
           /\ Items(SubSeq(q, 2, Len(q))) = Items(q) \ {q[1]}
<1> DEFINE n == Len(q)
           r == SubSeq(q, 2, n)
<1>1. n \in Nat /\ n > 0 /\ \A i \in 1..n : q[i] \in S
  BY LenProperties
<1>2. r \in Seq(S) /\ Len(r) = n - 1 /\ \A i \in 1..n - 1 : r[i] = q[i + 1]
  <2>1. \A i \in 2..n : q[i] \in S
    BY <1>1
  <2>2. r \in Seq(S)
    BY <1>1, <2>1, SubSeqProperties
  <2>3. Len(r) = IF 2 <= n THEN n - 2 + 1 ELSE 0
    BY <1>1, <2>1, SubSeqProperties
  <2>4. \A i \in 1..n - 2 + 1 : r[i] = q[2 + i - 1]
    BY <1>1, <2>1, SubSeqProperties
  <2> HIDE DEF n, r
  <2>5. ASSUME NEW i \in 1..n - 1 PROVE r[i] = q[i + 1]
    <3>1. i \in 1..n - 2 + 1 /\ 2 + i - 1 = i + 1
      BY <1>1
    <3> QED BY <2>4, <3>1
  <2>6. Len(r) = n - 1
    BY <1>1, <2>3
  <2> QED BY <2>2, <2>5, <2>6
<1> HIDE DEF n, r
<1>3. Injective(r)
  BY <1>1, <1>2 DEF Injective, n
<1>4. q[1] \in Items(q)
  BY <1>1 DEF Items, n
<1>5. ASSUME NEW i \in 1..n, q[i] # q[1] PROVE q[i] \in Items(r)
  <2>1. i - 1 \in 1..Len(r) /\ r[i - 1] = q[i]
    BY <1>1, <1>2, <1>5
  <2> QED BY <2>1 DEF Items
<1>6. ASSUME NEW i \in 1..Len(r) PROVE r[i] \in Items(q) /\ r[i] # q[1]
  <2>1. i + 1 \in 1..n /\ r[i] = q[i + 1] /\ i + 1 # 1 /\ 1 \in 1..n
    BY <1>1, <1>2
  <2> QED BY <2>1 DEF Items, Injective, n
<1>7. Items(r) = Items(q) \ {q[1]}
  BY <1>5, <1>6 DEF Items, n
<1> QED BY <1>2, <1>3, <1>4, <1>7 DEF n, r

LEMMA ListPushSound ==
    ASSUME NEW s, Sound(s), NEW c \in Cells, s.type[c] = "LIST", s.ref[c] > 0,
           NEW d \in Cells, NEW h \in FreeHandles(s)
    PROVE  Sound([Attach(s, h, d) EXCEPT !.elems[c] = Append(@, h)])
<1> DEFINE a == Attach(s, h, d)
           q == Append(s.elems[c], h)
           t == Relisted(a, c, q)
<1>1. /\ SoundBut(s, {}, {}) /\ ~InPlace(s, h) /\ h \in Handles
      /\ s \in Heaps /\ PlacedOnce(s)
  BY FreeHandleNowhere DEF Sound, SoundBut, Good
<1>2. /\ SoundBut(a, {} \cup {h}, {} \ {d}) /\ Live(a, h)
      /\ \A x : InPlace(a, x) <=> InPlace(s, x)
  BY <1>1, AttachSound
<1>3. a.type = s.type /\ a.elems = s.elems /\ a.ref[c] > 0
  BY <1>1 DEF Attach, Heaps
<1>4. HoldsList(a, {}, c) /\ Elements(a, c) = Elements(s, c)
  BY <1>3 DEF Elements, HoldsList
<1>5. /\ q \in Seq(Handles) /\ Injective(q)
      /\ Items(q) = Elements(s, c) \cup {h}
  <2>1. s.elems[c] \in Seq(Handles) /\ Injective(s.elems[c])
    BY <1>1 DEF Heaps, PlacedOnce
  <2>2. h \notin Items(s.elems[c])
    BY <1>1 DEF InPlace, Elements
  <2> QED BY <1>1, <2>1, <2>2, AppendItems DEF Elements
<1>6. t = [a EXCEPT !.elems[c] = Append(@, h)]
  BY <1>3 DEF Relisted
<1> HIDE DEF a, q
<1>7. SoundBut(a, {h}, {})
  BY <1>2
<1>8. ~InPlace(a, h)
  BY <1>1, <1>2
<1>9. /\ SoundBut(t, {h} \cup {h}, {}) /\ t.ptr = a.ptr
      /\ InPlace(t, h) <=> h \in Items(q)
  BY <1>1, <1>4, <1>5, <1>7, <1>8, RelistedSound, SMTT(30)
<1> HIDE DEF t
<1>10. SoundBut(t, {} \cup {h}, {}) /\ InPlace(t, h) /\ Live(t, h)
  BY <1>2, <1>5, <1>9 DEF Live
<1>11. SoundBut(t, {}, {})
  BY <1>10, Settle
<1> QED BY <1>6, <1>11 DEF Sound, a

\* A new handle of C code on w disturbs no list and no other handle.
LEMMA NewRefKeeps ==
    ASSUME NEW s \in Heaps, NEW h \in Handles, NEW w \in Cells,
           NEW c \in Cells, HoldsList(s, {}, c),
           NEW e \in Handles, Live(s, e), e # h
    PROVE  /\ HoldsList(Owned(Attach(s, h, w), h), {}, c)
           /\ Elements(Owned(Attach(s, h, w), h), c) = Elements(s, c)
           /\ Live(Owned(Attach(s, h, w), h), e)
<1> DEFINE a == Attach(s, h, w)
           b == Owned(a, h)
<1>1. a \in Heaps /\ a.type = s.type /\ a.elems = s.elems
  <2>1. a \in Heaps
    BY AttachFields
  <2>2. a.type = s.type
    BY DEF Attach, Heaps
  <2>3. a.elems = s.elems
    BY DEF Attach, Heaps
  <2> QED BY <2>1, <2>2, <2>3
<1>2. \A d \in Cells : s.ref[d] > 0 => a.ref[d] > 0
  BY AttachFields
<1>3. \A x \in Handles \ {h} : a.ptr[x] = s.ptr[x]
  BY DEF Attach, Heaps
<1>4. b.ptr = a.ptr /\ b.ref = a.ref /\ b.type = a.type /\ b.elems = a.elems
  BY <1>1 DEF Owned, Heaps
<1> HIDE DEF a, b
<1>5. HoldsList(b, {}, c) /\ Elements(b, c) = Elements(s, c) /\ Live(b, e)
  BY <1>1, <1>2, <1>3, <1>4 DEF HoldsList, Elements, Live
<1> QED BY <1>5 DEF b, a

LEMMA TakeElementSound ==
    ASSUME NEW s, Sound(s), NEW h \in FreeHandles(s), NEW w \in Cells,
           NEW c \in Cells, HoldsList(s, {}, c), NEW e \in Elements(s, c),
           NEW q \in Seq(Handles), Injective(q), Items(q) = Elements(s, c) \ {e}
    PROVE  Sound(Unref(Relisted(Owned(Attach(s, h, w), h), c, q), e))
<1> DEFINE b == Owned(Attach(s, h, w), h)
           t == Relisted(b, c, q)
           u == Unref(t, e)
<1>1. s \in Heaps /\ h \in Handles /\ ~InPlace(s, h)
  BY FreeHandleNowhere DEF Sound, SoundBut, Good
<1>2. e \in Handles /\ InPlace(s, e) /\ e # h
  BY <1>1, ElementsAreHandles DEF InPlace
<1>3. Live(s, e)
  BY <1>2, PlacedPoints DEF Sound
<1>4. SoundBut(b, {}, {})
  BY NewRefSound DEF Sound
<1>5. HoldsList(b, {}, c) /\ Elements(b, c) = Elements(s, c) /\ Live(b, e)
  BY <1>1, <1>2, <1>3, NewRefKeeps
<1> HIDE DEF b
<1>6. Items(q) = Elements(b, c) \ {e} /\ e \in Elements(b, c)
  BY <1>5
<1>7. /\ SoundBut(t, {} \cup {e}, {}) /\ t.ptr = b.ptr
      /\ InPlace(t, e) <=> e \in Items(q)
  BY <1>2, <1>4, <1>5, <1>6, RelistedSound
<1> HIDE DEF t
<1>8. SoundBut(t, {e}, {}) /\ ~InPlace(t, e) /\ Live(t, e)
  BY <1>5, <1>6, <1>7 DEF Live
<1>9. /\ SoundBut(u, {e} \cup {e}, {}) /\ ~Live(u, e)
      /\ \A x : InPlace(u, x) <=> InPlace(t, x)
  BY <1>2, <1>8, UnrefSound
<1> HIDE DEF u
<1>10. SoundBut(u, {} \cup {e}, {}) /\ ~InPlace(u, e)
  BY <1>8, <1>9
<1>11. SoundBut(u, {}, {})
  BY <1>9, <1>10, Settle
<1> QED BY <1>11 DEF Sound, b, t, u

-----------------------------------------------------------------------------
(* The coercion to a list.                                                 *)

\* The fields of WithList: hs are pointed to cs, one to one.
ListMade(t, s, c, hs, cs) ==
    /\ t \in Heaps
    /\ \A i \in 1..Len(hs) : t.ptr[hs[i]] = cs[i]
    /\ \A h \in Handles \ Items(hs) : t.ptr[h] = s.ptr[h]
    /\ \A d \in Cells : t.ref[d] = IF d \in Items(cs) THEN 1 ELSE s.ref[d]
    /\ t.type[c] = "LIST"
    /\ \A d \in Cells \ (Items(cs) \cup {c}) : t.type[d] = s.type[d]
    /\ t.elems = [s.elems EXCEPT ![c] = hs]
    /\ t.own = s.own /\ t.doomed = s.doomed

LEMMA WithListFields ==
    ASSUME NEW s \in Heaps, NEW c \in Cells,
           NEW hs \in Seq(Handles), NEW cs \in Seq(Cells), Len(cs) = Len(hs),
           Injective(hs), Injective(cs), c \notin Items(cs)
    PROVE  ListMade(WithList(s, c, hs, cs), s, c, hs, cs)
<1> DEFINE at(h) == CHOOSE i \in 1..Len(hs) : hs[i] = h
           ptr == [h \in Handles |-> IF h \in Items(hs) THEN cs[at(h)] ELSE s.ptr[h]]
           ref == [d \in Cells |-> IF d \in Items(cs) THEN 1 ELSE s.ref[d]]
           type == [d \in Cells |-> IF d \in Items(cs) THEN "STR"
                                    ELSE IF d = c THEN "LIST" ELSE s.type[d]]
           elems == [s.elems EXCEPT ![c] = hs]
           t == WithList(s, c, hs, cs)
<1>1. \A h \in Items(hs) : at(h) \in 1..Len(hs) /\ hs[at(h)] = h
  BY DEF Items
<1>2. \A i \in 1..Len(hs) : /\ cs[i] \in Cells /\ cs[i] \in Items(cs)
                            /\ hs[i] \in Handles /\ hs[i] \in Items(hs)
  BY LenProperties DEF Items
<1>3. \A i \in 1..Len(hs) : at(hs[i]) = i
  BY <1>1, <1>2 DEF Injective
<1> HIDE DEF at
<1>4. ptr \in [Handles -> Cells \cup {FREE}]
  BY <1>1, <1>2 DEF Heaps
<1>5. ref \in [Cells -> Nat]
  BY DEF Heaps
<1>6. type \in [Cells -> Types]
  BY DEF Heaps, Types
<1>7. elems \in [Cells -> Seq(Handles)]
  BY DEF Heaps
<1>8. t = [s EXCEPT !.ptr = ptr, !.ref = ref, !.type = type, !.elems = elems]
  BY DEF WithList, at, Heaps
<1> HIDE DEF ptr, ref, type, elems, t
<1>9. t \in Heaps
  BY <1>4, <1>5, <1>6, <1>7, <1>8 DEF Heaps
<1>10. /\ t.ptr = ptr /\ t.ref = ref /\ t.type = type /\ t.elems = elems
       /\ t.own = s.own /\ t.doomed = s.doomed
  BY <1>8 DEF Heaps
<1>11. /\ \A i \in 1..Len(hs) : t.ptr[hs[i]] = cs[i]
       /\ \A h \in Handles \ Items(hs) : t.ptr[h] = s.ptr[h]
  BY <1>2, <1>3, <1>10 DEF ptr
<1>12. \A d \in Cells : t.ref[d] = IF d \in Items(cs) THEN 1 ELSE s.ref[d]
  BY <1>10 DEF ref
<1>13. /\ t.type[c] = "LIST"
       /\ \A d \in Cells \ (Items(cs) \cup {c}) : t.type[d] = s.type[d]
  BY <1>10 DEF type
<1>14. ListMade(t, s, c, hs, cs)
  BY <1>9, <1>10, <1>11, <1>12, <1>13 DEF ListMade, elems
<1> QED BY <1>14 DEF t

\* The new list has all its elements, and no handle yet.
LEMMA WithListSound ==
    ASSUME NEW s, Sound(s), NEW c \in FreeCells(s),
           NEW hs \in Seq(FreeHandles(s)), NEW cs \in Seq(FreeCells(s)),
           Len(cs) = Len(hs), Injective(hs), Injective(cs), c \notin Items(cs),
           NEW v \in s.own
    PROVE  LET t == WithList(s, c, hs, cs) IN
           /\ SoundBut(t, {}, {c}) /\ t.type[c] = "LIST"
           /\ v \in t.own /\ Live(t, v) /\ t.ptr[v] # c
<1> DEFINE t == WithList(s, c, hs, cs)
<1>1. /\ s \in Heaps /\ Counted(s) /\ PlacedOnce(s) /\ Good(s)
      /\ c \in Cells /\ s.ref[c] = 0 /\ s.elems[c] = << >>
  BY FreeCellEmpty DEF Sound, SoundBut, Good
<1>2. /\ \A x \in Items(hs) : x \in FreeHandles(s)
      /\ \A d \in Items(cs) : d \in FreeCells(s)
  BY ElementOfSeq DEF Items
<1>3. /\ \A x \in Items(hs) : x \in Handles /\ s.ptr[x] = FREE /\ ~InPlace(s, x)
      /\ \A d \in Items(cs) : d \in Cells /\ s.ref[d] = 0 /\ s.elems[d] = << >>
  <2>1. ASSUME NEW x \in Items(hs)
        PROVE  x \in Handles /\ s.ptr[x] = FREE /\ ~InPlace(s, x)
    BY <1>2, FreeHandleNowhere DEF FreeHandles
  <2>2. ASSUME NEW d \in Items(cs)
        PROVE  d \in Cells /\ s.ref[d] = 0 /\ s.elems[d] = << >>
    BY <1>2, FreeCellEmpty
  <2> QED BY <2>1, <2>2
<1>4. hs \in Seq(Handles) /\ cs \in Seq(Cells)
  BY SeqMonotonic DEF FreeHandles, FreeCells
<1>5. /\ t \in Heaps
      /\ \A i \in 1..Len(hs) : t.ptr[hs[i]] = cs[i]
      /\ \A h \in Handles \ Items(hs) : t.ptr[h] = s.ptr[h]
      /\ \A d \in Cells : t.ref[d] = IF d \in Items(cs) THEN 1 ELSE s.ref[d]
      /\ t.type[c] = "LIST"
      /\ \A d \in Cells \ (Items(cs) \cup {c}) : t.type[d] = s.type[d]
      /\ t.elems = [s.elems EXCEPT ![c] = hs]
      /\ t.own = s.own /\ t.doomed = s.doomed
  <2>1. ListMade(t, s, c, hs, cs)
    BY <1>1, <1>4, WithListFields
  <2> QED BY <2>1 DEF ListMade
<1> HIDE DEF t
<1>6. t.elems[c] = hs /\ \A d \in Cells \ {c} : t.elems[d] = s.elems[d]
  <2>1. s.elems \in [Cells -> Seq(Handles)]
    BY <1>1 DEF Heaps
  <2> QED BY <1>1, <1>5, <2>1
<1>7. /\ Elements(s, c) = {} /\ Elements(t, c) = Items(hs)
      /\ \A d \in Cells \ {c} : Elements(t, d) = Elements(s, d)
  BY <1>1, <1>6, NoElements DEF Elements
<1>8. \A x \in Items(hs) : \E i \in 1..Len(hs) :
          x = hs[i] /\ t.ptr[x] = cs[i] /\ cs[i] \in Items(cs)
  BY <1>5 DEF Items
<1>9. ASSUME NEW d \in Cells PROVE t.ref[d] = Cardinality(Refs(t, d))
  <2>0. s.ref[d] = Cardinality(Refs(s, d)) /\ FREE \notin Cells
    BY <1>1, ValueAssumption DEF Counted
  <2>1. CASE d \in Items(cs)
    <3>1. PICK i \in 1..Len(hs) : cs[i] = d
      BY <2>1 DEF Items
    <3>2. hs[i] \in Items(hs) /\ hs[i] \in Handles /\ t.ptr[hs[i]] = d
      BY <1>3, <1>5, <3>1 DEF Items
    <3>3. Refs(s, d) = {}
      BY <1>3, <2>0, <2>1, RefsFinite, FS_EmptySet
    <3>4. ASSUME NEW x \in Handles, t.ptr[x] = d PROVE x = hs[i]
      <4>1. x \in Items(hs)
        BY <1>5, <3>3, <3>4 DEF Refs
      <4>2. PICK j \in 1..Len(hs) : x = hs[j] /\ t.ptr[x] = cs[j]
        BY <1>8, <4>1
      <4>3. i = j
        BY <3>1, <3>4, <4>2 DEF Injective
      <4> QED BY <4>2, <4>3
    <3>5. Refs(t, d) = {hs[i]}
      BY <3>2, <3>4 DEF Refs
    <3>6. Cardinality({hs[i]}) = 1
      BY FS_Singleton
    <3> QED BY <1>5, <2>1, <3>5, <3>6
  <2>2. CASE d \notin Items(cs)
    <3>1. \A x \in Items(hs) : t.ptr[x] # d /\ s.ptr[x] # d
      BY <1>3, <1>8, <2>0, <2>2
    <3>2. \A x \in Handles : t.ptr[x] = d <=> s.ptr[x] = d
      BY <1>5, <3>1
    <3>3. Refs(t, d) = Refs(s, d)
      BY <3>2 DEF Refs
    <3> QED BY <1>5, <2>0, <2>2, <3>3
  <2> QED BY <2>1, <2>2
<1>10. Good(t)
  BY <1>5, <1>9 DEF Good, Counted
<1>11. /\ \A x \in Items(hs) : /\ x \notin s.own \cup s.doomed
                               /\ \A d \in Cells : x \notin Elements(s, d)
  BY <1>3 DEF InPlace
<1>12. PlacedOnce(t)
  <2>1. t.own \cap t.doomed = {}
    BY <1>1, <1>5 DEF PlacedOnce
  <2>2. \A d \in Cells : Elements(t, d) \cap (t.own \cup t.doomed) = {}
    BY <1>1, <1>5, <1>7, <1>11 DEF PlacedOnce
  <2>3. \A d \in Cells : Injective(t.elems[d])
    BY <1>1, <1>6 DEF PlacedOnce
  <2>4. \A d, e \in Cells : d # e => Elements(t, d) \cap Elements(t, e) = {}
    BY <1>1, <1>7, <1>11 DEF PlacedOnce
  <2> QED BY <2>1, <2>2, <2>3, <2>4 DEF PlacedOnce
<1>13. ASSUME NEW x \in Handles PROVE Live(t, x) <=> InPlace(t, x)
  <2>1. CASE x \in Items(hs)
    <3>1. InPlace(t, x)
      BY <1>1, <1>7, <2>1 DEF InPlace
    <3>2. Live(t, x)
      BY <1>3, <1>8, <2>1, ValueAssumption DEF Live
    <3> QED BY <3>1, <3>2
  <2>2. CASE x \notin Items(hs)
    <3>1. Live(t, x) <=> Live(s, x)
      BY <1>5, <2>2 DEF Live
    <3>2. InPlace(t, x) <=> InPlace(s, x)
      BY <1>1, <1>5, <1>7, <2>2 DEF InPlace
    <3> QED BY <3>1, <3>2 DEF Sound, SoundBut
  <2> QED BY <2>1, <2>2
<1>14. ASSUME NEW d \in Cells, t.elems[d] # << >>
       PROVE  t.type[d] = "LIST" /\ (d \in {c} \/ t.ref[d] > 0)
  <2>1. CASE d = c
    BY <1>5, <2>1
  <2>2. CASE d # c
    <3>1. s.elems[d] # << >> /\ d \notin Items(cs)
      BY <1>3, <1>6, <1>14, <2>2
    <3>2. s.type[d] = "LIST" /\ s.ref[d] > 0
      BY <3>1 DEF Sound, SoundBut
    <3> QED BY <1>5, <2>2, <3>1, <3>2
  <2> QED BY <2>1, <2>2
<1>15. SoundBut(t, {}, {c})
  BY <1>10, <1>12, <1>13, <1>14 DEF SoundBut
<1>16. Live(t, v) /\ t.ptr[v] # c
  <2>1. v \in Handles /\ v \notin Items(hs) /\ Live(s, v) /\ s.ref[s.ptr[v]] > 0
    BY <1>11, OwnPoints
  <2> QED BY <1>1, <1>5, <2>1 DEF Live
<1> QED BY <1>5, <1>15, <1>16 DEF t

LEMMA BoundedIsSeq ==
    ASSUME NEW S, NEW q \in BoundedSeq(S)
    PROVE  q \in Seq(S)
<1>1. PICK n \in 0..MaxList : q \in [1..n -> S]
  BY DEF BoundedSeq
<1>2. n \in Nat
  BY ValueAssumption
<1> QED BY <1>1, <1>2, SeqDef

\* Replaced points the handle to the cell and disturbs no other list.
LEMMA ReplacedList ==
    ASSUME NEW s, NEW F, SoundBut(s, {}, F), NEW v \in s.own, Live(s, v),
           NEW c \in Cells, s.ptr[v] # c, s.type[c] = "LIST"
    PROVE  /\ v \in Replaced(s, v, c).own /\ Replaced(s, v, c).ptr[v] = c
           /\ Replaced(s, v, c).type[c] = "LIST"
<1> DEFINE r == Unref(s, v)
           t == Attach(r, v, c)
<1>1. Good(s) /\ v \in Handles
  BY DEF SoundBut, Good, Heaps
<1>2. r.type[c] = "LIST"
  BY <1>1, UnrefElsewhere
<1>3. SoundBut(r, {} \cup {v}, F) /\ r.own = s.own
  BY <1>1, UnrefSound
<1> HIDE DEF r
<1>4. r \in Heaps
  BY <1>3 DEF SoundBut, Good
<1>5. t.ptr = [r.ptr EXCEPT ![v] = c]
  BY <1>1, <1>4 DEF Attach, Heaps
<1>6. t.type = r.type /\ t.own = r.own
  BY <1>1, <1>4 DEF Attach, Heaps
<1> HIDE DEF t
<1>7. t.ptr[v] = c
  <2>1. r.ptr \in [Handles -> Cells \cup {FREE}]
    BY <1>4 DEF Heaps
  <2> QED BY <1>1, <1>5, <2>1
<1>8. v \in t.own /\ t.ptr[v] = c /\ t.type[c] = "LIST"
  BY <1>2, <1>3, <1>6, <1>7
<1> QED BY <1>8 DEF Replaced, t, r

LEMMA ToListSound ==
    ASSUME Sound(heap), NEW v \in heap.own, NEW c \in Cells,
           NEW hs \in FreeHandleSeqs, NEW cs \in FreeCellSeqs,
           Allocates(v, c, hs, cs)
    PROVE  LET t == ToList(heap, v, c, hs, cs) IN
           /\ Sound(t) /\ v \in t.own /\ t.ptr[v] \in Cells
           /\ HoldsList(t, {}, t.ptr[v])
<1> DEFINE t == ToList(heap, v, c, hs, cs)
           u == WithList(heap, c, hs, cs)
<1>1. Sound(t) /\ v \in t.own /\ t.type[t.ptr[v]] = "LIST"
  <2>1. CASE heap.type[heap.ptr[v]] = "LIST"
    BY <2>1 DEF ToList
  <2>2. CASE heap.type[heap.ptr[v]] # "LIST"
    <3>1. /\ Len(cs) = Len(hs) /\ Injective(hs) /\ Injective(cs)
          /\ c \in FreeCells(heap) /\ c \notin Items(cs)
      BY <2>2 DEF Allocates
    <3>2. hs \in Seq(FreeHandles(heap)) /\ cs \in Seq(FreeCells(heap))
      BY BoundedIsSeq DEF FreeHandleSeqs, FreeCellSeqs
    <3>3. /\ SoundBut(u, {}, {c}) /\ u.type[c] = "LIST"
          /\ v \in u.own /\ Live(u, v) /\ u.ptr[v] # c
      BY <3>1, <3>2, WithListSound
    <3>4. t = Replaced(u, v, c)
      BY <2>2 DEF ToList
    <3> HIDE DEF t, u
    <3>5. SoundBut(Replaced(u, v, c), {}, {c} \ {c})
      BY <3>3, ReplacedSound
    <3>6. /\ v \in Replaced(u, v, c).own /\ Replaced(u, v, c).ptr[v] = c
          /\ Replaced(u, v, c).type[c] = "LIST"
      BY <3>3, ReplacedList
    <3>7. Sound(t)
      <4>1. {c} \ {c} = {}
        OBVIOUS
      <4> QED BY <3>4, <3>5, <4>1 DEF Sound
    <3> QED BY <3>4, <3>6, <3>7
  <2> QED BY <2>1, <2>2
<1> HIDE DEF t
<1>2. t.ptr[v] \in Cells /\ t.ref[t.ptr[v]] > 0
  BY <1>1, OwnPoints
<1> QED BY <1>1, <1>2 DEF t, HoldsList

LEMMA ListTakeSound ==
    ASSUME NEW s, Sound(s), NEW l \in s.own, NEW h \in FreeHandles(s),
           s.ptr[l] \in Cells, HoldsList(s, {}, s.ptr[l]),
           Len(s.elems[s.ptr[l]]) > 0, NEW e, NEW rest,
           LET q == s.elems[s.ptr[l]] IN
           \/ e = q[Len(q)] /\ rest = SubSeq(q, 1, Len(q) - 1)
           \/ e = q[1] /\ rest = SubSeq(q, 2, Len(q))
    PROVE  Sound(TakeElement(s, l, h, e, rest))
<1> DEFINE c == s.ptr[l]
           q == s.elems[c]
<1>1. q \in Seq(Handles) /\ Injective(q) /\ s \in Heaps
  BY DEF Sound, SoundBut, Good, Heaps, PlacedOnce
<1>2. Elements(s, c) = Items(q)
  BY DEF Elements
<1>3. /\ e \in Items(q) /\ rest \in Seq(Handles) /\ Injective(rest)
      /\ Items(rest) = Items(q) \ {e}
  <2> HIDE DEF q
  <2>1. CASE e = q[Len(q)] /\ rest = SubSeq(q, 1, Len(q) - 1)
    <3>1. Len(q) > 0
      BY DEF q
    <3> QED BY <1>1, <2>1, <3>1, LastTaken
  <2>2. CASE e = q[1] /\ rest = SubSeq(q, 2, Len(q))
    <3>1. Len(q) > 0
      BY DEF q
    <3> QED BY <1>1, <2>2, <3>1, FirstTaken
  <2> QED BY <2>1, <2>2 DEF q
<1>4. s.ptr[e] \in Cells
  <2>1. e \in Handles /\ InPlace(s, e)
    BY <1>1, <1>2, <1>3, ElementsAreHandles DEF InPlace
  <2> QED BY <2>1, PlacedPoints DEF Sound
<1> DEFINE w == s.ptr[e]
<1>5. Elements(s, c) \ {e} = Items(rest) /\ e \in Elements(s, c) /\ w \in Cells
  BY <1>2, <1>3, <1>4
<1>6. c \in Cells /\ HoldsList(s, {}, c)
  OBVIOUS
<1>7. TakeElement(s, l, h, e, rest)
        = Unref(Relisted(Owned(Attach(s, h, w), h), c, rest), e)
  BY DEF TakeElement, Relisted
<1> HIDE DEF c, q, w
<1>8. Sound(Unref(Relisted(Owned(Attach(s, h, w), h), c, rest), e))
  BY <1>3, <1>5, <1>6, TakeElementSound
<1> QED BY <1>7, <1>8

-----------------------------------------------------------------------------
(* The invariant.                                                          *)

LEMMA TypesOf == {"STR", "INT", "OBJ", "FUN", "LIST", "NULL"} = Types
  BY DEF Types

LEMMA InitSound == Init => Sound(heap)
<1> SUFFICES ASSUME Init PROVE Sound(heap)
  OBVIOUS
<1>1. /\ heap.ptr = [h \in Handles |-> FREE] /\ heap.ref = [c \in Cells |-> 0]
      /\ heap.type = [c \in Cells |-> "NULL"]
      /\ heap.elems = [c \in Cells |-> << >>]
      /\ heap.own = {} /\ heap.doomed = {}
  BY DEF Init
<1>2. heap \in Heaps
  BY DEF Init, Heaps, Types
<1>3. \A c \in Cells : Elements(heap, c) = {} /\ Injective(heap.elems[c])
  BY <1>1, NoElements
<1>4. ASSUME NEW c \in Cells PROVE heap.ref[c] = Cardinality(Refs(heap, c))
  <2>1. Refs(heap, c) = {}
    BY <1>1, ValueAssumption DEF Refs
  <2> QED BY <1>1, <2>1, FS_EmptySet
<1>5. Good(heap)
  BY <1>2, <1>4 DEF Good, Counted
<1>6. PlacedOnce(heap)
  BY <1>1, <1>3 DEF PlacedOnce
<1>7. \A h \in Handles : Live(heap, h) <=> InPlace(heap, h)
  BY <1>1, <1>3 DEF Live, InPlace
<1>8. \A c \in Cells : heap.elems[c] = << >>
  BY <1>1
<1> QED BY <1>5, <1>6, <1>7, <1>8 DEF Sound, SoundBut

\* A step that only frees the value of a handle's cell.
LEMMA OverwriteSound ==
    ASSUME NEW s, Sound(s), NEW v \in s.own, NEW y \in Types
    PROVE  Sound(FreeValue(s, s.ptr[v], y))
<1>1. s.ptr[v] \in Cells
  BY OwnPoints
<1> QED BY <1>1, FreeValueSound DEF Sound

LEMMA StepSound == Sound(heap) /\ [Next]_heap => Sound(heap')
<1> SUFFICES ASSUME Sound(heap), [Next]_heap PROVE Sound(heap')
  OBVIOUS
<1> USE TypesOf
<1>0. SoundBut(heap, {}, {})
  BY DEF Sound
<1>1. CASE UNCHANGED heap
  BY <1>1
<1>2. ASSUME NEW h \in Handles, NEW c \in Cells,
             NEW y \in Scalars \cup {"LIST", "NULL"}, New(h, c, y)
      PROVE  Sound(heap')
  <2>1. y \in Types
    BY ValueAssumption DEF Types
  <2> QED BY <1>2, <2>1, NewValueSound DEF New
<1>3. ASSUME NEW h \in Handles, NEW e \in Handles, NewRef(h, e)
      PROVE  Sound(heap')
  <2>1. heap.ptr[e] \in Cells
    BY <1>3, VisiblePoints DEF NewRef
  <2> QED BY <1>3, <2>1, NewRefSound DEF NewRef
<1>4. ASSUME NEW h \in Handles, Delete(h) PROVE Sound(heap')
  BY <1>4, DeleteSound DEF Delete
<1>5. ASSUME NEW h \in Handles, Drain(h) PROVE Sound(heap')
  BY <1>5, DrainSound DEF Drain
<1>6. ASSUME NEW v \in Handles, NEW w \in Handles, Replace(v, w)
      PROVE  Sound(heap')
  <2>1. v \in heap.own /\ w \in Visible(heap)
    BY <1>6 DEF Replace, Visible, ElementsOf
  <2>2. heap.ptr[w] \in Cells /\ Live(heap, v)
    BY <2>1, VisiblePoints, OwnPoints
  <2>3. SoundBut(Replaced(heap, v, heap.ptr[w]), {}, {} \ {heap.ptr[w]})
    BY <1>0, <2>1, <2>2, ReplacedSound
  <2> QED BY <1>6, <2>3 DEF Replace, Sound
<1>7. ASSUME NEW v \in Handles, NEW y \in {"STR", "INT", "NULL"}, Overwrite(v, y)
      PROVE  Sound(heap')
  BY <1>7, OverwriteSound DEF Overwrite, Types
<1>8. ASSUME NEW v \in Handles, Extend(v) PROVE Sound(heap')
  BY <1>8, OverwriteSound DEF Extend, Types
<1>9. ASSUME NEW v \in Handles, CoerceStr(v) PROVE Sound(heap')
  BY <1>9, OverwriteSound DEF CoerceStr, ToStr, Types
<1>10. ASSUME NEW v \in Handles, CoerceInt(v) PROVE Sound(heap')
  BY <1>10, OverwriteSound DEF CoerceInt, ToInt, Types
<1>11. ASSUME NEW v \in Handles, NEW c \in Cells, NEW hs \in FreeHandleSeqs,
              NEW cs \in FreeCellSeqs, CoerceList(v, c, hs, cs)
       PROVE  Sound(heap')
  BY <1>11, ToListSound DEF CoerceList
<1>12. ASSUME NEW l \in Handles, NEW v \in Handles, NEW h \in Handles,
              ListPush(l, v, h)
       PROVE  Sound(heap')
  <2>1. heap.ptr[l] \in Cells /\ heap.ref[heap.ptr[l]] > 0
    BY <1>12, OwnPoints DEF ListPush
  <2>2. heap.ptr[v] \in Cells
    BY <1>12, VisiblePoints DEF ListPush
  <2> QED BY <1>12, <2>1, <2>2, ListPushSound DEF ListPush
<1>13. ASSUME NEW l \in Handles, NEW h \in Handles, NEW d \in Cells, NEW c \in Cells,
              NEW hs \in FreeHandleSeqs, NEW cs \in FreeCellSeqs, NEW b \in BOOLEAN,
              ListTake(l, h, d, c, hs, cs, b)
       PROVE  Sound(heap')
  <2> DEFINE s == ToList(heap, l, c, hs, cs)
             q == s.elems[s.ptr[l]]
  <2>1. /\ Sound(s) /\ l \in s.own /\ s.ptr[l] \in Cells
        /\ HoldsList(s, {}, s.ptr[l])
    BY <1>13, ToListSound DEF ListTake
  <2>2. h \in FreeHandles(s)
    BY <1>13 DEF ListTake
  <2>3. \/ d \in FreeCells(s) /\ heap' = NewValue(s, h, d, "NULL")
        \/ /\ Len(q) > 0
           /\ heap' = IF b
                      THEN TakeElement(s, l, h, q[Len(q)], SubSeq(q, 1, Len(q) - 1))
                      ELSE TakeElement(s, l, h, q[1], SubSeq(q, 2, Len(q)))
    BY <1>13 DEF ListTake
  <2> HIDE DEF s
  <2>4. CASE d \in FreeCells(s) /\ heap' = NewValue(s, h, d, "NULL")
    BY <2>1, <2>2, <2>4, NewValueSound DEF Types
  <2>5. CASE /\ Len(q) > 0 /\ b
             /\ heap' = TakeElement(s, l, h, q[Len(q)], SubSeq(q, 1, Len(q) - 1))
    BY <2>1, <2>2, <2>5, ListTakeSound
  <2>6. CASE /\ Len(q) > 0 /\ ~b
             /\ heap' = TakeElement(s, l, h, q[1], SubSeq(q, 2, Len(q)))
    BY <2>1, <2>2, <2>6, ListTakeSound
  <2> QED BY <2>3, <2>4, <2>5, <2>6
<1>14. ASSUME NEW v \in Handles, NEW c \in Cells, Detach(v, c) PROVE Sound(heap')
  BY <1>14, RedirectedSound DEF Detach, Types
<1>15. ASSUME NEW v \in Handles, NEW c \in Cells, SetObject(v, c)
       PROVE  Sound(heap')
  BY <1>15, RedirectedSound DEF SetObject, Types
<1> QED
  BY <1>1, <1>2, <1>3, <1>4, <1>5, <1>6, <1>7, <1>8, <1>9, <1>10, <1>11,
     <1>12, <1>13, <1>14, <1>15 DEF Next

-----------------------------------------------------------------------------
(* Lists do not contain themselves: cells can be ranked so that every list *)
(* is above its elements.                                                  *)

Ranks(s, n, r) ==
    /\ n \in Nat /\ r \in [Cells -> 0..n]
    /\ \A c \in Cells : \A h \in Elements(s, c) :
          s.ptr[h] \in Cells => r[s.ptr[h]] < r[c]

Acyclic(s) == \E n, r : Ranks(s, n, r)

\* No list has got an element or another element, and no cell became a list.
Thins(t, s) ==
    \A c \in Cells :
       /\ \A h \in Elements(t, c) : h \in Elements(s, c) /\ t.ptr[h] \in {s.ptr[h], FREE}
       /\ t.type[c] = "LIST" => s.type[c] = "LIST"

LEMMA ThinsTwice ==
    ASSUME NEW s, NEW t, NEW u, Thins(t, s), Thins(u, t) PROVE Thins(u, s)
  BY DEF Thins

LEMMA ThinnedAcyclic ==
    ASSUME NEW s, NEW t, Thins(t, s), Acyclic(s) PROVE Acyclic(t)
<1>1. PICK n, r : Ranks(s, n, r)
  BY DEF Acyclic
<1>2. Ranks(t, n, r)
  BY <1>1, ValueAssumption DEF Ranks, Thins
<1> QED BY <1>2 DEF Acyclic

LEMMA FreeValueThins ==
    ASSUME NEW s \in Heaps, NEW c \in Cells, NEW y \in Types \ {"LIST"}
    PROVE  Thins(FreeValue(s, c, y), s)
<1> DEFINE t == FreeValue(s, c, y)
<1>1. t.ptr = s.ptr /\ t.type = [s.type EXCEPT ![c] = y] /\ t.elems = [s.elems EXCEPT ![c] = << >>]
  BY FreeValueFields
<1>2. s.type \in [Cells -> Types] /\ s.elems \in [Cells -> Seq(Handles)]
  BY DEF Heaps
<1> HIDE DEF t
<1>3. Elements(t, c) = {} /\ t.type[c] # "LIST"
  BY <1>1, <1>2, NoElements
<1>4. \A d \in Cells \ {c} : Elements(t, d) = Elements(s, d) /\ t.type[d] = s.type[d]
  BY <1>1, <1>2 DEF Elements
<1>5. Thins(t, s)
  BY <1>1, <1>3, <1>4 DEF Thins
<1> QED BY <1>5 DEF t

LEMMA UnrefThins ==
    ASSUME NEW s, Good(s), NEW h \in Handles, Live(s, h)
    PROVE  Thins(Unref(s, h), s)
<1> DEFINE t == Unref(s, h)
           c == s.ptr[h]
<1>1. s.ptr[h] # FREE
  BY DEF Live
<1>2. /\ s.ptr \in [Handles -> Cells \cup {FREE}]
      /\ s.type \in [Cells -> Types] /\ s.elems \in [Cells -> Seq(Handles)]
      /\ s \in Heaps /\ c \in Cells
  BY <1>1 DEF Good, Heaps
<1>3. t.ptr = [s.ptr EXCEPT ![h] = FREE]
  BY <1>1, UnrefFields
<1>4. s.ref[c] # 1 => t.type = s.type /\ t.elems = s.elems
  BY <1>1, UnrefFields
<1>5. s.ref[c] = 1 => /\ t.type = [s.type EXCEPT ![c] = "NULL"]
                      /\ t.elems = [s.elems EXCEPT ![c] = << >>]
  BY <1>1, UnrefFields
<1> HIDE DEF t, c
<1>6. \A d \in Cells : Elements(t, d) \in {Elements(s, d), {}} /\ t.type[d] \in {s.type[d], "NULL"}
  <2>1. \A d \in Cells : t.elems[d] \in {s.elems[d], << >>} /\ t.type[d] \in {s.type[d], "NULL"}
    BY <1>2, <1>4, <1>5
  <2> QED BY <2>1, NoElements DEF Elements
<1>7. \A d \in Cells : \A x \in Elements(s, d) : t.ptr[x] \in {s.ptr[x], FREE}
  BY <1>2, <1>3, ElementsAreHandles
<1>8. Thins(t, s)
  BY <1>6, <1>7 DEF Thins
<1> QED BY <1>8 DEF t

\* A handle that is no element is pointed somewhere else.
LEMMA AttachThins ==
    ASSUME NEW s \in Heaps, NEW h \in Handles, NEW c \in Cells,
           \A d \in Cells : h \notin Elements(s, d)
    PROVE  Thins(Attach(s, h, c), s)
<1> DEFINE t == Attach(s, h, c)
<1>1. /\ \A x \in Handles \ {h} : t.ptr[x] = s.ptr[x]
      /\ t.type = s.type /\ t.elems = s.elems
  <2>1. \A x \in Handles \ {h} : t.ptr[x] = s.ptr[x]
    BY DEF Attach, Heaps
  <2>2. t.type = s.type
    BY DEF Attach, Heaps
  <2>3. t.elems = s.elems
    BY DEF Attach, Heaps
  <2> QED BY <2>1, <2>2, <2>3
<1> HIDE DEF t
<1>2. \A d \in Cells : Elements(t, d) = Elements(s, d) /\ Elements(s, d) \subseteq Handles \ {h}
  BY <1>1, ElementsAreHandles DEF Elements
<1>3. Thins(t, s)
  BY <1>1, <1>2 DEF Thins
<1> QED BY <1>3 DEF t

\* Who holds a handle is not what it points to.
LEMMA HoldingThins ==
    ASSUME NEW s \in Heaps, NEW t,
           t.ptr = s.ptr, t.type = s.type, t.elems = s.elems
    PROVE  Thins(t, s)
  BY DEF Thins, Elements

LEMMA OwnNoElement ==
    ASSUME NEW s, NEW E, NEW F, SoundBut(s, E, F), NEW v \in s.own
    PROVE  \A d \in Cells : v \notin Elements(s, d)
  BY DEF SoundBut, PlacedOnce

\* TclValue_replace and a retyped cell.
LEMMA ReplacedThins ==
    ASSUME NEW s, NEW E, NEW F, SoundBut(s, E, F), NEW v \in s.own, Live(s, v), NEW c \in Cells
    PROVE  Thins(Replaced(s, v, c), s)
<1> DEFINE t == Unref(s, v)
<1>1. Good(s) /\ v \in Handles
  BY DEF SoundBut, Good, Heaps
<1>2. Thins(t, s) /\ t \in Heaps
  BY <1>1, UnrefThins, UnrefGood DEF Good, Live
<1>3. \A d \in Cells : v \notin Elements(t, d)
  BY <1>2, OwnNoElement DEF Thins
<1> HIDE DEF t
<1>4. Thins(Attach(t, v, c), t)
  BY <1>1, <1>2, <1>3, AttachThins
<1> QED BY <1>2, <1>4, ThinsTwice DEF Replaced, t

LEMMA RedirectedThins ==
    ASSUME NEW s, Sound(s), NEW v \in s.own, NEW c \in Cells, NEW y \in Types \ {"LIST"}
    PROVE  Thins(Redirected(s, v, c, y), s)
<1> DEFINE t == Unref(s, v)
           u == [t EXCEPT !.type[c] = y]
<1>1. Good(s) /\ v \in Handles /\ Live(s, v)
  BY OwnPoints DEF Sound, SoundBut
<1>2. Thins(t, s) /\ t \in Heaps
  BY <1>1, UnrefThins, UnrefGood DEF Good, Live
<1>3. \A d \in Cells : v \notin Elements(t, d)
  BY <1>2, OwnNoElement DEF Thins, Sound
<1> HIDE DEF t
<1>4. u.ptr = t.ptr /\ u.elems = t.elems /\ u.type = [t.type EXCEPT ![c] = y] /\ u \in Heaps
  BY <1>2 DEF Heaps
<1>5. t.type \in [Cells -> Types]
  BY <1>2 DEF Heaps
<1> HIDE DEF u
<1>6. \A d : Elements(u, d) = Elements(t, d)
  BY <1>4 DEF Elements
<1>7. Thins(u, t)
  BY <1>4, <1>5, <1>6 DEF Thins
<1>8. Thins(Attach(u, v, c), u)
  BY <1>1, <1>3, <1>4, <1>6, AttachThins
<1>9. Thins(Attach(u, v, c), s)
  BY <1>2, <1>7, <1>8, ThinsTwice
<1> QED BY <1>9 DEF Redirected, t, u

\* A cell that nothing in a list points to may get any elements: it goes on top.
LEMMA NewTop ==
    ASSUME NEW s, NEW t, Acyclic(s), NEW c \in Cells,
           \A d \in Cells \ {c} : \A h \in Elements(t, d) :
              h \in Elements(s, d) /\ t.ptr[h] = s.ptr[h],
           \A d \in Cells : \A h \in Elements(t, d) : t.ptr[h] # c
    PROVE  Acyclic(t)
<1>1. PICK n, r : Ranks(s, n, r)
  BY DEF Acyclic
<1> DEFINE q == [d \in Cells |-> IF d = c THEN n + 1 ELSE r[d]]
<1>2. n \in Nat /\ \A d \in Cells : r[d] \in 0..n
  BY <1>1 DEF Ranks
<1>3. q \in [Cells -> 0..(n + 1)]
  BY <1>2
<1>4. ASSUME NEW d \in Cells, NEW h \in Elements(t, d), t.ptr[h] \in Cells
      PROVE  q[t.ptr[h]] < q[d]
  <2>1. q[t.ptr[h]] = r[t.ptr[h]] /\ r[t.ptr[h]] \in 0..n
    BY <1>2, <1>4
  <2>2. CASE d = c
    BY <1>2, <2>1, <2>2
  <2>3. CASE d # c
    <3>1. h \in Elements(s, d) /\ t.ptr[h] = s.ptr[h]
      BY <2>3
    <3>2. r[t.ptr[h]] < r[d]
      BY <1>1, <1>4, <3>1 DEF Ranks
    <3> QED BY <2>1, <2>3, <3>2
  <2> QED BY <2>2, <2>3
<1> HIDE DEF q
<1>5. Ranks(t, n + 1, q)
  BY <1>2, <1>3, <1>4 DEF Ranks
<1> QED BY <1>5 DEF Acyclic

\* What a list holds points to cells in use.
LEMMA ElementPoints ==
    ASSUME NEW s, Sound(s), NEW d \in Cells, NEW h \in Elements(s, d)
    PROVE  h \in Handles /\ s.ptr[h] \in Cells /\ h \in Refs(s, s.ptr[h]) /\ s.ref[s.ptr[h]] > 0
<1>1. s \in Heaps /\ Counted(s)
  BY DEF Sound, SoundBut, Good
<1>2. h \in Handles /\ InPlace(s, h)
  BY <1>1, ElementsAreHandles DEF InPlace
<1>3. s.ptr[h] \in Cells
  BY <1>2, PlacedPoints DEF Sound
<1> DEFINE c == s.ptr[h]
<1>4. h \in Refs(s, c)
  BY <1>2 DEF Refs
<1>5. s.ref[c] = Cardinality(Refs(s, c)) /\ s.ref[c] \in Nat
  BY <1>1, <1>3 DEF Counted, Heaps
<1>6. s.ref[c] # 0
  <2>1. IsFiniteSet(Refs(s, c)) /\ Refs(s, c) # {}
    BY <1>3, <1>4, RefsFinite
  <2> QED BY <1>5, <2>1, FS_EmptySet
<1> QED BY <1>2, <1>3, <1>4, <1>5, <1>6

\* Every caller pushes to a list of its own that nobody shares, so no list
\* contains it.
LEMMA ListPushAcyclic ==
    ASSUME NEW s, Sound(s), Acyclic(s), NEW l \in s.own, s.ref[s.ptr[l]] = 1,
           NEW v \in Visible(s) \ {l}, NEW h \in FreeHandles(s)
    PROVE  /\ Acyclic([Attach(s, h, s.ptr[v]) EXCEPT !.elems[s.ptr[l]] = Append(@, h)])
           /\ [Attach(s, h, s.ptr[v]) EXCEPT !.elems[s.ptr[l]] = Append(@, h)].type = s.type
<1> DEFINE c == s.ptr[l]
           w == s.ptr[v]
           a == Attach(s, h, w)
           t == [a EXCEPT !.elems[c] = Append(@, h)]
<1>1. /\ s \in Heaps /\ Counted(s) /\ h \in Handles /\ c \in Cells /\ l \in Handles
      /\ w \in Cells /\ v \in Handles
  <2>1. c \in Cells /\ l \in Handles
    BY OwnPoints
  <2>2. w \in Cells /\ v \in Handles
    BY VisiblePoints
  <2> QED BY <2>1, <2>2 DEF Sound, SoundBut, Good, FreeHandles
<1>2. Refs(s, c) = {l}
  <2>1. Cardinality(Refs(s, c)) = 1 /\ IsFiniteSet(Refs(s, c)) /\ l \in Refs(s, c)
    BY <1>1, RefsFinite DEF Counted, Refs
  <2> QED BY <2>1, FS_Singleton
<1>3. w # c
  BY <1>1, <1>2 DEF Refs
<1> HIDE DEF c, w
<1>4. \A d \in Cells : h \notin Elements(s, d) /\ l \notin Elements(s, d)
  <2>1. SoundBut(s, {}, {}) /\ ~InPlace(s, h)
    BY FreeHandleNowhere DEF Sound
  <2> QED BY <2>1, OwnNoElement DEF InPlace
<1>5. a \in Heaps /\ a.ptr = [s.ptr EXCEPT ![h] = w] /\ a.elems = s.elems /\ a.type = s.type
  <2>0. s \in Heaps /\ h \in Handles /\ w \in Cells
    BY <1>1
  <2>1. a \in Heaps
    BY <2>0, AttachFields
  <2>2. a.ptr = [s.ptr EXCEPT ![h] = w]
    BY <2>0 DEF Attach, Heaps
  <2>3. a.elems = s.elems
    BY <2>0 DEF Attach, Heaps
  <2>4. a.type = s.type
    BY <2>0 DEF Attach, Heaps
  <2> QED BY <2>1, <2>2, <2>3, <2>4
<1>6. s.ptr \in [Handles -> Cells \cup {FREE}] /\ s.elems \in [Cells -> Seq(Handles)]
  BY <1>1 DEF Heaps
<1>7. t.ptr = a.ptr /\ t.elems = [s.elems EXCEPT ![c] = Append(@, h)] /\ t.type = s.type
  BY <1>5 DEF Heaps
<1> HIDE DEF t, a
<1>8. /\ \A d \in Cells \ {c} : Elements(t, d) = Elements(s, d)
      /\ Elements(t, c) \subseteq Elements(s, c) \cup {h}
  <2>1. \A d \in Cells \ {c} : t.elems[d] = s.elems[d]
    BY <1>6, <1>7
  <2>2. t.elems[c] = Append(s.elems[c], h) /\ s.elems[c] \in Seq(Handles)
    BY <1>1, <1>6, <1>7
  <2>3. Items(Append(s.elems[c], h)) \subseteq Items(s.elems[c]) \cup {h}
    BY <2>2, <1>1 DEF Items
  <2> QED BY <2>1, <2>2, <2>3 DEF Elements
<1>9. \A d \in Cells : \A x \in Elements(s, d) :
          x \in Handles /\ x # h /\ t.ptr[x] = s.ptr[x] /\ s.ptr[x] # c
  <2> SUFFICES ASSUME NEW d \in Cells, NEW x \in Elements(s, d)
               PROVE  x \in Handles /\ x # h /\ t.ptr[x] = s.ptr[x] /\ s.ptr[x] # c
    OBVIOUS
  <2>1. x \in Handles /\ x \in Refs(s, s.ptr[x])
    BY ElementPoints
  <2>2. x # h /\ x # l
    BY <1>4
  <2> QED BY <1>2, <1>5, <1>6, <1>7, <2>1, <2>2
<1>10. t.ptr[h] = w
  BY <1>1, <1>5, <1>6, <1>7
<1>11. Acyclic(t)
  <2>1. \A d \in Cells \ {c} : \A x \in Elements(t, d) :
           x \in Elements(s, d) /\ t.ptr[x] = s.ptr[x]
    BY <1>8, <1>9
  <2>2. \A d \in Cells : \A x \in Elements(t, d) : t.ptr[x] # c
    BY <1>3, <1>8, <1>9, <1>10
  <2> QED BY <1>1, <2>1, <2>2, NewTop
<1> QED BY <1>7, <1>11 DEF t, a, c, w

\* The list a coercion makes is new.
LEMMA WithListAcyclic ==
    ASSUME NEW s, Sound(s), Acyclic(s), NEW c \in FreeCells(s),
           NEW hs \in Seq(FreeHandles(s)), NEW cs \in Seq(FreeCells(s)),
           Len(cs) = Len(hs), Injective(hs), Injective(cs), c \notin Items(cs)
    PROVE  LET t == WithList(s, c, hs, cs) IN
           /\ Acyclic(t)
           /\ \A d \in Cells : t.type[d] = "LIST" => s.type[d] = "LIST" \/ s.ref[d] = 0
<1> DEFINE t == WithList(s, c, hs, cs)
<1>1. s \in Heaps /\ c \in Cells /\ s.ref[c] = 0
  BY FreeCellEmpty DEF Sound, SoundBut, Good
<1>2. /\ \A x \in Items(hs) : x \in FreeHandles(s)
      /\ \A d \in Items(cs) : d \in FreeCells(s)
  BY ElementOfSeq DEF Items
<1>3. \A i \in 1..Len(hs) : cs[i] \in Items(cs) /\ hs[i] \in Items(hs)
  BY DEF Items
<1>4. hs \in Seq(Handles) /\ cs \in Seq(Cells)
  BY DEF FreeHandles, FreeCells
<1>5. /\ t \in Heaps
      /\ \A i \in 1..Len(hs) : t.ptr[hs[i]] = cs[i]
      /\ \A h \in Handles \ Items(hs) : t.ptr[h] = s.ptr[h]
      /\ \A d \in Cells : t.ref[d] = IF d \in Items(cs) THEN 1 ELSE s.ref[d]
      /\ t.type[c] = "LIST"
      /\ \A d \in Cells \ (Items(cs) \cup {c}) : t.type[d] = s.type[d]
      /\ t.elems = [s.elems EXCEPT ![c] = hs]
      /\ t.own = s.own /\ t.doomed = s.doomed
  <2>1. ListMade(t, s, c, hs, cs)
    BY <1>1, <1>4, WithListFields
  <2> QED BY <2>1 DEF ListMade
<1>6. s.elems \in [Cells -> Seq(Handles)]
  BY <1>1 DEF Heaps
<1> HIDE DEF t
<1>7. Elements(t, c) = Items(hs) /\ \A d \in Cells \ {c} : Elements(t, d) = Elements(s, d)
  BY <1>1, <1>5, <1>6 DEF Elements
<1>8. ASSUME NEW d \in Cells \ {c}, NEW h \in Elements(t, d)
      PROVE  h \in Elements(s, d) /\ t.ptr[h] = s.ptr[h] /\ t.ptr[h] # c
  <2>1. h \in Elements(s, d)
    BY <1>7
  <2>2. h \in Handles /\ s.ref[s.ptr[h]] > 0 /\ InPlace(s, h)
    BY <2>1, ElementPoints DEF InPlace
  <2>3. h \notin Items(hs)
    BY <1>2, <2>2, FreeHandleNowhere
  <2> QED BY <1>1, <1>5, <2>1, <2>2, <2>3
<1>9. ASSUME NEW h \in Items(hs) PROVE t.ptr[h] # c
  <2>1. PICK i \in 1..Len(hs) : h = hs[i]
    BY DEF Items
  <2> QED BY <1>3, <1>5, <2>1
<1>10. Acyclic(t)
  <2>1. \A d \in Cells \ {c} : \A h \in Elements(t, d) :
           h \in Elements(s, d) /\ t.ptr[h] = s.ptr[h]
    BY <1>8
  <2>2. \A d \in Cells : \A h \in Elements(t, d) : t.ptr[h] # c
    BY <1>7, <1>8, <1>9
  <2> QED BY <1>1, <2>1, <2>2, NewTop
<1>11. \A d \in Cells : t.type[d] = "LIST" => s.type[d] = "LIST" \/ s.ref[d] = 0
  BY <1>1, <1>2, <1>5 DEF FreeCells
<1> QED BY <1>10, <1>11 DEF t

\* What a step keeps: lists stay acyclic, and no cell in use becomes a list.
Kept(s, t) ==
    /\ Acyclic(t)
    /\ \A d \in Cells : t.type[d] = "LIST" => s.type[d] = "LIST" \/ s.ref[d] = 0

LEMMA ThinnedKept ==
    ASSUME NEW s, NEW t, Acyclic(s), Thins(t, s) PROVE Kept(s, t)
  BY ThinnedAcyclic DEF Kept, Thins

LEMMA ThinnedMore ==
    ASSUME NEW s, NEW t, NEW u, Kept(s, t), Thins(u, t) PROVE Kept(s, u)
  BY ThinnedAcyclic DEF Kept, Thins

LEMMA ToListKept ==
    ASSUME Sound(heap), Acyclic(heap), NEW v \in heap.own, NEW c \in Cells,
           NEW hs \in FreeHandleSeqs, NEW cs \in FreeCellSeqs,
           Allocates(v, c, hs, cs)
    PROVE  Kept(heap, ToList(heap, v, c, hs, cs))
<1> DEFINE t == ToList(heap, v, c, hs, cs)
           u == WithList(heap, c, hs, cs)
<1>1. CASE heap.type[heap.ptr[v]] = "LIST"
  BY <1>1 DEF ToList, Kept
<1>2. CASE heap.type[heap.ptr[v]] # "LIST"
  <2>1. /\ Len(cs) = Len(hs) /\ Injective(hs) /\ Injective(cs)
        /\ c \in FreeCells(heap) /\ c \notin Items(cs)
    BY <1>2 DEF Allocates
  <2>2. hs \in Seq(FreeHandles(heap)) /\ cs \in Seq(FreeCells(heap))
    BY BoundedIsSeq DEF FreeHandleSeqs, FreeCellSeqs
  <2>3. SoundBut(u, {}, {c}) /\ v \in u.own /\ Live(u, v)
    BY <2>1, <2>2, WithListSound
  <2>4. Kept(heap, u)
    BY <2>1, <2>2, WithListAcyclic DEF Kept
  <2>5. t = Replaced(u, v, c)
    BY <1>2 DEF ToList
  <2> HIDE DEF t, u
  <2>6. Kept(heap, t)
    BY <2>3, <2>4, <2>5, ReplacedThins, ThinnedMore
  <2> QED BY <2>6 DEF t
<1> QED BY <1>1, <1>2

\* A new handle of C code, on a cell in use.
LEMMA NewRefThins ==
    ASSUME NEW s, Sound(s), NEW h \in FreeHandles(s), NEW c \in Cells
    PROVE  Thins(Owned(Attach(s, h, c), h), s)
<1> DEFINE t == Attach(s, h, c)
<1>1. s \in Heaps /\ h \in Handles /\ \A d \in Cells : h \notin Elements(s, d)
  BY FreeHandleNowhere DEF Sound, SoundBut, Good, InPlace
<1>2. t \in Heaps /\ Thins(t, s)
  BY <1>1, AttachThins, AttachFields
<1> HIDE DEF t
<1>3. Owned(t, h).ptr = t.ptr /\ Owned(t, h).type = t.type /\ Owned(t, h).elems = t.elems
  BY <1>2 DEF Owned, Heaps
<1>4. Thins(Owned(t, h), t)
  BY <1>2, <1>3, HoldingThins
<1> QED BY <1>2, <1>4, ThinsTwice DEF t

\* On a fresh cell.
LEMMA NewValueKept ==
    ASSUME NEW s, Sound(s), Acyclic(s), NEW h \in FreeHandles(s), NEW c \in FreeCells(s),
           NEW y \in Types
    PROVE  /\ Kept(s, NewValue(s, h, c, y))
           /\ y # "LIST" => Thins(NewValue(s, h, c, y), s)
<1> DEFINE t == NewValue(s, h, c, y)
<1>1. /\ s \in Heaps /\ h \in Handles /\ c \in Cells /\ s.ref[c] = 0
      /\ \A d \in Cells : h \notin Elements(s, d)
  BY FreeHandleNowhere, FreeCellEmpty DEF Sound, SoundBut, Good, InPlace
<1>2. s.ptr \in [Handles -> Cells \cup {FREE}] /\ s.type \in [Cells -> Types]
  BY <1>1 DEF Heaps
<1>3. t.ptr = [s.ptr EXCEPT ![h] = c] /\ t.type = [s.type EXCEPT ![c] = y] /\ t.elems = s.elems
  BY <1>1 DEF NewValue, Owned, Fresh, Heaps
<1> HIDE DEF t
<1>4. \A d \in Cells : Elements(t, d) = Elements(s, d) /\ Elements(s, d) \subseteq Handles \ {h}
  BY <1>1, <1>3, ElementsAreHandles DEF Elements
<1>5. \A d \in Cells : \A x \in Elements(t, d) : x \in Elements(s, d) /\ t.ptr[x] = s.ptr[x]
  BY <1>2, <1>3, <1>4
<1>6. Acyclic(t)
  <2>1. PICK n, r : Ranks(s, n, r)
    BY DEF Acyclic
  <2>2. Ranks(t, n, r)
    BY <1>5, <2>1 DEF Ranks
  <2> QED BY <2>2 DEF Acyclic
<1>7. \A d \in Cells : t.type[d] = IF d = c THEN y ELSE s.type[d]
  BY <1>2, <1>3
<1>8. Kept(s, t)
  BY <1>1, <1>6, <1>7 DEF Kept
<1>9. y # "LIST" => Thins(t, s)
  BY <1>5, <1>7 DEF Thins
<1> QED BY <1>8, <1>9 DEF t

\* The element leaves the list.
LEMMA TakeElementThins ==
    ASSUME NEW s, Sound(s), NEW h \in FreeHandles(s), NEW w \in Cells,
           NEW c \in Cells, HoldsList(s, {}, c), NEW e \in Elements(s, c),
           NEW q \in Seq(Handles), Injective(q), Items(q) = Elements(s, c) \ {e}
    PROVE  Thins(Unref(Relisted(Owned(Attach(s, h, w), h), c, q), e), s)
<1> DEFINE b == Owned(Attach(s, h, w), h)
           t == Relisted(b, c, q)
<1>1. s \in Heaps /\ h \in Handles /\ ~InPlace(s, h)
  BY FreeHandleNowhere DEF Sound, SoundBut, Good
<1>2. e \in Handles /\ InPlace(s, e) /\ e # h
  BY <1>1, ElementsAreHandles DEF InPlace
<1>3. Live(s, e)
  BY <1>2, PlacedPoints DEF Sound
<1>4. SoundBut(b, {}, {}) /\ Thins(b, s)
  BY NewRefSound, NewRefThins DEF Sound
<1>5. HoldsList(b, {}, c) /\ Elements(b, c) = Elements(s, c) /\ Live(b, e)
  BY <1>1, <1>2, <1>3, NewRefKeeps
<1> HIDE DEF b
<1>6. Items(q) = Elements(b, c) \ {e} /\ e \in Elements(b, c)
  BY <1>5
<1>7. SoundBut(t, {} \cup {e}, {}) /\ t.ptr = b.ptr
  BY <1>2, <1>4, <1>5, <1>6, RelistedSound
<1>8. b \in Heaps
  BY <1>4 DEF SoundBut, Good
<1>9. t.type = b.type /\ t.elems = [b.elems EXCEPT ![c] = q]
  BY <1>8 DEF Relisted, Heaps
<1> HIDE DEF t
<1>10. /\ \A d \in Cells \ {c} : Elements(t, d) = Elements(b, d)
       /\ Elements(t, c) \subseteq Elements(b, c)
  <2>1. b.elems \in [Cells -> Seq(Handles)]
    BY <1>8 DEF Heaps
  <2> QED BY <1>6, <1>9, <2>1 DEF Elements
<1>11. Thins(t, b)
  BY <1>7, <1>9, <1>10 DEF Thins
<1>12. Good(t) /\ Live(t, e)
  BY <1>5, <1>7 DEF SoundBut, Live
<1>13. Thins(Unref(t, e), t)
  BY <1>2, <1>12, UnrefThins
<1>14. Thins(Unref(t, e), s)
  BY <1>4, <1>11, <1>13, ThinsTwice
<1> QED BY <1>14 DEF t, b

LEMMA ListTakeThins ==
    ASSUME NEW s, Sound(s), NEW l \in s.own, NEW h \in FreeHandles(s),
           s.ptr[l] \in Cells, HoldsList(s, {}, s.ptr[l]),
           Len(s.elems[s.ptr[l]]) > 0, NEW e, NEW rest,
           LET q == s.elems[s.ptr[l]] IN
           \/ e = q[Len(q)] /\ rest = SubSeq(q, 1, Len(q) - 1)
           \/ e = q[1] /\ rest = SubSeq(q, 2, Len(q))
    PROVE  Thins(TakeElement(s, l, h, e, rest), s)
<1> DEFINE c == s.ptr[l]
           q == s.elems[c]
           w == s.ptr[e]
<1>1. q \in Seq(Handles) /\ Injective(q)
  BY DEF Sound, SoundBut, Good, Heaps, PlacedOnce
<1>2. Elements(s, c) = Items(q) /\ Len(q) > 0
  BY DEF Elements
<1>3. \/ e = q[Len(q)] /\ rest = SubSeq(q, 1, Len(q) - 1)
      \/ e = q[1] /\ rest = SubSeq(q, 2, Len(q))
  OBVIOUS
<1>4. c \in Cells /\ HoldsList(s, {}, c)
  OBVIOUS
<1>5. TakeElement(s, l, h, e, rest)
        = Unref(Relisted(Owned(Attach(s, h, w), h), c, rest), e)
  BY DEF TakeElement, Relisted
<1> HIDE DEF c, q
<1>6. /\ e \in Items(q) /\ rest \in Seq(Handles) /\ Injective(rest)
      /\ Items(rest) = Items(q) \ {e}
  <2>1. CASE e = q[Len(q)] /\ rest = SubSeq(q, 1, Len(q) - 1)
    BY <1>1, <1>2, <2>1, LastTaken
  <2>2. CASE e = q[1] /\ rest = SubSeq(q, 2, Len(q))
    BY <1>1, <1>2, <2>2, FirstTaken
  <2> QED BY <1>3, <2>1, <2>2
<1>7. w \in Cells
  BY <1>2, <1>4, <1>6, ElementPoints
<1> HIDE DEF w
<1>8. Thins(Unref(Relisted(Owned(Attach(s, h, w), h), c, rest), e), s)
  BY <1>2, <1>4, <1>6, <1>7, TakeElementThins
<1> QED BY <1>5, <1>8

\* TclValue_delete, called by C code or by the cascade.
LEMMA DeleteThins ==
    ASSUME NEW s, Sound(s), NEW h \in s.own
    PROVE  Thins(Disowned(Unref(s, h), h), s)
<1> DEFINE t == Unref(s, h)
<1>1. Good(s) /\ h \in Handles /\ Live(s, h)
  BY OwnPoints DEF Sound, SoundBut
<1>2. Thins(t, s) /\ t \in Heaps
  BY <1>1, UnrefThins, UnrefGood DEF Good, Live
<1> HIDE DEF t
<1>3. Disowned(t, h).ptr = t.ptr /\ Disowned(t, h).type = t.type /\ Disowned(t, h).elems = t.elems
  BY <1>2 DEF Disowned, Heaps
<1>4. Thins(Disowned(t, h), t)
  BY <1>2, <1>3, HoldingThins
<1> QED BY <1>2, <1>4, ThinsTwice DEF t

LEMMA DrainThins ==
    ASSUME NEW s, Sound(s), NEW h \in s.doomed
    PROVE  Thins(Unref([s EXCEPT !.doomed = @ \ {h}], h), s)
<1> DEFINE t == [s EXCEPT !.doomed = @ \ {h}]
<1>1. s \in Heaps /\ h \in Handles /\ SoundBut(s, {}, {})
  BY DEF Sound, SoundBut, Good, Heaps
<1>2. Live(s, h)
  BY <1>1, PlacedPoints DEF InPlace
<1>3. SoundBut(t, {} \cup {h}, {}) /\ t.ptr = s.ptr
  BY <1>1, ReleasedSound
<1>4. t.type = s.type /\ t.elems = s.elems
  BY <1>1 DEF Heaps
<1> HIDE DEF t
<1>5. Thins(t, s)
  BY <1>1, <1>3, <1>4, HoldingThins
<1>6. Thins(Unref(t, h), t)
  BY <1>1, <1>2, <1>3, UnrefThins DEF SoundBut, Live
<1> QED BY <1>5, <1>6, ThinsTwice DEF t

LEMMA OverwriteThins ==
    ASSUME NEW s, Sound(s), NEW v \in s.own, NEW y \in Types \ {"LIST"}
    PROVE  Thins(FreeValue(s, s.ptr[v], y), s)
<1>1. s.ptr[v] \in Cells /\ s \in Heaps
  BY OwnPoints DEF Sound, SoundBut, Good
<1> QED BY <1>1, FreeValueThins

LEMMA InitAcyclic == Init => Acyclic(heap)
<1> SUFFICES ASSUME Init PROVE Acyclic(heap)
  OBVIOUS
<1>1. \A c \in Cells : Elements(heap, c) = {}
  BY NoElements DEF Init
<1>2. Ranks(heap, 0, [c \in Cells |-> 0])
  BY <1>1 DEF Ranks
<1> QED BY <1>2 DEF Acyclic

LEMMA StepKept == Sound(heap) /\ Acyclic(heap) /\ [Next]_heap => Kept(heap, heap')
<1> SUFFICES ASSUME Sound(heap), Acyclic(heap), [Next]_heap PROVE Kept(heap, heap')
  OBVIOUS
<1> USE TypesOf
<1>0. SoundBut(heap, {}, {})
  BY DEF Sound
<1>1. CASE UNCHANGED heap
  BY <1>1 DEF Kept
<1>2. ASSUME NEW h \in Handles, NEW c \in Cells,
             NEW y \in Scalars \cup {"LIST", "NULL"}, New(h, c, y)
      PROVE  Kept(heap, heap')
  <2>1. y \in Types
    BY ValueAssumption DEF Types
  <2> QED BY <1>2, <2>1, NewValueKept DEF New
<1>3. ASSUME NEW h \in Handles, NEW e \in Handles, NewRef(h, e)
      PROVE  Kept(heap, heap')
  <2>1. heap.ptr[e] \in Cells
    BY <1>3, VisiblePoints DEF NewRef
  <2> QED BY <1>3, <2>1, NewRefThins, ThinnedKept DEF NewRef
<1>4. ASSUME NEW h \in Handles, Delete(h) PROVE Kept(heap, heap')
  BY <1>4, DeleteThins, ThinnedKept DEF Delete
<1>5. ASSUME NEW h \in Handles, Drain(h) PROVE Kept(heap, heap')
  BY <1>5, DrainThins, ThinnedKept DEF Drain
<1>6. ASSUME NEW v \in Handles, NEW w \in Handles, Replace(v, w)
      PROVE  Kept(heap, heap')
  <2>1. v \in heap.own /\ w \in Visible(heap)
    BY <1>6 DEF Replace, Visible, ElementsOf
  <2>2. heap.ptr[w] \in Cells /\ Live(heap, v)
    BY <2>1, VisiblePoints, OwnPoints
  <2>3. Thins(Replaced(heap, v, heap.ptr[w]), heap)
    BY <1>0, <2>1, <2>2, ReplacedThins
  <2> QED BY <1>6, <2>3, ThinnedKept DEF Replace
<1>7. ASSUME NEW v \in Handles, NEW y \in {"STR", "INT", "NULL"}, Overwrite(v, y)
      PROVE  Kept(heap, heap')
  BY <1>7, OverwriteThins, ThinnedKept DEF Overwrite, Types
<1>8. ASSUME NEW v \in Handles, Extend(v) PROVE Kept(heap, heap')
  BY <1>8, OverwriteThins, ThinnedKept DEF Extend, Types
<1>9. ASSUME NEW v \in Handles, CoerceStr(v) PROVE Kept(heap, heap')
  <2>1. v \in heap.own
    BY <1>9 DEF CoerceStr
  <2>2. heap' = heap \/ heap' = FreeValue(heap, heap.ptr[v], "STR")
    BY <1>9 DEF CoerceStr, ToStr
  <2> QED BY <1>1, <2>1, <2>2, OverwriteThins, ThinnedKept DEF Types
<1>10. ASSUME NEW v \in Handles, CoerceInt(v) PROVE Kept(heap, heap')
  <2>1. v \in heap.own
    BY <1>10 DEF CoerceInt
  <2>2. heap' = heap \/ heap' = FreeValue(heap, heap.ptr[v], "INT")
    BY <1>10 DEF CoerceInt, ToInt
  <2> QED BY <1>1, <2>1, <2>2, OverwriteThins, ThinnedKept DEF Types
<1>11. ASSUME NEW v \in Handles, NEW c \in Cells, NEW hs \in FreeHandleSeqs,
              NEW cs \in FreeCellSeqs, CoerceList(v, c, hs, cs)
       PROVE  Kept(heap, heap')
  BY <1>11, ToListKept DEF CoerceList
<1>12. ASSUME NEW l \in Handles, NEW v \in Handles, NEW h \in Handles,
              ListPush(l, v, h)
       PROVE  Kept(heap, heap')
  <2> DEFINE c == heap.ptr[l]
             t == [Attach(heap, h, heap.ptr[v]) EXCEPT !.elems[c] = Append(@, h)]
  <2>1. heap' = t
    BY <1>12 DEF ListPush
  <2>2. /\ l \in heap.own /\ heap.ref[c] = 1 /\ v \in Visible(heap) \ {l}
        /\ h \in FreeHandles(heap)
    BY <1>12 DEF ListPush
  <2>3. Acyclic(t) /\ t.type = heap.type
    <3> HIDE DEF t
    <3> QED BY <2>2, ListPushAcyclic, SMTT(30) DEF t
  <2> HIDE DEF t
  <2> QED BY <2>1, <2>3 DEF Kept
<1>13. ASSUME NEW l \in Handles, NEW h \in Handles, NEW d \in Cells, NEW c \in Cells,
              NEW hs \in FreeHandleSeqs, NEW cs \in FreeCellSeqs, NEW b \in BOOLEAN,
              ListTake(l, h, d, c, hs, cs, b)
       PROVE  Kept(heap, heap')
  <2> DEFINE s == ToList(heap, l, c, hs, cs)
             q == s.elems[s.ptr[l]]
  <2>1. /\ Sound(s) /\ l \in s.own /\ s.ptr[l] \in Cells
        /\ HoldsList(s, {}, s.ptr[l]) /\ Kept(heap, s)
    BY <1>13, ToListSound, ToListKept DEF ListTake
  <2>2. h \in FreeHandles(s)
    BY <1>13 DEF ListTake
  <2>3. \/ d \in FreeCells(s) /\ heap' = NewValue(s, h, d, "NULL")
        \/ /\ Len(q) > 0
           /\ heap' = IF b
                      THEN TakeElement(s, l, h, q[Len(q)], SubSeq(q, 1, Len(q) - 1))
                      ELSE TakeElement(s, l, h, q[1], SubSeq(q, 2, Len(q)))
    BY <1>13 DEF ListTake
  <2> HIDE DEF s
  <2>4. CASE d \in FreeCells(s) /\ heap' = NewValue(s, h, d, "NULL")
    <3>1. Thins(NewValue(s, h, d, "NULL"), s)
      BY <2>1, <2>2, <2>4, NewValueKept DEF Types, Kept
    <3> QED BY <2>1, <2>4, <3>1, ThinnedMore
  <2>5. CASE /\ Len(q) > 0 /\ b
             /\ heap' = TakeElement(s, l, h, q[Len(q)], SubSeq(q, 1, Len(q) - 1))
    BY <2>1, <2>2, <2>5, ListTakeThins, ThinnedMore
  <2>6. CASE /\ Len(q) > 0 /\ ~b
             /\ heap' = TakeElement(s, l, h, q[1], SubSeq(q, 2, Len(q)))
    BY <2>1, <2>2, <2>6, ListTakeThins, ThinnedMore
  <2> QED BY <2>3, <2>4, <2>5, <2>6
<1>14. ASSUME NEW v \in Handles, NEW c \in Cells, Detach(v, c) PROVE Kept(heap, heap')
  BY <1>14, RedirectedThins, ThinnedKept DEF Detach, Types
<1>15. ASSUME NEW v \in Handles, NEW c \in Cells, SetObject(v, c)
       PROVE  Kept(heap, heap')
  BY <1>15, RedirectedThins, ThinnedKept DEF SetObject, Types
<1> QED
  BY <1>1, <1>2, <1>3, <1>4, <1>5, <1>6, <1>7, <1>8, <1>9, <1>10, <1>11,
     <1>12, <1>13, <1>14, <1>15 DEF Next

\* Of the cells in use that only lists hold there is no highest.
LEMMA NothingLeft ==
    ASSUME Sound(heap), Acyclic(heap) PROVE NoLeak
<1> SUFFICES ASSUME heap.own = {}, heap.doomed = {}, NEW c0 \in Cells, heap.ref[c0] # 0
             PROVE  FALSE
  BY DEF NoLeak
<1>1. heap \in Heaps /\ Counted(heap)
  BY DEF Sound, SoundBut, Good
<1>2. PICK n, r : Ranks(heap, n, r)
  BY DEF Acyclic
<1>3. n \in Nat /\ \A c \in Cells : r[c] \in 0..n
  BY <1>2 DEF Ranks
<1> DEFINE used == {c \in Cells : heap.ref[c] # 0}
           T == {n - r[c] : c \in used}
<1>4. T \subseteq Nat /\ T # {}
  BY <1>3
<1>5. PICK x \in T : \A y \in T : x <= y
  <2> HIDE DEF T
  <2> QED BY <1>4, LeastElement
<1>6. PICK c \in used : x = n - r[c]
  OBVIOUS
<1>7. PICK h \in Handles : heap.ptr[h] = c
  <2>1. heap.ref[c] = Cardinality(Refs(heap, c))
    BY <1>1 DEF Counted
  <2>2. Refs(heap, c) # {}
    BY <2>1, <1>6, FS_EmptySet
  <2> QED BY <2>2 DEF Refs
<1>8. PICK d \in Cells : h \in Elements(heap, d)
  <2>1. Live(heap, h)
    BY <1>6, <1>7, ValueAssumption DEF Live
  <2>2. InPlace(heap, h)
    BY <2>1 DEF Sound, SoundBut
  <2> QED BY <2>2 DEF InPlace
<1>9. d \in used
  <2>1. heap.elems[d] # << >>
    BY <1>8, NoElements
  <2>2. heap.ref[d] > 0
    BY <2>1 DEF Sound, SoundBut
  <2> QED BY <2>2
<1>10. r[c] < r[d]
  BY <1>2, <1>6, <1>7, <1>8 DEF Ranks
<1>11. n - r[d] \in T
  BY <1>9
<1>12. n - r[c] <= n - r[d]
  BY <1>5, <1>6, <1>11
<1> HIDE DEF T, used
<1> QED BY <1>3, <1>6, <1>9, <1>10, <1>12 DEF used

LEMMA Invariance == Spec => [](Sound(heap) /\ Acyclic(heap))
<1>1. Init => Sound(heap) /\ Acyclic(heap)
  BY InitSound, InitAcyclic
<1>2. Sound(heap) /\ Acyclic(heap) /\ [Next]_heap => Sound(heap)' /\ Acyclic(heap)'
  BY StepSound, StepKept DEF Kept
<1> QED BY <1>1, <1>2, PTL DEF Spec

\* The heap keeps its type; no count goes below 0 (TclValue_unref_).
THEOREM HeapTypes == Spec => []TypeOK
<1>1. Sound(heap) => TypeOK
  BY SoundOwnership
<1> QED BY <1>1, Invariance, PTL

\* However values are shared, nested, coerced and deleted, the counts are exact
\* (TclValue_ref, TclValue_unref_): no container is freed under a handle.
THEOREM CountsExact == Spec => []RefExact
<1>1. Sound(heap) => RefExact
  BY SoundOwnership
<1> QED BY <1>1, Invariance, PTL

\* Every allocated handle has exactly one place that deletes it: none is deleted
\* twice and none is lost.
THEOREM OneOwner == Spec => []Ownership
<1>1. Sound(heap) => Ownership
  BY SoundOwnership
<1> QED BY <1>1, Invariance, PTL

\* When C code has deleted every handle it got, nothing is in use: reference
\* counts reclaim everything, because no list comes to contain itself.
THEOREM AllReclaimed == Spec => []NoLeak
<1>1. Sound(heap) /\ Acyclic(heap) => NoLeak
  BY NothingLeft
<1> QED BY <1>1, Invariance, PTL

\* A container in use never turns into a list (TclValue_coerce).
THEOREM ListsArePrivate == Spec => ListCoercionPrivate
<1>1. Sound(heap) /\ Acyclic(heap) /\ [Next]_heap =>
         [\A c \in Cells :
             heap'.type[c] = "LIST" /\ heap.type[c] # "LIST" => heap.ref[c] = 0]_heap
  BY StepKept DEF Kept
<1> QED BY <1>1, Invariance, PTL DEF Spec, ListCoercionPrivate

=============================================================================
