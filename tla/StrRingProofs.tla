--------------------------- MODULE StrRingProofs ----------------------------
(***************************************************************************)
(* Proofs about StrRing: for any number of buffers of any size, a text is  *)
(* whole until as many texts as there are buffers have been begun after    *)
(* it, if no list of half a buffer is joined meanwhile.                    *)
(***************************************************************************)
EXTENDS StrRing, SequenceTheorems, TLAPS

-----------------------------------------------------------------------------
(* The inductive invariant.  Where a text is follows from how many were    *)
(* begun after it, so that two texts that are still good are never in the  *)
(* same buffer; and the texts are in the order in which they were begun,   *)
(* the held ones before those in progress.  Thus who writes, writes to the *)
(* buffer of the newest text, or of one that all the newer ones belong to. *)

Placed(t, idx) ==
    t.since < Slots =>
        t.slot = IF t.since < idx THEN idx - 1 - t.since ELSE idx - 1 - t.since + Slots
Fits(t) == ~t.near => t.len < Capacity
Whole(t) == t.since < Slots /\ ~t.near => t.intact
Sound(t, idx) == Placed(t, idx) /\ Fits(t) /\ Whole(t)

\* t was begun before u, and has seen every long list that u has.
Before(t, u) == (t.since > u.since \/ t.since = Slots) /\ (u.near => t.near)

Kept(bs, hs, idx) ==
    /\ bs \in Seq(Texts) /\ hs \in Seq(Texts)
    /\ \A i \in DOMAIN bs : Sound(bs[i], idx)
    /\ \A i \in DOMAIN hs : Sound(hs[i], idx)
    /\ \A i, j \in DOMAIN bs : i < j => Before(bs[i], bs[j])
    /\ \A i \in DOMAIN hs, j \in DOMAIN bs : Before(hs[i], bs[j])

\* o is newer than all of them.
Newest(bs, hs, o, idx) ==
    /\ o \in Texts /\ Placed(o, idx)
    /\ \A i \in DOMAIN bs : Before(bs[i], o)
    /\ \A i \in DOMAIN hs : Before(hs[i], o)

RingInv == /\ int_buf_idx \in 0..(Slots - 1)
           /\ Kept(building, held, int_buf_idx)
           /\ Len(building) <= MaxNesting /\ Len(held) <= MaxHeld
           /\ mode \in {"runs", "aborted", "overrun"}
           /\ StaysInRing

-----------------------------------------------------------------------------
(* Places and texts.                                                       *)

LEMMA Sizes ==
    /\ Slots \in Nat /\ Slots > 0 /\ Capacity \in Nat /\ Capacity > 2
    /\ MaxText \in Nat /\ MaxHeld \in Nat /\ MaxNesting \in Nat
  BY StrRingAssumption

LEMMA NextBuffer ==
    ASSUME NEW i \in 0..(Slots - 1)
    PROVE  /\ (i + 1) % Slots = IF i + 1 = Slots THEN 0 ELSE i + 1
           /\ (i + 1) % Slots \in 0..(Slots - 1)
<1>1. (i + 1) % Slots = IF i + 1 = Slots THEN 0 ELSE i + 1
  BY StrRingAssumption
<1> QED BY <1>1, Sizes

LEMMA Apart ==
    ASSUME NEW i \in Nat, NEW j \in Nat, i < j
    PROVE  i * Capacity \in Nat /\ j * Capacity \in Nat
           /\ i * Capacity + Capacity <= j * Capacity
<1>1. j - i - 1 \in Nat
  OBVIOUS
<1>2. (j - i - 1) * Capacity \in Nat
  BY <1>1, Sizes
<1>3. (j - i - 1) * Capacity = j * Capacity - i * Capacity - Capacity
  BY Sizes
<1> QED BY <1>2, <1>3, Sizes

LEMMA TextFields ==
    ASSUME NEW t \in Texts
    PROVE  /\ t.slot \in 0..(Slots - 1) /\ t.stage \in {"open", "full", "closed"}
           /\ t.len \in Nat /\ t.intact \in BOOLEAN /\ t.since \in 0..Slots
           /\ t.near \in BOOLEAN
  BY DEF Texts

\* What a write does to a text.
LEMMA NearFields ==
    ASSUME NEW t \in Texts, NEW long \in BOOLEAN
    PROVE  /\ Near(t, long) \in Texts
           /\ Near(t, long).slot = t.slot /\ Near(t, long).len = t.len
           /\ Near(t, long).since = t.since /\ Near(t, long).intact = t.intact
           /\ Near(t, long).near = (t.near \/ long)
  BY DEF Texts, Near

HitBy(t, a, n) == t.slot * Capacity < a + n /\ a <= t.slot * Capacity + t.len

LEMMA HitFields ==
    ASSUME NEW t \in Texts, NEW a, NEW n
    PROVE  /\ Hit(t, a, n) \in Texts
           /\ Hit(t, a, n).slot = t.slot /\ Hit(t, a, n).len = t.len
           /\ Hit(t, a, n).since = t.since /\ Hit(t, a, n).near = t.near
           /\ ~HitBy(t, a, n) => Hit(t, a, n).intact = t.intact
  BY DEF Texts, Hit, HitBy

LEMMA AfterFields ==
    ASSUME NEW ts \in Seq(Texts), NEW a, NEW n, NEW long \in BOOLEAN
    PROVE  /\ After(ts, a, n, long) \in Seq(Texts)
           /\ Len(After(ts, a, n, long)) = Len(ts)
           /\ DOMAIN After(ts, a, n, long) = DOMAIN ts
           /\ \A i \in DOMAIN ts :
                 After(ts, a, n, long)[i] = Near(Hit(ts[i], a, n), long)
<1>1. DOMAIN ts = 1..Len(ts) /\ Len(ts) \in Nat /\ \A i \in DOMAIN ts : ts[i] \in Texts
  OBVIOUS
<1>2. \A i \in DOMAIN ts : Near(Hit(ts[i], a, n), long) \in Texts
  BY <1>1, HitFields, NearFields
<1> QED BY <1>1, <1>2 DEF After

\* u is t, one text later.
Aged(u, t) == /\ u \in Texts /\ u.slot = t.slot /\ u.len = t.len
              /\ u.intact = t.intact /\ u.near = t.near
              /\ u.since = IF t.since < Slots THEN t.since + 1 ELSE t.since

LEMMA LaterFields ==
    ASSUME NEW ts \in Seq(Texts)
    PROVE  /\ Later(ts) \in Seq(Texts) /\ Len(Later(ts)) = Len(ts)
           /\ DOMAIN Later(ts) = DOMAIN ts
           /\ \A i \in DOMAIN ts : Aged(Later(ts)[i], ts[i])
<1> DEFINE next(t) == [t EXCEPT !.since = IF @ < Slots THEN @ + 1 ELSE @]
<1>1. DOMAIN ts = 1..Len(ts) /\ Len(ts) \in Nat /\ \A i \in DOMAIN ts : ts[i] \in Texts
  OBVIOUS
<1>2. ASSUME NEW t \in Texts PROVE Aged(next(t), t)
  <2> DEFINE k == IF t.since < Slots THEN t.since + 1 ELSE t.since
  <2>1. k \in 0..Slots
    BY TextFields, Sizes
  <2>2. next(t) = [t EXCEPT !.since = k]
    OBVIOUS
  <2> HIDE DEF k, next
  <2>3. /\ next(t) \in Texts /\ next(t).slot = t.slot /\ next(t).len = t.len
        /\ next(t).intact = t.intact /\ next(t).near = t.near /\ next(t).since = k
    BY <2>1, <2>2 DEF Texts
  <2> QED BY <2>3 DEF Aged, k
<1>3. Later(ts) = [i \in DOMAIN ts |-> next(ts[i])]
  BY DEF Later
<1> HIDE DEF next
<1>4. \A i \in DOMAIN ts : next(ts[i]) \in Texts
  BY <1>1, <1>2 DEF Aged
<1> QED BY <1>1, <1>2, <1>3, <1>4

-----------------------------------------------------------------------------
(* What the parts of the actions do to the invariant.                      *)

LEMMA LaterKept ==
    ASSUME NEW bs, NEW hs, NEW idx \in 0..(Slots - 1), Kept(bs, hs, idx)
    PROVE  Kept(Later(bs), Later(hs), (idx + 1) % Slots)
<1>1. bs \in Seq(Texts) /\ hs \in Seq(Texts)
  BY DEF Kept
<1>2. ASSUME NEW t \in Texts, NEW u, Sound(t, idx), Aged(u, t)
      PROVE  Sound(u, (idx + 1) % Slots)
  <2>1. (idx + 1) % Slots = IF idx + 1 = Slots THEN 0 ELSE idx + 1
    BY NextBuffer
  <2>2. t.since \in 0..Slots /\ t.slot \in 0..(Slots - 1)
    BY TextFields
  <2>3. Placed(u, (idx + 1) % Slots)
    BY <1>2, <2>1, <2>2, Sizes DEF Sound, Placed, Aged
  <2> QED BY <1>2, <2>2, <2>3 DEF Sound, Fits, Whole, Aged
<1>3. ASSUME NEW t \in Texts, NEW u \in Texts, Before(t, u),
             NEW v, NEW w, Aged(v, t), Aged(w, u)
      PROVE  Before(v, w)
  BY <1>3, TextFields, Sizes DEF Before, Aged
<1>4. /\ \A i \in DOMAIN bs : bs[i] \in Texts /\ Aged(Later(bs)[i], bs[i])
      /\ \A i \in DOMAIN hs : hs[i] \in Texts /\ Aged(Later(hs)[i], hs[i])
  BY <1>1, LaterFields, ElementOfSeq
<1>5. \A i \in DOMAIN bs : Sound(Later(bs)[i], (idx + 1) % Slots)
  BY <1>2, <1>4 DEF Kept
<1>6. \A i \in DOMAIN hs : Sound(Later(hs)[i], (idx + 1) % Slots)
  BY <1>2, <1>4 DEF Kept
<1>7. ASSUME NEW i \in DOMAIN bs, NEW j \in DOMAIN bs, i < j
      PROVE  Before(Later(bs)[i], Later(bs)[j])
  <2>1. Before(bs[i], bs[j])
    BY <1>7 DEF Kept
  <2> QED BY <2>1, <1>3, <1>4
<1>8. ASSUME NEW i \in DOMAIN hs, NEW j \in DOMAIN bs
      PROVE  Before(Later(hs)[i], Later(bs)[j])
  <2>1. Before(hs[i], bs[j])
    BY DEF Kept
  <2> QED BY <2>1, <1>3, <1>4
<1> QED BY <1>1, <1>5, <1>6, <1>7, <1>8, LaterFields DEF Kept

LEMMA AppendKept ==
    ASSUME NEW bs, NEW hs, NEW idx, Kept(bs, hs, idx),
           NEW o, Newest(bs, hs, o, idx), Fits(o), Whole(o)
    PROVE  Kept(Append(bs, o), hs, idx) /\ Len(Append(bs, o)) = Len(bs) + 1
<1> DEFINE cs == Append(bs, o)
           n == Len(bs)
<1>1. bs \in Seq(Texts) /\ o \in Texts /\ n \in Nat /\ DOMAIN bs = 1..n
  BY DEF Kept, Newest
<1>2. /\ cs \in Seq(Texts) /\ Len(cs) = n + 1 /\ DOMAIN cs = 1..(n + 1)
      /\ cs[n + 1] = o /\ \A i \in 1..n : cs[i] = bs[i]
  BY <1>1, AppendProperties
<1> HIDE DEF cs, n
<1>3. ASSUME NEW i \in DOMAIN cs PROVE Sound(cs[i], idx)
  <2>1. CASE i \in 1..n
    BY <1>1, <1>2, <2>1 DEF Kept
  <2>2. CASE i = n + 1
    BY <1>2, <2>2 DEF Newest, Sound
  <2> QED BY <1>1, <1>2, <2>1, <2>2
<1>4. ASSUME NEW i \in DOMAIN cs, NEW j \in DOMAIN cs, i < j PROVE Before(cs[i], cs[j])
  <2>1. i \in 1..n
    BY <1>1, <1>2, <1>4
  <2>2. CASE j \in 1..n
    BY <1>1, <1>2, <1>4, <2>1, <2>2 DEF Kept
  <2>3. CASE j = n + 1
    BY <1>1, <1>2, <2>1, <2>3 DEF Newest
  <2> QED BY <1>1, <1>2, <2>2, <2>3
<1>5. ASSUME NEW i \in DOMAIN hs, NEW j \in DOMAIN cs PROVE Before(hs[i], cs[j])
  <2>1. CASE j \in 1..n
    BY <1>1, <1>2, <2>1 DEF Kept
  <2>2. CASE j = n + 1
    BY <1>2, <2>2 DEF Newest
  <2> QED BY <1>1, <1>2, <2>1, <2>2
<1>6. Kept(cs, hs, idx)
  BY <1>2, <1>3, <1>4, <1>5 DEF Kept
<1> QED BY <1>2, <1>6 DEF cs, n

\* A write for the newest text, in its buffer or for a long list, spoils no text
\* that is still good.
LEMMA WriteSpares ==
    ASSUME NEW idx \in 0..(Slots - 1), NEW t \in Texts, Sound(t, idx),
           NEW o \in Texts, Placed(o, idx), Before(t, o),
           NEW a \in Int, NEW n \in Int, NEW long \in BOOLEAN,
           long \/ (o.slot * Capacity <= a /\ a + n <= o.slot * Capacity + Capacity)
    PROVE  Sound(Near(Hit(t, a, n), long), idx)
<1> DEFINE u == Near(Hit(t, a, n), long)
<1>1. /\ u \in Texts /\ u.slot = t.slot /\ u.len = t.len /\ u.since = t.since
      /\ u.near = (t.near \/ long) /\ (~HitBy(t, a, n) => u.intact = t.intact)
  BY HitFields, NearFields
<1> HIDE DEF u
<1>2. Placed(u, idx)
  BY <1>1 DEF Placed, Sound
<1>3. Fits(u)
  <2>1. ~u.near => ~t.near
    BY <1>1, TextFields
  <2> QED BY <1>1, <2>1 DEF Fits, Sound
<1>4. ASSUME u.since < Slots, ~u.near PROVE u.intact
  <2>1. ~long /\ ~t.near /\ t.since < Slots /\ t.intact /\ t.len < Capacity
    BY <1>1, <1>4, TextFields DEF Sound, Whole, Fits
  <2>2. o.since < t.since /\ o.since \in Nat /\ t.since \in Nat
    BY <2>1, TextFields, Sizes DEF Before
  <2>3. o.slot # t.slot /\ o.slot \in Nat /\ t.slot \in Nat
    BY <2>1, <2>2, TextFields, Sizes DEF Sound, Placed
  <2>4. ~HitBy(t, a, n)
    <3> DEFINE p == o.slot * Capacity
               q == t.slot * Capacity
    <3>1. p <= a /\ a + n <= p + Capacity
      BY <2>1
    <3>2. p \in Nat /\ q \in Nat /\ t.len \in Nat
      BY <2>3, Sizes, TextFields
    <3>3. p + Capacity <= q \/ q + Capacity <= p
      BY <2>3, Apart
    <3> HIDE DEF p, q
    <3>4. ~(q < a + n /\ a <= q + t.len)
      BY <2>1, <3>1, <3>2, <3>3, Sizes
    <3> QED BY <3>4 DEF HitBy, q
  <2> QED BY <1>1, <2>1, <2>4
<1> QED BY <1>2, <1>3, <1>4 DEF Sound, Whole, u

LEMMA StillBefore ==
    ASSUME NEW t \in Texts, NEW u \in Texts, Before(t, u), NEW long \in BOOLEAN,
           NEW v \in Texts, v.since = t.since, v.near = (t.near \/ long),
           NEW w \in Texts, w.since = u.since, w.near = (u.near \/ long)
    PROVE  Before(v, w)
  BY TextFields DEF Before

LEMMA AfterKept ==
    ASSUME NEW bs, NEW hs, NEW idx \in 0..(Slots - 1), Kept(bs, hs, idx),
           NEW o, Newest(bs, hs, o, idx),
           NEW a \in Int, NEW n \in Int, NEW long \in BOOLEAN,
           long \/ (o.slot * Capacity <= a /\ a + n <= o.slot * Capacity + Capacity)
    PROVE  LET after(ts) == After(ts, a, n, long)
           IN  /\ Kept(after(bs), after(hs), idx)
               /\ Newest(after(bs), after(hs), Near(o, long), idx)
<1> DEFINE after(ts) == After(ts, a, n, long)
           hit(t) == Near(Hit(t, a, n), long)
<1>1. bs \in Seq(Texts) /\ hs \in Seq(Texts) /\ o \in Texts /\ Placed(o, idx)
  BY DEF Kept, Newest
<1>2. /\ \A i \in DOMAIN bs : bs[i] \in Texts /\ after(bs)[i] = hit(bs[i])
      /\ \A i \in DOMAIN hs : hs[i] \in Texts /\ after(hs)[i] = hit(hs[i])
      /\ after(bs) \in Seq(Texts) /\ after(hs) \in Seq(Texts)
      /\ DOMAIN after(bs) = DOMAIN bs /\ DOMAIN after(hs) = DOMAIN hs
  BY <1>1, AfterFields, ElementOfSeq
<1>3. ASSUME NEW t \in Texts
      PROVE  hit(t) \in Texts /\ hit(t).since = t.since /\ hit(t).near = (t.near \/ long)
  BY HitFields, NearFields
<1> HIDE DEF after
<1>4. \A i \in DOMAIN bs : Sound(after(bs)[i], idx)
  BY <1>1, <1>2, WriteSpares DEF Kept, Newest
<1>5. \A i \in DOMAIN hs : Sound(after(hs)[i], idx)
  BY <1>1, <1>2, WriteSpares DEF Kept, Newest
<1> HIDE DEF hit
<1>6. ASSUME NEW i \in DOMAIN bs, NEW j \in DOMAIN bs, i < j
      PROVE  Before(after(bs)[i], after(bs)[j])
  <2>1. Before(bs[i], bs[j])
    BY <1>6 DEF Kept
  <2> QED BY <2>1, <1>2, <1>3, StillBefore
<1>7. ASSUME NEW i \in DOMAIN hs, NEW j \in DOMAIN bs
      PROVE  Before(after(hs)[i], after(bs)[j])
  <2>1. Before(hs[i], bs[j])
    BY DEF Kept
  <2> QED BY <2>1, <1>2, <1>3, StillBefore
<1>8. Kept(after(bs), after(hs), idx)
  BY <1>2, <1>4, <1>5, <1>6, <1>7 DEF Kept
<1>9. Newest(after(bs), after(hs), Near(o, long), idx)
  <2>1. /\ Near(o, long) \in Texts /\ Near(o, long).since = o.since
        /\ Near(o, long).near = (o.near \/ long) /\ Near(o, long).slot = o.slot
    BY <1>1, NearFields
  <2>2. \A i \in DOMAIN bs : Before(after(bs)[i], Near(o, long))
    BY <1>1, <1>2, <1>3, <2>1, StillBefore DEF Newest
  <2>3. \A i \in DOMAIN hs : Before(after(hs)[i], Near(o, long))
    BY <1>1, <1>2, <1>3, <2>1, StillBefore DEF Newest
  <2> QED BY <1>1, <1>2, <2>1, <2>2, <2>3 DEF Newest, Placed
<1> QED BY <1>8, <1>9 DEF after

LEMMA WritesKept ==
    ASSUME NEW bs, NEW hs, NEW idx \in 0..(Slots - 1), Kept(bs, hs, idx),
           NEW o, Newest(bs, hs, o, idx),
           NEW a \in Int, NEW n \in Int, NEW long \in BOOLEAN,
           \/ long
           \/ /\ o.slot * Capacity <= a /\ a + n <= o.slot * Capacity + Capacity
              /\ Fits(o) /\ Whole(o),
           Writes(bs, hs, <<o>>, a, n, long)
    PROVE  /\ Kept(building', held', idx)
           /\ Len(building') = Len(bs) + 1 /\ Len(held') = Len(hs)
           /\ long => (\E t \in AllTexts : t.near)'
<1> DEFINE B == After(bs, a, n, long)
           H == After(hs, a, n, long)
           p == Near(o, long)
<1>1. bs \in Seq(Texts) /\ hs \in Seq(Texts) /\ o \in Texts
  BY DEF Kept, Newest
<1>2. B \in Seq(Texts) /\ Len(B) = Len(bs) /\ H \in Seq(Texts) /\ Len(H) = Len(hs)
  BY <1>1, AfterFields
<1>3. p \in Texts /\ p.near = (o.near \/ long) /\ p.len = o.len /\ p.since = o.since
      /\ p.intact = o.intact
  BY <1>1, NearFields
<1>4. Kept(B, H, idx) /\ Newest(B, H, p, idx)
  BY AfterKept
<1>5. building' = Append(B, p) /\ held' = H
  <2>1. [i \in DOMAIN <<o>> |-> Near(<<o>>[i], long)] = <<p>>
    OBVIOUS
  <2>2. building' = B \o <<p>> /\ held' = H
    BY <2>1 DEF Writes
  <2> HIDE DEF B, p
  <2> QED BY <2>2, <1>2, <1>3, AppendIsConcat
<1> HIDE DEF B, H, p
<1>6. Fits(p) /\ Whole(p)
  <2>1. long => p.near
    BY <1>1, <1>3, TextFields
  <2>2. ~long => p.near = o.near
    BY <1>1, <1>3, TextFields
  <2> QED BY <1>3, <2>1, <2>2 DEF Fits, Whole
<1>7. Kept(building', held', idx) /\ Len(building') = Len(bs) + 1 /\ Len(held') = Len(hs)
  BY <1>2, <1>4, <1>5, <1>6, AppendKept
<1>8. long => (\E t \in AllTexts : t.near)'
  <2>1. Len(B) + 1 \in DOMAIN building' /\ building'[Len(B) + 1] = p
    BY <1>2, <1>3, <1>5, AppendProperties
  <2>2. p \in AllTexts'
    BY <2>1 DEF AllTexts, Range
  <2> QED BY <1>1, <1>3, <2>2, TextFields
<1> QED BY <1>7, <1>8

LEMMA FrontKept ==
    ASSUME NEW bs, NEW hs, NEW idx, Kept(bs, hs, idx), bs # << >>
    PROVE  /\ Kept(Front(bs), hs, idx) /\ Newest(Front(bs), hs, Last(bs), idx)
           /\ Sound(Last(bs), idx) /\ Last(bs) \in Texts
           /\ Len(Front(bs)) = Len(bs) - 1
<1> DEFINE n == Len(bs)
           cs == Front(bs)
           o == Last(bs)
<1>1. bs \in Seq(Texts) /\ n \in Nat /\ n > 0 /\ DOMAIN bs = 1..n
  BY EmptySeq DEF Kept
<1>2. o = bs[n] /\ n \in DOMAIN bs /\ o \in Texts
  BY <1>1, ElementOfSeq DEF Last
<1>3. cs \in Seq(Texts) /\ Len(cs) = n - 1 /\ \A i \in 1..(n - 1) : cs[i] = bs[i]
  <2> DEFINE k == n - 1
  <2>1. k \in Nat /\ k - 1 + 1 = k /\ (1 <= k \/ k = 0)
    BY <1>1
  <2>2. cs = SubSeq(bs, 1, k)
    BY <1>1 DEF Front
  <2> HIDE DEF cs, k
  <2>3. \A i \in 1..k : bs[i] \in Texts
    BY <1>1, ElementOfSeq DEF k
  <2> HIDE DEF n
  <2>4. /\ SubSeq(bs, 1, k) \in Seq(Texts)
        /\ Len(SubSeq(bs, 1, k)) = IF 1 <= k THEN k - 1 + 1 ELSE 0
        /\ \A i \in 1..(k - 1 + 1) : SubSeq(bs, 1, k)[i] = bs[1 + i - 1]
    BY <2>1, <2>3, SubSeqProperties
  <2>5. cs \in Seq(Texts) /\ Len(cs) = k /\ \A i \in 1..k : cs[i] = bs[i]
    BY <2>1, <2>2, <2>4
  <2> QED BY <2>5 DEF k
<1> HIDE DEF n, cs, o
<1>4. DOMAIN cs = 1..(n - 1) /\ \A i \in DOMAIN cs : i \in DOMAIN bs /\ i < n
  BY <1>1, <1>3
<1>5. Kept(cs, hs, idx)
  BY <1>3, <1>4 DEF Kept
<1>6. Sound(o, idx)
  BY <1>2 DEF Kept
<1>7. Newest(cs, hs, o, idx)
  <2>1. \A i \in DOMAIN cs : Before(cs[i], o)
    BY <1>2, <1>3, <1>4 DEF Kept
  <2>2. \A i \in DOMAIN hs : Before(hs[i], o)
    BY <1>2 DEF Kept
  <2> QED BY <1>2, <1>6, <2>1, <2>2 DEF Newest, Sound
<1> QED BY <1>2, <1>3, <1>5, <1>6, <1>7 DEF n, cs, o

\* What a step has to preserve.
Done(n, m) == /\ Kept(building', held', int_buf_idx')
              /\ Len(building') = n /\ Len(held') = m
              /\ mode' \in {"runs", "overrun"}
              /\ mode' = "overrun" => (\E t \in AllTexts : t.near)'

LEMMA ElementKept ==
    ASSUME NEW bs, NEW hs, int_buf_idx' \in 0..(Slots - 1), Kept(bs, hs, int_buf_idx'),
           NEW f, Newest(bs, hs, f, int_buf_idx'), Fits(f), NEW m \in Nat, NEW ok \in BOOLEAN,
           f.since < Slots /\ ~f.near => f.intact /\ ok,
           Element(bs, hs, f, m, ok)
    PROVE  Done(Len(bs) + 1, Len(hs))
<1>1. PICK last \in BOOLEAN, n \in Escaped(m) :
        LET t == IF last THEN n ELSE n + 1
            a == f.slot * Capacity + f.len
            written == IF t < Room(f) THEN t + 1 ELSE Room(f)
        IN  /\ Writes(bs, hs,
                      <<[f EXCEPT !.len = @ + t, !.intact = @ /\ ok,
                                  !.stage = IF last THEN "full" ELSE "open"]>>,
                      a, written, 2 * (f.len + t) >= Capacity)
            /\ mode' = IF Spills(n) \/ a + written > Slots * Capacity
                       THEN "overrun" ELSE "runs"
  BY DEF Element
<1> DEFINE t == IF last THEN n ELSE n + 1
           b == f.slot * Capacity
           a == f.slot * Capacity + f.len
           written == IF t < Room(f) THEN t + 1 ELSE Room(f)
           long == 2 * (f.len + t) >= Capacity
           stage == IF last THEN "full" ELSE "open"
           o == [f EXCEPT !.len = @ + t, !.intact = @ /\ ok, !.stage = stage]
<1>2. /\ f \in Texts /\ f.slot \in Nat /\ f.slot < Slots /\ f.len \in Nat
      /\ f.intact \in BOOLEAN /\ f.near \in BOOLEAN
  BY TextFields, Sizes DEF Newest
<1>3. n \in Nat /\ t \in Nat /\ t >= n
  BY DEF Escaped
<1>4. b \in Nat /\ Slots * Capacity \in Nat /\ b + Capacity <= Slots * Capacity
  BY <1>2, Apart, Sizes
<1>5. Writes(bs, hs, <<o>>, a, written, long)
  BY <1>1
<1>6. mode' = IF Spills(n) \/ a + written > Slots * Capacity THEN "overrun" ELSE "runs"
  BY <1>1
<1>7. a = b + f.len /\ stage \in {"open", "full", "closed"} /\ long \in BOOLEAN
  OBVIOUS
<1> HIDE DEF t, b, stage
<1>8. /\ o \in Texts /\ o.slot = f.slot /\ o.since = f.since /\ o.near = f.near
      /\ o.len = f.len + t /\ o.intact = (f.intact /\ ok)
  <2> DEFINE l == f.len + t
             g == f.intact /\ ok
  <2>1. l \in Nat /\ g \in BOOLEAN
    BY <1>2, <1>3
  <2>2. o = [f EXCEPT !.len = l, !.intact = g, !.stage = stage]
    OBVIOUS
  <2> HIDE DEF l, g, o
  <2>3. /\ o \in Texts /\ o.slot = f.slot /\ o.since = f.since /\ o.near = f.near
        /\ o.len = l /\ o.intact = g
    BY <1>2, <1>7, <2>1, <2>2 DEF Texts
  <2> QED BY <2>3 DEF l, g
<1> HIDE DEF o
<1>9. Room(f) \in Int
  BY <1>2, Sizes DEF Room
<1>10. ASSUME ~long
       PROVE  /\ b <= a /\ a + written <= b + Capacity
              /\ Fits(o) /\ Whole(o) /\ ~Spills(n)
  <2>1. f.len + t < Capacity
    BY <1>2, <1>3, <1>10, Sizes
  <2>2. Room(f) = Capacity - f.len /\ written = t + 1
    BY <1>2, <1>3, <2>1, Sizes DEF Room
  <2>3. b <= a /\ a + written <= b + Capacity
    BY <1>2, <1>3, <1>4, <1>7, <2>1, <2>2, Sizes
  <2>4. Fits(o) /\ Whole(o)
    BY <1>2, <1>8, <2>1 DEF Fits, Whole
  <2>5. ~Spills(n)
    BY <1>2, <1>3, <2>1, Sizes DEF Spills
  <2> QED BY <2>3, <2>4, <2>5
<1>11. written \in Int /\ a \in Int
  BY <1>2, <1>3, <1>4, <1>7, <1>9
<1> HIDE DEF a, written, long
<1>12. Newest(bs, hs, o, int_buf_idx')
  BY <1>8 DEF Newest, Placed, Before
<1>13. /\ Kept(building', held', int_buf_idx')
       /\ Len(building') = Len(bs) + 1 /\ Len(held') = Len(hs)
       /\ long => (\E x \in AllTexts : x.near)'
  <2>1. \/ long
        \/ /\ o.slot * Capacity <= a /\ a + written <= o.slot * Capacity + Capacity
           /\ Fits(o) /\ Whole(o)
    BY <1>8, <1>10 DEF b
  <2> QED BY <1>5, <1>7, <1>11, <1>12, <2>1, WritesKept
<1>14. mode' = "overrun" => long
  <2> SUFFICES ASSUME ~long PROVE mode' = "runs"
    OBVIOUS
  <2>1. a + written <= b + Capacity /\ ~Spills(n)
    BY <1>10
  <2> DEFINE whole == Slots * Capacity
  <2>2. whole \in Nat /\ b + Capacity <= whole /\ b \in Nat
    BY <1>4
  <2>3. mode' = IF Spills(n) \/ a + written > whole THEN "overrun" ELSE "runs"
    BY <1>6
  <2> HIDE DEF whole
  <2> QED BY <1>11, <2>1, <2>2, <2>3, Sizes
<1> QED BY <1>6, <1>13, <1>14 DEF Done

-----------------------------------------------------------------------------
(* The actions.                                                            *)

\* The invariant after a step that has taken a buffer, or not.
LEMMA DoneInv ==
    ASSUME NEW n \in Nat, NEW m \in Nat, Done(n, m), int_buf_idx' \in 0..(Slots - 1),
           n <= MaxNesting, m <= MaxHeld
    PROVE  RingInv'
  BY DEF Done, RingInv, StaysInRing

LEMMA InvFacts ==
    ASSUME RingInv
    PROVE  /\ building \in Seq(Texts) /\ held \in Seq(Texts)
           /\ Len(building) \in Nat /\ Len(held) \in Nat
           /\ int_buf_idx \in 0..(Slots - 1) /\ (int_buf_idx + 1) % Slots \in 0..(Slots - 1)
           /\ Kept(building, held, int_buf_idx)
           /\ Kept(Later(building), Later(held), (int_buf_idx + 1) % Slots)
           /\ Len(Later(building)) = Len(building) /\ Len(Later(held)) = Len(held)
           /\ Later(building) = << >> <=> building = << >>
           /\ Len(building) <= MaxNesting /\ Len(held) <= MaxHeld
<1>1. building \in Seq(Texts) /\ held \in Seq(Texts) /\ int_buf_idx \in 0..(Slots - 1)
      /\ Kept(building, held, int_buf_idx)
  BY DEF RingInv, Kept
<1>2. Len(Later(building)) = Len(building) /\ Len(Later(held)) = Len(held)
      /\ Later(building) \in Seq(Texts)
  BY <1>1, LaterFields
<1>3. Later(building) = << >> <=> building = << >>
  BY <1>1, <1>2, EmptySeq
<1>4. Len(building) <= MaxNesting /\ Len(held) <= MaxHeld
  BY DEF RingInv
<1> QED BY <1>1, <1>2, <1>3, <1>4, LaterKept, NextBuffer

LEMMA StrStep ==
    ASSUME RingInv, Str
    PROVE  RingInv'
<1>1. int_buf_idx' = (int_buf_idx + 1) % Slots /\ int_buf_idx' \in 0..(Slots - 1)
      /\ mode = "runs"
  BY InvFacts DEF Str, TakesBuffer, Calls
<1>2. CASE building = << >>
  <2>1. held' = Later(held) /\ building' = building /\ mode' = mode
    BY <1>2 DEF Str
  <2>2. Kept(building', held', int_buf_idx') /\ Len(held') = Len(held)
    BY <1>1, <1>2, <2>1, InvFacts
  <2> QED BY <1>1, <2>1, <2>2 DEF RingInv, StaysInRing
<1>3. CASE building # << >>
  <2> DEFINE bs == Later(building)
  <2>1. PICK m \in 0..MaxText : Element(Front(bs), Later(held), Last(bs), m, TRUE)
    BY <1>3 DEF Str
  <2>2. Kept(bs, Later(held), int_buf_idx') /\ bs # << >>
    BY <1>1, <1>3, InvFacts
  <2> HIDE DEF bs
  <2>3. /\ Kept(Front(bs), Later(held), int_buf_idx')
        /\ Newest(Front(bs), Later(held), Last(bs), int_buf_idx')
        /\ Sound(Last(bs), int_buf_idx') /\ Len(Front(bs)) = Len(bs) - 1
    BY <2>2, FrontKept
  <2>4. /\ Fits(Last(bs))
        /\ Last(bs).since < Slots /\ ~Last(bs).near => Last(bs).intact /\ TRUE
    BY <2>3 DEF Sound, Whole
  <2>5. m \in Nat /\ TRUE \in BOOLEAN
    BY Sizes
  <2>6. Done(Len(Front(bs)) + 1, Len(Later(held)))
    BY <1>1, <2>1, <2>3, <2>4, <2>5, ElementKept DEF Done
  <2>7. Len(Front(bs)) + 1 = Len(building) /\ Len(Later(held)) = Len(held)
    BY <2>3, InvFacts DEF bs
  <2> QED BY <1>1, <2>6, <2>7, InvFacts, DoneInv DEF Done
<1> QED BY <1>2, <1>3

\* A new text is the newest.
LEMMA TextNewest ==
    ASSUME RingInv, NEW stage \in {"open", "closed"}, NEW n \in Nat, n < Capacity
    PROVE  LET o == Text(stage, n)
           IN  /\ Newest(Later(building), Later(held), o, (int_buf_idx + 1) % Slots)
               /\ Fits(o) /\ Whole(o) /\ o.slot = int_buf_idx
<1> DEFINE o == Text(stage, n)
           idx == (int_buf_idx + 1) % Slots
<1>1. int_buf_idx \in 0..(Slots - 1) /\ building \in Seq(Texts) /\ held \in Seq(Texts)
  BY InvFacts
<1>2. /\ o \in Texts /\ o.slot = int_buf_idx /\ o.since = 0 /\ o.near = FALSE
      /\ o.intact = TRUE /\ o.len = n
  BY <1>1, Sizes DEF Text, Texts
<1> HIDE DEF o
<1>3. Placed(o, idx)
  <2>1. idx = IF int_buf_idx + 1 = Slots THEN 0 ELSE int_buf_idx + 1
    BY <1>1, NextBuffer
  <2> HIDE DEF idx
  <2> QED BY <1>1, <1>2, <2>1, Sizes DEF Placed
<1>4. ASSUME NEW t \in Texts, NEW u, Aged(u, t) PROVE Before(u, o)
  BY <1>2, <1>4, TextFields, Sizes DEF Before, Aged
<1>5. \A i \in DOMAIN Later(building) : Before(Later(building)[i], o)
  BY <1>1, <1>4, LaterFields, ElementOfSeq
<1>6. \A i \in DOMAIN Later(held) : Before(Later(held)[i], o)
  BY <1>1, <1>4, LaterFields, ElementOfSeq
<1>7. Fits(o) /\ Whole(o)
  BY <1>2 DEF Fits, Whole
<1> QED BY <1>2, <1>3, <1>5, <1>6, <1>7 DEF Newest, o, idx

LEMMA ScratchStep ==
    ASSUME RingInv, Scratch
    PROVE  RingInv'
<1>1. int_buf_idx' = (int_buf_idx + 1) % Slots /\ int_buf_idx' \in 0..(Slots - 1)
      /\ Len(building) < MaxNesting
  BY InvFacts DEF Scratch, TakesBuffer
<1>2. PICK n \in 1..MaxText :
        Write(Later(building), Later(held), <<Text("closed", Cut(n))>>,
              int_buf_idx * Capacity, Cut(n) + 1, FALSE)
  BY DEF Scratch
<1> DEFINE k == Cut(n)
           o == Text("closed", Cut(n))
           a == int_buf_idx * Capacity
<1>3. k \in Nat /\ k + 1 < Capacity
  BY Sizes DEF Cut
<1>4. a \in Nat /\ Slots * Capacity \in Nat /\ a + Capacity <= Slots * Capacity
  <2>1. int_buf_idx \in Nat /\ int_buf_idx < Slots
    BY InvFacts, Sizes
  <2> QED BY <2>1, Apart, Sizes
<1>5. Newest(Later(building), Later(held), o, int_buf_idx') /\ Fits(o) /\ Whole(o)
      /\ o.slot = int_buf_idx
  <2> HIDE DEF k
  <2>1. k < Capacity
    BY <1>3, Sizes
  <2> QED BY <1>1, <1>3, <2>1, TextNewest DEF k
<1>6. Writes(Later(building), Later(held), <<o>>, a, k + 1, FALSE)
      /\ mode' = IF a + (k + 1) > Slots * Capacity THEN "overrun" ELSE "runs"
  BY <1>2 DEF Write
<1>7. o.slot * Capacity <= a /\ a + (k + 1) <= o.slot * Capacity + Capacity
  <2> HIDE DEF k, o
  <2>1. o.slot * Capacity = a
    BY <1>5
  <2> HIDE DEF a
  <2> QED BY <1>3, <1>4, <2>1, Sizes
<1> HIDE DEF k, o, a
<1>8. /\ Kept(building', held', int_buf_idx')
      /\ Len(building') = Len(Later(building)) + 1 /\ Len(held') = Len(Later(held))
  <2>1. Kept(Later(building), Later(held), int_buf_idx') /\ a \in Int /\ k + 1 \in Int
    BY <1>1, <1>3, <1>4, InvFacts
  <2> QED BY <1>1, <1>5, <1>6, <1>7, <2>1, WritesKept
<1>9. mode' = "runs"
  <2> DEFINE whole == Slots * Capacity
  <2>1. whole \in Nat /\ a + Capacity <= whole /\ a \in Nat
    BY <1>4
  <2>2. mode' = IF a + (k + 1) > whole THEN "overrun" ELSE "runs"
    BY <1>6
  <2> HIDE DEF whole
  <2> QED BY <1>3, <2>1, <2>2, Sizes
<1>10. Done(Len(building) + 1, Len(held))
  BY <1>8, <1>9, InvFacts DEF Done
<1>11. Len(building) + 1 <= MaxNesting /\ Len(building) + 1 \in Nat
  BY <1>1, InvFacts, Sizes
<1> QED BY <1>1, <1>10, <1>11, InvFacts, DoneInv DEF Done

LEMMA ListStartStep ==
    ASSUME RingInv, ListStart
    PROVE  RingInv'
<1>1. /\ int_buf_idx' = (int_buf_idx + 1) % Slots /\ int_buf_idx' \in 0..(Slots - 1)
      /\ Len(building) < MaxNesting /\ mode = "runs" /\ mode' = "runs"
      /\ building' = Append(Later(building), Text("open", 0)) /\ held' = Later(held)
  BY InvFacts DEF ListStart, TakesBuffer, Calls
<1>2. /\ Newest(Later(building), Later(held), Text("open", 0), int_buf_idx')
      /\ Fits(Text("open", 0)) /\ Whole(Text("open", 0))
  BY <1>1, TextNewest, Sizes
<1>3. Kept(building', held', int_buf_idx') /\ Len(building') = Len(Later(building)) + 1
  <2>1. Kept(Later(building), Later(held), int_buf_idx')
    BY <1>1, InvFacts
  <2> QED BY <1>1, <1>2, <2>1, AppendKept
<1>4. Done(Len(building) + 1, Len(held))
  BY <1>1, <1>3, InvFacts DEF Done
<1>5. Len(building) + 1 <= MaxNesting /\ Len(building) + 1 \in Nat
  BY <1>1, InvFacts, Sizes
<1> QED BY <1>1, <1>4, <1>5, InvFacts, DoneInv DEF Done

LEMMA ListEndStep ==
    ASSUME RingInv, ListEnd
    PROVE  RingInv'
<1> DEFINE f == Top
           o == [Top EXCEPT !.stage = "closed"]
           b == Top.slot * Capacity
           a == Top.slot * Capacity + 2 * Top.len
           long == 2 * Top.len >= Capacity
<1>1. /\ building # << >> /\ int_buf_idx' = int_buf_idx
      /\ Writes(Front(building), held, <<o>>, a, 1, long)
      /\ mode' = IF a + 1 > Slots * Capacity THEN "overrun" ELSE "runs"
  BY DEF ListEnd, Write
<1>2. /\ Kept(Front(building), held, int_buf_idx) /\ Newest(Front(building), held, f, int_buf_idx)
      /\ Sound(f, int_buf_idx) /\ f \in Texts /\ Len(Front(building)) = Len(building) - 1
  BY <1>1, InvFacts, FrontKept DEF Top
<1>3. f.slot \in Nat /\ f.slot < Slots /\ f.len \in Nat
  BY <1>2, TextFields, Sizes
<1>4. b \in Nat /\ Slots * Capacity \in Nat /\ b + Capacity <= Slots * Capacity
  BY <1>3, Apart, Sizes
<1>5. a = b + 2 * f.len /\ long \in BOOLEAN
  OBVIOUS
<1>6. /\ o \in Texts /\ o.slot = f.slot /\ o.since = f.since /\ o.near = f.near
      /\ o.len = f.len /\ o.intact = f.intact
  <2> HIDE DEF f
  <2>1. o = [f EXCEPT !.stage = "closed"]
    BY DEF f
  <2> HIDE DEF o
  <2> QED BY <1>2, <2>1 DEF Texts
<1> HIDE DEF o
<1>7. Newest(Front(building), held, o, int_buf_idx) /\ Fits(o) /\ Whole(o)
  BY <1>2, <1>6 DEF Newest, Placed, Before, Sound, Fits, Whole
<1>8. ASSUME ~long
      PROVE  o.slot * Capacity <= a /\ a + 1 <= o.slot * Capacity + Capacity
             /\ a + 1 <= b + Capacity
  <2>1. 2 * f.len < Capacity
    BY <1>3, <1>8, Sizes
  <2>2. o.slot * Capacity = b
    BY <1>6
  <2> HIDE DEF f, b, a
  <2> QED BY <1>3, <1>4, <1>5, <2>1, <2>2, Sizes
<1>9. a \in Int
  <2> HIDE DEF f, b, a
  <2> QED BY <1>3, <1>4, <1>5
<1>10. mode' = "overrun" => long
  <2> SUFFICES ASSUME ~long PROVE mode' = "runs"
    BY <1>1
  <2> DEFINE whole == Slots * Capacity
  <2>1. whole \in Nat /\ b + Capacity <= whole /\ b \in Nat
    BY <1>4
  <2>2. mode' = IF a + 1 > whole THEN "overrun" ELSE "runs"
    BY <1>1
  <2>3. a + 1 <= b + Capacity
    BY <1>8
  <2> HIDE DEF whole, a, b, long
  <2> QED BY <1>9, <2>1, <2>2, <2>3, Sizes
<1> HIDE DEF f, b, a, long
<1>11. /\ Kept(building', held', int_buf_idx)
       /\ Len(building') = Len(Front(building)) + 1 /\ Len(held') = Len(held)
       /\ long => (\E x \in AllTexts : x.near)'
  <2>1. \/ long
        \/ /\ o.slot * Capacity <= a /\ a + 1 <= o.slot * Capacity + Capacity
           /\ Fits(o) /\ Whole(o)
    BY <1>7, <1>8
  <2>2. int_buf_idx \in 0..(Slots - 1)
    BY InvFacts
  <2> QED BY <1>1, <1>2, <1>5, <1>7, <1>9, <2>1, <2>2, WritesKept
<1>12. Done(Len(building), Len(held))
  BY <1>1, <1>2, <1>10, <1>11, InvFacts DEF Done
<1> QED BY <1>1, <1>12, InvFacts, DoneInv DEF Done

LEMMA ReturnStep ==
    ASSUME RingInv, Return
    PROVE  RingInv'
<1> DEFINE bs == Front(building)
<1>1. building # << >> /\ mode = "runs" /\ int_buf_idx' = int_buf_idx
  BY DEF Return
<1>2. /\ Kept(bs, held, int_buf_idx) /\ Newest(bs, held, Top, int_buf_idx)
      /\ Sound(Top, int_buf_idx) /\ Top \in Texts /\ Len(bs) = Len(building) - 1
  BY <1>1, InvFacts, FrontKept DEF Top
<1>3. CASE bs = << >>
  <2>1. Len(held) < MaxHeld /\ held' = Append(held, Top) /\ building' = bs /\ mode' = mode
    BY <1>3 DEF Return
  <2>2. /\ held \in Seq(Texts) /\ Len(held) \in Nat /\ DOMAIN held = 1..Len(held)
        /\ held' \in Seq(Texts) /\ Len(held') = Len(held) + 1
        /\ held'[Len(held) + 1] = Top /\ \A i \in 1..Len(held) : held'[i] = held[i]
    BY <1>2, <2>1, InvFacts, AppendProperties
  <2>3. ASSUME NEW i \in DOMAIN held' PROVE Sound(held'[i], int_buf_idx)
    <3>1. i \in 1..Len(held) \/ i = Len(held) + 1
      BY <2>2
    <3> QED BY <1>2, <2>2, <3>1 DEF Kept
  <2>4. building' \in Seq(Texts) /\ DOMAIN building' = {} /\ Len(building') = 0
    BY <1>3, <2>1
  <2>5. Kept(building', held', int_buf_idx)
    BY <2>2, <2>3, <2>4 DEF Kept
  <2>6. Len(held') <= MaxHeld /\ Len(building') <= MaxNesting
    BY <2>1, <2>2, <2>4, Sizes
  <2> QED BY <1>1, <2>1, <2>5, <2>6 DEF RingInv, StaysInRing
<1>4. CASE bs # << >>
  <2> DEFINE m == IF Top.len < Capacity THEN Top.len ELSE Capacity - 1
  <2>1. Element(Front(bs), held, Last(bs), m, Top.intact)
    BY <1>4 DEF Return
  <2>2. m \in Nat /\ Top.intact \in BOOLEAN
    BY <1>2, TextFields, Sizes
  <2> HIDE DEF m
  <2>3. /\ Kept(Front(bs), held, int_buf_idx) /\ Newest(Front(bs), held, Last(bs), int_buf_idx)
        /\ Sound(Last(bs), int_buf_idx) /\ Last(bs) \in Texts
        /\ Len(Front(bs)) = Len(bs) - 1
    <3> HIDE DEF bs
    <3> QED BY <1>2, <1>4, FrontKept
  <2>4. Before(Last(bs), Top)
    <3>1. bs \in Seq(Texts) /\ Len(bs) \in DOMAIN bs
      <4> HIDE DEF bs
      <4>1. bs \in Seq(Texts)
        BY <1>2 DEF Kept
      <4> QED BY <4>1, <1>4, EmptySeq
    <3> HIDE DEF bs
    <3> QED BY <1>2, <3>1 DEF Newest, Last
  <2>5. Last(bs).since < Slots /\ ~Last(bs).near => Last(bs).intact /\ Top.intact
    <3> HIDE DEF bs
    <3> QED BY <1>2, <2>3, <2>4, TextFields, Sizes DEF Before, Sound, Whole
  <2>6. Fits(Last(bs))
    BY <2>3 DEF Sound
  <2> HIDE DEF bs
  <2>7. Done(Len(Front(bs)) + 1, Len(held))
    <3>1. /\ int_buf_idx' \in 0..(Slots - 1) /\ Kept(Front(bs), held, int_buf_idx')
          /\ Newest(Front(bs), held, Last(bs), int_buf_idx')
      BY <1>1, <2>3, InvFacts
    <3> QED BY <3>1, <2>1, <2>2, <2>5, <2>6, ElementKept DEF Done
  <2>8. Len(Front(bs)) + 1 = Len(building) - 1 /\ Len(Front(bs)) + 1 \in Nat
    <3>1. Front(bs) \in Seq(Texts)
      BY <2>3 DEF Kept
    <3> QED BY <1>2, <2>3, <3>1, InvFacts
  <2>9. Len(building) - 1 <= MaxNesting
    BY InvFacts, Sizes DEF RingInv
  <2> QED BY <1>1, <2>7, <2>8, <2>9, InvFacts, DoneInv DEF Done
<1> QED BY <1>3, <1>4

LEMMA RemoveFacts ==
    ASSUME NEW s \in Seq(Texts), NEW i \in DOMAIN s
    PROVE  /\ RemoveAt(s, i) \in Seq(Texts) /\ Len(RemoveAt(s, i)) = Len(s) - 1
           /\ \A k \in DOMAIN RemoveAt(s, i) : \E j \in DOMAIN s : RemoveAt(s, i)[k] = s[j]
<1> DEFINE n == Len(s)
           u == SubSeq(s, 1, i - 1)
           v == SubSeq(s, i + 1, n)
<1>1. n \in Nat /\ i \in 1..n /\ DOMAIN s = 1..n /\ \A k \in 1..n : s[k] \in Texts
  BY ElementOfSeq
<1> HIDE DEF n
<1>2. u \in Seq(Texts) /\ Len(u) = i - 1 /\ \A k \in 1..(i - 1) : u[k] = s[k]
  <2>1. \A k \in 1..(i - 1) : s[k] \in Texts
    BY <1>1
  <2> DEFINE j == i - 1
  <2>2. j \in Int /\ j - 1 + 1 = j /\ (1 <= j \/ j = 0)
    BY <1>1
  <2> HIDE DEF j
  <2>3. /\ SubSeq(s, 1, j) \in Seq(Texts)
        /\ Len(SubSeq(s, 1, j)) = IF 1 <= j THEN j - 1 + 1 ELSE 0
        /\ \A k \in 1..(j - 1 + 1) : SubSeq(s, 1, j)[k] = s[1 + k - 1]
    BY <2>1, <2>2, SubSeqProperties DEF j
  <2> QED BY <2>2, <2>3 DEF j
<1>3. v \in Seq(Texts) /\ Len(v) = n - i /\ \A k \in 1..(n - i) : v[k] = s[i + k]
  <2>1. \A k \in (i + 1)..n : s[k] \in Texts
    BY <1>1
  <2>2. i + 1 \in Int /\ n \in Int /\ n - (i + 1) + 1 = n - i /\ (i + 1 <= n \/ n - i = 0)
    BY <1>1
  <2>3. /\ SubSeq(s, i + 1, n) \in Seq(Texts)
        /\ Len(SubSeq(s, i + 1, n)) = IF i + 1 <= n THEN n - (i + 1) + 1 ELSE 0
        /\ \A k \in 1..(n - (i + 1) + 1) : SubSeq(s, i + 1, n)[k] = s[(i + 1) + k - 1]
    BY <2>1, <2>2, SubSeqProperties
  <2> QED BY <1>1, <2>2, <2>3
<1>4. RemoveAt(s, i) = u \o v
  BY DEF RemoveAt, n
<1> HIDE DEF u, v
<1>5. /\ u \o v \in Seq(Texts) /\ Len(u \o v) = Len(u) + Len(v)
      /\ \A k \in 1..(Len(u) + Len(v)) :
            (u \o v)[k] = IF k <= Len(u) THEN u[k] ELSE v[k - Len(u)]
  BY <1>2, <1>3, ConcatProperties
<1>6. Len(u) + Len(v) = n - 1 /\ Len(u \o v) = n - 1
  BY <1>1, <1>2, <1>3, <1>5
<1>7. ASSUME NEW k \in 1..(n - 1) PROVE \E j \in DOMAIN s : (u \o v)[k] = s[j]
  <2>1. (u \o v)[k] = IF k <= i - 1 THEN u[k] ELSE v[k - (i - 1)]
    BY <1>2, <1>5, <1>6
  <2>2. CASE k <= i - 1
    <3>1. k \in 1..(i - 1) /\ k \in DOMAIN s
      BY <1>1, <2>2
    <3> QED BY <1>2, <2>1, <2>2, <3>1
  <2>3. CASE ~(k <= i - 1)
    <3>1. k - (i - 1) \in 1..(n - i) /\ i + (k - (i - 1)) = k + 1 /\ k + 1 \in DOMAIN s
      BY <1>1, <2>3
    <3>2. (u \o v)[k] = v[k - (i - 1)]
      BY <2>1, <2>3
    <3>3. v[k - (i - 1)] = s[i + (k - (i - 1))]
      BY <1>3, <3>1
    <3> QED BY <3>1, <3>2, <3>3
  <2> QED BY <2>2, <2>3
<1> DEFINE w == u \o v
<1>8. w \in Seq(Texts) /\ Len(w) = n - 1 /\ \A k \in 1..(n - 1) : \E j \in DOMAIN s : w[k] = s[j]
  BY <1>5, <1>6, <1>7
<1> HIDE DEF w
<1>9. DOMAIN w = 1..(n - 1)
  BY <1>8
<1>10. RemoveAt(s, i) = w
  BY <1>4 DEF w
<1> QED BY <1>8, <1>9, <1>10 DEF n

LEMMA ReleaseStep ==
    ASSUME RingInv, Release
    PROVE  RingInv'
<1>1. PICK i \in DOMAIN held : held' = RemoveAt(held, i)
  BY DEF Release
<1>2. mode = "runs" /\ UNCHANGED <<int_buf_idx, building, mode>>
  BY DEF Release
<1>3. /\ held' \in Seq(Texts) /\ Len(held') = Len(held) - 1
      /\ \A k \in DOMAIN held' : \E j \in DOMAIN held : held'[k] = held[j]
  BY <1>1, InvFacts, RemoveFacts
<1>4. Kept(building', held', int_buf_idx')
  <2>1. \A k \in DOMAIN held' : Sound(held'[k], int_buf_idx)
    BY <1>3, InvFacts DEF Kept
  <2>2. \A k \in DOMAIN held', j \in DOMAIN building : Before(held'[k], building[j])
    BY <1>3, InvFacts DEF Kept
  <2> QED BY <1>2, <1>3, <2>1, <2>2, InvFacts DEF Kept
<1>5. Len(held') <= MaxHeld
  BY <1>3, InvFacts, Sizes DEF RingInv
<1> QED BY <1>2, <1>4, <1>5 DEF RingInv, StaysInRing

LEMMA RingStep ==
    ASSUME RingInv, [Next]_vars
    PROVE  RingInv'
<1>1. CASE Abort
  BY <1>1 DEF Abort, RingInv, StaysInRing
<1>3. CASE AbortLong
  <2>1. /\ int_buf_idx' = (int_buf_idx + 1) % Slots /\ int_buf_idx' \in 0..(Slots - 1)
        /\ building' = Later(building) /\ held' = Later(held) /\ mode' = "aborted"
    BY <1>3, InvFacts DEF AbortLong, TakesBuffer
  <2> QED BY <2>1, InvFacts DEF RingInv, StaysInRing
<1>2. CASE UNCHANGED vars
  BY <1>2 DEF vars, RingInv, StaysInRing, AllTexts
<1> QED BY <1>1, <1>2, <1>3, StrStep, ScratchStep, ListStartStep, ListEndStep, ReturnStep,
          ReleaseStep DEF Next

LEMMA RingInit == Init => RingInv
<1> SUFFICES ASSUME Init PROVE RingInv
  OBVIOUS
<1>1. building = << >> /\ held = << >> /\ int_buf_idx = 0 /\ mode = "runs"
  BY DEF Init
<1>2. Kept(building, held, int_buf_idx)
  BY <1>1 DEF Kept
<1> QED BY <1>1, <1>2, Sizes DEF RingInv, StaysInRing

LEMMA RingInvariance == Spec => []RingInv
  BY RingInit, RingStep, PTL DEF Spec

-----------------------------------------------------------------------------
(* The theorems.                                                           *)

\* The state is what TypeOK says, however many buffers there are (value.c:290-410).
THEOREM RingTypes == Spec => []TypeOK
<1>1. RingInv => TypeOK
  BY DEF RingInv, Kept, TypeOK
<1> QED BY <1>1, RingInvariance, PTL

\* A text is whole until as many texts as there are buffers have been begun after
\* it, for its user and for the list it becomes a part of, unless a list of half a
\* buffer is joined meanwhile (value.c:324, value.c:397).
THEOREM TextsLast == Spec => []TextsIntact
<1>1. RingInv => TextsIntact
  BY DEF RingInv, Kept, Sound, Whole, TextsIntact, AllTexts, Range
<1> QED BY <1>1, RingInvariance, PTL

\* Nothing is written outside of the ring, or of the buffer that elements are
\* escaped in, but for a list of half a buffer or more (value.c:397, value.c:463).
THEOREM RingHolds == Spec => []StaysInRing
<1>1. RingInv => StaysInRing
  BY DEF RingInv
<1> QED BY <1>1, RingInvariance, PTL

=============================================================================
