------------------------------ MODULE StrRing -------------------------------
(***************************************************************************)
(* The ring of buffers behind TclValue_str (src/src/value.c): the texts of *)
(* integers, objects, functions and lists are made in the next buffer, and *)
(* callers go on using them while further texts are made.                  *)
(*                                                                         *)
(*   int_buf_idx  the next buffer                                          *)
(*   building     the calls of TclValue_str_ in progress, innermost last:  *)
(*                a list being joined, and its element                     *)
(*   held         the texts that callers still use                         *)
(*   mode         "runs", "aborted", or "overrun" when something has been  *)
(*                written outside of the ring, or of the buffer that       *)
(*                elements are escaped in                                  *)
(*                                                                         *)
(* A text is its buffer and its length, not what it says.  A list at stage *)
(* "open" takes elements, "full" has the last one, "closed" has its Nul.   *)
(* History of the model only: intact says whether nothing else was written *)
(* over the text, since how many texts were begun after it (up to Slots),  *)
(* and near whether a list of half a buffer or more was joined meanwhile.  *)
(***************************************************************************)
EXTENDS Integers, SequencesExt

CONSTANTS Slots,     \* bound: buffers, 32 in the code
          Capacity,  \* bound: bytes of a buffer, 1024 in the code
          MaxText,   \* bound: length of a text of no list
          MaxHeld,   \* bound: texts that callers use at once
          MaxNesting \* bound: lists in lists

ASSUME StrRingAssumption == /\ Slots \in Nat \ {0} /\ Capacity \in Nat /\ Capacity > 2
                            /\ {MaxText, MaxHeld, MaxNesting} \subseteq Nat

VARIABLES int_buf_idx, building, held, mode
vars == <<int_buf_idx, building, held, mode>>

Texts == [slot : 0..(Slots - 1), stage : {"open", "full", "closed"},
          len : Nat,
          intact : BOOLEAN, since : 0..Slots, near : BOOLEAN]

TypeOK == /\ int_buf_idx \in 0..(Slots - 1)
          /\ building \in Seq(Texts) /\ Len(building) <= MaxNesting
          /\ held \in Seq(Texts) /\ Len(held) <= MaxHeld
          /\ mode \in {"runs", "aborted", "overrun"}

-----------------------------------------------------------------------------
Top == Last(building)

\* What n bytes written from place a of the ring on do to a text: if they hit it
\* it is not what its user takes it to be any more.
Hit(t, a, n) == [t EXCEPT !.intact = @ /\ ~(/\ t.slot * Capacity < a + n
                                            /\ a <= t.slot * Capacity + t.len)]
Near(t, long) == [t EXCEPT !.near = @ \/ long]

\* The texts ts, after n bytes were written from place a on; long says whether
\* that was for a list of half a buffer or more.
After(ts, a, n, long) == [i \in DOMAIN ts |-> Near(Hit(ts[i], a, n), long)]
Writes(bs, hs, own, a, n, long) ==
    /\ building' = After(bs, a, n, long) \o [i \in DOMAIN own |-> Near(own[i], long)]
    /\ held' = After(hs, a, n, long)
Write(bs, hs, own, a, n, long) ==
    /\ Writes(bs, hs, own, a, n, long)
    /\ mode' = IF a + n > Slots * Capacity THEN "overrun" ELSE "runs"

\* Mutant: the ring is a row.
TakesNext == int_buf_idx' = int_buf_idx + 1

\* Every call takes a buffer, whether it needs one or not.
TakesBuffer == int_buf_idx' = (int_buf_idx + 1) % Slots
Later(ts) == [i \in DOMAIN ts |-> [ts[i] EXCEPT !.since = IF @ < Slots THEN @ + 1 ELSE @]]

Text(stage, len) == [slot |-> int_buf_idx, stage |-> stage, len |-> len,
                     intact |-> TRUE, since |-> 0, near |-> FALSE]

\* buf_len, which is unsigned: below 0 it is more than all buffers.
Room(f) == IF f.len <= Capacity THEN Capacity - f.len ELSE 4 * Slots * Capacity

\* What an element of m bytes may be once its blanks are escaped: the buffer for
\* that has the size of the others, and the Nul is not counted.
Escaped(m) == m..(2 * m)
Spills(n) == n >= Capacity

\* An element of m bytes goes to the end of list f; ok says whether it is the
\* text it should be.  snprintf writes no more than buf_len says, and returns
\* what it would have written.  Bound: one element after the buffer is full.
Element(bs, hs, f, m, ok) ==
    f.len <= Capacity + 1 /\ \E last \in BOOLEAN, n \in Escaped(m) :
    LET t == IF last THEN n ELSE n + 1
        a == f.slot * Capacity + f.len
        written == IF t < Room(f) THEN t + 1 ELSE Room(f)
    IN  /\ Writes(bs, hs,
                  <<[f EXCEPT !.len = @ + t, !.intact = @ /\ ok,
                              !.stage = IF last THEN "full" ELSE "open"]>>,
                  a, written, 2 * (f.len + t) >= Capacity)
        /\ mode' = IF Spills(n) \/ a + written > Slots * Capacity THEN "overrun" ELSE "runs"

\* A list whose text fills its buffer exactly ends the program at the next element.
Abort == /\ mode = "runs" /\ building # << >>
         /\ Top.stage = "open" /\ Room(Top) = 0
         /\ mode' = "aborted" /\ UNCHANGED <<int_buf_idx, building, held>>

-----------------------------------------------------------------------------
\* The caller of TclValue_str_: any function, or the list that is joined.
Calls == mode = "runs" /\ (building # << >> => Top.stage = "open" /\ Room(Top) # 0)

\* TclValue_str_ of a text: its own, no buffer is used.
Str == /\ Calls /\ TakesBuffer
       /\ IF building = << >>
          THEN held' = Later(held) /\ UNCHANGED <<building, mode>>
          ELSE \E m \in 0..MaxText :
                 LET bs == Later(building) IN Element(Front(bs), Later(held), Last(bs), m, TRUE)

\* So does an element without blanks that is longer than the buffer it is escaped
\* in; one with blanks spills first.
AbortLong == /\ Calls /\ building # << >> /\ MaxText > Capacity
             /\ TakesBuffer
             /\ building' = Later(building) /\ held' = Later(held)
             /\ mode' = "aborted"

Cut(n) == IF n > Capacity - 2 THEN Capacity - 2 ELSE n

\* An integer, an object or a function: at most sizeof - 1 bytes with the Nul.
Scratch == /\ Calls /\ TakesBuffer /\ Len(building) < MaxNesting
           /\ \E n \in 1..MaxText :
                Write(Later(building), Later(held), <<Text("closed", Cut(n))>>,
                      int_buf_idx * Capacity, Cut(n) + 1, FALSE)

\* Mutant: the buffer of a list is free for its elements.
ListStartShared == /\ Calls /\ Len(building) < MaxNesting
                   /\ building' = Append(Later(building), Text("open", 0))
                   /\ held' = Later(held)
                   /\ UNCHANGED <<int_buf_idx, mode>>

ListStart == /\ Calls /\ TakesBuffer /\ Len(building) < MaxNesting
             /\ building' = Append(Later(building), Text("open", 0))
             /\ held' = Later(held)
             /\ UNCHANGED mode

\* Mutant: buf is moved on once more.
ListEndFar == /\ mode = "runs" /\ building # << >>
              /\ Top.stage = "full" \/ (Top.stage = "open" /\ Top.len = 0)
              /\ Write(Front(building), held, <<[Top EXCEPT !.stage = "closed"]>>,
                       Top.slot * Capacity + 3 * Top.len, 1, 2 * Top.len >= Capacity)
              /\ UNCHANGED int_buf_idx

\* buf[used] after buf was moved on by used: the Nul goes to twice the length.
ListEnd == /\ mode = "runs" /\ building # << >>
           /\ Top.stage = "full" \/ (Top.stage = "open" /\ Top.len = 0)
           /\ Write(Front(building), held, <<[Top EXCEPT !.stage = "closed"]>>,
                    Top.slot * Capacity + 2 * Top.len, 1, 2 * Top.len >= Capacity)
           /\ UNCHANGED int_buf_idx

\* A finished text goes to the caller, or becomes an element of the list around
\* it; a text that did not fit was cut at the end of its buffer.
Return == /\ mode = "runs" /\ building # << >> /\ Top.stage = "closed"
          /\ LET bs == Front(building) IN
             IF bs = << >>
             THEN /\ Len(held) < MaxHeld
                  /\ held' = Append(held, Top) /\ building' = bs /\ UNCHANGED mode
             ELSE Element(Front(bs), held, Last(bs),
                          IF Top.len < Capacity THEN Top.len ELSE Capacity - 1, Top.intact)
          /\ UNCHANGED int_buf_idx

\* A caller needs one of its texts no more.
Release == /\ mode = "runs"
           /\ \E i \in DOMAIN held : held' = RemoveAt(held, i)
           /\ UNCHANGED <<int_buf_idx, building, mode>>

Init == int_buf_idx = 0 /\ building = << >> /\ held = << >> /\ mode = "runs"

Next == Str \/ Scratch \/ ListStart \/ ListEnd \/ Return \/ Release \/ Abort \/ AbortLong

Spec == Init /\ [][Next]_vars

-----------------------------------------------------------------------------
(* Properties.                                                             *)

AllTexts == Range(building) \cup Range(held)

\* A text stays what it was, for its user and for the list it becomes a part of,
\* until Slots more texts have been begun, its own elements among them: unless a
\* list of half a buffer or more is joined, whose Nul lands in another buffer
\* (value.c:324, value.c:397).
TextsIntact == \A t \in AllTexts : t.since < Slots /\ ~t.near => t.intact

\* Only such a list writes outside of the ring, or, whatever its elements are,
\* outside of the buffer they are escaped in (value.c:463).
StaysInRing == mode = "overrun" => \E t \in AllTexts : t.near
=============================================================================
