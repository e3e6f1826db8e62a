------------------------------ MODULE TclValue ------------------------------
(***************************************************************************)
(* The reference counted values of the interpreter (src/src/value.c).      *)
(*                                                                         *)
(* A TclValue is a heap allocated HANDLE that points to a container (a     *)
(* CELL: struct TclValueRef), and a cell counts the handles that point to  *)
(* it.  The value proper is a tagged pointer of the cell; a list value is  *)
(* a List whose nodes each hold a handle of their own, so lists are        *)
(* sequences of handles.  The payload of a value is abstracted to its tag. *)
(*                                                                         *)
(* The whole state is one record, the heap, and every C function is an     *)
(* operator from heaps to heaps, built from the four primitive ones in the *)
(* order the code calls them.                                              *)
(*                                                                         *)
(*   ptr     container of each handle (FREE: the handle is not allocated)  *)
(*   ref     reference count of each cell (0: the cell is not allocated)   *)
(*   type    tag of each cell                                              *)
(*   elems   element handles of each list cell, in order                   *)
(*   own     handles that C code outside the lists holds: it must pass     *)
(*           each of them to TclValue_delete                               *)
(*   doomed  element handles of lists being freed that TclValue_free_value_*)
(*           still has to delete: List_free deletes them one by one, and   *)
(*           deleting one may free a further list                          *)
(***************************************************************************)
EXTENDS Naturals, Sequences, FiniteSets

CONSTANTS Handles,   \* TclValue structs malloc can return
          Cells,     \* TclValueRef structs malloc can return
          FREE,      \* "points nowhere"
          Scalars,   \* tags other than LIST and NULL that values are made with
          MaxList    \* bound: elements in one list

ASSUME ValueAssumption ==
    /\ IsFiniteSet(Handles)
    /\ FREE \notin Cells
    /\ Scalars \subseteq {"STR", "INT", "OBJ", "FUN"}
    /\ MaxList \in Nat

VARIABLE heap

Types == {"STR", "INT", "OBJ", "FUN", "LIST", "NULL"}

Heaps == [ptr : [Handles -> Cells \cup {FREE}], ref : [Cells -> Nat],
          type : [Cells -> Types], elems : [Cells -> Seq(Handles)],
          own : SUBSET Handles, doomed : SUBSET Handles]

-----------------------------------------------------------------------------
(* What a heap says.                                                       *)

Items(q) == {q[i] : i \in 1..Len(q)}

Elements(s, c) == Items(s.elems[c])

Refs(s, c) == {h \in Handles : s.ptr[h] = c}

FreeHandles(s) == {h \in Handles : s.ptr[h] = FREE}

FreeCells(s) == {c \in Cells : s.ref[c] = 0}

Live(s, h) == s.ptr[h] # FREE

\* The handles C code can get at: its own, and TclValue_list_elt of those.
ElementsOf(s, hs) == UNION {Elements(s, s.ptr[h]) : h \in hs}
Visible(s) == s.own \cup ElementsOf(s, s.own)

-----------------------------------------------------------------------------
(* The primitives: value.c changes pointers, counts and tags only so.      *)

\* TclValue_new_ and the constructors: a fresh cell with one reference.
Fresh(s, h, c, t) ==
    [s EXCEPT !.ptr[h] = c,
              !.ref[c] = 1,
              !.type[c] = t]

\* Mutant: the count is forgotten (cf. TclValue_ref).
AttachUncounted(s, h, c) == [s EXCEPT !.ptr[h] = c]

\* The handle is made to point to a live cell, and TclValue_ref counts it.
Attach(s, h, c) ==
    [s EXCEPT !.ptr[h] = c,
              !.ref[c] = @ + 1]

\* Mutant: a list is freed without its elements.
FreeValueOnly(s, c, t) == [s EXCEPT !.type[c] = t, !.elems[c] = << >>]

\* TclValue_free_value_: the value of the cell is freed, and with a list every
\* element handle is to be deleted; the cell gets the tag t.
FreeValue(s, c, t) ==
    [s EXCEPT !.type[c] = t,
              !.elems[c] = << >>,
              !.doomed = @ \cup Elements(s, c)]

\* Mutant: the reference is given back twice.
UnrefTwice(s, h) ==
    LET c == s.ptr[h] IN [s EXCEPT !.ptr[h] = FREE, !.ref[c] = @ - 2]

\* TclValue_unref_: the last reference frees the value and the cell.
Unref(s, h) ==
    LET c == s.ptr[h]
        t == [s EXCEPT !.ptr[h] = FREE,
                       !.ref[c] = @ - 1]
    IN  IF s.ref[c] = 1 THEN FreeValue(t, c, "NULL") ELSE t

-----------------------------------------------------------------------------
(* The functions of value.h, as operators on heaps.                        *)

Owned(s, h) == [s EXCEPT !.own = @ \cup {h}]
Disowned(s, h) == [s EXCEPT !.own = @ \ {h}]

NewValue(s, h, c, t) == Owned(Fresh(s, h, c, t), h)

\* TclValue_replace: unref, ref, assign, in that order.
Replaced(s, v, c) == Attach(Unref(s, v), v, c)

\* TclValue_set_object and TclValue_detach: a fresh cell takes the place.
Redirected(s, v, c, t) ==
    Attach([Unref(s, v) EXCEPT !.type[c] = t], v, c)

\* List elements hs of fresh cells cs: the words Tcl_split found, each wrapped
\* by TclValue_list_push_str, in a fresh list cell c.
WithList(s, c, hs, cs) ==
    LET at(h) == CHOOSE i \in 1..Len(hs) : hs[i] = h
    IN  [s EXCEPT
           !.ptr = [h \in Handles |-> IF h \in Items(hs) THEN cs[at(h)] ELSE @[h]],
           !.ref = [d \in Cells |-> IF d \in Items(cs) THEN 1 ELSE @[d]],
           !.type = [d \in Cells |-> IF d \in Items(cs) THEN "STR"
                                     ELSE IF d = c THEN "LIST" ELSE @[d]],
           !.elems[c] = hs]

\* Mutant: the list takes the place of the value for all who share it.
ToListInPlace(s, v, c, hs, cs) == WithList(s, s.ptr[v], hs, cs)

\* TclValue_coerce to LIST: a fresh list, and only this handle is redirected.
ToList(s, v, c, hs, cs) ==
    IF s.type[s.ptr[v]] = "LIST" THEN s
    ELSE Replaced(WithList(s, c, hs, cs), v, c)

\* TclValue_coerce to STR: in place, for every handle of the cell.
ToStr(s, v) ==
    LET c == s.ptr[v] IN IF s.type[c] \in {"STR", "NULL"} THEN s
                         ELSE FreeValue(s, c, "STR")

\* TclValue_coerce to INT: in place, strings only.
ToInt(s, v) ==
    LET c == s.ptr[v] IN IF s.type[c] = "STR" THEN FreeValue(s, c, "INT") ELSE s

\* TclValue_list_pop and _shift: a new reference to the element first, then
\* the list node and its handle are deleted.
TakeElement(s, l, h, e, rest) ==
    Unref([Owned(Attach(s, h, s.ptr[e]), h)
             EXCEPT !.elems[s.ptr[l]] = rest], e)

-----------------------------------------------------------------------------
(* The steps.  No API call starts before the previous one has deleted all  *)
(* the handles it dooms: the program has one thread.                       *)

Idle == heap.doomed = {}

\* How many words Tcl_split finds in the string of a value with tag t: "" is
\* none, an int and "<FILE>" are one, "<FUNCTION 0x..>" is two.
Words(t) == CASE t = "NULL" -> {0}
              [] t \in {"INT", "OBJ"} -> {1}
              [] t = "FUN" -> {2}
              [] t = "STR" -> 0..MaxList
              [] t = "LIST" -> {0}

Injective(q) == \A i, j \in 1..Len(q) : q[i] = q[j] => i = j

\* The memory a coercion of v to a list allocates: a cell for the list, and a
\* handle and a cell for each word.
Allocates(v, c, hs, cs) ==
    LET t == heap.type[heap.ptr[v]] IN
    /\ Len(hs) \in Words(t) /\ Len(cs) = Len(hs)
    /\ Injective(hs) /\ Injective(cs)
    /\ t # "LIST" => c \in FreeCells(heap) \ Items(cs)

BoundedSeq(S) == UNION {[1..n -> S] : n \in 0..MaxList}
FreeHandleSeqs == BoundedSeq(FreeHandles(heap))
FreeCellSeqs == BoundedSeq(FreeCells(heap))

New(h, c, t) ==
    /\ Idle /\ h \in FreeHandles(heap) /\ c \in FreeCells(heap)
    /\ heap' = NewValue(heap, h, c, t)

NewRef(h, e) ==
    /\ Idle /\ h \in FreeHandles(heap) /\ e \in Visible(heap)
    /\ heap' = Owned(Attach(heap, h, heap.ptr[e]), h)

Delete(h) ==
    /\ Idle /\ h \in heap.own
    /\ heap' = Disowned(Unref(heap, h), h)

\* Mutant: only elements that somebody else still shares are deleted.
DrainShared(h) ==
    /\ h \in heap.doomed /\ heap.ref[heap.ptr[h]] > 1
    /\ heap' = Unref([heap EXCEPT !.doomed = @ \ {h}], h)

\* One TclValue_delete of the List_delete cascade.
Drain(h) ==
    /\ h \in heap.doomed
    /\ heap' = Unref([heap EXCEPT !.doomed = @ \ {h}], h)

\* Callers replace a handle they hold by another value that stays alive: w is
\* not v, and is not an element that only v keeps.
Replace(v, w) ==
    /\ Idle /\ v \in heap.own
    /\ w \in (heap.own \ {v}) \cup ElementsOf(heap, heap.own \ {v})
    /\ heap' = Replaced(heap, v, heap.ptr[w])

\* TclValue_set (string, or NULL for no data), _set_raw, _set_int, _set_null:
\* the cell is overwritten for all who share it.
Overwrite(v, t) ==
    /\ Idle /\ v \in heap.own
    /\ heap' = FreeValue(heap, heap.ptr[v], t)

\* TclValue_append, _prepend: coerce to STR; a null value becomes the data.
Extend(v) ==
    /\ Idle /\ v \in heap.own
    /\ heap' = FreeValue(heap, heap.ptr[v], "STR")

CoerceStr(v) ==
    /\ Idle /\ v \in heap.own
    /\ heap' = ToStr(heap, v)

\* Also TclValue_int, which coerces what it reads.
CoerceInt(v) ==
    /\ Idle /\ v \in heap.own
    /\ heap' = ToInt(heap, v)

\* Also TclValue_list_size and _list_elt.
CoerceList(v, c, hs, cs) ==
    /\ Idle /\ v \in heap.own /\ Allocates(v, c, hs, cs)
    /\ heap' = ToList(heap, v, c, hs, cs)

\* Mutant: the list pushed to may be shared, and so be part of what is pushed.
PushShared(l, v, h) ==
    LET c == heap.ptr[l] IN
    /\ Idle /\ l \in heap.own /\ v \in Visible(heap)
    /\ heap.type[c] = "LIST" /\ Len(heap.elems[c]) < MaxList
    /\ h \in FreeHandles(heap)
    /\ heap' = [Attach(heap, h, heap.ptr[v]) EXCEPT
                  !.elems[c] = Append(@, h)]

\* Every caller pushes to a list that it has just made and nobody shares.
ListPush(l, v, h) ==
    LET c == heap.ptr[l] IN
    /\ Idle /\ l \in heap.own /\ v \in Visible(heap) \ {l}
    /\ heap.type[c] = "LIST" /\ heap.ref[c] = 1
    /\ Len(heap.elems[c]) < MaxList
    /\ h \in FreeHandles(heap)
    /\ heap' = [Attach(heap, h, heap.ptr[v]) EXCEPT
                  !.elems[c] = Append(@, h)]

\* TclValue_list_pop, and TclValue_list_shift from the other end.  An empty
\* list gives a fresh null value.
ListTake(l, h, d, c, hs, cs, fromBack) ==
    LET s == ToList(heap, l, c, hs, cs)
        q == s.elems[s.ptr[l]]
        n == Len(q)
    IN  /\ Idle /\ l \in heap.own /\ Allocates(l, c, hs, cs)
        /\ h \in FreeHandles(s)
        /\ \/ /\ n = 0 /\ d \in FreeCells(s)
              /\ heap' = NewValue(s, h, d, "NULL")
           \/ /\ n > 0 /\ d = c
              /\ heap' = IF fromBack
                         THEN TakeElement(s, l, h, q[n], SubSeq(q, 1, n - 1))
                         ELSE TakeElement(s, l, h, q[1], SubSeq(q, 2, n))

\* TclValue_detach: a string copy of a shared value, for this handle only.
Detach(v, c) ==
    /\ Idle /\ v \in heap.own /\ c \in FreeCells(heap)
    /\ heap.type[heap.ptr[v]] # "NULL" /\ heap.ref[heap.ptr[v]] # 1
    /\ heap' = Redirected(heap, v, c, "STR")

SetObject(v, c) ==
    /\ Idle /\ v \in heap.own /\ c \in FreeCells(heap)
    /\ heap' = Redirected(heap, v, c, "OBJ")

Init == heap = [ptr |-> [h \in Handles |-> FREE], ref |-> [c \in Cells |-> 0],
                type |-> [c \in Cells |-> "NULL"],
                elems |-> [c \in Cells |-> << >>],
                own |-> {}, doomed |-> {}]

Next ==
    \/ \E h \in Handles, c \in Cells, t \in Scalars \cup {"LIST", "NULL"} :
          New(h, c, t)
    \/ \E h, e \in Handles : NewRef(h, e)
    \/ \E h \in Handles : Delete(h)
    \/ \E h \in Handles : Drain(h)
    \/ \E v, w \in Handles : Replace(v, w)
    \/ \E v \in Handles, t \in {"STR", "INT", "NULL"} : Overwrite(v, t)
    \/ \E v \in Handles : Extend(v)
    \/ \E v \in Handles : CoerceStr(v)
    \/ \E v \in Handles : CoerceInt(v)
    \/ \E v \in Handles, c \in Cells,
          hs \in FreeHandleSeqs, cs \in FreeCellSeqs :
          CoerceList(v, c, hs, cs)
    \/ \E l, v, h \in Handles : ListPush(l, v, h)
    \/ \E l, h \in Handles, d, c \in Cells,
          hs \in FreeHandleSeqs, cs \in FreeCellSeqs, b \in BOOLEAN :
          ListTake(l, h, d, c, hs, cs, b)
    \/ \E v \in Handles, c \in Cells : Detach(v, c)
    \/ \E v \in Handles, c \in Cells : SetObject(v, c)

Spec == Init /\ [][Next]_heap

\* Deleting a list runs to its end: nothing can come between.
FairSpec == Spec /\ WF_heap(\E h \in Handles : Drain(h))

-----------------------------------------------------------------------------
(* Properties.                                                             *)

\* Every part of the heap has its type; in particular no count goes below 0
\* (the unsigned counter of TclValueRef would wrap).
TypeOK == heap \in Heaps

\* The count of every cell is the number of handles that point to it, so no
\* handle dangles and no cell is freed early (TclValue_ref, TclValue_unref_).
Counted(s) == \A c \in Cells : s.ref[c] = Cardinality(Refs(s, c))
RefExact == Counted(heap)

\* The allocated handles are those C code holds, those the cascade still has to
\* delete, and those the nodes of lists hold.
Placed(s) == \A h \in Handles :
    Live(s, h) <=> \/ h \in s.own \cup s.doomed
                   \/ \E c \in Cells : h \in Elements(s, c)

\* No handle has two of these places.
PlacedOnce(s) ==
    /\ s.own \cap s.doomed = {}
    /\ \A c \in Cells : /\ Elements(s, c) \cap (s.own \cup s.doomed) = {}
                        /\ Injective(s.elems[c])
    /\ \A c, d \in Cells : c # d => Elements(s, c) \cap Elements(s, d) = {}

\* Only a list in use has elements.
ListsHold(s) == \A c \in Cells :
    s.elems[c] # << >> => s.type[c] = "LIST" /\ s.ref[c] > 0

\* Every allocated handle has exactly one place that will delete it: a C
\* caller, a node of one live list, or the cascade in progress.  A handle with
\* two places is deleted twice, one with none is leaked.
Ownership == Placed(heap) /\ PlacedOnce(heap) /\ ListsHold(heap)

\* When C code has deleted every handle it got and the cascades are over,
\* every cell is free again, however the values were shared and nested.
NoLeak ==
    heap.own = {} /\ heap.doomed = {} => \A c \in Cells : heap.ref[c] = 0

\* A container in use never turns into a list: the coercion to a list takes a
\* container of its own and leaves the other handles theirs, unlike the
\* coercions to strings and ints (list_test.c checks the counts, lines 43-47).
ListCoercionPrivate ==
    [][\A c \in Cells :
          heap'.type[c] = "LIST" /\ heap.type[c] # "LIST" => heap.ref[c] = 0]_heap

\* Deleting a list deletes every handle below it, nested lists included.
CascadeEnds == heap.doomed # {} ~> heap.doomed = {}
=============================================================================
