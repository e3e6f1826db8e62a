------------------------------ MODULE TclVars ------------------------------
(***************************************************************************)
(* Variables, words and results of running scripts (src/src/tcl.c, std.c   *)
(* and ext.c) over the shared containers of value.c.                       *)
(*                                                                         *)
(* Tcl_eval hands ONE result handle to every command of a script, a proc   *)
(* evaluates its body into the result handle of its caller, and handles    *)
(* share containers (cells): a variable, the result and the next word may  *)
(* all be the same cell, and most commands write their result into the     *)
(* cell that the result handle has at that moment.                         *)
(*                                                                         *)
(*   val, ref   contents and reference count of each cell (count 0: free)  *)
(*   stack      the C activations, innermost last:                         *)
(*                top      the script: global namespace, result handle     *)
(*                proc     TclStd_userFuncall: a namespace                 *)
(*                uplevel  TclStd_uplevel: a namespace of copies           *)
(*                bracket  [..] in Tcl_expand_: a result handle            *)
(*                catch    TclStd_catch: a result handle                   *)
(*                or, and  TclStd_or, TclStd_and: a result handle          *)
(*              and in each the word being expanded or passed              *)
(*   lost       references whose handle was forgotten (history of the      *)
(*              model only)                                                *)
(***************************************************************************)
EXTENDS Namespaces, FiniteSets, SequencesExt

CONSTANTS Cells,
          Numbers,     \* the integers of the model, as texts
          MaxDepth,    \* bound: nesting of activations
          MaxLost      \* bound: references to a cell that upvar and uplevel forget

ASSUME VarsAssumption == /\ NIL \notin Cells /\ IsFiniteSet(Names)
                         /\ "0" \in Numbers /\ Numbers \cap {"w", "ww", "", "junk"} = {}
                         /\ MaxDepth \in Nat \ {0} /\ MaxLost \in Nat

VARIABLES val, ref, stack, lost
vars == <<val, ref, stack, lost>>

\* What a cell holds.  Texts: numbers, a word, a longer one, the empty
\* string, and what a read of freed memory delivers.
StrOf(t) == [tag |-> "STR", text |-> t]
IntOf(n) == [tag |-> "INT", text |-> n]
Null == [tag |-> "NULL", text |-> ""]

Texts == Numbers \cup {"w", "ww", "", "junk"}
Values == {StrOf(t) : t \in Texts} \cup {IntOf(n) : n \in Numbers} \cup {Null}

NsKinds == {"top", "proc", "uplevel"}
RetKinds == {"top", "bracket", "catch", "or", "and"}
Kinds == NsKinds \cup RetKinds

Bindings == [Names -> Cells \cup {NIL}]

\* own: cell of the result handle; word: cell of the word of the command that
\* is read or runs (NIL: none yet).
Activations == [kind : Kinds, vars : Bindings,
                own : Cells \cup {NIL}, word : Cells \cup {NIL}]

-----------------------------------------------------------------------------
(* Where the running command finds its namespace, its result and its word. *)

Top == Len(stack)
LastOf(kinds, n) == CHOOSE i \in 1..n : /\ stack[i].kind \in kinds
                                        /\ \A j \in i + 1..n : stack[j].kind \notin kinds
Ns == LastOf(NsKinds, Top)
RetAt == LastOf(RetKinds, Top)

Local == stack[Ns].vars
Ret == stack[RetAt].own
Word == stack[Top].word

\* vm->namespace.
Spaces == FoldLeft(LAMBDA spaces, a : IF a.kind \in NsKinds THEN Append(spaces, a.vars)
                                      ELSE spaces,
                   << >>, stack)

\* The handles of an activation on cell c.
Holds(a, c) == Cardinality({x \in Names : a.vars[x] = c})
             + (IF a.own = c THEN 1 ELSE 0) + (IF a.word = c THEN 1 ELSE 0)

FreeCells == {c \in Cells : ref[c] = 0}

-----------------------------------------------------------------------------
(* Counts and contents.  A step takes taken[c] handles on c, deletes       *)
(* freed[c] and forgets gone[c]; the cell of the last reference is freed.  *)

Times(k, c) == [d \in Cells |-> IF d = c THEN k ELSE 0]
One(c) == Times(1, c)
None == Times(0, NIL)
Both(f, g) == [c \in Cells |-> f[c] + g[c]]

CountLosing(taken, freed, gone) ==
    /\ ref' = [c \in Cells |-> ref[c] + taken[c] - freed[c]]
    /\ lost' = [c \in Cells |-> lost[c] + gone[c]]
Count(taken, freed) == CountLosing(taken, freed, None)

\* The contents after the writes w, a function on the cells written.
Contents(w) ==
    val' = [c \in Cells |-> IF ref'[c] = 0 THEN Null
                            ELSE IF c \in DOMAIN w THEN w[c] ELSE val[c]]
Write(c, v) == [d \in {c} |-> v]
NoWrite == [d \in {} |-> Null]

\* TclValue_set(cell c, TclValue_str of cell d): the string of c is freed
\* before the new one is copied.
Assigned(c, d) ==
    IF c = d /\ val[d].tag = "STR" THEN StrOf("junk") ELSE StrOf(val[d].text)

\* TclValue_append(cell c, TclValue_str of cell d): c is coerced and
\* reallocated before d's string is read.
Joined(t, u) == IF t = "" THEN u ELSE IF u = "" THEN t ELSE "ww"
Appended(c, d) ==
    IF c = d /\ val[d].tag = "STR" THEN StrOf("junk")
    ELSE StrOf(Joined(val[c].text, val[d].text))

\* Mutant: the text is taken for a number as it is.
AsIntUnread(v) == IF v.tag # "STR" THEN v ELSE IntOf(v.text)

\* TclValue_int coerces the cell it reads, if it is a string.
AsInt(v) == IF v.tag # "STR" THEN v
            ELSE IntOf(IF v.text \in Numbers THEN v.text ELSE "0")

\* Mutant: variables are made in the global namespace.
BindGlobal(x, c) == [stack EXCEPT ![1].vars[x] = c]

Bind(x, c) == [stack EXCEPT ![Ns].vars[x] = c]

\* The command is over: its word is deleted with it.
Spent(st) == [st EXCEPT ![Top].word = NIL]

-----------------------------------------------------------------------------
(* Words and brackets.                                                     *)

\* Plain characters: a word of its own, or more text for the word.
Literal(t, c) ==
    /\ \/ /\ Word = NIL /\ c \in FreeCells
          /\ Count(One(c), None) /\ Contents(Write(c, StrOf(t)))
       \/ /\ Word # NIL /\ c = Word
          /\ Count(None, None)
          /\ Contents(Write(c, StrOf(Joined(val[c].text, t))))
    /\ stack' = [stack EXCEPT ![Top].word = c]

\* $x: the text of x, in a word of its own or after the word's, which x may share.
Substitute(x, c) ==
    LET d == Local[x] IN
    /\ d # NIL
    /\ \/ /\ Word = NIL /\ c \in FreeCells
          /\ Count(One(c), None) /\ Contents(Write(c, StrOf(val[d].text)))
       \/ /\ Word # NIL /\ c = Word
          /\ Count(None, None) /\ Contents(Write(c, Appended(c, d)))
    /\ stack' = [stack EXCEPT ![Top].word = c]

\* The command deletes its word; it failed, or had no effect here.
DropWord ==
    /\ Word # NIL
    /\ stack' = Spent(stack)
    /\ Count(None, One(Word)) /\ Contents(NoWrite)

Push(kind, c) ==
    /\ Top < MaxDepth /\ c \in FreeCells
    /\ stack' = Append(stack, [kind |-> kind, vars |-> Unbound, own |-> c, word |-> NIL])
    /\ Count(One(c), None) /\ Contents(Write(c, Null))

\* Mutant: the bracket's script has the result handle of the command around it.
OpenBracketInPlace(c) ==
    /\ Top < MaxDepth /\ c = Ret
    /\ stack' = Append(stack, [kind |-> "bracket", vars |-> Unbound, own |-> c, word |-> NIL])
    /\ Count(One(c), None) /\ Contents(NoWrite)

OpenBracket(c) == Push("bracket", c)

\* A word that is still null comes to share the cell of the bracket's result,
\* another one is extended by its text; on an error the result is dropped.
CloseBracket(ok) ==
    LET w == stack[Top - 1].word
        empty == w = NIL \/ (w \in Cells /\ val[w].tag = "NULL")
    IN  /\ stack[Top].kind = "bracket" /\ Word = NIL
        /\ \/ /\ ok /\ empty
              /\ stack' = [Front(stack) EXCEPT ![Top - 1].word = Ret]
              /\ Count(None, One(w)) /\ Contents(NoWrite)
           \/ /\ ok /\ ~empty
              /\ stack' = Front(stack)
              /\ Count(None, One(Ret)) /\ Contents(Write(w, Appended(w, Ret)))
           \/ /\ ~ok
              /\ stack' = Front(stack)
              /\ Count(None, One(Ret)) /\ Contents(NoWrite)

-----------------------------------------------------------------------------
(* Commands.                                                               *)

\* set x: the result handle comes to share the variable's cell.
SetRead(x) ==
    LET c == Local[x] IN
    /\ Word = NIL /\ c # NIL
    /\ stack' = [stack EXCEPT ![RetAt].own = c]
    /\ Count(One(c), One(Ret)) /\ Contents(NoWrite)

\* set x word, x unknown: x and the result share the word's cell.
SetNew(x) ==
    /\ Word # NIL /\ Local[x] = NIL
    /\ stack' = Spent([Bind(x, Word) EXCEPT ![RetAt].own = Word])
    /\ Count(Times(2, Word), Both(One(Ret), One(Word)))
    /\ Contents(NoWrite)

\* set x word, x known: the result shares x's cell, which is overwritten.
SetOld(x) ==
    LET c == Local[x] IN
    /\ Word # NIL /\ c # NIL
    /\ stack' = Spent([stack EXCEPT ![RetAt].own = c])
    /\ Count(One(c), Both(One(Ret), One(Word)))
    /\ Contents(Write(c, Assigned(c, Word)))

\* Commands that write what they compute from their word to the cell of the
\* result.  add, sub, mul, div, gt and lt coerce the word and give a string, not
\* coerces it and gives an int, eql reads it and gives an int.
Computed == {StrOf(n) : n \in Numbers} \cup {IntOf(n) : n \in Numbers}
Compute(v, coerces) ==
    /\ Word # NIL
    /\ v.tag = "STR" => coerces
    /\ stack' = Spent(stack)
    /\ Count(None, One(Word))
    /\ Contents([c \in {Ret} \cup (IF coerces THEN {Word} ELSE {}) |->
                   IF c = Ret THEN v ELSE AsInt(val[Word])])

\* return word.
Give ==
    /\ Word # NIL
    /\ stack' = Spent(stack)
    /\ Count(None, One(Word)) /\ Contents(Write(Ret, Assigned(Ret, Word)))

\* incr x: the variable and the result are written, each in its cell.
Incr(x, n) ==
    /\ Word = NIL /\ Local[x] # NIL
    /\ Count(None, None) /\ Contents([c \in {Local[x], Ret} |-> IntOf(n)])
    /\ UNCHANGED stack

\* The loop variable of foreach: assigned in place, or made.
ForeachAssign(x, c) ==
    /\ Word = NIL
    /\ \/ /\ Local[x] # NIL /\ c = Local[x]
          /\ Count(None, None) /\ UNCHANGED stack
       \/ /\ Local[x] = NIL /\ c \in FreeCells
          /\ Count(One(c), None) /\ stack' = Bind(x, c)
    /\ Contents(Write(c, StrOf("w")))

\* A proc with parameter x: the parameter shares the cell of the word, which
\* the caller keeps until the proc is over.
Call(x) ==
    /\ Word # NIL /\ Top < MaxDepth
    /\ stack' = Append(stack, [kind |-> "proc", own |-> NIL, word |-> NIL,
                               vars |-> [Unbound EXCEPT ![x] = Word]])
    /\ Count(One(Word), None) /\ Contents(NoWrite)

\* Tcl_popNamespace, and the end of the command that pushed it.
PopNamespace(kind) ==
    LET below == Top - 1 IN
    /\ Word = NIL /\ stack[Top].kind = kind
    /\ stack' = [Front(stack) EXCEPT ![below].word = NIL]
    /\ Count(None, [c \in Cells |-> Holds(stack[Top], c)
                                      + One(stack[below].word)[c]])
    /\ Contents(NoWrite)

Return == PopNamespace("proc")
EndUplevel == PopNamespace("uplevel")

\* uplevel: references to every variable of the upper namespace, then of the
\* current one; a name in both keeps the second reference only.
Uplevel(level) ==
    LET up == UpNamespace(Spaces, level)
        named(b, c) == Cardinality({x \in Names : b[x] = c})
        hidden(c) == Cardinality({x \in Names : up[x] = c /\ Local[x] # NIL})
    IN
    /\ Word = NIL /\ Top < MaxDepth
    /\ stack' = Append(stack, [kind |-> "uplevel", own |-> NIL, word |-> NIL,
                               vars |-> Overlaid(Spaces, level)])
    /\ CountLosing([c \in Cells |-> named(Local, c) + named(up, c)], None,
                   [c \in Cells |-> hidden(c)])
    /\ \A c \in Cells : lost'[c] <= MaxLost
    /\ Contents(NoWrite)

\* upvar: a new binding, which forgets the one it replaces.
Upvar(level, x, y) ==
    LET c == VariableUp(Spaces, x, level) IN
    /\ Word = NIL /\ c # NIL
    /\ Local[y] # NIL => lost[Local[y]] < MaxLost
    /\ stack' = Bind(y, c)
    /\ CountLosing(One(c), None, One(Local[y])) /\ Contents(NoWrite)

OpenCatch(c) == Word = NIL /\ Push("catch", c)

\* The result handle of the script around.
Outer == LastOf(RetKinds, Top - 1)

\* catch without a variable: its result is the status, written to the cell of the
\* outer result handle.
CloseCatchAlone(status) ==
    /\ stack[Top].kind = "catch" /\ Word = NIL
    /\ stack' = Front(stack)
    /\ Count(None, One(Ret)) /\ Contents(Write(stack[Outer].own, IntOf(status)))

\* catch with one: the variable gets the script's result.
CloseCatch(x, status) ==
    LET outer == stack[Outer].own
        c == Local[x]
    IN  /\ stack[Top].kind = "catch" /\ Word = NIL
        /\ \/ /\ c # NIL
              /\ stack' = Front(stack)
              /\ Count(None, One(Ret))
              /\ Contents([d \in {c, outer} |->
                             IF d = outer THEN IntOf(status) ELSE Assigned(c, Ret)])
           \/ /\ c = NIL
              /\ stack' = Front(Bind(x, Ret))
              /\ Count(None, None)
              /\ Contents(Write(outer, IntOf(status)))

OpenLogic(kind, c) == kind \in {"or", "and"} /\ Word = NIL /\ Push(kind, c)

\* The next script of or, after one that failed, which leaves its result as it
\* is, or was false, which coerces it.
OrNext ==
    /\ stack[Top].kind = "or" /\ Word = NIL
    /\ val[Ret].tag = "NULL" \/ AsInt(val[Ret]).text = "0"
    /\ Count(None, None) /\ Contents(Write(Ret, AsInt(val[Ret])))
    /\ UNCHANGED stack

\* The next script of and: the result is emptied, in the cell that it shares.
AndNext ==
    /\ stack[Top].kind = "and" /\ Word = NIL
    /\ Count(None, None) /\ Contents(Write(Ret, Null))
    /\ UNCHANGED stack

\* Mutant: the handle of the scripts' result is not deleted.
CloseLogicKept(ok) ==
    /\ stack[Top].kind \in {"or", "and"} /\ Word = NIL
    /\ stack' = IF ok THEN [Front(stack) EXCEPT ![Outer].own = Ret] ELSE Front(stack)
    /\ IF ok THEN Count(One(Ret), One(stack[Outer].own)) /\ Contents(Write(Ret, AsInt(val[Ret])))
       ELSE Count(None, One(Ret)) /\ Contents(NoWrite)

\* or and and end: the outer result handle comes to share the cell of the last
\* script's result, which was coerced, unless that script failed.
CloseLogic(ok) ==
    /\ stack[Top].kind \in {"or", "and"} /\ Word = NIL
    /\ \/ /\ ok
          /\ stack' = [Front(stack) EXCEPT ![Outer].own = Ret]
          /\ Count(None, One(stack[Outer].own))
          /\ Contents(Write(Ret, AsInt(val[Ret])))
       \/ /\ ~ok
          /\ stack' = Front(stack)
          /\ Count(None, One(Ret)) /\ Contents(NoWrite)

Init == \E c \in Cells :
    /\ stack = <<[kind |-> "top", vars |-> Unbound, own |-> c, word |-> NIL]>>
    /\ ref = One(c) /\ val = [d \in Cells |-> Null] /\ lost = None

Next ==
    \/ \E t \in {"w"} \cup Numbers, c \in Cells : Literal(t, c)
    \/ \E x \in Names, c \in Cells : Substitute(x, c)
    \/ DropWord
    \/ \E c \in Cells : OpenBracket(c)
    \/ \E ok \in BOOLEAN : CloseBracket(ok)
    \/ \E x \in Names : SetRead(x)
    \/ \E x \in Names : SetNew(x)
    \/ \E x \in Names : SetOld(x)
    \/ \E v \in Computed, b \in BOOLEAN : Compute(v, b)
    \/ Give
    \/ \E x \in Names, n \in Numbers : Incr(x, n)
    \/ \E x \in Names, c \in Cells : ForeachAssign(x, c)
    \/ \E x \in Names : Call(x)
    \/ Return
    \/ \E c \in Cells : OpenCatch(c)
    \/ \E s \in Numbers : CloseCatchAlone(s)
    \/ \E x \in Names, s \in Numbers : CloseCatch(x, s)
    \/ \E kind \in {"or", "and"}, c \in Cells : OpenLogic(kind, c)
    \/ OrNext
    \/ AndNext
    \/ \E ok \in BOOLEAN : CloseLogic(ok)
    \/ \E level \in 0..MaxDepth : Uplevel(level)
    \/ EndUplevel
    \/ \E level \in 0..MaxDepth, x, y \in Names : Upvar(level, x, y)

Spec == Init /\ [][Next]_vars

-----------------------------------------------------------------------------
(* Properties.                                                             *)

\* Every part of the state has its type; no count goes below 0.
TypeOK == /\ val \in [Cells -> Values]
          /\ ref \in [Cells -> Nat] /\ lost \in [Cells -> Nat]
          /\ stack \in Seq(Activations)

\* The number of handles on c: of variables, results and words.
Handles(c) == FoldLeft(LAMBDA n, a : n + Holds(a, c), 0, stack)

\* However variables, results and words come to share containers, each
\* container counts them exactly: none is freed under a handle (Tcl_evalExpression,
\* TclStd_userFuncall, TclStd_catch delete what they made and no more), and
\* none stays for ever but for a name that upvar or uplevel binds over another.
RefExact == \A c \in Cells : ref[c] = Handles(c) + lost[c]

\* What the running command has: the variables of its namespace, its result and
\* its word, and those of the command around the bracket, catch, or and and that ends.
Within(c) ==
    \/ \E x \in Names : Local[x] = c
    \/ \E i \in {RetAt} \cup (IF RetAt > 1 THEN {LastOf(RetKinds, RetAt - 1)} ELSE {}) :
          stack[i].own = c
    \/ \E i \in {Top, Top - 1} \ {0} : stack[i].word = c

\* Whatever a command does, the variables of the procs that wait for it keep
\* their containers, and a container that the command does not have itself, as
\* Within says, keeps its contents.  The namespace stack of tcl.c isolates no more:
\* through a result or a word that shares a caller's variable, a callee may change
\* that variable's contents.
SuspendedUntouched ==
    [][/\ \A c \in Cells : ref[c] > 0 /\ ref'[c] > 0 /\ ~Within(c) => val'[c] = val[c]
       /\ \A i \in 1..Top : i # Ns /\ i <= Len(stack')
                            => stack'[i].vars = stack[i].vars]_vars

\* A command assigns or appends a string to itself (TclValue_set and TclValue_append,
\* value.c:153 and 205, which free it before they read it) only in a container that
\* some variable on the stack has, its own or a waiting one's, or that has a
\* forgotten handle of upvar or uplevel: results, words and brackets alone do not.
FreedOnlyUnderVariable ==
    [][\A c \in Cells : /\ \A d \in Cells : val[d].text # "junk"
                        /\ val'[c].text = "junk"
                        => \/ lost[c] > 0
                           \/ \E i \in 1..Top, x \in Names : stack[i].vars[x] = c]_vars

\* A command that returns a value computed from its arguments (ext.c:67: add
\* "returns the sum of all arguments") changes no variable.
ComputeChangesNoVariable ==
    [][(\E v \in Computed, b \in BOOLEAN : Compute(v, b)) =>
          \A x \in Names : Local[x] # NIL => val'[Local[x]] = val[Local[x]]]_vars
=============================================================================
