------------------------------ MODULE Control -------------------------------
(***************************************************************************)
(* The control commands (src/src/std.c, ext.c), the read loop (repl.c) and *)
(* the status codes that the C functions of the evaluator (src/src/tcl.c)  *)
(* return to each other.  Shell has the program that calls them.           *)
(*                                                                         *)
(*   stack   the C calls in progress, innermost last: scripts (Tcl_eval),  *)
(*           guards (expr on a condition) and control commands, each with  *)
(*           the place it has got to (at), what it has left to do (left:   *)
(*           commands of a script, elements of a foreach, clauses of an    *)
(*           if, scripts of an or) and the status a for holds while its    *)
(*           step is evaluated                                             *)
(*   status  "RUN" while the innermost call works, else what the call that *)
(*           has just returned gave to the innermost one                   *)
(*   value   what a guard that has just returned evaluated to              *)
(*   truth   whether guards can still evaluate to true, and the terminal   *)
(*           can still have a line for the read loop                       *)
(*                                                                         *)
(*   handler the frame that was to stop the status on its way when it was  *)
(*           raised, 0 for none (history of the model only)                *)
(*                                                                         *)
(* What a program does next is free: a script is a number of commands, and *)
(* a command is chosen when it starts.  The arguments of control commands  *)
(* are well formed; a wrong number of them is the Simple command BADCMD.   *)
(***************************************************************************)
EXTENDS Integers, SequencesExt

CONSTANTS MaxDepth,      \* bound: nesting of calls
          MaxCommands,   \* bound: commands of a script
          MaxItems       \* bound: elements of a foreach, clauses of an if

ASSUME ControlAssumption == /\ MaxDepth \in Nat /\ MaxDepth > 1
                            /\ MaxCommands \in Nat \ {0}
                            /\ MaxItems \in Nat \ {0}

VARIABLES stack, status, value, truth, handler
vars == <<stack, status, value, truth, handler>>

\* enum TclReturn; OOM and INTERRUPT are returned by no function.
Raised == {"RETURN", "BREAK", "CONTINUE", "EXCEPTION", "EXIT", "BADCMD"}
Statuses == Raised \cup {"OK"}

Places == [script  |-> {"command", "bracket", "expanded"},
           guard   |-> {"expand", "bracket"},
           while   |-> {"guard", "body"},
           for     |-> {"init", "guard", "body", "step", "decide"},
           foreach |-> {"body"},
           if      |-> {"guard", "elseif", "branch"},
           catch   |-> {"script"},
           call    |-> {"script"},
           eval    |-> {"script"},
           ifhash  |-> {"guard", "branch"},
           logic   |-> {"script"},
           repl    |-> {"read", "script"}]

Bound == IF MaxCommands > MaxItems THEN MaxCommands ELSE MaxItems
Frames == UNION {[kind : {k}, at : Places[k], left : 0..Bound, held : Statuses]
                   : k \in DOMAIN Places}

TypeOK == /\ stack \in Seq(Frames)
          /\ status \in Statuses \cup {"RUN"}
          /\ value \in BOOLEAN /\ truth \in BOOLEAN
          /\ handler \in 0..MaxDepth

-----------------------------------------------------------------------------
Frame(kind, at, left) == [kind |-> kind, at |-> at, left |-> left, held |-> "OK"]
Guard == Frame("guard", "expand", 0)
Scripts == {Frame("script", "command", n) : n \in 0..MaxCommands}

Top == Last(stack)
Works(kind, at) == stack # << >> /\ status = "RUN" /\ Top.kind = kind /\ Top.at = at
Gets(kind, at) == stack # << >> /\ status # "RUN" /\ Top.kind = kind /\ Top.at = at

\* The innermost call becomes f, and works on or takes status s.
Becomes(f, s) == /\ stack' = [stack EXCEPT ![Len(stack)] = f]
                 /\ status' = s /\ value' = FALSE

\* The innermost call becomes f, and calls g.
Calls(f, g) == /\ Len(stack) < MaxDepth
               /\ stack' = Append([stack EXCEPT ![Len(stack)] = f], g)
               /\ status' = "RUN" /\ value' = FALSE

\* The innermost call returns s.
Returns(s) == stack' = Front(stack) /\ status' = s /\ value' = FALSE

\* It goes on at a place by evaluating a guard, or one of the scripts.
Evaluates(at) == \E g \in Scripts : Calls([Top EXCEPT !.at = at], g)
EvaluatesGuard(at) == Calls([Top EXCEPT !.at = at], Guard)

-----------------------------------------------------------------------------
(* Scripts and their commands.                                             *)

EmptyScript == Works("script", "command") /\ Top.left = 0 /\ Returns("OK")

\* A word of the next command has a bracket: its script comes first, and the
\* command is not called unless that is OK.
OpenBracket == /\ Works("script", "command") /\ Top.left > 0
               /\ Evaluates("bracket")
CloseBracket == /\ Gets("script", "bracket")
                /\ IF status = "OK" THEN Becomes([Top EXCEPT !.at = "expanded"], "RUN")
                                    ELSE Returns(status)

Ready == /\ Works("script", "command") \/ Works("script", "expanded")
         /\ Top.left > 0
Called == [Top EXCEPT !.at = "command", !.left = @ - 1]

\* A command without a script of its own: break, continue, return, throw,
\* exit, a command that does not exist, a foreach over an empty list, ...
Simple(s) == Ready /\ Becomes(Called, s)

\* A control command starts.
Control == Ready /\ Len(stack) + 2 <= MaxDepth /\ \E f \in
    {Frame("while", "guard", 0), Frame("for", "init", 0),
     Frame("ifhash", "guard", 0), Frame("repl", "read", 0)}
      \cup {Frame("foreach", "body", n) : n \in 1..MaxItems}
      \cup {Frame("logic", "script", n) : n \in 1..MaxItems}
      \cup {Frame("if", "guard", n) : n \in 0..MaxItems}
      \cup {Frame(k, "script", 0) : k \in {"catch", "call", "eval"}} :
          Calls(Called, f)

\* Mutant: the other commands are evaluated after a failed one.
NextCommandAlways == /\ Gets("script", "command")
                     /\ IF Top.left > 0 THEN Becomes(Top, "RUN") ELSE Returns(status)

NextCommand == /\ Gets("script", "command")
               /\ IF status = "OK" /\ Top.left > 0 THEN Becomes(Top, "RUN")
                                                   ELSE Returns(status)

-----------------------------------------------------------------------------
(* Guards: the value is 0 unless the expression is evaluated.              *)

Value == /\ \E v \in IF truth THEN BOOLEAN ELSE {FALSE} : value' = v
         /\ stack' = Front(stack) /\ status' = "OK"

GuardBracket == Works("guard", "expand") /\ Evaluates("bracket")
GuardValue == Works("guard", "expand") /\ Value
\* A variable that does not exist, a bracket without its end.
GuardFails == Works("guard", "expand") /\ Returns("EXCEPTION")
GuardExpanded == /\ Gets("guard", "bracket")
                 /\ IF status = "OK" THEN Value ELSE Returns(status)

-----------------------------------------------------------------------------
(* Loops.                                                                  *)

WhileStart == Works("while", "guard") /\ EvaluatesGuard("guard")
WhileGuard == /\ Gets("while", "guard")
              /\ IF status = "OK" /\ value THEN Evaluates("body") ELSE Returns(status)

WhileBody == /\ Gets("while", "body")
             /\ CASE status = "BREAK" -> Returns("OK")
                  [] status \in {"EXCEPTION", "RETURN"} -> Returns(status)
                  [] OTHER -> EvaluatesGuard("guard")

ForStart == Works("for", "init") /\ Evaluates("init")
ForInit == /\ Gets("for", "init")
           /\ IF status = "OK" THEN EvaluatesGuard("guard") ELSE Returns(status)
\* The guard is evaluated here and never again.
ForGuard == /\ Gets("for", "guard")
            /\ IF value THEN Evaluates("body") ELSE Returns(status)
\* The step follows every body, whatever the status of the body, and its own
\* status is dropped.
ForBody == /\ Gets("for", "body")
           /\ \E g \in Scripts : Calls([Top EXCEPT !.at = "step", !.held = status], g)
ForStep == Gets("for", "step") /\ Becomes([Top EXCEPT !.at = "decide"], "RUN")
ForDecide == /\ Works("for", "decide")
             /\ CASE Top.held \in {"BREAK", "RETURN"} -> Returns("OK")
                  [] Top.held = "EXCEPTION" -> Returns("EXCEPTION")
                  [] OTHER -> \E g \in Scripts :
                       Calls([Top EXCEPT !.at = "body", !.held = "OK"], g)

\* Mutant: an element too many.
NextItemBeyond(s) ==
    IF Top.left >= 0 THEN \E g \in Scripts : Calls([Top EXCEPT !.left = @ - 1], g)
                     ELSE Returns(s)

\* The script for the next element, or the end with status s.
NextItem(s) ==
    IF Top.left > 0 THEN \E g \in Scripts : Calls([Top EXCEPT !.left = @ - 1], g)
                    ELSE Returns(s)

ForeachStart == Works("foreach", "body") /\ NextItem("OK")

ForeachBody ==
    /\ Gets("foreach", "body")
    /\ CASE status \in {"BREAK", "RETURN"} -> Returns("OK")
         [] status = "EXCEPTION" -> Returns(status)
         [] status = "CONTINUE" -> NextItem("OK")
         [] OTHER -> NextItem(status)

-----------------------------------------------------------------------------
(* if, and the commands that evaluate one script.                          *)

IfStart == Works("if", "guard") /\ EvaluatesGuard("guard")

\* The clause after a guard that was not true: an elseif or the else, or none.
IfOtherwise == \/ /\ Top.left > 0
                  /\ Calls([Top EXCEPT !.at = "elseif", !.left = @ - 1], Guard)
               \/ /\ Top.left > 0
                  /\ Evaluates("branch")
               \/ Top.left = 0 /\ Returns(status)

\* The status of the first guard is not looked at.
IfGuard == /\ Gets("if", "guard")
           /\ IF value THEN Evaluates("branch") ELSE IfOtherwise
IfElseif == /\ Gets("if", "elseif")
            /\ IF status # "OK" THEN Returns(status)
               ELSE IF value THEN Evaluates("branch") ELSE IfOtherwise
IfBranch == Gets("if", "branch") /\ Returns(status)

ScriptStart == /\ \E k \in {"catch", "call", "eval"} : Works(k, "script")
               /\ Evaluates("script")
CatchEnd == Gets("catch", "script") /\ Returns("OK")
\* A call of a proc, or source.
CallEnd == /\ Gets("call", "script")
           /\ Returns(IF status = "RETURN" THEN "OK" ELSE status)
EvalEnd == Gets("eval", "script") /\ Returns(status)

\* if# looks at the status of its guard, unlike if.
IfHashStart == Works("ifhash", "guard") /\ EvaluatesGuard("guard")
IfHashGuard == /\ Gets("ifhash", "guard")
               /\ IF status = "OK" THEN Evaluates("branch") ELSE Returns(status)
IfHashEnd == Gets("ifhash", "branch") /\ Returns(status)

\* or and and: the next script, or the end when the value of the last one
\* decides.  What a script failed with is dropped.
LogicStart == Works("logic", "script") /\ NextItem("OK")
LogicNext == /\ Gets("logic", "script")
             /\ NextItem("OK") \/ (status = "OK" /\ Returns("OK"))

-----------------------------------------------------------------------------
(* The read loop, of tclsh or of the command repl.                         *)

\* Mutant: the end of the input does not end the loop.
ReadAlways == Works("repl", "read") /\ Evaluates("script")

\* End of input; a last line without a newline is read and dropped.
ReadEnd == Works("repl", "read") /\ Returns("OK")

ReadLine == Works("repl", "read") /\ truth /\ Evaluates("script")

\* Only an exit ends the loop, and its caller does not learn of it.
ReadResult == /\ Gets("repl", "script")
              /\ IF status = "EXIT" THEN Returns("OK")
                                    ELSE Becomes([Top EXCEPT !.at = "read"], "RUN")

-----------------------------------------------------------------------------
\* Whether the frame f stops the status s on its way outwards.
Stops(f, s) ==
    CASE f.kind = "while"   -> f.at = "body" /\ s \notin {"EXCEPTION", "RETURN"}
      [] f.kind = "for"     -> f.at \in {"body", "step"}
      [] f.kind = "foreach" -> s \in {"BREAK", "CONTINUE", "RETURN"}
                                 \/ (s # "EXCEPTION" /\ f.left > 0)
      [] f.kind = "if"      -> f.at = "guard" /\ f.left > 0
      [] f.kind \in {"catch", "logic", "repl"} -> TRUE
      [] f.kind = "call"   -> s = "RETURN"
      [] OTHER              -> FALSE

Innermost(S) == CHOOSE i \in S : \A j \in S : j <= i
HandlerOf(calls, s) == Innermost({0} \cup {i \in 1..Len(calls) : Stops(calls[i], s)})

Interpret ==
    /\ \/ EmptyScript \/ OpenBracket \/ CloseBracket
       \/ \E s \in Statuses : Simple(s)
       \/ Control \/ NextCommand
       \/ GuardBracket \/ GuardValue \/ GuardFails \/ GuardExpanded
       \/ WhileStart \/ WhileGuard \/ WhileBody
       \/ ForStart \/ ForInit \/ ForGuard \/ ForBody \/ ForStep \/ ForDecide
       \/ ForeachStart \/ ForeachBody
       \/ IfStart \/ IfGuard \/ IfElseif \/ IfBranch
       \/ ScriptStart \/ CatchEnd \/ CallEnd \/ EvalEnd
       \/ IfHashStart \/ IfHashGuard \/ IfHashEnd \/ LogicStart \/ LogicNext
       \/ ReadEnd \/ ReadLine \/ ReadResult
    /\ handler' = IF status' \notin Raised THEN 0
                  ELSE IF status' = status THEN handler
                  ELSE HandlerOf(stack', status')
    /\ UNCHANGED truth

\* From here on no guard is true and no line is typed.
TurnFalse == truth /\ truth' = FALSE /\ UNCHANGED <<stack, status, value, handler>>

-----------------------------------------------------------------------------
(* Properties.                                                             *)

\* A status that a command returns passes through every call between it and
\* the innermost one that deals with it, and no further, whatever loops, procs,
\* brackets and guards it crosses (the tests of status in std.c and tcl.c).
LandsAtHandler ==
    [][(status \in Raised) /\ stack # << >> /\ <<stack, status>>' # <<stack, status>>
         => (status' = status <=> Len(stack) # handler)]_vars

\* A for whose guard was true goes on until its body breaks (std.c:522).
ForGoesOn == \E i \in 1..Len(stack) :
    stack[i].kind = "for" /\ stack[i].at \in {"body", "step", "decide"}

=============================================================================
