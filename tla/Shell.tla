------------------------------- MODULE Shell --------------------------------
(***************************************************************************)
(* tclsh (src/src/tclsh.c): the options, then the script or the read loop, *)
(* and the exit code of the process, around the evaluator of Control.      *)
(*                                                                         *)
(*   doing   "options" between two options, "source" and "include" while   *)
(*           an -e or an -I is evaluated, "script" from the end of the     *)
(*           options on; "over" when main has returned, "failed" when it   *)
(*           has called exit(1)                                            *)
(*   options how many options may follow (a bound)                         *)
(*   info    returnInfo of tcl.c: the argument of the last exit that had   *)
(*           one                                                           *)
(*   code    the exit code, of a process that has ended: 8 bits of an int  *)
(*                                                                         *)
(* History of the model only: given is the argument of the exit on its     *)
(* way (a set: none or one), dropped says whether an exit that had one has *)
(* been stopped before it got to the end of the program.                   *)
(***************************************************************************)
EXTENDS Control

CONSTANTS MaxOptions,  \* bound: options on the command line
          Codes        \* arguments of exit

ASSUME ShellAssumption == MaxOptions \in Nat /\ Codes \subseteq Int

\* An exit has one of the codes as its argument, or none.
Arguments == {{}} \cup {{n} : n \in Codes}

VARIABLES doing, options, info, code, given, dropped
main == <<doing, options, info, code, given, dropped>>

ShellTypeOK ==
    /\ TypeOK
    /\ doing \in {"options", "source", "include", "script", "over", "failed"}
    /\ options \in 0..MaxOptions
    /\ info \in Codes \cup {0}
    /\ code \in 0..255
    /\ given \in Arguments /\ dropped \in BOOLEAN
    /\ doing \in {"options", "over", "failed"} => stack = << >>

-----------------------------------------------------------------------------
\* History: the argument a of an exit until it is stopped.
Followed(a) == IF status' = "EXIT" THEN given' = a /\ UNCHANGED dropped
               ELSE given' = {} /\ dropped' = (dropped \/ given # {})

StatusToCode(s) == CASE s = "EXCEPTION" -> 1
                     [] s = "BADCMD"    -> 2
                     [] s = "EXIT"      -> info
                     [] OTHER           -> 0

\* What main evaluates: a script, or the read loop.
Runs(what, frames) == /\ doing' = what
                      /\ \E f \in frames : stack' = <<f>>
                      /\ status' = "RUN" /\ value' = FALSE
                      /\ UNCHANGED <<info, code>>

\* evalFile finds no file.
Missing(what) == /\ doing' = what /\ status' = "EXCEPTION"
                 /\ UNCHANGED <<stack, value, info, code>>

\* The system keeps 8 bits of the int that main returns.
EightBits(n) == n % 256

\* The process ends with the code of status s.
Exits(s) == /\ doing' = "over" /\ code' = EightBits(StatusToCode(s))
            /\ status' = s /\ UNCHANGED <<stack, value, options, info>>
Fails == /\ doing' = "failed" /\ code' = 1
         /\ UNCHANGED <<stack, status, value, options, info>>

\* Bound: what an option evaluates has at most one command.
Sources == {Frame("script", "command", n) : n \in 0..1}

Option == doing = "options" /\ options > 0

\* -e
Source == Option /\ Runs("source", Sources) /\ options' = options - 1

\* -I and --include
Include == /\ Option /\ options' = options - 1
           /\ Runs("include", Sources) \/ Missing("include")

\* --e is known but does nothing.
Ignored == /\ Option /\ options' = options - 1
           /\ UNCHANGED <<doing, stack, status, value, info, code>>

\* The next option follows, after an -e whatever its status is ...
NextOption == /\ doing' = "options"
              /\ UNCHANGED <<stack, status, value, options, info, code>>
EndOfSource == doing = "source" /\ stack = << >> /\ NextOption

\* ... and after an -I if it is OK.
EndOfInclude == /\ doing = "include" /\ stack = << >>
                /\ IF status = "OK" THEN NextOption ELSE Fails

\* -h ends with the status of the option before; --help with 0.
Help == Option /\ (Exits(status) \/ Exits("OK"))

\* status=1 is TCL_RETURN.
BadOption == Option /\ Exits("RETURN")

\* A script file or the read loop.
Script == /\ doing = "options" /\ UNCHANGED options
          /\ \/ Runs("script", Scripts \cup {Frame("repl", "read", 0)})
             \/ Missing("script")

EndOfScript == doing = "script" /\ stack = << >> /\ Exits(status)

Main == /\ \/ Source \/ EndOfSource \/ Include \/ EndOfInclude \/ Ignored
           \/ Help \/ BadOption \/ Script \/ EndOfScript
        /\ handler' = 0 /\ UNCHANGED truth /\ Followed(given)

\* Mutant: exit n forgets n.
ExitInfoKept(a) == UNCHANGED info

\* exit n leaves n in returnInfo; exit leaves what is there.
ExitInfo(a) == IF a = {} THEN UNCHANGED info ELSE info' \in a

\* An evaluator's step; one that raises an exit does so with or without n.
Evaluate == /\ Interpret
            /\ IF status = "RUN" /\ status' = "EXIT"
               THEN \E a \in Arguments : ExitInfo(a) /\ Followed(a)
               ELSE UNCHANGED info /\ Followed(given)
            /\ UNCHANGED <<doing, options, code>>

Init == /\ stack = << >> /\ status = "OK" /\ value = FALSE
        /\ truth = TRUE /\ handler = 0
        /\ doing = "options" /\ options = MaxOptions
        /\ info = 0 /\ code = 0 /\ given = {} /\ dropped = FALSE

Done == doing \in {"over", "failed"} /\ UNCHANGED <<vars, main>>

Next == Evaluate \/ Main \/ (TurnFalse /\ UNCHANGED main) \/ Done

Spec == Init /\ [][Next]_<<vars, main>>

\* One thread: the evaluator waits for nothing but a line, and main for nothing
\* but the evaluator.
FairSpec == Spec /\ WF_<<vars, main>>(Evaluate) /\ WF_<<vars, main>>(Main)

-----------------------------------------------------------------------------
(* Properties.                                                             *)

\* When main returns the status of an exit n, the code is that of n, in 8 bits,
\* whatever loops, procs and guards the exit crosses and whatever exits were
\* stopped before (returnInfo, tcl.c:36, is one for all of them).  That of a plain
\* exit is 0 (std.c:255), unless an earlier exit was stopped: its code stays in
\* returnInfo.  An exit of an included file ends the process with 1
\* (tclsh.c:124 and 140), whatever its argument.
ExitCodeKept == status = "EXIT" =>
    /\ doing = "over" => \A n \in given : code = EightBits(n)
    /\ doing = "over" /\ given = {} => code = 0 \/ dropped
    /\ doing = "failed" => code = 1

\* When no guard is true and no line is typed any more the process ends, unless
\* a for whose guard was true is in progress: no status a body, a line, a file
\* or an option returns makes anything start over (tclsh.c:92-187, repl.c:194).
ShellEnds == (~truth /\ ~value /\ ~ForGoesOn) ~> doing \in {"over", "failed"}
=============================================================================
