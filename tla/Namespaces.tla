----------------------------- MODULE Namespaces -----------------------------
(***************************************************************************)
(* The stack of namespaces of an interpreter (vm->namespace, innermost     *)
(* last) as a sequence of bindings, and the lookups of src/src/tcl.c and   *)
(* std.c in it.                                                            *)
(***************************************************************************)
EXTENDS Naturals, Sequences

CONSTANTS Names, NIL

Unbound == [x \in Names |-> NIL]

Current(spaces) == spaces[Len(spaces)]

\* Tcl_getNamespace: List_rindex, 0 is the innermost.
GetNamespace(spaces, idx) ==
    IF idx < Len(spaces) THEN spaces[Len(spaces) - idx] ELSE Unbound

\* Tcl_getVariableUp: level 1 is the current namespace, 2 the one below it;
\* level 0 means the current one, then all from the outermost inwards.
VariableUp(spaces, x, level) ==
    LET having == {i \in 1..Len(spaces) : spaces[i][x] # NIL} IN
    CASE level > 0 -> GetNamespace(spaces, level - 1)[x]
      [] level = 0 /\ Current(spaces)[x] # NIL -> Current(spaces)[x]
      [] level = 0 /\ having = {} -> NIL
      [] OTHER -> spaces[CHOOSE i \in having : \A j \in having : i <= j][x]

\* What TclStd_uplevel copies before the variables of the current namespace.
UpNamespace(spaces, level) ==
    IF level = 0 THEN Unbound ELSE GetNamespace(spaces, level)

\* The namespace its script runs in.
Overlaid(spaces, level) ==
    [x \in Names |-> IF Current(spaces)[x] # NIL THEN Current(spaces)[x]
                     ELSE UpNamespace(spaces, level)[x]]
=============================================================================
