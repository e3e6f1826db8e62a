------------------------------- MODULE Labels -------------------------------
(***************************************************************************)
(* label, goto and leave (src/src/ext.c): jumps over the C stack.          *)
(*                                                                         *)
(* label saves its C frame in an object that it binds to a variable, and   *)
(* clears the object when it ends.  goto and leave take the object from    *)
(* the current namespace and longjmp: the frames above the label vanish,   *)
(* but no frame that vanishes runs its own ending, so labels in between    *)
(* are not cleared and namespaces are not popped.                          *)
(*                                                                         *)
(*   frames   the C frames, innermost last: label commands, and the        *)
(*            commands that push a namespace (procs, uplevel)              *)
(*   spaces   vm->namespace, innermost last: label objects by name         *)
(*   armed    label objects that have not been cleared                     *)
(*                                                                         *)
(*   crossed  label objects whose frame a jump has removed, and            *)
(*   carried  whether an upvar, an uplevel or an argument of a call has    *)
(*            brought a label to another namespace (history of the model   *)
(*            only)                                                        *)
(*                                                                         *)
(* A jump to a frame that is gone is undefined behaviour: no step models   *)
(* it, StaleOnlyIfCrossed says when one is possible.                       *)
(***************************************************************************)
EXTENDS Namespaces, FiniteSets, SequencesExt

CONSTANTS Objects,     \* label objects
          MaxDepth     \* bound: nesting of frames

ASSUME LabelsAssumption == NIL \notin Objects /\ MaxDepth \in Nat \ {0}

VARIABLES frames, spaces, armed, crossed, carried
vars == <<frames, spaces, armed, crossed, carried>>

Pushing == {"proc", "uplevel"}
Frames == [kind : {"label"}, label : Objects] \cup [kind : Pushing, label : {NIL}]

TypeOK == /\ frames \in Seq(Frames)
          /\ spaces \in Seq([Names -> Objects \cup {NIL}]) /\ spaces # << >>
          /\ armed \subseteq Objects
          /\ crossed \subseteq Objects /\ carried \in BOOLEAN

\* Mutant: a label is looked for like a command, in the outer namespaces too.
TargetAnywhere(x) == VariableUp(spaces, x, 0)

\* What a jump to x finds: TclStd_goto looks in the current namespace.
Target(x) == VariableUp(spaces, x, 1)

\* The frames of the label with object l: one, or none.
FramesOf(l) == {i \in 1..Len(frames) : frames[i].label = l}

Unused == {l \in Objects : /\ FramesOf(l) = {}
                           /\ \A i \in 1..Len(spaces), x \in Names : spaces[i][x] # l}

-----------------------------------------------------------------------------
Bind(x, l) == spaces' = [spaces EXCEPT ![Len(spaces)][x] = l]

Label(x, l) ==
    /\ Len(frames) < MaxDepth /\ l \in Unused
    /\ frames' = Append(frames, [kind |-> "label", label |-> l])
    /\ Bind(x, l)
    /\ armed' = armed \cup {l} /\ crossed' = crossed \ {l}
    /\ UNCHANGED carried

\* Mutant: the label stays valid.
EndLabelValid ==
    /\ frames # << >> /\ Last(frames).kind = "label"
    /\ frames' = Front(frames)
    /\ UNCHANGED <<spaces, armed, crossed, carried>>

\* The body of the label is over.
EndLabel ==
    /\ frames # << >> /\ Last(frames).kind = "label"
    /\ frames' = Front(frames)
    /\ armed' = armed \ {Last(frames).label}
    /\ UNCHANGED <<spaces, crossed, carried>>

Land(l, i) ==
    /\ l \in armed /\ i \in FramesOf(l)
    /\ crossed' = crossed \cup ({frames[j].label : j \in i + 1..Len(frames)} \ {NIL})
    /\ UNCHANGED <<spaces, carried>>

\* longjmp to a live frame: goto evaluates the body again, ...
Goto(x) == \E i \in 1..Len(frames) :
    /\ Land(Target(x), i)
    /\ frames' = SubSeq(frames, 1, i)
    /\ UNCHANGED armed

\* ... and leave ends the label.
Leave(x) == \E i \in 1..Len(frames) :
    /\ Land(Target(x), i)
    /\ frames' = SubSeq(frames, 1, i - 1)
    /\ armed' = armed \ {Target(x)}

\* The container of a label is assigned, through a variable, a parameter or a
\* result that shares it: the object is freed.
Overwrite(l) ==
    /\ l \in armed
    /\ armed' = armed \ {l}
    /\ UNCHANGED <<frames, spaces, crossed, carried>>

\* set y [set x]: y, unknown so far, shares the container of x.
SetAlias(x, y) ==
    /\ Target(x) # NIL /\ Target(y) = NIL
    /\ Bind(y, Target(x))
    /\ UNCHANGED <<frames, armed, crossed, carried>>

PushNamespace(kind, bindings) ==
    /\ Len(frames) < MaxDepth /\ Len(spaces) <= MaxDepth
    /\ frames' = Append(frames, [kind |-> kind, label |-> NIL])
    /\ spaces' = Append(spaces, bindings)
    /\ UNCHANGED <<armed, crossed>>

\* The arguments of a call: a parameter shares the container of its word, which may
\* be that of a label of the caller.
Parameters == [Names -> {Target(x) : x \in Names} \cup {NIL}]

Call(b) == PushNamespace("proc", b) /\ carried' = (carried \/ b # Unbound)
Uplevel(level) == PushNamespace("uplevel", Overlaid(spaces, level)) /\ carried' = TRUE

\* Mutants: the namespace stays, or takes the caller's with it.
PopFrame ==
    /\ frames # << >> /\ Last(frames).kind \in Pushing
    /\ frames' = Front(frames)
    /\ UNCHANGED <<spaces, armed, crossed, carried>>
PopTwice ==
    /\ frames # << >> /\ Last(frames).kind \in Pushing
    /\ frames' = Front(frames)
    /\ spaces' = Front(Front(spaces))
    /\ UNCHANGED <<armed, crossed, carried>>

\* Tcl_popNamespace at the end of a proc or uplevel: whatever is innermost.
PopNamespace ==
    /\ frames # << >> /\ Last(frames).kind \in Pushing
    /\ frames' = Front(frames)
    /\ spaces' = Front(spaces)
    /\ UNCHANGED <<armed, crossed, carried>>

\* set y [..] around it: y, unknown in the caller, gets x's label.
PopReturning(x, y) ==
    LET below == Len(spaces) - 1 IN
    /\ frames # << >> /\ Last(frames).kind \in Pushing
    /\ Target(x) # NIL /\ below > 0 /\ spaces[below][y] = NIL
    /\ frames' = Front(frames)
    /\ spaces' = [Front(spaces) EXCEPT ![below][y] = Target(x)]
    /\ UNCHANGED <<armed, crossed, carried>>

Upvar(level, x, y) ==
    /\ VariableUp(spaces, x, level) # NIL
    /\ Bind(y, VariableUp(spaces, x, level))
    /\ carried' = TRUE
    /\ UNCHANGED <<frames, armed, crossed>>

-----------------------------------------------------------------------------
Init == /\ frames = << >> /\ spaces = <<Unbound>>
        /\ armed = {} /\ crossed = {} /\ carried = FALSE

Next == \/ \E x \in Names, l \in Objects : Label(x, l)
        \/ EndLabel
        \/ \E x \in Names : Goto(x)
        \/ \E x \in Names : Leave(x)
        \/ \E l \in Objects : Overwrite(l)
        \/ \E x, y \in Names : SetAlias(x, y)
        \/ \E b \in Parameters : Call(b)
        \/ \E level \in 0..MaxDepth : Uplevel(level)
        \/ PopNamespace
        \/ \E x, y \in Names : PopReturning(x, y)
        \/ \E level \in 0..MaxDepth, x, y \in Names : Upvar(level, x, y)

Spec == Init /\ [][Next]_vars

-----------------------------------------------------------------------------
(* Properties.                                                             *)

\* The namespaces that calls in progress pushed, under the global one.
Pushed == Cardinality({i \in 1..Len(frames) : frames[i].kind \in Pushing})

\* Every namespace on the stack belongs to a proc or uplevel that still runs,
\* as long as no upvar, uplevel or argument has carried a label to another
\* namespace, and a call that runs always has its own, whatever was jumped over
\* (Tcl_popNamespace pops what is innermost).
NamespacesMatch ==
    /\ Len(spaces) >= 1 + Pushed
    /\ ~carried => Len(spaces) = 1 + Pushed

\* Until then the label a jump finds is in the proc that jumps, whatever names it
\* has and whatever calls gave back: no call ends by a jump out of it.
JumpsStayInProc ==
    ~carried => \A x \in Names : Target(x) \in armed =>
        \A i \in FramesOf(Target(x)) : \A j \in i..Len(frames) : frames[j].kind = "label"

\* A label whose command ended is never a target again, by whatever names and
\* copies it is known: only those a jump has crossed are.
StaleOnlyIfCrossed ==
    \A x \in Names : Target(x) \in armed /\ FramesOf(Target(x)) = {}
                       => Target(x) \in crossed
=============================================================================
