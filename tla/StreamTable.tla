---------------------------- MODULE StreamTable ----------------------------
(***************************************************************************)
(* What the file commands promise: each file id is open or not; opening an *)
(* open one or one that cannot be opened, and closing or using one that is *)
(* not open, are errors that change nothing, and nothing else closes a     *)
(* file.  What is printed without a file id goes to the standard output    *)
(* until that is closed.                                                   *)
(***************************************************************************)
CONSTANTS Names, Initial, Output

VARIABLES open, output, result

Succeed(s) == open' = s /\ result' = "OK"
Fail == UNCHANGED <<open, output>> /\ result' = "EXCEPTION"

Open(x) == Fail \/ (x \notin open /\ Succeed(open \cup {x}) /\ UNCHANGED output)
Close(x) == IF x \in open THEN Succeed(open \ {x}) /\ output' = (output /\ x # Output)
            ELSE Fail
Use(x) == IF x \in open THEN Succeed(open) /\ UNCHANGED output ELSE Fail
PutsStdout == IF output THEN Succeed(open) /\ UNCHANGED output ELSE Fail

Init == open = Initial /\ output = TRUE /\ result = "OK"

Next == PutsStdout \/ \E x \in Names : Open(x) \/ Close(x) \/ Use(x)

Spec == Init /\ [][Next]_<<open, output, result>>
=============================================================================
