-------------------------------- MODULE Line --------------------------------
(***************************************************************************)
(* What a line editor promises the read loop: a text that is typed,        *)
(* completed or recalled, goes to the reader once and whole, and is the    *)
(* newest of the lines that can be recalled.  Recalling changes no line.   *)
(***************************************************************************)
EXTENDS SequencesExt

CONSTANTS Characters,    \* what the editor can put into a text
          Delimiter,     \* what it puts behind a completion
          IsComplete(_), \* whether the reader takes a text
          EndOfFile,     \* the character that Ctrl-D leaves in a line
          Rests          \* what a completion can add

VARIABLES text, history, ended

Init == text = << >> /\ history = << >> /\ ended = FALSE

Type(c) == text' = Append(text, c) /\ UNCHANGED <<history, ended>>

Erase == text # << >> /\ text' = Front(text) /\ UNCHANGED <<history, ended>>

Complete(rest) == /\ text' = text \o rest \o <<Delimiter>>
                  /\ UNCHANGED <<history, ended>>

Recall == \E i \in DOMAIN history : text' = history[i] /\ UNCHANGED <<history, ended>>

\* The line goes to the reader, who may be at the end of the input.
Answer(line) == /\ IsComplete(line)
                /\ history' = <<line>> \o history
                /\ text' = << >> /\ ended' \in BOOLEAN

\* Ctrl-D, or the end of the input, on an empty line.
End == text = << >> /\ ended' = TRUE /\ UNCHANGED <<text, history>>

Next == /\ ~ended
        /\ \/ \E c \in Characters : Type(c)
           \/ Erase \/ Recall \/ End
           \/ \E rest \in Rests : Complete(rest)
           \/ Answer(text) \/ Answer(Append(text, EndOfFile))

Spec == Init /\ [][Next]_<<text, history, ended>>
=============================================================================
