------------------------------ MODULE LineEdit ------------------------------
(***************************************************************************)
(* The line editor (lineread/src/LineRead.c) with the key handler of the   *)
(* read loop (src/src/repl.c): one action per key, from LineRead_readLine  *)
(* over the handler to the test whether the line is complete.              *)
(*                                                                         *)
(*   buf         the buffer; the text ends before its first Nul, and what  *)
(*               is behind that is left over from earlier texts            *)
(*   bufp        the cursor of LineRead; the key handler goes by strlen    *)
(*               instead, but moves bufp along                             *)
(*   history     the lines read, newest first                              *)
(*   lastHistory the one that is looked at, -1 for none                    *)
(*   mode        "reading", "ended" when the read loop has ended, "broken" *)
(*               when the code has used an index outside of the buffer or  *)
(*               an entry that is not there                                *)
(*   closed      the input has ended: every getchar returns EOF            *)
(***************************************************************************)
EXTENDS Splitting

CONSTANTS Size,        \* bound: sizeof(buf), 1024 in the code
          MaxHistory,  \* bound: lines read
          MaxSkew,     \* bound: how far bufp goes outside of the buffer
          Typed,       \* characters that are typed; the Nul of Ctrl-@ is not
          Names,       \* names of variables, for the completion
          MaxWord      \* sizeof(autoStr), 128 in the code

ASSUME LineEditAssumption ==
    /\ Size \in Nat \ {0} /\ MaxHistory \in Nat /\ MaxSkew \in Nat
    /\ MaxWord \in Nat
    /\ "0" \notin Typed
    /\ \A n \in Names : n \in Seq(Typed)

VARIABLES buf, bufp, history, lastHistory, mode, closed
vars == <<buf, bufp, history, lastHistory, mode, closed>>

Nul == "0"
EndOfFile == "e"     \* (char)EOF
Characters == Typed \cup {Delimiter, EndOfFile}
Indices == 0..(Size - 1)

\* strlen, and the text.
Length(b) == CHOOSE n \in Indices : b[n] = Nul /\ \A i \in 0..(n - 1) : b[i] # Nul
TextOf(b) == SubSeq([i \in 1..Size |-> b[i - 1]], 1, Length(b))
len == Length(buf)
text == TextOf(buf)

TypeOK == /\ buf \in [Indices -> Characters \cup {Nul}]
          /\ \E i \in Indices : buf[i] = Nul
          /\ bufp \in (-MaxSkew)..(Size + MaxSkew)
          /\ history \in Seq(Seq(Characters)) /\ Len(history) <= MaxHistory
          /\ lastHistory \in (-1)..Len(history)
          /\ mode \in {"reading", "ended", "broken"}
          /\ closed \in BOOLEAN

-----------------------------------------------------------------------------
\* Mutant: strcpy without the Nul.
CopiedOpen(b, t) == [i \in Indices |-> IF i < Len(t) THEN t[i + 1] ELSE b[i]]

\* strcpy: the bytes behind the text stay.
Copied(b, t) == [i \in Indices |-> IF i < Len(t) THEN t[i + 1]
                                   ELSE IF i = Len(t) THEN Nul ELSE b[i]]

\* The code has gone astray: what follows is undefined.
Breaks == mode' = "broken" /\ UNCHANGED <<buf, bufp, history, lastHistory, closed>>

\* The read loop returns.
Ends == mode' = "ended" /\ UNCHANGED <<buf, bufp, history, lastHistory, closed>>

Edits(b, p) == buf' = b /\ bufp' = p /\ UNCHANGED <<history, lastHistory, mode, closed>>

\* Mutant: with the newline that completes it.
AnswersNewline(b) == /\ Len(history) < MaxHistory
                     /\ history' = <<Append(TextOf(b), Delimiter)>> \o history
                     /\ lastHistory' = -1
                     /\ buf' = [b EXCEPT ![0] = Nul] /\ bufp' = 0
                     /\ mode' = IF closed THEN "ended" ELSE "reading"
                     /\ UNCHANGED closed

\* A line is complete: it goes into the history and to the evaluator, and the
\* next one is read unless the input has ended.
Answers(b) == /\ Len(history) < MaxHistory
              /\ history' = <<TextOf(b)>> \o history
              /\ lastHistory' = -1
              /\ buf' = [b EXCEPT ![0] = Nul] /\ bufp' = 0
              /\ mode' = IF closed THEN "ended" ELSE "reading"
              /\ UNCHANGED closed

Reads == mode = "reading" /\ ~closed

\* A character goes to the end of the text.
Added(c) == [buf EXCEPT ![len] = c, ![len + 1] = Nul]

Type(c) == /\ Reads
           /\ IF len + 1 \notin Indices THEN Breaks
              ELSE bufp < Size + MaxSkew /\ Edits(Added(c), bufp + 1)

\* Enter ends a complete text, and is a newline in any other.
Enter == /\ Reads
         /\ IF IsComplete(text) THEN Answers(buf)
            ELSE IF len + 1 \notin Indices THEN Breaks
            ELSE IF IsComplete(TextOf(Added(Delimiter))) THEN Answers(Added(Delimiter))
            ELSE bufp < Size + MaxSkew /\ Edits(Added(Delimiter), bufp + 1)

\* Mutant: an EOF does not complete a line.
EofAdds == CASE bufp = 0                              -> Ends
             [] bufp # 0 /\ len + 1 \notin Indices    -> Breaks
             [] OTHER -> bufp < Size + MaxSkew /\ Edits(Added(EndOfFile), bufp + 1)

\* Ctrl-D, or the end of the input.  Whether the line is empty is asked of bufp.
Eof == CASE bufp = 0                              -> Ends
         [] bufp # 0 /\ len + 1 \notin Indices    -> Breaks
         [] OTHER -> IF IsComplete(TextOf(Added(EndOfFile))) THEN Answers(Added(EndOfFile))
                     ELSE bufp < Size + MaxSkew /\ Edits(Added(EndOfFile), bufp + 1)

CtrlD == Reads /\ Eof
EndOfInput == mode = "reading" /\ closed /\ Eof
Close == /\ Reads /\ closed' = TRUE
         /\ UNCHANGED <<buf, bufp, history, lastHistory, mode>>

\* Mutant: the cursor stays.
EraseText == /\ Reads
             /\ len > 0 /\ Edits([buf EXCEPT ![len - 1] = Nul], bufp)

Erase == /\ Reads
         /\ len > 0 /\ bufp > -MaxSkew
         /\ Edits([buf EXCEPT ![len - 1] = Nul], bufp - 1)

\* The word that is completed, and the names that start with it.
Word == LET t == text
            cut == {0} \cup {i \in 1..Len(t) : t[i] = Delimiter}
        IN  SubSeq(t, 1 + CHOOSE i \in cut : \A j \in cut : j <= i, Len(t))
Matches == LET w == Word IN {n \in Names : IsPrefix(w, n)}

Rest(name, word) == SubSeq(name, Len(word) + 1, Len(name))

\* A single match: its rest goes to the end of the text, and a space and the Nul
\* to where bufp is then.
Tab == /\ Reads
       /\ Word # << >> /\ Len(Word) < MaxWord
       /\ \E n \in Matches :
            LET rest == Rest(n, Word)
                p == bufp + Len(rest)
                b == [i \in Indices |-> IF i \in len..(len + Len(rest) - 1)
                                        THEN rest[i - len + 1] ELSE buf[i]]
                c == [b EXCEPT ![p] = Delimiter, ![p + 1] = Nul]
            IN  /\ Matches = {n}
                /\ IF {p, p + 1, len + Len(rest)} \subseteq Indices
                   THEN Edits(c, p + 1) ELSE Breaks

\* The arrows: the entry that is looked at moves, and is copied into the buffer.
Looks(n) == /\ lastHistory' = n
            /\ UNCHANGED <<bufp, history, closed>>
            /\ CASE history = << >> \/ n >= Len(history) -> UNCHANGED <<buf, mode>>
                 [] history # << >> /\ n < 0             -> mode' = "broken" /\ UNCHANGED buf
                 [] OTHER -> buf' = Copied(buf, history[n + 1]) /\ UNCHANGED mode

\* Mutant: one too far.
UpFar == Reads /\ Looks(IF lastHistory <= Len(history) THEN lastHistory + 1 ELSE lastHistory)

Up == Reads /\ Looks(IF lastHistory <= Len(history) - 1 THEN lastHistory + 1 ELSE lastHistory)

Down == Reads /\ Looks(IF lastHistory > 0 THEN lastHistory - 1 ELSE lastHistory)

\* The buffer is not initialised; bound: whatever it holds, it holds everywhere.
Init == /\ \E c \in Characters \cup {Nul} : buf = [i \in Indices |-> IF i = 0 THEN Nul ELSE c]
        /\ bufp = 0
        /\ history = << >> /\ lastHistory = -1
        /\ mode = "reading" /\ closed = FALSE

Next == \/ \E c \in Typed : Type(c)
        \/ Enter \/ CtrlD \/ EndOfInput \/ Close
        \/ Erase \/ Tab \/ Up \/ Down

Spec == Init /\ [][Next]_vars

\* At the end of its input getchar returns at once.  This is weak fairness of
\* EndOfInput, but for where one of the bounds stops it.
Waits == mode = "reading" /\ closed /\ Len(history) < MaxHistory /\ bufp < Size + MaxSkew
FairSpec == Spec /\ ([]<>~Waits \/ []<><<EndOfInput>>_vars)
-----------------------------------------------------------------------------
(* Properties.                                                             *)

Recalled == lastHistory # -1 /\ history # << >>

\* As long as no entry of the history has been looked at, the cursor of LineRead
\* is where the key handler takes the end of the text to be (LineRead.c:150,
\* repl.c:88-112): the two keep account of it separately.
CursorAtEnd == mode = "reading" /\ ~Recalled => bufp = len

\* From a text whose cursor is at its end every key does to the text and the
\* history what Line promises: nothing else is lost, added or changed, whatever
\* earlier texts have left in the buffer.
L == INSTANCE Line WITH ended <- mode = "ended",
        Rests <- {SubSeq(n, i, Len(n)) : n \in Names, i \in 1..(Size + 1)}
IsLine == L!Init /\ [][bufp = len => L!Next]_<<text, history, mode = "ended">>

\* Every line of the history is one that the evaluator takes and has room in the
\* buffer with its Nul, wherever recalls have left the cursor: an arrow copies it
\* back by a strcpy that knows no length (LineRead.c:131).
LinesFit == \A i \in 1..Len(history) : Len(history[i]) < Size /\ IsComplete(history[i])

\* When the input ends in a complete text, the read loop ends (LineRead.c:146,
\* repl.c:124).
EofAnswers ==
    (/\ mode = "reading" /\ closed /\ bufp = len /\ IsComplete(text)
     /\ len < Size - 1 /\ Len(history) < MaxHistory) ~> mode = "ended"
=============================================================================
