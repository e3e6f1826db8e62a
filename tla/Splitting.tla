----------------------------- MODULE Splitting ------------------------------
(***************************************************************************)
(* Tcl_split, Tcl_isComplete and findMatching (src/src/tcl.c), and the     *)
(* texts of list values (src/src/value.c), as functions of texts.          *)
(*                                                                         *)
(* A text is a sequence of characters, and a character is what the code    *)
(* tells apart: "d" is any delimiter of the call at hand (space, tab,      *)
(* newline, semicolon), "\\", the braces, brackets and quotes are          *)
(* themselves, and everything else is ordinary.                            *)
(***************************************************************************)
EXTENDS Integers, SequencesExt

Delimiter == "d"
Backslash == "\\"
Quote == "\""

(***************************************************************************)
(* The scanner of Tcl_split.  part is the text from last up to i, before   *)
(* the character before i, and split the parts found.                      *)
(***************************************************************************)
Start == [split |-> << >>, part |-> << >>, before |-> "",
          quoted |-> FALSE, braces |-> 0, squares |-> 0, escaped |-> FALSE]

Balanced(s) == ~s.quoted /\ s.braces = 0 /\ s.squares = 0

\* Mutant: quotes count inside of brackets.
NestedQuotes(s, c) ==
    CASE c = "{" /\ s.squares = 0 /\ ~s.quoted -> [s EXCEPT !.braces = @ + 1]
      [] c = "}" /\ s.squares = 0 /\ ~s.quoted -> [s EXCEPT !.braces = @ - 1]
      [] c = "[" /\ s.braces = 0 -> [s EXCEPT !.squares = @ + 1]
      [] c = "]" /\ s.braces = 0 -> [s EXCEPT !.squares = @ - 1]
      [] c = Quote /\ s.braces = 0 -> [s EXCEPT !.quoted = ~@]
      [] OTHER -> s

\* Brackets count in quotes, braces do not; nothing but braces counts in braces
\* and nothing but brackets in brackets.
Nested(s, c) ==
    CASE c = "{" /\ s.squares = 0 /\ ~s.quoted -> [s EXCEPT !.braces = @ + 1]
      [] c = "}" /\ s.squares = 0 /\ ~s.quoted -> [s EXCEPT !.braces = @ - 1]
      [] c = "[" /\ s.braces = 0 -> [s EXCEPT !.squares = @ + 1]
      [] c = "]" /\ s.braces = 0 -> [s EXCEPT !.squares = @ - 1]
      [] c = Quote /\ s.braces = 0 /\ s.squares = 0 -> [s EXCEPT !.quoted = ~@]
      [] OTHER -> s

\* Mutant: an empty part between two delimiters counts.
EndOfPartEmpty(s) == [s EXCEPT !.split = Append(@, s.part), !.part = << >>]

\* A delimiter outside of everything: leading ones are skipped, and so is one
\* after another, with what is between them; that is an escaped delimiter.
EndOfPart(s) == IF s.part = << >> \/ s.before = Delimiter
                THEN [s EXCEPT !.part = << >>]
                ELSE [s EXCEPT !.split = Append(@, s.part), !.part = << >>]

Scanned(s, c) ==
    LET t == IF s.escaped THEN s ELSE Nested(s, c)
        kept == [t EXCEPT !.part = Append(@, c), !.escaped = FALSE]
        next == IF s.escaped THEN kept
                ELSE IF c = Backslash THEN [kept EXCEPT !.escaped = TRUE]
                ELSE IF c = Delimiter /\ Balanced(t) THEN EndOfPart(t)
                ELSE kept
    IN  [next EXCEPT !.before = c]

Scan(text) == FoldLeft(Scanned, Start, text)

\* The last part counts if everything is closed, and is lost otherwise.
Split(text) == LET s == Scan(text)
               IN  IF Balanced(s) /\ s.part # << >> THEN Append(s.split, s.part)
                                                    ELSE s.split
IsComplete(text) == Balanced(Scan(text))

-----------------------------------------------------------------------------
(* findMatching: the place of the character that closes the one at start,  *)
(* 0 for none.  Characters skipped as escaped do not count.                *)

Skipped(text, start, canEscape) ==
    LET skips[i \in start..Len(text)] ==
            i > start + 1 /\ ~skips[i - 1] /\ text[i - 1] = Backslash
    IN  {i \in start..Len(text) : canEscape /\ (skips[i] \/ text[i] = Backslash)}

\* Mutant: what opens again is not counted.
DepthFlat(text, start, c, skipped, i) ==
    1 - Cardinality({j \in (start + 1)..i \ skipped : text[j] = c})

Depth(text, start, c, skipped, i) ==
    LET seen == (start + 1)..i \ skipped
    IN  1 + Cardinality({j \in seen : text[j] = text[start] /\ text[j] # c})
          - Cardinality({j \in seen : text[j] = c})

FindMatching(text, start, canEscape, c) ==
    LET skipped == Skipped(text, start, canEscape)
        closed == {i \in (start + 1)..Len(text) : Depth(text, start, c, skipped, i) = 0}
    IN  IF closed = {} THEN 0 ELSE CHOOSE i \in closed : \A j \in closed : i <= j

-----------------------------------------------------------------------------
(* Texts of lists: TclValue_str_esc, TclValue_str_unesc,                   *)
(* TclValue_list_join_ and the coercion of a text to a list.               *)

Escaped(text) == FlattenSeq([i \in 1..Len(text) |->
    IF text[i] \in {Delimiter, Backslash} THEN <<Backslash, text[i]>> ELSE <<text[i]>>])

\* Mutant: an escaped character goes with its backslash.
UnescapedAll(text) ==
    LET kept(i) == text[i] # Backslash /\ (i = 1 \/ text[i - 1] # Backslash)
        places == SelectSeq([i \in 1..Len(text) |-> i], kept)
    IN  [i \in 1..Len(places) |-> text[places[i]]]

\* Every backslash goes, an escaped one too.
Unescaped(text) == FlattenSeq([i \in 1..Len(text) |->
    IF text[i] = Backslash THEN << >> ELSE <<text[i]>>])

Joined(list) == FlattenSeq([i \in 1..Len(list) |->
    Escaped(list[i]) \o IF i < Len(list) THEN <<Delimiter>> ELSE << >>])

AsList(text) == Split(Unescaped(text))
=============================================================================
