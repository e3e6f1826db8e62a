------------------------------- MODULE Texts --------------------------------
(***************************************************************************)
(* Texts written by the rules of quoting, together with the parts they     *)
(* have by these rules, against the scanner of Splitting.                  *)
(*                                                                         *)
(*   written what is written so far                                        *)
(*   parts   its parts, and part the one that is being written             *)
(*   open    whether it ends within braces, brackets or quotes             *)
(*   plain   whether no group has an escape, and no quotes have an opening *)
(*           brace or a quote in brackets                                  *)
(***************************************************************************)
EXTENDS Splitting

CONSTANT MaxLength   \* bound: length of a text

ASSUME TextsAssumption == MaxLength \in Nat

VARIABLES written, parts, part, open, plain
texts == <<written, parts, part, open, plain>>

Ordinary == "w"
Alphabet == {Ordinary, Delimiter, Backslash, Quote, "{", "}", "[", "]"}
Escapes == {<<Backslash, c>> : c \in Alphabet}

TextsTypeOK == /\ written \in Seq(Alphabet) /\ Len(written) <= MaxLength
               /\ parts \in Seq(Seq(Alphabet)) /\ part \in Seq(Alphabet)
               /\ open \in BOOLEAN /\ plain \in BOOLEAN
               /\ Split(written) \in Seq(Seq(Alphabet) \ {<< >>})

-----------------------------------------------------------------------------
(* The rules: what is inside a group of n characters, and the groups.      *)

Then(A, B) == {p[1] \o p[2] : p \in A \X B}
Group(o, A, c) == {<<o>> \o x \o <<c>> : x \in A}

\* What n characters inside a group can be: a character or an escape and what is
\* inside then, or a group of the kind that counts there.
Content(ordinary, o, nested, c, inside, n) ==
  IF n = 0 THEN {<< >>} ELSE
     Then({<<x>> : x \in ordinary}, inside[n - 1])
     \cup (UNION {Then(Escapes, inside[k]) : k \in {n - 2} \cap Nat})
     \cup (UNION {Then(Group(o, nested[k], c), inside[n - 2 - k]) : k \in 0..(n - 2)})

\* Inside braces only braces count, inside brackets only brackets, and so inside
\* quotes.
Inside(o, c) == LET
    inside[n \in 0..MaxLength] ==
      Content(Alphabet \ {o, c, Backslash}, o, inside, c, inside, n)
    IN inside
InBraces == Inside("{", "}")
InBrackets == Inside("[", "]")
InQuotes == LET
    inside[n \in 0..MaxLength] ==
      Content(Alphabet \ {"[", "]", Quote, Backslash}, "[", InBrackets, "]", inside, n)
    IN inside

Groups == UNION {Group("{", InBraces[n], "}") \cup Group("[", InBrackets[n], "]")
                 \cup Group(Quote, InQuotes[n], Quote) : n \in 0..(MaxLength - 2)}

Unfinished == UNION {{SubSeq(g, 1, n) : n \in 1..(Len(g) - 1)} : g \in Groups}

-----------------------------------------------------------------------------
Writes(x) == /\ Len(written \o x) <= MaxLength
             /\ ~open
             /\ written' = written \o x

WriteOrdinary == /\ Writes(<<Ordinary>>)
                 /\ part' = Append(part, Ordinary)
                 /\ UNCHANGED <<parts, open, plain>>

WriteEscape == \E x \in Escapes : /\ Writes(x) /\ part' = part \o x
                                  /\ UNCHANGED <<parts, open, plain>>

WriteGroup == ~open /\ \E g \in Groups :
    /\ Writes(g) /\ part' = part \o g
    /\ plain' = (plain /\ \A i \in 2..(Len(g) - 1) :
                     g[i] # Backslash /\ (g[1] = Quote => g[i] \notin {Quote, "{"}))
    /\ UNCHANGED <<parts, open>>

\* A group that is not closed (yet): its part does not count.
WriteUnfinished == ~open /\ \E x \in Unfinished :
    /\ Writes(x) /\ part' = << >>
    /\ open' = TRUE
    /\ UNCHANGED <<parts, plain>>

WriteDelimiter == /\ Writes(<<Delimiter>>)
                  /\ parts' = IF part = << >> THEN parts ELSE Append(parts, part)
                  /\ part' = << >>
                  /\ UNCHANGED <<open, plain>>

TextsInit == /\ written = << >> /\ parts = << >> /\ part = << >>
             /\ open = FALSE /\ plain = TRUE

TextsNext == \/ WriteOrdinary \/ WriteEscape \/ WriteGroup
             \/ WriteUnfinished \/ WriteDelimiter

TextsSpec == TextsInit /\ [][TextsNext]_texts

-----------------------------------------------------------------------------
\* Whether Tcl_expand_ gets from place i of the value to place n without meeting a
\* brace, bracket or quote that is not closed by then, in quotes within it too.
\* What is in brackets is a script, and split again.
Expands(value) == LET
    expands[at \in (1..(Len(value) + 2)) \X (0..Len(value))] == LET
      i == at[1]
      n == at[2]
      matching(canEscape, c) == FindMatching(SubSeq(value, 1, n), i, canEscape, c)
      IN
      IF i > n THEN TRUE ELSE
      CASE value[i] = Backslash -> expands[<<i + 2, n>>]
        [] value[i] \in {"{", "["} ->
             LET end == matching(FALSE, IF value[i] = "{" THEN "}" ELSE "]")
             IN  end > 0 /\ expands[<<end + 1, n>>]
        [] value[i] = Quote ->
             LET end == matching(TRUE, Quote)
             IN  end > 0 /\ expands[<<i + 1, end - 1>>] /\ expands[<<end + 1, n>>]
        [] OTHER -> expands[<<i + 1, n>>]
    IN expands[<<1, Len(value)>>]

-----------------------------------------------------------------------------
(* Properties.                                                             *)

AllParts == IF part = << >> THEN parts ELSE Append(parts, part)

\* A part that ends in an escaped delimiter before a delimiter is lost
\* (tcl.c:541).
Loses(p) == Len(p) > 1 /\ Last(p) = Delimiter

\* Tcl_split finds the parts that the rules say, whatever is nested in them and
\* however many delimiters there are, but for the ones it loses.
SplitsByRules == (\A i \in 1..Len(parts) : ~Loses(parts[i])) => Split(written) = AllParts

\* The read loop asks for another line exactly if a group is open
\* (Tcl_isComplete).
CompleteByRules == IsComplete(written) = ~open

\* The expansion finds the end of every group of every part that the split has
\* found (findMatching against Tcl_split), unless a group has an escape, or
\* quotes have an opening brace or, in brackets, a quote: about these the two
\* disagree.
PartsExpand == plain => \A i \in 1..Len(AllParts) : Expands(AllParts[i])

\* A list made of any text survives its way to a text and back: two coercions
\* in a row change nothing (TclValue_coerce, TclValue_list_join_).
CoercionStable == AsList(Joined(AsList(written))) = AsList(written)
=============================================================================
