----------------------------- MODULE TextProofs -----------------------------
(***************************************************************************)
(* Proofs about the scanner of Splitting and what is built on it.          *)
(* Texts: the split and the completeness of a text are what the rules of   *)
(* quoting say, the expansion finds the ends that the split has found, and *)
(* coercing twice is coercing once, for texts of any length.  LineEdit:    *)
(* the cursor, the bounds of the buffer, and that every key does what Line *)
(* promises, for a buffer of any size, any characters and names, and any   *)
(* number of lines.                                                        *)
(***************************************************************************)
EXTENDS LineEdit, Texts, SequenceTheorems, FiniteSetTheorems, TLAPS

-----------------------------------------------------------------------------
(* Least and greatest numbers.                                             *)

\* The least element of a set of natural numbers, by the least of the finite
\* sets 0..x.
LEMMA LeastElement ==
    ASSUME NEW T, T \subseteq Nat, T # {}
    PROVE  \E x \in T : \A y \in T : x <= y
<1> DEFINE U == {0..x : x \in T}
           R == StrictSubsetOrdering(Nat)
<1>1. IsWellFoundedOn(R, FiniteSubsetsOf(Nat))
  BY FS_StrictSubsetOrderingWellFounded
<1>2. U \subseteq FiniteSubsetsOf(Nat) /\ U # {}
  <2>1. \A x \in T : 0..x \in SUBSET Nat /\ IsFiniteSet(0..x)
    BY FS_Interval
  <2> QED BY <2>1 DEF FiniteSubsetsOf
<1>3. PICK u \in U : \A v \in U : ~ (<<v, u>> \in R)
  <2> HIDE DEF U, R
  <2> QED BY <1>1, <1>2, WFMin, Zenon
<1>4. PICK x \in T : u = 0..x
  OBVIOUS
<1>5. ASSUME NEW y \in T, y < x PROVE FALSE
  <2>1. 0..y \subseteq 0..x /\ x \in 0..x /\ x \notin 0..y /\ 0..x \subseteq Nat
    BY <1>5
  <2>2. 0..y \in U /\ <<0..y, 0..x>> \in R
    BY <2>1 DEF StrictSubsetOrdering
  <2> QED BY <2>2, <1>3, <1>4
<1> QED BY <1>5

LEMMA GreatestElement ==
    ASSUME NEW k \in Nat, NEW S, S \subseteq 0..k, S # {}
    PROVE  Max(S) \in S /\ \A i \in S : i <= Max(S)
<1> DEFINE T == {k - i : i \in S}
<1>1. T \subseteq Nat /\ T # {}
  <2>1. \A i \in S : k - i \in Nat
    OBVIOUS
  <2> QED BY <2>1
<1>2. PICK x \in T : \A y \in T : x <= y
  <2> HIDE DEF T
  <2> QED BY <1>1, LeastElement
<1>3. PICK m \in S : x = k - m
  OBVIOUS
<1>4. ASSUME NEW i \in S PROVE m >= i
  <2>1. k - i \in T
    OBVIOUS
  <2>2. k - m <= k - i
    BY <2>1, <1>2, <1>3
  <2> QED BY <2>2
<1>5. Max(S) \in S /\ \A i \in S : Max(S) >= i
  BY <1>4 DEF Max
<1> QED BY <1>5

-----------------------------------------------------------------------------
(* The scan of a text, one character at a time.                            *)

\* f is the function over sets of places that the scan of t is defined by.
ScanStep(f, t, s) == IF s = {} THEN Start ELSE Scanned(f[s \ {Max(s)}], t[Max(s)])
ScansBy(f, t) == f = [s \in SUBSET DOMAIN t |-> ScanStep(f, t, s)]

LEMMA ScanIs ==
    ASSUME NEW t PROVE Scan(t) = (CHOOSE f : ScansBy(f, t))[DOMAIN t]
  BY Zenon DEF Scan, FoldLeft, MapThenFoldSet, ScansBy, ScanStep

LEMMA ScanExists ==
    ASSUME NEW S, NEW t \in Seq(S)
    PROVE  \E f : ScansBy(f, t)
<1> DEFINE D == SUBSET DOMAIN t
           Good(f, k) == /\ f = [s \in D |-> f[s]]
                         /\ \A s \in D : s \subseteq 1..k => f[s] = ScanStep(f, t, s)
           T == {k \in Nat : ~ \E f : Good(f, k)}
<1>1. Len(t) \in Nat /\ DOMAIN t = 1..Len(t)
  OBVIOUS
<1>2. \E f : Good(f, 0)
  <2> DEFINE f0 == [s \in D |-> Start]
  <2>1. ASSUME NEW s \in D, s \subseteq 1..0 PROVE f0[s] = ScanStep(f0, t, s)
    <3>1. s = {}
      BY <2>1
    <3> QED BY <3>1 DEF ScanStep
  <2>2. f0 = [s \in D |-> f0[s]]
    OBVIOUS
  <2> QED BY <2>1, <2>2
<1>3. ASSUME NEW k \in Nat, NEW f, Good(f, k) PROVE \E g : Good(g, k + 1)
  <2> DEFINE g == [s \in D |-> IF s \subseteq 1..k THEN f[s] ELSE ScanStep(f, t, s)]
  <2>1. ASSUME NEW s \in D, s \subseteq 1..(k + 1) PROVE g[s] = ScanStep(g, t, s)
    <3>1. CASE s = {}
      <4>1. s \subseteq 1..k
        BY <3>1
      <4>2. g[s] = f[s] /\ f[s] = ScanStep(f, t, s)
        BY <4>1, <1>3
      <4> QED BY <4>2, <3>1 DEF ScanStep
    <3>2. CASE s # {}
      <4> DEFINE r == s \ {Max(s)}
      <4>1. Max(s) \in s /\ \A i \in s : i <= Max(s)
        BY <2>1, <3>2, GreatestElement, k + 1 \in Nat, 1..(k + 1) \subseteq 0..(k + 1)
      <4>2. r \subseteq 1..k /\ r \in D
        BY <2>1, <4>1
      <4>3. g[r] = f[r]
        BY <4>2
      <4>4. g[s] = ScanStep(f, t, s)
        BY <1>3
      <4> QED BY <4>3, <4>4, <3>2 DEF ScanStep
    <3> QED BY <3>1, <3>2
  <2>2. g = [s \in D |-> g[s]]
    OBVIOUS
  <2> QED BY <2>1, <2>2
<1>4. T = {}
  <2> SUFFICES ASSUME T # {} PROVE FALSE
    OBVIOUS
  <2>1. T \subseteq Nat
    OBVIOUS
  <2>2. PICK k \in T : \A j \in T : k <= j
    <3> HIDE DEF T
    <3> QED BY <2>1, LeastElement
  <2>3. k \in Nat /\ ~ \E f : Good(f, k)
    OBVIOUS
  <2>4. k # 0
    <3> HIDE DEF Good
    <3> QED BY <2>3, <1>2
  <2>5. k - 1 \in Nat /\ k - 1 \notin T
    <3>1. k - 1 \in Nat /\ ~(k <= k - 1)
      BY <2>3, <2>4
    <3> HIDE DEF T
    <3> QED BY <2>2, <3>1
  <2>6. PICK f : Good(f, k - 1)
    BY <2>5
  <2>7. \E g : Good(g, (k - 1) + 1)
    <3> HIDE DEF Good
    <3> QED BY <2>5, <2>6, <1>3
  <2>8. (k - 1) + 1 = k
    BY <2>3
  <2> HIDE DEF Good
  <2> QED BY <2>3, <2>7, <2>8
<1>5. PICK f : Good(f, Len(t))
  BY <1>1, <1>4
<1>6. \A s \in D : f[s] = ScanStep(f, t, s)
  BY <1>1, <1>5
<1> QED BY <1>5, <1>6 DEF ScansBy

LEMMA ScanSteps ==
    ASSUME NEW S, NEW t \in Seq(S), NEW c \in S
    PROVE  Scan(Append(t, c)) = Scanned(Scan(t), c)
<1> DEFINE n == Len(t)
           u == Append(t, c)
           f == CHOOSE h : ScansBy(h, t)
           g == CHOOSE h : ScansBy(h, u)
           T == {k \in 0..n : f[1..k] # g[1..k]}
<1>1. n \in Nat /\ u \in Seq(S) /\ Len(u) = n + 1 /\ u[n + 1] = c
      /\ DOMAIN t = 1..n /\ DOMAIN u = 1..(n + 1) /\ \A i \in 1..n : u[i] = t[i]
  OBVIOUS
<1> HIDE DEF n, u
<1>2. ScansBy(f, t) /\ ScansBy(g, u)
  BY <1>1, ScanExists
<1>3. Scan(t) = f[1..n] /\ Scan(u) = g[1..(n + 1)]
  BY <1>1, ScanIs
<1> HIDE DEF f, g
<1>4. /\ \A s \in SUBSET (1..n) : f[s] = ScanStep(f, t, s)
      /\ \A s \in SUBSET (1..(n + 1)) : g[s] = ScanStep(g, u, s)
  BY <1>1, <1>2 DEF ScansBy
<1>5. ASSUME NEW k \in Nat, k # 0, NEW h, NEW v
      PROVE  ScanStep(h, v, 1..k) = Scanned(h[1..(k - 1)], v[k])
  <2>0. k \in 1..k /\ 1..k \subseteq 0..k
    BY <1>5
  <2>1. 1..k # {} /\ 1..k \subseteq 0..k
    BY <2>0
  <2>2. Max(1..k) \in 1..k /\ \A i \in 1..k : i <= Max(1..k)
    BY <2>1, GreatestElement
  <2>3. Max(1..k) = k
    BY <2>1, <2>2
  <2>4. (1..k) \ {k} = 1..(k - 1)
    BY <1>5
  <2> QED BY <2>1, <2>3, <2>4, Zenon DEF ScanStep
<1>6. T = {}
  <2> SUFFICES ASSUME T # {} PROVE FALSE
    OBVIOUS
  <2>1. T \subseteq Nat
    OBVIOUS
  <2>2. PICK k \in T : \A j \in T : k <= j
    <3> HIDE DEF T
    <3> QED BY <2>1, LeastElement
  <2>3. k \in 0..n /\ f[1..k] # g[1..k]
    OBVIOUS
  <2>4. k # 0
    <3>1. f[{}] = Start /\ g[{}] = Start
      BY <1>4 DEF ScanStep
    <3>2. 1..0 = {}
      OBVIOUS
    <3> QED BY <2>3, <3>1, <3>2
  <2>5. k \in 1..n /\ k - 1 \in 0..n /\ k - 1 \notin T
    BY <2>2, <2>3, <2>4, <1>1
  <2>6. f[1..(k - 1)] = g[1..(k - 1)]
    BY <2>5
  <2>7. f[1..k] = Scanned(f[1..(k - 1)], t[k])
    <3>1. 1..k \in SUBSET (1..n) /\ k \in Nat
      BY <2>5, <1>1
    <3>2. f[1..k] = ScanStep(f, t, 1..k)
      BY <3>1, <1>4
    <3> QED BY <3>1, <3>2, <1>5, <2>4
  <2>8. g[1..k] = Scanned(g[1..(k - 1)], u[k])
    <3>1. 1..k \in SUBSET (1..(n + 1)) /\ k \in Nat
      BY <2>5, <1>1
    <3>2. g[1..k] = ScanStep(g, u, 1..k)
      BY <3>1, <1>4
    <3> QED BY <3>1, <3>2, <1>5, <2>4
  <2>9. u[k] = t[k]
    BY <1>1, <2>5
  <2> QED BY <2>3, <2>6, <2>7, <2>8, <2>9
<1>7. f[1..n] = g[1..n]
  BY <1>1, <1>6
<1>8. g[1..(n + 1)] = Scanned(g[1..n], u[n + 1])
  <2>1. n + 1 \in Nat /\ n + 1 # 0 /\ (n + 1) - 1 = n /\ 1..(n + 1) \in SUBSET (1..(n + 1))
    BY <1>1
  <2> QED BY <2>1, <1>4, <1>5
<1> QED BY <1>1, <1>3, <1>7, <1>8 DEF n, u

\* What a scan is at: a record with these fields.
Fields == {"split", "part", "before", "quoted", "braces", "squares", "escaped"}
IsState(s) == DOMAIN s = Fields
SameBalance(s, t) == s.quoted = t.quoted /\ s.braces = t.braces /\ s.squares = t.squares

LEMMA KeptFacts ==
    ASSUME NEW s, IsState(s), NEW c, NEW v
    PROVE  /\ IsState([s EXCEPT !.part = Append(@, c), !.escaped = FALSE])
           /\ SameBalance([s EXCEPT !.part = Append(@, c), !.escaped = FALSE], s)
           /\ IsState([s EXCEPT !.escaped = TRUE]) /\ SameBalance([s EXCEPT !.escaped = TRUE], s)
           /\ IsState([s EXCEPT !.before = v]) /\ SameBalance([s EXCEPT !.before = v], s)
  BY DEF IsState, Fields, SameBalance

LEMMA EndOfPartFacts ==
    ASSUME NEW s, IsState(s) PROVE IsState(EndOfPart(s)) /\ SameBalance(EndOfPart(s), s)
<1>1. CASE EndOfPart(s) = [s EXCEPT !.part = << >>]
  BY <1>1 DEF IsState, Fields, SameBalance
<1>2. CASE EndOfPart(s) = [s EXCEPT !.split = Append(@, s.part), !.part = << >>]
  BY <1>2 DEF IsState, Fields, SameBalance
<1> QED BY <1>1, <1>2 DEF EndOfPart

LEMMA ScannedFacts ==
    ASSUME NEW s, IsState(s), NEW c
    PROVE  /\ IsState(Scanned(s, c))
           /\ c = Delimiter => SameBalance(Scanned(s, c), s)
<1> DEFINE t == IF s.escaped THEN s ELSE Nested(s, c)
           kept == [t EXCEPT !.part = Append(@, c), !.escaped = FALSE]
           next == IF s.escaped THEN kept
                   ELSE IF c = Backslash THEN [kept EXCEPT !.escaped = TRUE]
                   ELSE IF c = Delimiter /\ Balanced(t) THEN EndOfPart(t)
                   ELSE kept
<1>1. IsState(t) /\ (c = Delimiter => t = s)
  <2>1. IsState(Nested(s, c))
    BY DEF Nested, IsState
  <2>2. c = Delimiter => Nested(s, c) = s
    BY DEF Nested, Delimiter, Quote
  <2> QED BY <2>1, <2>2
<1>2. Scanned(s, c) = [next EXCEPT !.before = c]
  BY Zenon DEF Scanned
<1> HIDE DEF t
<1>3. IsState(kept) /\ SameBalance(kept, t)
  BY <1>1, KeptFacts
<1> HIDE DEF kept
<1>4. IsState(next) /\ SameBalance(next, t)
  <2>1. /\ IsState([kept EXCEPT !.escaped = TRUE])
        /\ SameBalance([kept EXCEPT !.escaped = TRUE], t)
    BY <1>3, KeptFacts DEF SameBalance
  <2>2. IsState(EndOfPart(t)) /\ SameBalance(EndOfPart(t), t)
    BY <1>1, EndOfPartFacts
  <2> QED BY <1>3, <2>1, <2>2
<1> HIDE DEF next
<1>5. IsState(Scanned(s, c)) /\ SameBalance(Scanned(s, c), t)
  <2>1. IsState([next EXCEPT !.before = c]) /\ SameBalance([next EXCEPT !.before = c], next)
    BY <1>4, KeptFacts
  <2>2. IsState(Scanned(s, c)) /\ SameBalance(Scanned(s, c), next)
    BY <1>2, <2>1, Zenon
  <2> QED BY <1>4, <2>2, Zenon DEF SameBalance
<1> QED BY <1>1, <1>5

LEMMA ScanState ==
    ASSUME NEW S, NEW t \in Seq(S) PROVE IsState(Scan(t))
<1> DEFINE T == {k \in Nat : \E v \in Seq(S) : Len(v) = k /\ ~ IsState(Scan(v))}
<1>1. ASSUME NEW v \in Seq(S), Len(v) = 0 PROVE IsState(Scan(v))
  <2>1. DOMAIN v = {}
    BY <1>1
  <2>2. PICK f : ScansBy(f, v)
    BY ScanExists
  <2>3. Scan(v) = (CHOOSE h : ScansBy(h, v))[{}] /\ ScansBy(CHOOSE h : ScansBy(h, v), v)
    BY <2>1, <2>2, ScanIs
  <2>4. Scan(v) = Start
    BY <2>1, <2>3 DEF ScansBy, ScanStep
  <2> QED BY <2>4 DEF Start, IsState, Fields
<1>2. T = {}
  <2> SUFFICES ASSUME T # {} PROVE FALSE
    OBVIOUS
  <2>1. T \subseteq Nat
    OBVIOUS
  <2>2. PICK k \in T : \A j \in T : k <= j
    <3> HIDE DEF T
    <3> QED BY <2>1, LeastElement
  <2>3. PICK v \in Seq(S) : Len(v) = k /\ ~ IsState(Scan(v))
    OBVIOUS
  <2>4. v # << >> /\ k # 0 /\ k \in Nat
    BY <1>1, <2>3
  <2>5. PICK u \in Seq(S), c \in S : v = Append(u, c)
    BY <2>4, SequenceEmptyOrAppend
  <2>6. k - 1 \in Nat /\ ~(k <= k - 1) /\ Len(u) = k - 1
    BY <2>3, <2>4, <2>5, AppendProperties
  <2>7. IsState(Scan(u))
    <3>1. k - 1 \notin T
      <4> HIDE DEF T
      <4> QED BY <2>2, <2>6
    <3> QED BY <2>6, <3>1
  <2> QED BY <2>3, <2>5, <2>7, ScanSteps, ScannedFacts
<1> QED BY <1>2

-----------------------------------------------------------------------------
(* What one character does to the scan.                                    *)

States == [split : Seq(Seq(Alphabet) \ {<< >>}), part : Seq(Alphabet), before : Alphabet \cup {""},
           quoted : BOOLEAN, braces : Int, squares : Int, escaped : BOOLEAN]

LEMMA AlphabetFacts ==
    /\ Ordinary \in Alphabet /\ Delimiter \in Alphabet /\ Backslash \in Alphabet /\ Quote \in Alphabet
    /\ "{" \in Alphabet /\ "}" \in Alphabet /\ "[" \in Alphabet /\ "]" \in Alphabet
    /\ Delimiter \notin {Ordinary, Backslash, Quote, "{", "}", "[", "]"}
    /\ Backslash \notin {Ordinary, Quote, "{", "}", "[", "]"}
    /\ Quote \notin {Ordinary, "{", "}", "[", "]"}
    /\ Ordinary \notin {"{", "}", "[", "]"}
    /\ "{" # "}" /\ "[" # "]" /\ {"{", "}"} \cap {"[", "]"} = {}
  BY DEF Alphabet, Ordinary, Delimiter, Backslash, Quote

\* The SMT backend cannot read the strings of the two braces.
OpenBrace == "{"
CloseBrace == "}"

LEMMA BraceFacts ==
    /\ OpenBrace \in Alphabet /\ CloseBrace \in Alphabet /\ OpenBrace # CloseBrace
    /\ OpenBrace \notin {"[", "]", Quote, Delimiter, Backslash}
    /\ CloseBrace \notin {"[", "]", Quote, Delimiter, Backslash}
  BY AlphabetFacts, Zenon DEF OpenBrace, CloseBrace

\* One field of a state after another.
LEMMA BracesSet ==
    ASSUME NEW s \in States, NEW n \in Int
    PROVE  LET u == [s EXCEPT !.braces = n]
           IN  /\ u \in States /\ u.split = s.split /\ u.part = s.part /\ u.before = s.before
               /\ u.quoted = s.quoted /\ u.braces = n /\ u.squares = s.squares /\ u.escaped = s.escaped
  BY Zenon DEF States

LEMMA SquaresSet ==
    ASSUME NEW s \in States, NEW n \in Int
    PROVE  LET u == [s EXCEPT !.squares = n]
           IN  /\ u \in States /\ u.split = s.split /\ u.part = s.part /\ u.before = s.before
               /\ u.quoted = s.quoted /\ u.braces = s.braces /\ u.squares = n /\ u.escaped = s.escaped
  BY Zenon DEF States

LEMMA QuotedSet ==
    ASSUME NEW s \in States
    PROVE  LET u == [s EXCEPT !.quoted = ~s.quoted]
           IN  /\ u \in States /\ u.split = s.split /\ u.part = s.part /\ u.before = s.before
               /\ (u.quoted <=> ~s.quoted) /\ u.braces = s.braces /\ u.squares = s.squares /\ u.escaped = s.escaped
  BY Zenon DEF States

LEMMA EscapedSet ==
    ASSUME NEW s \in States
    PROVE  LET u == [s EXCEPT !.escaped = TRUE]
           IN  /\ u \in States /\ u.split = s.split /\ u.part = s.part /\ u.before = s.before
               /\ u.quoted = s.quoted /\ u.braces = s.braces /\ u.squares = s.squares /\ u.escaped
  BY Zenon DEF States

LEMMA BeforeSet ==
    ASSUME NEW s \in States, NEW c \in Alphabet
    PROVE  LET u == [s EXCEPT !.before = c]
           IN  /\ u \in States /\ u.split = s.split /\ u.part = s.part /\ u.before = c
               /\ u.quoted = s.quoted /\ u.braces = s.braces /\ u.squares = s.squares /\ u.escaped = s.escaped
  BY Zenon DEF States

LEMMA PartSet ==
    ASSUME NEW s \in States, NEW p \in Seq(Alphabet)
    PROVE  LET u == [s EXCEPT !.part = p]
           IN  /\ u \in States /\ u.split = s.split /\ u.part = p /\ u.before = s.before
               /\ u.quoted = s.quoted /\ u.braces = s.braces /\ u.squares = s.squares /\ u.escaped = s.escaped
  BY Zenon DEF States

LEMMA KeptSet ==
    ASSUME NEW s \in States, NEW p \in Seq(Alphabet)
    PROVE  LET u == [s EXCEPT !.part = p, !.escaped = FALSE]
           IN  /\ u \in States /\ u.split = s.split /\ u.part = p /\ u.before = s.before
               /\ u.quoted = s.quoted /\ u.braces = s.braces /\ u.squares = s.squares /\ ~u.escaped
  BY Zenon DEF States

LEMMA StateTypes ==
    ASSUME NEW s \in States
    PROVE  /\ s.split \in Seq(Seq(Alphabet) \ {<< >>}) /\ s.part \in Seq(Alphabet)
           /\ s.before \in Alphabet \cup {""} /\ s.quoted \in BOOLEAN /\ s.escaped \in BOOLEAN
           /\ s.braces \in Int /\ s.squares \in Int
  BY Zenon DEF States

\* What a character that is not escaped does to the balance.
LEMMA NestedFacts ==
    ASSUME NEW s \in States, NEW c \in Alphabet
    PROVE  LET u == Nested(s, c)
           IN  /\ u \in States /\ u.split = s.split /\ u.part = s.part /\ u.before = s.before
               /\ u.escaped = s.escaped
               /\ s.squares # 0 \/ s.quoted \/ c \notin {"{", "}"} => u.braces = s.braces
               /\ s.squares = 0 /\ ~s.quoted /\ c = "{" => u.braces = s.braces + 1
               /\ s.squares = 0 /\ ~s.quoted /\ c = "}" => u.braces = s.braces - 1
               /\ s.braces # 0 \/ c \notin {"[", "]"} => u.squares = s.squares
               /\ s.braces = 0 /\ c = "[" => u.squares = s.squares + 1
               /\ s.braces = 0 /\ c = "]" => u.squares = s.squares - 1
               /\ s.braces # 0 \/ s.squares # 0 \/ c # Quote => u.quoted = s.quoted
               /\ s.braces = 0 /\ s.squares = 0 /\ c = Quote => (u.quoted <=> ~s.quoted)
<1>0. /\ s.braces \in Int /\ s.squares \in Int /\ s.quoted \in BOOLEAN
      /\ s.braces + 1 \in Int /\ s.braces - 1 \in Int /\ s.squares + 1 \in Int /\ s.squares - 1 \in Int
  <2>1. s.braces \in Int /\ s.squares \in Int /\ s.quoted \in BOOLEAN
    BY StateTypes
  <2> QED BY <2>1
<1>1. CASE c = "{" /\ s.squares = 0 /\ ~s.quoted
  <2>1. Nested(s, c) = [s EXCEPT !.braces = s.braces + 1]
    BY <1>1, AlphabetFacts DEF Nested
  <2>2. LET u == Nested(s, c)
        IN  /\ u \in States /\ u.split = s.split /\ u.part = s.part /\ u.before = s.before
            /\ u.escaped = s.escaped /\ u.braces = s.braces + 1
            /\ u.quoted = s.quoted /\ u.squares = s.squares
    BY <1>0, <2>1, BracesSet
  <2> QED BY <1>1, <2>2, AlphabetFacts
<1>2. CASE c = "}" /\ s.squares = 0 /\ ~s.quoted
  <2>1. Nested(s, c) = [s EXCEPT !.braces = s.braces - 1]
    BY <1>2, AlphabetFacts DEF Nested
  <2>2. LET u == Nested(s, c)
        IN  /\ u \in States /\ u.split = s.split /\ u.part = s.part /\ u.before = s.before
            /\ u.escaped = s.escaped /\ u.braces = s.braces - 1
            /\ u.quoted = s.quoted /\ u.squares = s.squares
    BY <1>0, <2>1, BracesSet
  <2> QED BY <1>2, <2>2, AlphabetFacts
<1>3. CASE c = "[" /\ s.braces = 0
  <2>1. Nested(s, c) = [s EXCEPT !.squares = s.squares + 1]
    BY <1>3, AlphabetFacts DEF Nested
  <2>2. LET u == Nested(s, c)
        IN  /\ u \in States /\ u.split = s.split /\ u.part = s.part /\ u.before = s.before
            /\ u.escaped = s.escaped /\ u.squares = s.squares + 1
            /\ u.quoted = s.quoted /\ u.braces = s.braces
    BY <1>0, <2>1, SquaresSet
  <2> QED BY <1>3, <2>2, AlphabetFacts
<1>4. CASE c = "]" /\ s.braces = 0
  <2>1. Nested(s, c) = [s EXCEPT !.squares = s.squares - 1]
    BY <1>4, AlphabetFacts DEF Nested
  <2>2. LET u == Nested(s, c)
        IN  /\ u \in States /\ u.split = s.split /\ u.part = s.part /\ u.before = s.before
            /\ u.escaped = s.escaped /\ u.squares = s.squares - 1
            /\ u.quoted = s.quoted /\ u.braces = s.braces
    BY <1>0, <2>1, SquaresSet
  <2> QED BY <1>4, <2>2, AlphabetFacts
<1>5. CASE c = Quote /\ s.braces = 0 /\ s.squares = 0
  <2>1. Nested(s, c) = [s EXCEPT !.quoted = ~s.quoted]
    BY <1>5, AlphabetFacts DEF Nested
  <2>2. LET u == Nested(s, c)
        IN  /\ u \in States /\ u.split = s.split /\ u.part = s.part /\ u.before = s.before
            /\ u.escaped = s.escaped /\ (u.quoted <=> ~s.quoted)
            /\ u.braces = s.braces /\ u.squares = s.squares
    BY <1>0, <2>1, QuotedSet
  <2> QED BY <1>5, <2>2, AlphabetFacts
<1>6. CASE /\ ~(c = "{" /\ s.squares = 0 /\ ~s.quoted) /\ ~(c = "}" /\ s.squares = 0 /\ ~s.quoted)
           /\ ~(c = "[" /\ s.braces = 0) /\ ~(c = "]" /\ s.braces = 0)
           /\ ~(c = Quote /\ s.braces = 0 /\ s.squares = 0)
  <2>1. Nested(s, c) = s
    BY <1>6 DEF Nested
  <2> QED BY <1>6, <2>1, AlphabetFacts
<1> QED BY <1>1, <1>2, <1>3, <1>4, <1>5, <1>6

LEMMA NestedCounts ==
    ASSUME NEW s \in States, NEW c \in Alphabet
    PROVE  LET u == Nested(s, c)
           IN  /\ u \in States /\ u.split = s.split /\ u.part = s.part /\ u.before = s.before
               /\ u.escaped = s.escaped
               /\ s.squares # 0 \/ s.quoted \/ c \notin {OpenBrace, CloseBrace} => u.braces = s.braces
               /\ s.squares = 0 /\ ~s.quoted /\ c = OpenBrace => u.braces = s.braces + 1
               /\ s.squares = 0 /\ ~s.quoted /\ c = CloseBrace => u.braces = s.braces - 1
               /\ s.braces # 0 \/ c \notin {"[", "]"} => u.squares = s.squares
               /\ s.braces = 0 /\ c = "[" => u.squares = s.squares + 1
               /\ s.braces = 0 /\ c = "]" => u.squares = s.squares - 1
               /\ s.braces # 0 \/ s.squares # 0 \/ c # Quote => u.quoted = s.quoted
               /\ s.braces = 0 /\ s.squares = 0 /\ c = Quote => (u.quoted <=> ~s.quoted)
  BY NestedFacts, Zenon DEF OpenBrace, CloseBrace

EndsPart(s, c) == c = Delimiter /\ ~s.escaped /\ Balanced(s)

LEMMA EndOfPartIs ==
    ASSUME NEW s \in States
    PROVE  /\ EndOfPart(s) \in States /\ EndOfPart(s).part = << >> /\ SameBalance(EndOfPart(s), s)
           /\ EndOfPart(s).escaped = s.escaped
           /\ s.part = << >> \/ s.before = Delimiter => EndOfPart(s).split = s.split
           /\ s.part # << >> /\ s.before # Delimiter => EndOfPart(s).split = Append(s.split, s.part)
<1> DEFINE u == EndOfPart(s)
<1>1. << >> \in Seq(Alphabet)
  OBVIOUS
<1>2. CASE s.part = << >> \/ s.before = Delimiter
  <2>1. u = [s EXCEPT !.part = << >>]
    BY <1>2 DEF EndOfPart
  <2> HIDE DEF u
  <2>2. /\ u \in States /\ u.split = s.split /\ u.part = << >> /\ u.escaped = s.escaped
        /\ u.quoted = s.quoted /\ u.braces = s.braces /\ u.squares = s.squares
    BY <1>1, <2>1, PartSet
  <2> QED BY <1>2, <2>2 DEF u, SameBalance
<1>3. CASE ~(s.part = << >> \/ s.before = Delimiter)
  <2> DEFINE l == Append(s.split, s.part)
             p == << >>
  <2>1. u = [s EXCEPT !.split = l, !.part = p]
    BY <1>3 DEF EndOfPart
  <2>0. p \in Seq(Alphabet)
    OBVIOUS
  <2>2. l \in Seq(Seq(Alphabet) \ {<< >>})
    BY <1>3, StateTypes, AppendProperties
  <2> HIDE DEF u, l, p
  <2>3. /\ u \in States /\ u.split = l /\ u.part = p /\ u.escaped = s.escaped
        /\ u.quoted = s.quoted /\ u.braces = s.braces /\ u.squares = s.squares
    BY <2>0, <2>1, <2>2, Zenon DEF States
  <2> QED BY <1>3, <2>3 DEF u, l, p, SameBalance
<1> QED BY <1>2, <1>3

LEMMA ScannedNext ==
    ASSUME NEW s \in States, NEW c \in Alphabet
    PROVE  LET u == Scanned(s, c)
           IN  /\ u \in States /\ u.before = c /\ (u.escaped <=> c = Backslash /\ ~s.escaped)
               /\ s.escaped => SameBalance(u, s)
               /\ ~s.escaped => SameBalance(u, Nested(s, c))
               /\ ~EndsPart(s, c) => u.split = s.split /\ u.part = Append(s.part, c)
               /\ EndsPart(s, c) => u.part = << >>
               /\ EndsPart(s, c) /\ (s.part = << >> \/ s.before = Delimiter) => u.split = s.split
               /\ EndsPart(s, c) /\ s.part # << >> /\ s.before # Delimiter => u.split = Append(s.split, s.part)
<1> DEFINE t == IF s.escaped THEN s ELSE Nested(s, c)
           kept == [t EXCEPT !.part = Append(t.part, c), !.escaped = FALSE]
           next == IF s.escaped THEN kept
                   ELSE IF c = Backslash THEN [kept EXCEPT !.escaped = TRUE]
                   ELSE IF c = Delimiter /\ Balanced(t) THEN EndOfPart(t)
                   ELSE kept
<1>1. /\ t \in States /\ t.split = s.split /\ t.part = s.part /\ t.before = s.before
      /\ t.escaped = s.escaped
  BY NestedFacts
<1>2. c = Delimiter => SameBalance(t, s)
  BY NestedFacts, AlphabetFacts DEF SameBalance
<1>3. Scanned(s, c) = [next EXCEPT !.before = c]
  BY Zenon DEF Scanned
<1>4. (s.escaped => t = s) /\ (~s.escaped => t = Nested(s, c))
  OBVIOUS
<1> HIDE DEF t
<1>5. Append(t.part, c) \in Seq(Alphabet) /\ t.part \in Seq(Alphabet) /\ t.split \in Seq(Seq(Alphabet) \ {<< >>})
  BY <1>1, StateTypes, AppendProperties
<1>6. /\ kept \in States /\ kept.split = s.split /\ kept.part = Append(s.part, c)
      /\ ~kept.escaped /\ SameBalance(kept, t)
  <2>1. /\ kept \in States /\ kept.split = t.split /\ kept.part = Append(t.part, c)
        /\ ~kept.escaped /\ kept.quoted = t.quoted /\ kept.braces = t.braces
        /\ kept.squares = t.squares
    BY <1>1, <1>5, KeptSet
  <2> QED BY <1>1, <2>1 DEF SameBalance
<1>7. EndsPart(s, c) <=> ~s.escaped /\ c = Delimiter /\ Balanced(t)
  BY <1>2 DEF EndsPart, Balanced, SameBalance
<1>8. /\ EndOfPart(t) \in States /\ EndOfPart(t).part = << >> /\ SameBalance(EndOfPart(t), t)
      /\ EndOfPart(t).escaped = t.escaped
      /\ t.part = << >> \/ t.before = Delimiter => EndOfPart(t).split = t.split
      /\ t.part # << >> /\ t.before # Delimiter => EndOfPart(t).split = Append(t.split, t.part)
  BY <1>1, EndOfPartIs
<1>9. ASSUME NEW r \in States, Scanned(s, c) = [r EXCEPT !.before = c]
      PROVE  LET u == Scanned(s, c)
             IN  u \in States /\ u.before = c /\ u.escaped = r.escaped /\ SameBalance(u, r)
                 /\ u.split = r.split /\ u.part = r.part
  BY <1>9, BeforeSet DEF SameBalance
<1>10. ASSUME NEW r, SameBalance(Scanned(s, c), r), SameBalance(r, t)
       PROVE  /\ s.escaped => SameBalance(Scanned(s, c), s)
              /\ ~s.escaped => SameBalance(Scanned(s, c), Nested(s, c))
  BY <1>4, <1>10 DEF SameBalance
<1> HIDE DEF kept
<1>11. CASE EndsPart(s, c)
  <2>1. next = EndOfPart(t) /\ ~s.escaped /\ c # Backslash
    BY <1>7, <1>11, AlphabetFacts
  <2> HIDE DEF next
  <2> QED BY <1>1, <1>3, <1>8, <1>9, <1>10, <1>11, <2>1
<1>12. CASE ~EndsPart(s, c) /\ (s.escaped \/ c # Backslash)
  <2>1. next = kept
    BY <1>7, <1>12
  <2> HIDE DEF next
  <2> QED BY <1>3, <1>6, <1>9, <1>10, <1>12, <2>1
<1>13. CASE ~s.escaped /\ c = Backslash
  <2>1. next = [kept EXCEPT !.escaped = TRUE]
    BY <1>13
  <2>2. /\ next \in States /\ next.split = s.split /\ next.part = Append(s.part, c)
        /\ next.escaped /\ SameBalance(next, t)
    <3>1. /\ next \in States /\ next.split = kept.split /\ next.part = kept.part
          /\ next.escaped /\ next.quoted = kept.quoted /\ next.braces = kept.braces
          /\ next.squares = kept.squares
      BY <1>6, <2>1, EscapedSet, Zenon
    <3> QED BY <1>6, <3>1 DEF SameBalance
  <2>3. ~EndsPart(s, c)
    BY <1>13, AlphabetFacts DEF EndsPart
  <2> HIDE DEF next
  <2> QED BY <1>3, <1>9, <1>10, <1>13, <2>2, <2>3
<1> QED BY <1>11, <1>12, <1>13

-----------------------------------------------------------------------------
(* What the characters after a text do to its scan.                        *)

LEMMA ConcatFacts ==
    ASSUME NEW S, NEW x \in Seq(S), NEW y \in Seq(S)
    PROVE  /\ x \o y \in Seq(S) /\ Len(x \o y) = Len(x) + Len(y) /\ Len(x) \in Nat /\ Len(y) \in Nat
           /\ \A i \in 1..Len(x) : (x \o y)[i] = x[i]
           /\ \A i \in 1..Len(y) : (x \o y)[Len(x) + i] = y[i]
           /\ \A i \in (Len(x) + 1)..(Len(x) + Len(y)) : (x \o y)[i] = y[i - Len(x)]
<1>1. /\ x \o y \in Seq(S) /\ Len(x \o y) = Len(x) + Len(y)
      /\ \A i \in 1..(Len(x) + Len(y)) : (x \o y)[i] = IF i <= Len(x) THEN x[i] ELSE y[i - Len(x)]
  BY ConcatProperties
<1>2. Len(x) \in Nat /\ Len(y) \in Nat
  BY LenProperties
<1> QED BY <1>1, <1>2

LEMMA OneFacts ==
    ASSUME NEW S, NEW c \in S
    PROVE  /\ <<c>> \in Seq(S) /\ Len(<<c>>) = 1 /\ <<c>>[1] = c /\ <<c>> # << >>
           /\ \A t \in Seq(S) : t \o <<c>> = Append(t, c)
<1>1. <<c>> \in Seq(S) /\ Len(<<c>>) = 1 /\ <<c>>[1] = c /\ <<c>> # << >>
  OBVIOUS
<1> QED BY <1>1, AppendIsConcat

LEMMA PrefixFacts ==
    ASSUME NEW S, NEW x \in Seq(S), NEW n \in 0..Len(x)
    PROVE  /\ SubSeq(x, 1, n) \in Seq(S) /\ Len(SubSeq(x, 1, n)) = n
           /\ \A i \in 1..n : SubSeq(x, 1, n)[i] = x[i]
<1>1. Len(x) \in Nat /\ \A i \in 1..n : x[i] \in S
  BY ElementOfSeq, LenProperties
<1>2. n \in Int /\ n >= 0 /\ (n - 1) + 1 = n /\ (1 <= n \/ n = 0)
  BY <1>1
<1>3. /\ SubSeq(x, 1, n) \in Seq(S)
      /\ Len(SubSeq(x, 1, n)) = IF 1 <= n THEN n - 1 + 1 ELSE 0
      /\ \A i \in 1..(n - 1 + 1) : SubSeq(x, 1, n)[i] = x[1 + i - 1]
  BY <1>1, <1>2, SubSeqProperties
<1> QED BY <1>1, <1>2, <1>3

\* A beginning of two texts one after another.
LEMMA PrefixOfConcat ==
    ASSUME NEW S, NEW x \in Seq(S), NEW y \in Seq(S), NEW n \in 0..(Len(x) + Len(y))
    PROVE  /\ n <= Len(x) => SubSeq(x \o y, 1, n) = SubSeq(x, 1, n)
           /\ n > Len(x) => /\ n - Len(x) \in 0..Len(y)
                            /\ SubSeq(x \o y, 1, n) = x \o SubSeq(y, 1, n - Len(x))
<1> DEFINE z == x \o y
           u == SubSeq(z, 1, n)
           m == n - Len(x)
<1>1. /\ z \in Seq(S) /\ Len(z) = Len(x) + Len(y) /\ Len(x) \in Nat /\ Len(y) \in Nat
      /\ \A i \in 1..Len(x) : z[i] = x[i]
      /\ \A i \in (Len(x) + 1)..(Len(x) + Len(y)) : z[i] = y[i - Len(x)]
  BY ConcatFacts
<1> HIDE DEF z
<1>2. u \in Seq(S) /\ Len(u) = n /\ \A i \in 1..n : u[i] = z[i]
  BY <1>1, PrefixFacts
<1> HIDE DEF u
<1>3. CASE n <= Len(x)
  <2>1. n \in 0..Len(x)
    BY <1>1, <1>3
  <2>2. SubSeq(x, 1, n) \in Seq(S) /\ Len(SubSeq(x, 1, n)) = n /\ \A i \in 1..n : SubSeq(x, 1, n)[i] = x[i]
    BY <2>1, PrefixFacts
  <2>3. \A i \in 1..n : i \in 1..Len(x)
    BY <1>1, <2>1
  <2>5. \A i \in 1..n : u[i] = SubSeq(x, 1, n)[i]
    BY <1>1, <1>2, <2>2, <2>3
  <2>4. u = SubSeq(x, 1, n)
    BY <1>2, <2>2, <2>5, SeqEqual
  <2> QED BY <1>1, <1>3, <2>4 DEF u, z
<1>4. CASE n > Len(x)
  <2> DEFINE v == SubSeq(y, 1, m)
             w == x \o v
  <2>1. m \in 0..Len(y)
    BY <1>1, <1>4
  <2>2. v \in Seq(S) /\ Len(v) = m /\ \A i \in 1..m : v[i] = y[i]
    BY <2>1, PrefixFacts
  <2> HIDE DEF v
  <2>3. /\ w \in Seq(S) /\ Len(w) = Len(x) + m
        /\ \A i \in 1..Len(x) : w[i] = x[i]
        /\ \A i \in (Len(x) + 1)..(Len(x) + m) : w[i] = v[i - Len(x)]
    BY <2>2, ConcatFacts
  <2> HIDE DEF w
  <2>4. Len(w) = n
    BY <1>1, <2>3
  <2>5. ASSUME NEW i \in 1..n PROVE u[i] = w[i]
    <3>1. CASE i <= Len(x)
      BY <1>1, <1>2, <2>3, <3>1
    <3>2. CASE i > Len(x)
      <4>1. i - Len(x) \in 1..m /\ i \in (Len(x) + 1)..(Len(x) + m) /\ i \in (Len(x) + 1)..(Len(x) + Len(y))
        BY <1>1, <3>2
      <4> QED BY <1>1, <1>2, <2>2, <2>3, <4>1
    <3> QED BY <1>1, <3>1, <3>2
  <2>6. u = w
    BY <1>2, <2>3, <2>4, <2>5, SeqEqual
  <2> QED BY <1>1, <1>4, <2>1, <2>6 DEF u, v, w, z
<1> QED BY <1>1, <1>3, <1>4

LEMMA ScanEmpty == Scan(<< >>) = Start
<1> DEFINE t == << >>
<1>1. t \in Seq({}) /\ DOMAIN t = {}
  OBVIOUS
<1>2. \E f : ScansBy(f, t)
  BY <1>1, ScanExists
<1>3. Scan(t) = (CHOOSE h : ScansBy(h, t))[{}] /\ ScansBy(CHOOSE h : ScansBy(h, t), t)
  BY <1>1, <1>2, ScanIs
<1> QED BY <1>1, <1>3 DEF ScansBy, ScanStep

LEMMA StartFacts ==
    /\ Start \in States /\ Start.split = << >> /\ Start.part = << >> /\ Start.before = ""
    /\ Start.quoted = FALSE /\ Start.braces = 0 /\ Start.squares = 0 /\ ~Start.escaped
<1>1. << >> \in Seq(Seq(Alphabet) \ {<< >>}) /\ << >> \in Seq(Alphabet) /\ 0 \in Int
  OBVIOUS
<1>2. Start \in States
  BY <1>1 DEF Start, States
<1> QED BY <1>2 DEF Start

LEMMA ScanIn ==
    ASSUME NEW t \in Seq(Alphabet) PROVE Scan(t) \in States
<1> DEFINE T == {k \in Nat : \E v \in Seq(Alphabet) : Len(v) = k /\ Scan(v) \notin States}
<1>1. T = {}
  <2> SUFFICES ASSUME T # {} PROVE FALSE
    OBVIOUS
  <2>1. T \subseteq Nat
    OBVIOUS
  <2>2. PICK k \in T : \A j \in T : k <= j
    <3> HIDE DEF T
    <3> QED BY <2>1, LeastElement
  <2>3. PICK v \in Seq(Alphabet) : Len(v) = k /\ Scan(v) \notin States
    OBVIOUS
  <2>4. v # << >>
    BY <2>3, ScanEmpty, StartFacts
  <2>5. PICK u \in Seq(Alphabet), c \in Alphabet : v = Append(u, c)
    BY <2>4, SequenceEmptyOrAppend
  <2>6. Len(u) \in Nat /\ Len(u) < k
    BY <2>3, <2>5, AppendProperties, LenProperties
  <2>7. Scan(u) \in States
    <3>1. Len(u) \notin T
      <4> HIDE DEF T
      <4> QED BY <2>1, <2>2, <2>6
    <3> QED BY <2>6, <3>1
  <2> QED BY <2>3, <2>5, <2>7, ScanSteps, ScannedNext
<1>2. Len(t) \in Nat
  BY LenProperties
<1> QED BY <1>1, <1>2

\* The scan of a text is in quotes or not, in this many braces and brackets,
\* and not at an escaped character.
In(s, q, b, r) == s.quoted = q /\ s.braces = b /\ s.squares = r /\ ~s.escaped

\* x belongs to the part that t ends in; it leaves the scan of t as nested as it
\* was; the parts of x that are scanned first are within a group.
Adds(t, x) == /\ Scan(t \o x).split = Scan(t).split
              /\ Scan(t \o x).part = Scan(t).part \o x
Passed(t, x) == Adds(t, x) /\ SameBalance(Scan(t \o x), Scan(t)) /\ ~Scan(t \o x).escaped
Within(t, x) == \A n \in 1..(Len(x) - 1) : LET y == SubSeq(x, 1, n)
                                           IN  Adds(t, y) /\ ~Balanced(Scan(t \o y))
Inert(q, b, r, x) == \A t \in Seq(Alphabet) : In(Scan(t), q, b, r) => Passed(t, x) /\ Within(t, x)

LEMMA ScanNext ==
    ASSUME NEW t \in Seq(Alphabet), NEW c \in Alphabet
    PROVE  /\ t \o <<c>> \in Seq(Alphabet) /\ Scan(t) \in States /\ Scan(t \o <<c>>) \in States
           /\ Scan(t \o <<c>>) = Scanned(Scan(t), c)
           /\ ~EndsPart(Scan(t), c) => Adds(t, <<c>>)
<1>1. t \o <<c>> = Append(t, c) /\ t \o <<c>> \in Seq(Alphabet)
  BY OneFacts, AppendProperties
<1>2. Scan(t \o <<c>>) = Scanned(Scan(t), c) /\ Scan(t) \in States /\ Scan(t \o <<c>>) \in States
  BY <1>1, ScanSteps, ScanIn
<1>3. ~EndsPart(Scan(t), c) => Adds(t, <<c>>)
  <2>1. Scan(t).part \in Seq(Alphabet)
    BY <1>2, StateTypes
  <2>2. Scan(t).part \o <<c>> = Append(Scan(t).part, c)
    BY <2>1, OneFacts
  <2> DEFINE s == Scan(t)
  <2>3. ~EndsPart(s, c) => Scanned(s, c).split = s.split /\ Scanned(s, c).part = Append(s.part, c)
    <3> HIDE DEF s
    <3>1. s \in States
      BY <1>2 DEF s
    <3> QED BY <3>1, ScannedNext
  <2> QED BY <1>2, <2>2, <2>3 DEF Adds
<1> QED BY <1>1, <1>2, <1>3

LEMMA AddsAdds ==
    ASSUME NEW t \in Seq(Alphabet), NEW x \in Seq(Alphabet), NEW y \in Seq(Alphabet),
           Adds(t, x), Adds(t \o x, y)
    PROVE  Adds(t, x \o y) /\ (t \o x) \o y = t \o (x \o y)
<1>1. (t \o x) \o y = t \o (x \o y)
  BY ConcatAssociative
<1> DEFINE p == Scan(t).part
<1>2. p \in Seq(Alphabet)
  BY ScanIn, StateTypes
<1>3. (p \o x) \o y = p \o (x \o y)
  <2> HIDE DEF p
  <2> QED BY <1>2, ConcatAssociative
<1> QED BY <1>1, <1>3 DEF Adds

LEMMA PassedPassed ==
    ASSUME NEW t \in Seq(Alphabet), NEW x \in Seq(Alphabet), NEW y \in Seq(Alphabet),
           Passed(t, x), Passed(t \o x, y)
    PROVE  Passed(t, x \o y)
  BY AddsAdds DEF Passed, SameBalance

LEMMA PairFacts ==
    ASSUME NEW S, NEW a \in S, NEW c \in S
    PROVE  /\ <<a, c>> \in Seq(S) /\ Len(<<a, c>>) = 2 /\ <<a, c>> = <<a>> \o <<c>>
           /\ <<a, c>>[1] = a /\ <<a, c>>[2] = c
<1>1. <<a, c>> \in Seq(S) /\ Len(<<a, c>>) = 2 /\ <<a, c>>[1] = a /\ <<a, c>>[2] = c
  OBVIOUS
<1> DEFINE x == <<a>>
           y == <<c>>
           z == x \o y
           v == <<a, c>>
<1>2. x \in Seq(S) /\ y \in Seq(S) /\ Len(x) = 1 /\ Len(y) = 1 /\ x[1] = a /\ y[1] = c
  OBVIOUS
<1> HIDE DEF x, y
<1>3. z \in Seq(S) /\ Len(z) = 2 /\ z[1] = a /\ z[2] = c
  <2>1. z \in Seq(S) /\ Len(z) = 2 /\ \A i \in 1..2 : z[i] = IF i <= 1 THEN x[i] ELSE y[i - 1]
    BY <1>2, ConcatProperties
  <2> QED BY <1>2, <2>1
<1>4. v \in Seq(S) /\ Len(v) = 2 /\ v[1] = a /\ v[2] = c
  BY <1>1
<1> HIDE DEF z, v
<1>5. \A i \in 1..2 : z[i] = v[i]
  <2>1. \A i \in 1..2 : i = 1 \/ i = 2
    OBVIOUS
  <2> QED BY <1>3, <1>4, <2>1
<1>6. z = v
  BY <1>3, <1>4, <1>5, SeqEqual
<1> QED BY <1>1, <1>6 DEF x, y, z, v

\* Within quotes, braces or brackets.
Deep(q, b, r) == q = TRUE \/ b # 0 \/ r # 0

LEMMA DeepFacts ==
    ASSUME NEW s \in States, NEW q \in BOOLEAN, NEW b \in Int, NEW r \in Int, In(s, q, b, r)
    PROVE  Balanced(s) <=> ~Deep(q, b, r)
  BY StateTypes DEF In, Deep, Balanced

LEMMA StaysIn ==
    ASSUME NEW s \in States, NEW u \in States, NEW q, NEW b, NEW r,
           In(s, q, b, r), SameBalance(u, s), ~u.escaped
    PROVE  In(u, q, b, r)
  BY DEF In, SameBalance

LEMMA PassedIn ==
    ASSUME NEW t \in Seq(Alphabet), NEW x \in Seq(Alphabet), NEW q, NEW b, NEW r,
           In(Scan(t), q, b, r), Passed(t, x)
    PROVE  t \o x \in Seq(Alphabet) /\ In(Scan(t \o x), q, b, r)
<1>1. t \o x \in Seq(Alphabet)
  BY ConcatProperties
<1>2. Scan(t) \in States /\ Scan(t \o x) \in States
  BY <1>1, ScanIn
<1> QED BY <1>1, <1>2, StaysIn DEF Passed

LEMMA InertEmpty ==
    ASSUME NEW q, NEW b, NEW r PROVE Inert(q, b, r, << >>)
<1> SUFFICES ASSUME NEW t \in Seq(Alphabet), In(Scan(t), q, b, r)
             PROVE  Passed(t, << >>) /\ Within(t, << >>)
  BY DEF Inert
<1> DEFINE p == Scan(t).part
<1>1. p \in Seq(Alphabet)
  BY ScanIn, StateTypes
<1>2. p \o << >> = p /\ t \o << >> = t
  <2> HIDE DEF p
  <2> QED BY <1>1, ConcatEmptySeq
<1>3. Passed(t, << >>)
  BY <1>2 DEF Passed, Adds, SameBalance, In
<1>4. 1..(Len(<< >>) - 1) = {}
  OBVIOUS
<1> QED BY <1>3, <1>4 DEF Within

LEMMA NothingBefore == \A c : 1..(Len(<<c>>) - 1) = {}
  OBVIOUS

\* A character that counts for nothing where it is.
LEMMA CharPasses ==
    ASSUME NEW t \in Seq(Alphabet), NEW c \in Alphabet,
           c # Backslash, ~EndsPart(Scan(t), c), ~Scan(t).escaped,
           SameBalance(Nested(Scan(t), c), Scan(t))
    PROVE  Passed(t, <<c>>)
<1> DEFINE s == Scan(t)
           u == Scanned(s, c)
<1>1. s \in States /\ Scan(t \o <<c>>) = u /\ Adds(t, <<c>>)
  BY ScanNext
<1> HIDE DEF s
<1>2. ~u.escaped /\ SameBalance(u, Nested(s, c))
  BY <1>1, ScannedNext DEF s
<1> HIDE DEF u
<1> QED BY <1>1, <1>2 DEF Passed, SameBalance, s

LEMMA InertChar ==
    ASSUME NEW q \in BOOLEAN, NEW b \in Int, NEW r \in Int, NEW c \in Alphabet, c # Backslash,
           c \in {OpenBrace, CloseBrace} => q = TRUE \/ r # 0,
           c \in {"[", "]"} => b # 0,
           c = Quote => b # 0 \/ r # 0,
           c = Delimiter => Deep(q, b, r)
    PROVE  Inert(q, b, r, <<c>>)
<1> SUFFICES ASSUME NEW t \in Seq(Alphabet), In(Scan(t), q, b, r)
             PROVE  Passed(t, <<c>>) /\ Within(t, <<c>>)
  BY DEF Inert
<1> DEFINE s == Scan(t)
<1>1. s \in States
  BY ScanIn
<1>2. In(s, q, b, r)
  OBVIOUS
<1> HIDE DEF s
<1>3. SameBalance(Nested(s, c), s)
  <2>1. s.quoted = q /\ s.braces = b /\ s.squares = r
    BY <1>2 DEF In
  <2>2. q = TRUE \/ r # 0 \/ c \notin {"{", "}"}
    BY Zenon DEF OpenBrace, CloseBrace
  <2>3. Nested(s, c).braces = s.braces
    <3>1. s.squares # 0 \/ s.quoted \/ c \notin {"{", "}"}
      BY <2>1, <2>2
    <3> QED BY <1>1, <3>1, NestedFacts
  <2>4. Nested(s, c).squares = s.squares /\ Nested(s, c).quoted = s.quoted
    BY <1>1, <2>1, NestedFacts
  <2> QED BY <2>3, <2>4 DEF SameBalance
<1>4. ~EndsPart(s, c)
  BY <1>1, <1>2, DeepFacts DEF EndsPart
<1>5. Passed(t, <<c>>)
  BY <1>2, <1>3, <1>4, CharPasses DEF s, In
<1>6. 1..(Len(<<c>>) - 1) = {}
  BY NothingBefore
<1> QED BY <1>5, <1>6 DEF Within

LEMMA EscapePasses ==
    ASSUME NEW t \in Seq(Alphabet), NEW c \in Alphabet, ~Scan(t).escaped
    PROVE  /\ <<Backslash, c>> \in Seq(Alphabet) /\ Len(<<Backslash, c>>) = 2
           /\ Passed(t, <<Backslash, c>>)
           /\ Adds(t, <<Backslash>>) /\ SameBalance(Scan(t \o <<Backslash>>), Scan(t))
           /\ Scan(t \o <<Backslash, c>>).before = c
<1> DEFINE s == Scan(t)
           x == <<Backslash>>
           v == t \o x
           u == Scan(v)
           y == <<c>>
<1>1. Backslash \in Alphabet /\ Backslash \notin {Delimiter, Quote, "{", "}", "[", "]"}
  BY AlphabetFacts
<1>2. x \in Seq(Alphabet) /\ y \in Seq(Alphabet) /\ x \o y = <<Backslash, c>>
  <2>0. Backslash \in Alphabet
    BY <1>1
  <2>1. <<Backslash, c>> = <<Backslash>> \o <<c>>
    BY <2>0, PairFacts
  <2>2. <<Backslash>> \in Seq(Alphabet) /\ <<c>> \in Seq(Alphabet)
    BY <2>0
  <2> QED BY <2>1, <2>2
<1>3. /\ v \in Seq(Alphabet) /\ s \in States /\ u \in States /\ u = Scanned(s, Backslash)
      /\ ~EndsPart(s, Backslash) => Adds(t, x)
  BY <1>1, ScanNext
<1>4. ~EndsPart(s, Backslash)
  BY <1>1 DEF EndsPart
<1>5. Scan(v \o y) \in States /\ Scan(v \o y) = Scanned(u, c) /\ (~EndsPart(u, c) => Adds(v, y))
  BY <1>3, ScanNext
<1> HIDE DEF s, u, v, x, y
<1>6. u.escaped /\ SameBalance(u, Nested(s, Backslash))
  BY <1>1, <1>3, ScannedNext DEF s
<1>7. SameBalance(Nested(s, Backslash), s)
  BY <1>1, <1>3, NestedFacts DEF SameBalance
<1>8. SameBalance(u, s)
  BY <1>6, <1>7 DEF SameBalance
<1>9. ~EndsPart(u, c)
  BY <1>6 DEF EndsPart
<1>10. ~Scan(v \o y).escaped /\ SameBalance(Scan(v \o y), u) /\ Scan(v \o y).before = c
  BY <1>3, <1>5, <1>6, ScannedNext
<1>11. Adds(t, x \o y) /\ v \o y = t \o (x \o y)
  BY <1>2, <1>3, <1>4, <1>5, <1>9, AddsAdds DEF v
<1>12. Passed(t, x \o y)
  BY <1>8, <1>10, <1>11 DEF Passed, SameBalance, s
<1>13. Len(<<Backslash, c>>) = 2 /\ <<Backslash, c>> \in Seq(Alphabet)
  BY <1>1, PairFacts
<1> QED BY <1>2, <1>3, <1>4, <1>8, <1>10, <1>11, <1>12, <1>13 DEF s, u, v, x

LEMMA InertEscape ==
    ASSUME NEW q \in BOOLEAN, NEW b \in Int, NEW r \in Int, NEW c \in Alphabet, Deep(q, b, r)
    PROVE  Inert(q, b, r, <<Backslash, c>>)
<1> DEFINE x == <<Backslash, c>>
           y == <<Backslash>>
<1> SUFFICES ASSUME NEW t \in Seq(Alphabet), In(Scan(t), q, b, r)
             PROVE  Passed(t, x) /\ Within(t, x)
  BY DEF Inert
<1>1. ~Scan(t).escaped
  BY DEF In
<1>2. /\ x \in Seq(Alphabet) /\ Len(x) = 2 /\ Passed(t, x) /\ Adds(t, y)
      /\ SameBalance(Scan(t \o y), Scan(t))
  BY <1>1, EscapePasses
<1>3. SubSeq(x, 1, 1) = y
  <2>0. Backslash \in Alphabet
    BY AlphabetFacts
  <2>1. x = y \o <<c>> /\ y \in Seq(Alphabet) /\ <<c>> \in Seq(Alphabet) /\ Len(y) = 1 /\ Len(<<c>>) = 1
    BY <2>0, PairFacts, OneFacts
  <2> HIDE DEF x, y
  <2>2. SubSeq(y \o <<c>>, 1, 1) = SubSeq(y, 1, 1)
    BY <2>1, PrefixOfConcat
  <2>3. SubSeq(y, 1, 1) = y
    BY <2>1, SubSeqFull
  <2> QED BY <2>1, <2>2, <2>3
<1>4. ~Balanced(Scan(t \o y))
  <2>1. ~Balanced(Scan(t))
    BY ScanIn, DeepFacts
  <2> QED BY <1>2, <2>1 DEF Balanced, SameBalance
<1> HIDE DEF x, y
<1>5. \A n \in 1..(Len(x) - 1) : n = 1
  BY <1>2
<1> QED BY <1>2, <1>3, <1>4, <1>5 DEF Within

LEMMA InertConcat ==
    ASSUME NEW q \in BOOLEAN, NEW b \in Int, NEW r \in Int, Deep(q, b, r),
           NEW x \in Seq(Alphabet), NEW y \in Seq(Alphabet), Inert(q, b, r, x), Inert(q, b, r, y)
    PROVE  Inert(q, b, r, x \o y)
<1> DEFINE z == x \o y
<1> SUFFICES ASSUME NEW t \in Seq(Alphabet), In(Scan(t), q, b, r)
             PROVE  Passed(t, z) /\ Within(t, z)
  BY DEF Inert
<1>1. Passed(t, x) /\ Within(t, x)
  BY DEF Inert
<1>2. t \o x \in Seq(Alphabet) /\ In(Scan(t \o x), q, b, r)
  BY <1>1, PassedIn
<1>3. Passed(t \o x, y) /\ Within(t \o x, y)
  BY <1>2 DEF Inert
<1>4. Passed(t, z)
  BY <1>1, <1>3, PassedPassed
<1>5. ASSUME NEW n \in 1..(Len(z) - 1)
      PROVE  Adds(t, SubSeq(z, 1, n)) /\ ~Balanced(Scan(t \o SubSeq(z, 1, n)))
  <2>1. Len(z) = Len(x) + Len(y) /\ Len(x) \in Nat /\ Len(y) \in Nat
    BY ConcatFacts
  <2>2. n \in 0..(Len(x) + Len(y))
    BY <2>1
  <2>3. CASE n < Len(x)
    <3>1. n \in 1..(Len(x) - 1) /\ n <= Len(x)
      BY <2>1, <2>3
    <3> QED BY <1>1, <2>2, <3>1, PrefixOfConcat DEF Within
  <2>4. CASE n = Len(x)
    <3>1. SubSeq(z, 1, n) = x
      BY <2>1, <2>2, <2>4, PrefixOfConcat, SubSeqFull
    <3>2. ~Balanced(Scan(t \o x))
      BY <1>2, ScanIn, DeepFacts
    <3> QED BY <1>1, <3>1, <3>2 DEF Passed
  <2>5. CASE n > Len(x)
    <3> DEFINE m == n - Len(x)
               v == SubSeq(y, 1, m)
    <3>1. m \in 1..(Len(y) - 1) /\ m \in 0..Len(y)
      BY <2>1, <2>5
    <3>2. SubSeq(z, 1, n) = x \o v /\ v \in Seq(Alphabet)
      BY <2>2, <2>5, <3>1, PrefixOfConcat, PrefixFacts
    <3>3. Adds(t \o x, v) /\ ~Balanced(Scan((t \o x) \o v))
      BY <1>3, <3>1 DEF Within
    <3> HIDE DEF v
    <3>4. Adds(t, x)
      BY <1>1 DEF Passed
    <3>5. Adds(t, x \o v) /\ (t \o x) \o v = t \o (x \o v)
      BY <3>2, <3>3, <3>4, AddsAdds
    <3> HIDE DEF z, m
    <3> QED BY <3>2, <3>3, <3>5
  <2> QED BY <2>1, <2>3, <2>4, <2>5
<1> QED BY <1>4, <1>5 DEF Within

\* A group within what counts q, b, r, in which q1, b1, r1 count.
LEMMA InertGroup ==
    ASSUME NEW q \in BOOLEAN, NEW b \in Int, NEW r \in Int,
           NEW q1 \in BOOLEAN, NEW b1 \in Int, NEW r1 \in Int, Deep(q1, b1, r1),
           NEW o \in Alphabet, NEW c \in Alphabet,
           \A s \in States : In(s, q, b, r) => ~EndsPart(s, o) /\ In(Scanned(s, o), q1, b1, r1),
           \A s \in States : In(s, q1, b1, r1) => ~EndsPart(s, c) /\ In(Scanned(s, c), q, b, r),
           NEW x \in Seq(Alphabet), Inert(q1, b1, r1, x)
    PROVE  Inert(q, b, r, (<<o>> \o x) \o <<c>>)
<1> DEFINE i == <<o>>
           j == <<c>>
           y == i \o x
           z == y \o j
<1> SUFFICES ASSUME NEW t \in Seq(Alphabet), In(Scan(t), q, b, r)
             PROVE  Passed(t, z) /\ Within(t, z)
  BY DEF Inert
<1>1. i \in Seq(Alphabet) /\ j \in Seq(Alphabet) /\ Len(i) = 1 /\ Len(j) = 1
  BY OneFacts
<1>2. Adds(t, i) /\ In(Scan(t \o i), q1, b1, r1) /\ t \o i \in Seq(Alphabet)
  BY ScanNext
<1> HIDE DEF i
<1>3. Passed(t \o i, x) /\ Within(t \o i, x)
  BY <1>2 DEF Inert
<1>4. /\ Adds(t, y) /\ t \o y \in Seq(Alphabet) /\ y \in Seq(Alphabet) /\ In(Scan(t \o y), q1, b1, r1)
      /\ (t \o i) \o x = t \o y
  <2>1. Adds(t, y) /\ (t \o i) \o x = t \o y
    BY <1>1, <1>2, <1>3, AddsAdds DEF Passed
  <2>2. (t \o i) \o x \in Seq(Alphabet) /\ In(Scan((t \o i) \o x), q1, b1, r1)
    BY <1>2, <1>3, PassedIn
  <2> QED BY <1>1, <2>1, <2>2, ConcatProperties
<1> HIDE DEF y
<1>5. Adds(t \o y, j) /\ In(Scan((t \o y) \o j), q, b, r)
  BY <1>4, ScanNext
<1> HIDE DEF j
<1>6. Adds(t, z) /\ (t \o y) \o j = t \o z
  BY <1>1, <1>4, <1>5, AddsAdds
<1>7. Passed(t, z)
  BY <1>5, <1>6 DEF Passed, In, SameBalance
<1>8. ASSUME NEW n \in 1..(Len(z) - 1)
      PROVE  Adds(t, SubSeq(z, 1, n)) /\ ~Balanced(Scan(t \o SubSeq(z, 1, n)))
  <2>1. Len(z) = Len(y) + 1 /\ Len(y) = Len(x) + 1 /\ Len(x) \in Nat
    <3>1. Len(z) = Len(y) + Len(j)
      BY <1>1, <1>4, ConcatFacts
    <3>2. Len(y) = Len(i) + Len(x) /\ Len(x) \in Nat
      BY <1>1, ConcatFacts DEF y
    <3> HIDE DEF z
    <3> QED BY <1>1, <3>1, <3>2
  <2> HIDE DEF z
  <2>0. y = i \o x
    BY DEF y
  <2>2. n \in 0..(Len(y) + Len(j)) /\ n <= Len(y) /\ n \in 0..(Len(i) + Len(x))
    BY <1>1, <2>1
  <2>3. SubSeq(z, 1, n) = SubSeq(y, 1, n)
    BY <1>1, <1>4, <2>2, PrefixOfConcat DEF z
  <2>4. CASE n = 1
    <3>1. SubSeq(y, 1, n) = i
      <4>1. SubSeq(i \o x, 1, n) = SubSeq(i, 1, n)
        <5>1. n <= Len(i)
          BY <1>1, <2>4
        <5> QED BY <1>1, <2>2, <5>1, PrefixOfConcat
      <4>2. SubSeq(i, 1, n) = i
        BY <1>1, <2>4, SubSeqFull
      <4> QED BY <2>0, <4>1, <4>2
    <3>2. ~Balanced(Scan(t \o i))
      BY <1>2, ScanIn, DeepFacts
    <3> QED BY <1>2, <2>3, <3>1, <3>2
  <2>5. CASE n > 1
    <3> DEFINE m == n - 1
               v == SubSeq(x, 1, m)
    <3>1. SubSeq(y, 1, n) = i \o v /\ m \in 1..Len(x)
      <4>1. n - Len(i) = m /\ m \in 1..Len(x) /\ n > Len(i)
        BY <1>1, <2>1, <2>2, <2>5
      <4> HIDE DEF m
      <4>2. SubSeq(i \o x, 1, n) = i \o v
        BY <1>1, <2>2, <4>1, PrefixOfConcat
      <4> QED BY <2>0, <4>1, <4>2
    <3>2. v \in Seq(Alphabet)
      BY <3>1, PrefixFacts
    <3>3. Adds(t \o i, v) /\ ~Balanced(Scan((t \o i) \o v))
      <4>1. CASE m < Len(x)
        BY <1>3, <2>1, <3>1, <4>1 DEF Within
      <4>2. CASE m = Len(x)
        <5>1. v = x
          BY <4>2, SubSeqFull
        <5>2. ~Balanced(Scan((t \o i) \o x))
          BY <1>4, ScanIn, DeepFacts
        <5> QED BY <1>3, <5>1, <5>2 DEF Passed
      <4> QED BY <2>1, <3>1, <4>1, <4>2
    <3> HIDE DEF v
    <3>4. Adds(t, i \o v) /\ (t \o i) \o v = t \o (i \o v)
      BY <1>1, <1>2, <3>2, <3>3, AddsAdds
    <3> HIDE DEF m
    <3> QED BY <2>3, <3>1, <3>3, <3>4
  <2> QED BY <2>4, <2>5
<1> QED BY <1>7, <1>8 DEF Within

-----------------------------------------------------------------------------
(* What is inside groups, unfolded.                                        *)

\* One step of the recursion: groups are of what is defined, or of what is in
\* brackets.
ContentStep(own, ordinary, o, c, g, n) ==
  Content(ordinary, o, IF own THEN g ELSE InBrackets, c, g, n)
ContentBy(own, ordinary, o, c, g) ==
  g = [n \in 0..MaxLength |-> ContentStep(own, ordinary, o, c, g, n)]

LEMMA InsideIs == \A o, c : Inside(o, c) = CHOOSE g : ContentBy(TRUE, Alphabet \ {o, c, Backslash}, o, c, g)
  BY Zenon DEF Inside, ContentBy, ContentStep

LEMMA QuotesIs ==
    InQuotes = CHOOSE g : ContentBy(FALSE, Alphabet \ {"[", "]", Quote, Backslash}, "[", "]", g)
  BY Zenon DEF InQuotes, ContentBy, ContentStep

\* A step depends on what is before it.
LEMMA ContentSame ==
    ASSUME NEW own, NEW ordinary, NEW o, NEW c, NEW f, NEW g, NEW n \in Nat,
           \A k \in 0..(n - 1) : f[k] = g[k]
    PROVE  ContentStep(own, ordinary, o, c, f, n) = ContentStep(own, ordinary, o, c, g, n)
<1> DEFINE N(h) == IF own THEN h ELSE InBrackets
<1>1. CASE n = 0
  BY <1>1 DEF ContentStep, Content
<1>2. CASE n # 0
  <2>1. f[n - 1] = g[n - 1]
    BY <1>2
  <2>2. \A k \in {n - 2} \cap Nat : f[k] = g[k]
    OBVIOUS
  <2>3. \A k \in 0..(n - 2) : N(f)[k] = N(g)[k] /\ f[n - 2 - k] = g[n - 2 - k]
    OBVIOUS
  <2> DEFINE S1(h, k) == Then(Escapes, h[k])
             S2(h, k) == Then(Group(o, N(h)[k], c), h[n - 2 - k])
  <2>4. \A k \in {n - 2} \cap Nat : S1(f, k) = S1(g, k)
    BY <2>2
  <2>5. \A k \in 0..(n - 2) : S2(f, k) = S2(g, k)
    BY <2>3
  <2>6. \A h : ContentStep(own, ordinary, o, c, h, n) =
          Then({<<x>> : x \in ordinary}, h[n - 1])
          \cup (UNION {S1(h, k) : k \in {n - 2} \cap Nat}) \cup (UNION {S2(h, k) : k \in 0..(n - 2)})
    BY <1>2, Zenon DEF ContentStep, Content
  <2> HIDE DEF S1, S2
  <2>7. {S1(f, k) : k \in {n - 2} \cap Nat} = {S1(g, k) : k \in {n - 2} \cap Nat}
    BY <2>4, Zenon
  <2>8. {S2(f, k) : k \in 0..(n - 2)} = {S2(g, k) : k \in 0..(n - 2)}
    BY <2>5, Zenon
  <2> QED BY <2>1, <2>6, <2>7, <2>8, Zenon
<1> QED BY <1>1, <1>2

LEMMA ContentExists ==
    ASSUME NEW own, NEW ordinary, NEW o, NEW c
    PROVE  \E g : ContentBy(own, ordinary, o, c, g)
<1> DEFINE Step(g, m) == ContentStep(own, ordinary, o, c, g, m)
           Good(g, k) == /\ g = [m \in 0..MaxLength |-> g[m]]
                         /\ \A m \in 0..k : g[m] = Step(g, m)
           T == {k \in 0..MaxLength : ~ \E g : Good(g, k)}
<1>0. MaxLength \in Nat
  BY TextsAssumption
<1>1. ASSUME NEW f, NEW g, NEW n \in Nat, \A k \in 0..(n - 1) : f[k] = g[k]
      PROVE  Step(f, n) = Step(g, n)
  BY <1>1, ContentSame
<1> HIDE DEF Step
<1>2. ASSUME NEW k \in 0..MaxLength, NEW f, k = 0 \/ Good(f, k - 1) PROVE \E g : Good(g, k)
  <2> DEFINE g == [m \in 0..MaxLength |-> IF m < k THEN f[m] ELSE Step(f, m)]
  <2>1. g = [m \in 0..MaxLength |-> g[m]]
    OBVIOUS
  <2>2. \A m \in 0..(k - 1) : g[m] = f[m]
    BY <1>0
  <2>3. ASSUME NEW m \in 0..k PROVE g[m] = Step(g, m)
    <3>1. m \in Nat /\ \A i \in 0..(m - 1) : i \in 0..(k - 1)
      BY <1>0
    <3>2. \A i \in 0..(m - 1) : f[i] = g[i]
      BY <2>2, <3>1
    <3>3. g[m] = Step(f, m)
      <4>1. CASE m < k
        <5>1. m \in 0..(k - 1) /\ k # 0
          BY <1>0, <4>1
        <5>2. f[m] = Step(f, m)
          BY <1>2, <5>1
        <5> QED BY <2>2, <5>1, <5>2
      <4>2. CASE ~(m < k)
        BY <1>0, <4>2
      <4> QED BY <4>1, <4>2
    <3> HIDE DEF g
    <3> QED BY <3>1, <3>2, <3>3, <1>1
  <2> HIDE DEF g
  <2> QED BY <2>1, <2>3
<1>3. T = {}
  <2> SUFFICES ASSUME T # {} PROVE FALSE
    OBVIOUS
  <2>1. T \subseteq Nat
    BY <1>0
  <2>2. PICK k \in T : \A j \in T : k <= j
    <3> HIDE DEF T
    <3> QED BY <2>1, LeastElement
  <2>3. k \in 0..MaxLength /\ ~ \E g : Good(g, k)
    OBVIOUS
  <2>4. \E f : k = 0 \/ Good(f, k - 1)
    <3>1. CASE k = 0
      BY <3>1
    <3>2. CASE k # 0
      <4>1. k - 1 \in 0..MaxLength /\ ~(k <= k - 1)
        BY <1>0, <2>3, <3>2
      <4>2. k - 1 \notin T
        <5> HIDE DEF T
        <5> QED BY <2>2, <4>1
      <4> HIDE DEF Good
      <4> QED BY <4>1, <4>2
    <3> QED BY <3>1, <3>2
  <2> HIDE DEF Good
  <2> QED BY <1>2, <2>3, <2>4
<1>4. PICK g : Good(g, MaxLength)
  BY <1>0, <1>3
<1>5. ContentBy(own, ordinary, o, c, g)
  <2>1. \A m \in 0..MaxLength : g[m] = Step(g, m)
    BY <1>4
  <2>2. g = [m \in 0..MaxLength |-> g[m]]
    BY <1>4
  <2> QED BY <2>1, <2>2, Zenon DEF ContentBy, Step
<1> QED BY <1>5

LEMMA InsideUnfolds ==
    ASSUME NEW o, NEW c, NEW n \in 0..MaxLength
    PROVE  Inside(o, c)[n] = Content(Alphabet \ {o, c, Backslash}, o, Inside(o, c), c, Inside(o, c), n)
<1> DEFINE f == Inside(o, c)
           A == Alphabet \ {o, c, Backslash}
<1>1. ContentBy(TRUE, A, o, c, f)
  <2> HIDE DEF A
  <2>1. f = CHOOSE g : ContentBy(TRUE, A, o, c, g)
    BY InsideIs, Zenon DEF A
  <2> QED BY <2>1, ContentExists, Zenon
<1> HIDE DEF f, A
<1>2. f[n] = ContentStep(TRUE, A, o, c, f, n)
  BY <1>1 DEF ContentBy
<1> QED BY <1>2, Zenon DEF ContentStep, f, A

LEMMA QuotesUnfolds ==
    ASSUME NEW n \in 0..MaxLength
    PROVE  InQuotes[n] = Content(Alphabet \ {"[", "]", Quote, Backslash}, "[", InBrackets, "]", InQuotes, n)
<1> DEFINE A == Alphabet \ {"[", "]", Quote, Backslash}
<1>1. ContentBy(FALSE, A, "[", "]", InQuotes)
  <2> HIDE DEF A
  <2>1. InQuotes = CHOOSE g : ContentBy(FALSE, A, "[", "]", g)
    BY QuotesIs, Zenon DEF A
  <2> QED BY <2>1, ContentExists, Zenon
<1> HIDE DEF A
<1>2. InQuotes[n] = ContentStep(FALSE, A, "[", "]", InQuotes, n)
  BY <1>1 DEF ContentBy
<1> QED BY <1>2, Zenon DEF ContentStep, A

\* What something that is inside can be.
HasContent(x, ordinary, o, nested, c, inside, n) ==
  \/ x = << >>
  \/ n # 0 /\ \E d \in ordinary, y \in inside[n - 1] : x = <<d>> \o y
  \/ n - 2 \in Nat /\ \E d \in Alphabet, y \in inside[n - 2] : x = <<Backslash, d>> \o y
  \/ \E k \in 0..(n - 2) : \E w \in nested[k], y \in inside[n - 2 - k] :
       x = ((<<o>> \o w) \o <<c>>) \o y

LEMMA ContentCases ==
    ASSUME NEW ordinary, NEW o, NEW nested, NEW c, NEW inside, NEW n \in Nat,
           NEW x \in Content(ordinary, o, nested, c, inside, n)
    PROVE  HasContent(x, ordinary, o, nested, c, inside, n)
<1>0. ASSUME NEW A, NEW B, NEW z \in Then(A, B) PROVE \E a \in A, b \in B : z = a \o b
  BY DEF Then
<1>1. CASE n = 0
  BY <1>1 DEF Content, HasContent
<1>2. CASE n # 0
  <2>1. \/ x \in Then({<<d>> : d \in ordinary}, inside[n - 1])
        \/ \E k \in {n - 2} \cap Nat : x \in Then(Escapes, inside[k])
        \/ \E k \in 0..(n - 2) : x \in Then(Group(o, nested[k], c), inside[n - 2 - k])
    BY <1>2, Zenon DEF Content
  <2>2. CASE x \in Then({<<d>> : d \in ordinary}, inside[n - 1])
    <3>1. PICK a \in {<<d>> : d \in ordinary}, y \in inside[n - 1] : x = a \o y
      BY <1>0, <2>2
    <3>2. PICK d \in ordinary : a = <<d>>
      BY <3>1
    <3> QED BY <1>2, <3>1, <3>2 DEF HasContent
  <2>3. CASE \E k \in {n - 2} \cap Nat : x \in Then(Escapes, inside[k])
    <3>1. n - 2 \in Nat /\ x \in Then(Escapes, inside[n - 2])
      BY <2>3
    <3>2. PICK a \in Escapes, y \in inside[n - 2] : x = a \o y
      BY <1>0, <3>1
    <3>3. PICK d \in Alphabet : a = <<Backslash, d>>
      BY <3>2 DEF Escapes
    <3> QED BY <3>1, <3>2, <3>3 DEF HasContent
  <2>4. CASE \E k \in 0..(n - 2) : x \in Then(Group(o, nested[k], c), inside[n - 2 - k])
    <3>1. PICK k \in 0..(n - 2) : x \in Then(Group(o, nested[k], c), inside[n - 2 - k])
      BY <2>4
    <3>2. PICK g \in Group(o, nested[k], c), y \in inside[n - 2 - k] : x = g \o y
      BY <1>0, <3>1
    <3>3. PICK w \in nested[k] : g = (<<o>> \o w) \o <<c>>
      BY <3>2 DEF Group
    <3> QED BY <3>1, <3>2, <3>3 DEF HasContent
  <2> QED BY <2>1, <2>2, <2>3, <2>4
<1> QED BY <1>1, <1>2

-----------------------------------------------------------------------------
(* Groups: nothing in them ends a part, and after them the scan is as       *)
(* nested as before.                                                       *)

\* Induction over the lengths that contents have.
LEMMA AllLengths ==
    ASSUME NEW T, \A n \in 0..MaxLength : (\A k \in 0..(n - 1) : k \in T) => n \in T
    PROVE  \A n \in 0..MaxLength : n \in T
<1> DEFINE U == {n \in 0..MaxLength : n \notin T}
<1>0. MaxLength \in Nat
  BY TextsAssumption
<1> SUFFICES ASSUME U # {} PROVE FALSE
  OBVIOUS
<1>1. U \subseteq Nat
  BY <1>0
<1>2. PICK n \in U : \A k \in U : n <= k
  <2> HIDE DEF U
  <2> QED BY <1>1, LeastElement
<1>3. \A k \in 0..(n - 1) : k \in 0..MaxLength /\ ~(n <= k)
  BY <1>0
<1>4. \A k \in 0..(n - 1) : k \in T
  BY <1>2, <1>3
<1> QED BY <1>4

\* What the characters that open and close groups do.
LEMMA CountsOnly ==
    ASSUME NEW s \in States, NEW c \in Alphabet, c # Delimiter, c # Backslash, ~s.escaped
    PROVE  ~EndsPart(s, c) /\ ~Scanned(s, c).escaped /\ SameBalance(Scanned(s, c), Nested(s, c))
<1> DEFINE u == Scanned(s, c)
<1>1. (u.escaped <=> c = Backslash /\ ~s.escaped) /\ (~s.escaped => SameBalance(u, Nested(s, c)))
  BY ScannedNext
<1> HIDE DEF u
<1> QED BY <1>1 DEF EndsPart, u

LEMMA BracesCount ==
    ASSUME NEW q \in BOOLEAN, ~q, NEW b \in Nat, NEW s \in States
    PROVE  /\ In(s, q, b, 0) => ~EndsPart(s, OpenBrace) /\ In(Scanned(s, OpenBrace), q, b + 1, 0)
           /\ In(s, q, b + 1, 0) => ~EndsPart(s, CloseBrace) /\ In(Scanned(s, CloseBrace), q, b, 0)
<1>1. /\ OpenBrace \in Alphabet /\ CloseBrace \in Alphabet
      /\ OpenBrace \notin {"[", "]", Quote, Delimiter, Backslash}
      /\ CloseBrace \notin {"[", "]", Quote, Delimiter, Backslash}
  BY BraceFacts
<1>2. CASE In(s, q, b, 0)
  <2>1. s.squares = 0 /\ s.quoted = q /\ s.braces = b /\ ~s.escaped
    BY <1>2 DEF In
  <2> DEFINE u == Nested(s, OpenBrace)
             v == Scanned(s, OpenBrace)
  <2>2. u.braces = b + 1 /\ u.squares = 0 /\ u.quoted = q
    BY <1>1, <2>1, NestedCounts
  <2>3. ~v.escaped /\ SameBalance(v, u) /\ ~EndsPart(s, OpenBrace)
    BY <1>1, <2>1, CountsOnly
  <2>4. In(v, q, b + 1, 0)
    <3> HIDE DEF u, v
    <3> QED BY <2>2, <2>3 DEF In, SameBalance
  <2>5. ~In(s, q, b + 1, 0)
    BY <2>1 DEF In
  <2> QED BY <2>3, <2>4, <2>5
<1>3. CASE In(s, q, b + 1, 0)
  <2>1. s.squares = 0 /\ s.quoted = q /\ s.braces = b + 1 /\ ~s.escaped
    BY <1>3 DEF In
  <2> DEFINE u == Nested(s, CloseBrace)
             v == Scanned(s, CloseBrace)
  <2>2. u.braces = b /\ u.squares = 0 /\ u.quoted = q
    <3>1. u.braces = s.braces - 1 /\ u.squares = 0 /\ u.quoted = q
      BY <1>1, <2>1, NestedCounts
    <3> HIDE DEF u
    <3> QED BY <2>1, <3>1
  <2>3. ~v.escaped /\ SameBalance(v, u) /\ ~EndsPart(s, CloseBrace)
    BY <1>1, <2>1, CountsOnly
  <2>4. In(v, q, b, 0)
    <3> HIDE DEF u, v
    <3> QED BY <2>2, <2>3 DEF In, SameBalance
  <2>5. ~In(s, q, b, 0)
    BY <2>1 DEF In
  <2> QED BY <2>3, <2>4, <2>5
<1> QED BY <1>2, <1>3

LEMMA BracketsCount ==
    ASSUME NEW q \in BOOLEAN, NEW r \in Nat, NEW s \in States
    PROVE  /\ In(s, q, 0, r) => ~EndsPart(s, "[") /\ In(Scanned(s, "["), q, 0, r + 1)
           /\ In(s, q, 0, r + 1) => ~EndsPart(s, "]") /\ In(Scanned(s, "]"), q, 0, r)
<1>1. /\ "[" \in Alphabet /\ "]" \in Alphabet /\ "[" \notin {"{", "}", Quote, Delimiter, Backslash}
      /\ "]" \notin {"{", "}", Quote, Delimiter, Backslash}
  BY AlphabetFacts
<1>2. CASE In(s, q, 0, r)
  <2>1. s.squares = r /\ s.quoted = q /\ s.braces = 0 /\ ~s.escaped
    BY <1>2 DEF In
  <2> DEFINE u == Nested(s, "[")
             v == Scanned(s, "[")
  <2>2. u.braces = 0 /\ u.squares = r + 1 /\ u.quoted = q
    BY <1>1, <2>1, NestedFacts
  <2>3. ~v.escaped /\ SameBalance(v, u) /\ ~EndsPart(s, "[")
    BY <1>1, <2>1, CountsOnly
  <2>4. In(v, q, 0, r + 1)
    <3> HIDE DEF u, v
    <3> QED BY <2>2, <2>3 DEF In, SameBalance
  <2>5. ~In(s, q, 0, r + 1)
    BY <2>1 DEF In
  <2> QED BY <2>3, <2>4, <2>5
<1>3. CASE In(s, q, 0, r + 1)
  <2>1. s.squares = r + 1 /\ s.quoted = q /\ s.braces = 0 /\ ~s.escaped
    BY <1>3 DEF In
  <2> DEFINE u == Nested(s, "]")
             v == Scanned(s, "]")
  <2>2. u.braces = 0 /\ u.squares = r /\ u.quoted = q
    <3>1. u.braces = 0 /\ u.squares = s.squares - 1 /\ u.quoted = q
      BY <1>1, <2>1, NestedFacts
    <3> HIDE DEF u
    <3> QED BY <2>1, <3>1
  <2>3. ~v.escaped /\ SameBalance(v, u) /\ ~EndsPart(s, "]")
    BY <1>1, <2>1, CountsOnly
  <2>4. In(v, q, 0, r)
    <3> HIDE DEF u, v
    <3> QED BY <2>2, <2>3 DEF In, SameBalance
  <2>5. ~In(s, q, 0, r)
    BY <2>1 DEF In
  <2> QED BY <2>3, <2>4, <2>5
<1> QED BY <1>2, <1>3

LEMMA QuotesCount ==
    ASSUME NEW s \in States, NEW q \in BOOLEAN
    PROVE  In(s, q, 0, 0) => ~EndsPart(s, Quote) /\ In(Scanned(s, Quote), ~q, 0, 0)
<1> SUFFICES ASSUME In(s, q, 0, 0) PROVE ~EndsPart(s, Quote) /\ In(Scanned(s, Quote), ~q, 0, 0)
  OBVIOUS
<1>1. Quote \in Alphabet /\ Quote \notin {"{", "}", "[", "]", Delimiter, Backslash}
  BY AlphabetFacts
<1>2. s.squares = 0 /\ s.quoted = q /\ s.braces = 0 /\ ~s.escaped
  BY DEF In
<1> DEFINE u == Nested(s, Quote)
           v == Scanned(s, Quote)
<1>3. u.braces = 0 /\ u.squares = 0 /\ (u.quoted <=> ~q) /\ u.quoted \in BOOLEAN
  BY <1>1, <1>2, NestedFacts, StateTypes
<1>4. ~v.escaped /\ SameBalance(v, u) /\ ~EndsPart(s, Quote)
  BY <1>1, <1>2, CountsOnly
<1> HIDE DEF u, v
<1>5. v.quoted = ~q
  BY <1>3, <1>4 DEF SameBalance
<1> QED BY <1>3, <1>4, <1>5 DEF In, SameBalance, v

LEMMA ContentInert ==
    ASSUME NEW q \in BOOLEAN, NEW b \in Int, NEW r \in Int, Deep(q, b, r),
           NEW ordinary \in SUBSET Alphabet, \A d \in ordinary : Inert(q, b, r, <<d>>),
           NEW o \in Alphabet, NEW c \in Alphabet, NEW nested, NEW inside, NEW n \in Nat,
           \A k \in 0..(n - 1) : \A y \in inside[k] : y \in Seq(Alphabet) /\ Inert(q, b, r, y),
           \A k \in 0..(n - 2) : \A w \in nested[k] :
             w \in Seq(Alphabet) /\ Inert(q, b, r, (<<o>> \o w) \o <<c>>),
           NEW x \in Content(ordinary, o, nested, c, inside, n)
    PROVE  x \in Seq(Alphabet) /\ Inert(q, b, r, x)
<1>1. CASE x = << >>
  <2>1. << >> \in Seq(Alphabet)
    OBVIOUS
  <2> QED BY <1>1, <2>1, InertEmpty
<1>2. ASSUME n # 0, NEW d \in ordinary, NEW y \in inside[n - 1], x = <<d>> \o y
      PROVE  x \in Seq(Alphabet) /\ Inert(q, b, r, x)
  <2> DEFINE z == <<d>>
  <2>1. z \in Seq(Alphabet) /\ Inert(q, b, r, z) /\ x = z \o y
    BY <1>2, OneFacts
  <2>2. n - 1 \in 0..(n - 1)
    BY <1>2
  <2>3. y \in Seq(Alphabet) /\ Inert(q, b, r, y)
    BY <2>2
  <2> HIDE DEF z
  <2> QED BY <2>1, <2>3, InertConcat, ConcatProperties
<1>3. ASSUME n - 2 \in Nat, NEW d \in Alphabet, NEW y \in inside[n - 2], x = <<Backslash, d>> \o y
      PROVE  x \in Seq(Alphabet) /\ Inert(q, b, r, x)
  <2> DEFINE z == <<Backslash, d>>
  <2>0. Backslash \in Alphabet
    BY AlphabetFacts
  <2>1. z \in Seq(Alphabet) /\ Inert(q, b, r, z) /\ x = z \o y
    BY <1>3, <2>0, PairFacts, InertEscape
  <2>2. n - 2 \in 0..(n - 1)
    BY <1>3
  <2>3. y \in Seq(Alphabet) /\ Inert(q, b, r, y)
    BY <2>2
  <2> HIDE DEF z
  <2> QED BY <2>1, <2>3, InertConcat, ConcatProperties
<1>4. ASSUME NEW k \in 0..(n - 2), NEW w \in nested[k], NEW y \in inside[n - 2 - k],
             x = ((<<o>> \o w) \o <<c>>) \o y
      PROVE  x \in Seq(Alphabet) /\ Inert(q, b, r, x)
  <2> DEFINE z == (<<o>> \o w) \o <<c>>
  <2>1. w \in Seq(Alphabet) /\ Inert(q, b, r, z) /\ x = z \o y
    BY <1>4
  <2>2. z \in Seq(Alphabet)
    <3>1. <<o>> \in Seq(Alphabet) /\ <<c>> \in Seq(Alphabet)
      BY OneFacts
    <3> QED BY <2>1, <3>1, ConcatProperties
  <2>3. n - 2 - k \in 0..(n - 1)
    OBVIOUS
  <2>4. y \in Seq(Alphabet) /\ Inert(q, b, r, y)
    BY <2>3
  <2> HIDE DEF z
  <2> QED BY <2>1, <2>2, <2>4, InertConcat, ConcatProperties
<1>5. \/ x = << >>
      \/ n # 0 /\ \E d \in ordinary, y \in inside[n - 1] : x = <<d>> \o y
      \/ n - 2 \in Nat /\ \E d \in Alphabet, y \in inside[n - 2] : x = <<Backslash, d>> \o y
      \/ \E k \in 0..(n - 2) : \E w \in nested[k], y \in inside[n - 2 - k] :
           x = ((<<o>> \o w) \o <<c>>) \o y
  <2>1. HasContent(x, ordinary, o, nested, c, inside, n)
    BY ContentCases
  <2> QED BY <2>1, Zenon DEF HasContent
<1>6. CASE n # 0 /\ \E d \in ordinary, y \in inside[n - 1] : x = <<d>> \o y
  BY <1>2, <1>6
<1>7. CASE n - 2 \in Nat /\ \E d \in Alphabet, y \in inside[n - 2] : x = <<Backslash, d>> \o y
  BY <1>3, <1>7
<1>8. CASE \E k \in 0..(n - 2) : \E w \in nested[k], y \in inside[n - 2 - k] :
             x = ((<<o>> \o w) \o <<c>>) \o y
  BY <1>4, <1>8
<1> QED BY <1>1, <1>5, <1>6, <1>7, <1>8

LEMMA BracesInert ==
    ASSUME NEW n \in 0..MaxLength, NEW x \in InBraces[n], NEW q \in BOOLEAN, ~q, NEW b \in Nat, b # 0
    PROVE  x \in Seq(Alphabet) /\ Inert(q, b, 0, x)
<1> DEFINE Fits(x1) == x1 \in Seq(Alphabet) /\ \A a \in Nat : a # 0 => Inert(q, a, 0, x1)
           T == {m \in 0..MaxLength : \A x1 \in InBraces[m] : Fits(x1)}
           A == Alphabet \ {OpenBrace, CloseBrace, Backslash}
<1>0. MaxLength \in Nat
  BY TextsAssumption
<1>1. ASSUME NEW m \in 0..MaxLength, \A k \in 0..(m - 1) : k \in T PROVE m \in T
  <2> SUFFICES ASSUME NEW x1 \in InBraces[m] PROVE Fits(x1)
    BY Zenon
  <2>1. x1 \in Content(A, OpenBrace, InBraces, CloseBrace, InBraces, m)
    BY InsideUnfolds, Zenon DEF InBraces, OpenBrace, CloseBrace
  <2>2. ASSUME NEW a \in Nat, a # 0 PROVE x1 \in Seq(Alphabet) /\ Inert(q, a, 0, x1)
    <3>1. Deep(q, a, 0) /\ a \in Int /\ m \in Nat
      BY <1>0, <2>2 DEF Deep
    <3>2. OpenBrace \in Alphabet /\ CloseBrace \in Alphabet
      BY BraceFacts
    <3>3. ASSUME NEW d \in A PROVE Inert(q, a, 0, <<d>>)
      <4>1. d \in Alphabet /\ d # Backslash /\ d \notin {OpenBrace, CloseBrace}
        OBVIOUS
      <4>2. /\ d \in {OpenBrace, CloseBrace} => q = TRUE \/ 0 # 0
            /\ d \in {"[", "]"} => a # 0
            /\ d = Quote => a # 0 \/ 0 # 0
            /\ d = Delimiter => Deep(q, a, 0)
        BY <2>2, <3>1, <4>1
      <4>3. 0 \in Int
        OBVIOUS
      <4> QED BY <3>1, <4>1, <4>2, <4>3, InertChar, Zenon
    <3>4. ASSUME NEW k \in 0..(m - 1), NEW y \in InBraces[k]
          PROVE  y \in Seq(Alphabet) /\ Inert(q, a, 0, y)
      <4>1. Fits(y)
        BY <1>1
      <4> QED BY <2>2, <4>1
    <3>5. ASSUME NEW k \in 0..(m - 2), NEW w \in InBraces[k]
          PROVE  w \in Seq(Alphabet) /\ Inert(q, a, 0, (<<OpenBrace>> \o w) \o <<CloseBrace>>)
      <4>1. k \in 0..(m - 1)
        BY <1>0
      <4>2. Fits(w)
        BY <1>1, <4>1
      <4>3. a + 1 \in Nat /\ a + 1 # 0 /\ a + 1 \in Int
        BY <2>2
      <4>4. w \in Seq(Alphabet) /\ Inert(q, a + 1, 0, w)
        BY <4>2, <4>3
      <4>5. Deep(q, a + 1, 0)
        BY <4>3 DEF Deep
      <4>6. /\ \A s \in States : In(s, q, a, 0) =>
                 ~EndsPart(s, OpenBrace) /\ In(Scanned(s, OpenBrace), q, a + 1, 0)
            /\ \A s \in States : In(s, q, a + 1, 0) =>
                 ~EndsPart(s, CloseBrace) /\ In(Scanned(s, CloseBrace), q, a, 0)
        BY BracesCount
      <4> QED BY <3>1, <3>2, <4>3, <4>4, <4>5, <4>6, InertGroup
    <3> HIDE DEF A
    <3>6. A \in SUBSET Alphabet
      BY DEF A
    <3> QED BY <2>1, <3>1, <3>2, <3>3, <3>4, <3>5, <3>6, ContentInert
  <2>3. 1 \in Nat /\ 1 # 0
    OBVIOUS
  <2> QED BY <2>2, <2>3
<1>2. n \in T
  <2> HIDE DEF T
  <2> QED BY <1>1, AllLengths
<1> QED BY <1>2

LEMMA BracketsInert ==
    ASSUME NEW n \in 0..MaxLength, NEW x \in InBrackets[n], NEW q \in BOOLEAN, NEW r \in Nat, r # 0
    PROVE  x \in Seq(Alphabet) /\ Inert(q, 0, r, x)
<1> DEFINE Fits(x1) == x1 \in Seq(Alphabet) /\ \A a \in Nat : a # 0 => Inert(q, 0, a, x1)
           T == {m \in 0..MaxLength : \A x1 \in InBrackets[m] : Fits(x1)}
           A == Alphabet \ {"[", "]", Backslash}
<1>0. MaxLength \in Nat
  BY TextsAssumption
<1>1. ASSUME NEW m \in 0..MaxLength, \A k \in 0..(m - 1) : k \in T PROVE m \in T
  <2> SUFFICES ASSUME NEW x1 \in InBrackets[m] PROVE Fits(x1)
    BY Zenon
  <2>1. x1 \in Content(A, "[", InBrackets, "]", InBrackets, m)
    BY InsideUnfolds, Zenon DEF InBrackets
  <2>2. ASSUME NEW a \in Nat, a # 0 PROVE x1 \in Seq(Alphabet) /\ Inert(q, 0, a, x1)
    <3>1. Deep(q, 0, a) /\ a \in Int /\ m \in Nat
      BY <1>0, <2>2 DEF Deep
    <3>2. "[" \in Alphabet /\ "]" \in Alphabet
      BY AlphabetFacts
    <3>3. ASSUME NEW d \in A PROVE Inert(q, 0, a, <<d>>)
      <4>1. d \in Alphabet /\ d # Backslash /\ d \notin {"[", "]"}
        OBVIOUS
      <4>2. /\ d \in {OpenBrace, CloseBrace} => q = TRUE \/ a # 0
            /\ d \in {"[", "]"} => 0 # 0
            /\ d = Quote => 0 # 0 \/ a # 0
            /\ d = Delimiter => Deep(q, 0, a)
        BY <2>2, <3>1, <4>1
      <4>3. 0 \in Int
        OBVIOUS
      <4> QED BY <3>1, <4>1, <4>2, <4>3, InertChar, Zenon
    <3>4. ASSUME NEW k \in 0..(m - 1), NEW y \in InBrackets[k]
          PROVE  y \in Seq(Alphabet) /\ Inert(q, 0, a, y)
      <4>1. Fits(y)
        BY <1>1
      <4> QED BY <2>2, <4>1
    <3>5. ASSUME NEW k \in 0..(m - 2), NEW w \in InBrackets[k]
          PROVE  w \in Seq(Alphabet) /\ Inert(q, 0, a, (<<"[">> \o w) \o <<"]">>)
      <4>1. k \in 0..(m - 1)
        BY <1>0
      <4>2. Fits(w)
        BY <1>1, <4>1
      <4>3. a + 1 \in Nat /\ a + 1 # 0 /\ a + 1 \in Int
        BY <2>2
      <4>4. w \in Seq(Alphabet) /\ Inert(q, 0, a + 1, w)
        BY <4>2, <4>3
      <4>5. Deep(q, 0, a + 1)
        BY <4>3 DEF Deep
      <4>6. /\ \A s \in States : In(s, q, 0, a) =>
                 ~EndsPart(s, "[") /\ In(Scanned(s, "["), q, 0, a + 1)
            /\ \A s \in States : In(s, q, 0, a + 1) =>
                 ~EndsPart(s, "]") /\ In(Scanned(s, "]"), q, 0, a)
        BY BracketsCount
      <4> QED BY <3>1, <3>2, <4>3, <4>4, <4>5, <4>6, InertGroup
    <3> HIDE DEF A
    <3>6. A \in SUBSET Alphabet
      BY DEF A
    <3> QED BY <2>1, <3>1, <3>2, <3>3, <3>4, <3>5, <3>6, ContentInert
  <2>3. 1 \in Nat /\ 1 # 0
    OBVIOUS
  <2> QED BY <2>2, <2>3
<1>2. n \in T
  <2> HIDE DEF T
  <2> QED BY <1>1, AllLengths
<1> QED BY <1>2

LEMMA QuotesInert ==
    ASSUME NEW n \in 0..MaxLength, NEW x \in InQuotes[n]
    PROVE  x \in Seq(Alphabet) /\ Inert(TRUE, 0, 0, x)
<1> DEFINE Fits(x1) == x1 \in Seq(Alphabet) /\ Inert(TRUE, 0, 0, x1)
           T == {m \in 0..MaxLength : \A x1 \in InQuotes[m] : Fits(x1)}
           A == Alphabet \ {"[", "]", Quote, Backslash}
<1>0. MaxLength \in Nat
  BY TextsAssumption
<1>1. ASSUME NEW m \in 0..MaxLength, \A k \in 0..(m - 1) : k \in T PROVE m \in T
  <2> SUFFICES ASSUME NEW x1 \in InQuotes[m]
               PROVE  x1 \in Seq(Alphabet) /\ Inert(TRUE, 0, 0, x1)
    BY Zenon
  <2>1. x1 \in Content(A, "[", InBrackets, "]", InQuotes, m)
    BY QuotesUnfolds, Zenon
  <2>2. Deep(TRUE, 0, 0) /\ m \in Nat /\ 0 \in Int /\ 1 \in Int /\ 1 \in Nat /\ 1 # 0 /\ 0 \in Nat
    BY <1>0 DEF Deep
  <2>3. "[" \in Alphabet /\ "]" \in Alphabet
    BY AlphabetFacts
  <2>4. ASSUME NEW d \in A PROVE Inert(TRUE, 0, 0, <<d>>)
    BY <2>2, InertChar
  <2>5. ASSUME NEW k \in 0..(m - 1), NEW y \in InQuotes[k]
        PROVE  y \in Seq(Alphabet) /\ Inert(TRUE, 0, 0, y)
    BY <1>1
  <2>6. ASSUME NEW k \in 0..(m - 2), NEW w \in InBrackets[k]
        PROVE  w \in Seq(Alphabet) /\ Inert(TRUE, 0, 0, (<<"[">> \o w) \o <<"]">>)
    <3>1. k \in 0..MaxLength
      BY <1>0
    <3>2. w \in Seq(Alphabet) /\ Inert(TRUE, 0, 1, w)
      BY <2>2, <3>1, BracketsInert
    <3>3. Deep(TRUE, 0, 1) /\ 0 + 1 = 1
      BY DEF Deep
    <3>4. /\ \A s \in States : In(s, TRUE, 0, 0) => ~EndsPart(s, "[") /\ In(Scanned(s, "["), TRUE, 0, 1)
          /\ \A s \in States : In(s, TRUE, 0, 1) => ~EndsPart(s, "]") /\ In(Scanned(s, "]"), TRUE, 0, 0)
      BY <2>2, <3>3, BracketsCount
    <3> QED BY <2>2, <2>3, <3>2, <3>3, <3>4, InertGroup
  <2> HIDE DEF A
  <2>7. A \in SUBSET Alphabet
    BY DEF A
  <2> QED BY <2>1, <2>2, <2>3, <2>4, <2>5, <2>6, <2>7, ContentInert
<1>2. n \in T
  <2> HIDE DEF T
  <2> QED BY <1>1, AllLengths
<1> QED BY <1>2

\* Groups of braces and brackets.
LEMMA BraceGroup ==
    ASSUME NEW n \in 0..MaxLength, NEW x \in InBraces[n]
    PROVE  x \in Seq(Alphabet) /\ Inert(FALSE, 0, 0, (<<OpenBrace>> \o x) \o <<CloseBrace>>)
<1>1. OpenBrace \in Alphabet /\ CloseBrace \in Alphabet
  BY BraceFacts
<1>2. 0 \in Nat /\ 0 \in Int /\ 1 \in Nat /\ 1 \in Int /\ 1 # 0 /\ 0 + 1 = 1
  OBVIOUS
<1>3. x \in Seq(Alphabet) /\ Inert(FALSE, 1, 0, x)
  BY <1>2, BracesInert
<1>4. /\ \A s \in States : In(s, FALSE, 0, 0) =>
           ~EndsPart(s, OpenBrace) /\ In(Scanned(s, OpenBrace), FALSE, 1, 0)
      /\ \A s \in States : In(s, FALSE, 1, 0) =>
           ~EndsPart(s, CloseBrace) /\ In(Scanned(s, CloseBrace), FALSE, 0, 0)
  BY <1>2, BracesCount
<1>5. Deep(FALSE, 1, 0)
  BY DEF Deep
<1> QED BY <1>1, <1>2, <1>3, <1>4, <1>5, InertGroup

LEMMA BracketGroup ==
    ASSUME NEW n \in 0..MaxLength, NEW x \in InBrackets[n]
    PROVE  x \in Seq(Alphabet) /\ Inert(FALSE, 0, 0, (<<"[">> \o x) \o <<"]">>)
<1>1. "[" \in Alphabet /\ "]" \in Alphabet
  BY AlphabetFacts
<1>2. 0 \in Nat /\ 0 \in Int /\ 1 \in Nat /\ 1 \in Int /\ 1 # 0 /\ 0 + 1 = 1
  OBVIOUS
<1>3. x \in Seq(Alphabet) /\ Inert(FALSE, 0, 1, x)
  BY <1>2, BracketsInert
<1>4. /\ \A s \in States : In(s, FALSE, 0, 0) => ~EndsPart(s, "[") /\ In(Scanned(s, "["), FALSE, 0, 1)
      /\ \A s \in States : In(s, FALSE, 0, 1) => ~EndsPart(s, "]") /\ In(Scanned(s, "]"), FALSE, 0, 0)
  BY <1>2, BracketsCount
<1>5. Deep(FALSE, 0, 1)
  BY DEF Deep
<1> QED BY <1>1, <1>2, <1>3, <1>4, <1>5, InertGroup

\* Groups are inert outside of everything, end in what closes them, and are longer
\* than that.
LEMMA GroupFacts ==
    ASSUME NEW g \in Groups
    PROVE  /\ g \in Seq(Alphabet) /\ Inert(FALSE, 0, 0, g)
           /\ \E z \in Seq(Alphabet), c \in Alphabet : g = z \o <<c>> /\ Len(z) > 0 /\ c # Delimiter
<1>0. MaxLength \in Nat
  BY TextsAssumption
<1>1. /\ "[" \in Alphabet /\ "]" \in Alphabet /\ Quote \in Alphabet
      /\ "]" # Delimiter /\ Quote # Delimiter
  BY AlphabetFacts
<1>2. OpenBrace \in Alphabet /\ CloseBrace \in Alphabet /\ CloseBrace # Delimiter
  BY BraceFacts
<1>3. 0 \in Nat /\ 0 \in Int /\ 1 \in Nat /\ 1 \in Int /\ 1 # 0 /\ 0 + 1 = 1
  OBVIOUS
<1>4. ASSUME NEW o \in Alphabet, NEW c \in Alphabet, c # Delimiter, NEW x \in Seq(Alphabet),
             g = (<<o>> \o x) \o <<c>>, Inert(FALSE, 0, 0, g)
      PROVE  /\ g \in Seq(Alphabet) /\ Inert(FALSE, 0, 0, g)
             /\ \E z \in Seq(Alphabet), c1 \in Alphabet : g = z \o <<c1>> /\ Len(z) > 0 /\ c1 # Delimiter
  <2> DEFINE z == <<o>> \o x
  <2>1. <<o>> \in Seq(Alphabet) /\ Len(<<o>>) = 1 /\ <<c>> \in Seq(Alphabet)
    BY OneFacts
  <2>2. z \in Seq(Alphabet) /\ Len(z) = 1 + Len(x) /\ Len(x) \in Nat
    BY <2>1, ConcatFacts
  <2> HIDE DEF z
  <2>3. g = z \o <<c>> /\ Len(z) > 0
    BY <1>4, <2>2 DEF z
  <2> QED BY <1>4, <2>1, <2>2, <2>3, ConcatProperties
<1>5. PICK n \in 0..(MaxLength - 2) : \/ g \in Group(OpenBrace, InBraces[n], CloseBrace)
                                      \/ g \in Group("[", InBrackets[n], "]")
                                      \/ g \in Group(Quote, InQuotes[n], Quote)
  BY Zenon DEF Groups, OpenBrace, CloseBrace
<1>6. n \in 0..MaxLength
  BY <1>0
<1>7. CASE g \in Group(OpenBrace, InBraces[n], CloseBrace)
  <2>1. PICK x \in InBraces[n] : g = (<<OpenBrace>> \o x) \o <<CloseBrace>>
    BY <1>7 DEF Group
  <2>2. x \in Seq(Alphabet) /\ Inert(FALSE, 0, 0, g)
    BY <1>6, <2>1, BraceGroup
  <2> QED BY <1>2, <1>4, <2>1, <2>2
<1>8. CASE g \in Group("[", InBrackets[n], "]")
  <2>1. PICK x \in InBrackets[n] : g = (<<"[">> \o x) \o <<"]">>
    BY <1>8 DEF Group
  <2>2. x \in Seq(Alphabet) /\ Inert(FALSE, 0, 0, g)
    BY <1>6, <2>1, BracketGroup
  <2> QED BY <1>1, <1>4, <2>1, <2>2
<1>9. CASE g \in Group(Quote, InQuotes[n], Quote)
  <2>1. PICK x \in InQuotes[n] : g = (<<Quote>> \o x) \o <<Quote>>
    BY <1>9 DEF Group
  <2>2. x \in Seq(Alphabet) /\ Inert(TRUE, 0, 0, x)
    BY <1>6, QuotesInert
  <2>3. /\ \A s \in States : In(s, FALSE, 0, 0) => ~EndsPart(s, Quote) /\ In(Scanned(s, Quote), TRUE, 0, 0)
        /\ \A s \in States : In(s, TRUE, 0, 0) => ~EndsPart(s, Quote) /\ In(Scanned(s, Quote), FALSE, 0, 0)
    <3>1. ~FALSE = TRUE /\ ~TRUE = FALSE
      OBVIOUS
    <3> QED BY <3>1, QuotesCount
  <2>4. Deep(TRUE, 0, 0)
    BY DEF Deep
  <2>5. Inert(FALSE, 0, 0, g)
    BY <1>1, <1>3, <2>1, <2>2, <2>3, <2>4, InertGroup
  <2> QED BY <1>1, <1>4, <2>1, <2>2, <2>5
<1> QED BY <1>5, <1>7, <1>8, <1>9

-----------------------------------------------------------------------------
(* Texts and their parts.                                                  *)

\* No part is one that the code loses.
NoneLost == \A i \in 1..Len(parts) : ~Loses(parts[i])

\* Where the scanner is after a text: outside of everything, with the part that is
\* being written; or in a group that is not closed.
Outside(s) == /\ In(s, FALSE, 0, 0) /\ s.part = part
              /\ part # << >> => s.before = Last(part) /\ (Last(part) = Delimiter => Len(part) > 1)
Amid(s) == ~Balanced(s) /\ part = << >>

TextsTyped == /\ written \in Seq(Alphabet) /\ Len(written) <= MaxLength
              /\ parts \in Seq(Seq(Alphabet)) /\ part \in Seq(Alphabet)
              /\ open \in BOOLEAN /\ plain \in BOOLEAN
TextsInv == /\ TextsTyped
            /\ ~open => Outside(Scan(written))
            /\ open => Amid(Scan(written))
            /\ NoneLost => Scan(written).split = parts

LEMMA BeforeIsLast ==
    ASSUME NEW t \in Seq(Alphabet), NEW z \in Seq(Alphabet), NEW c \in Alphabet
    PROVE  Scan(t \o (z \o <<c>>)).before = c
<1> DEFINE y == t \o z
           x == <<c>>
<1>1. x \in Seq(Alphabet) /\ y \in Seq(Alphabet)
  BY OneFacts, ConcatProperties
<1>2. y \o x = t \o (z \o x)
  <2> HIDE DEF x
  <2> QED BY <1>1, ConcatAssociative
<1>3. Scan(y \o x) = Scanned(Scan(y), c) /\ Scan(y) \in States
  BY <1>1, ScanNext
<1>4. Scanned(Scan(y), c).before = c
  BY <1>3, ScannedNext
<1> QED BY <1>2, <1>3, <1>4

LEMMA LastOfConcat ==
    ASSUME NEW S, NEW x \in Seq(S), NEW c \in S
    PROVE  x \o <<c>> # << >> /\ Last(x \o <<c>>) = c /\ Len(x \o <<c>>) = Len(x) + 1
<1>1. x \o <<c>> = Append(x, c)
  BY OneFacts
<1>2. Len(Append(x, c)) = Len(x) + 1 /\ Append(x, c)[Len(x) + 1] = c /\ Len(x) \in Nat
  BY AppendProperties, LenProperties
<1>3. Len(<< >>) = 0
  OBVIOUS
<1>4. x \o <<c>> # << >>
  BY <1>1, <1>2, <1>3
<1> QED BY <1>1, <1>2, <1>4 DEF Last

\* What is written outside of everything and leaves the scanner there belongs to the
\* part.
LEMMA PartGrows ==
    ASSUME TextsInv, ~open, NEW z \in Seq(Alphabet), NEW c \in Alphabet,
           Writes(z \o <<c>>), Passed(written, z \o <<c>>), c = Delimiter => Len(z) > 0,
           part' = part \o (z \o <<c>>), parts' = parts, open' = open, plain' \in BOOLEAN
    PROVE  TextsInv'
<1> DEFINE x == z \o <<c>>
           p == part \o z
<1>1. x \in Seq(Alphabet) /\ p \in Seq(Alphabet) /\ Len(p) = Len(part) + Len(z) /\ Len(part) \in Nat /\ Len(z) \in Nat
  BY OneFacts, ConcatFacts DEF TextsInv, TextsTyped
<1>2. written' = written \o x /\ Len(written') <= MaxLength /\ written \in Seq(Alphabet) /\ part \in Seq(Alphabet)
  BY DEF Writes, TextsInv, TextsTyped
<1>3. part' = p \o <<c>>
  <2>1. <<c>> \in Seq(Alphabet)
    BY OneFacts
  <2>2. p \o <<c>> = part \o (z \o <<c>>)
    BY <1>2, <2>1, ConcatAssociative
  <2> QED BY <2>2
<1>4. Scan(written').before = c
  BY <1>2, BeforeIsLast
<1> HIDE DEF x, p
<1>5. part' # << >> /\ Last(part') = c /\ Len(part') = Len(p) + 1
  <2> DEFINE v == p \o <<c>>
  <2>1. v # << >> /\ Last(v) = c /\ Len(v) = Len(p) + 1
    BY <1>1, LastOfConcat
  <2> HIDE DEF v
  <2>2. part' = v
    BY <1>3 DEF v
  <2> QED BY <2>1, <2>2
<1>6. In(Scan(written), FALSE, 0, 0) /\ Scan(written).part = part /\ (NoneLost => Scan(written).split = parts)
  BY DEF TextsInv, Outside
<1>7. Passed(written, x)
  BY DEF x
<1>8. written' \in Seq(Alphabet) /\ In(Scan(written'), FALSE, 0, 0)
  BY <1>1, <1>2, <1>6, <1>7, PassedIn
<1>9. Scan(written').part = part' /\ Scan(written').split = Scan(written).split
  <2>1. part' = part \o x
    BY DEF x
  <2> QED BY <1>2, <1>6, <1>7, <2>1 DEF Passed, Adds
<1>10. part' \in Seq(Alphabet)
  BY <1>1, <1>2, ConcatProperties DEF x
<1>11. Outside(Scan(written))'
  <2>1. Last(part') = Delimiter => Len(part') > 1
    BY <1>1, <1>5
  <2> QED BY <1>4, <1>5, <1>8, <1>9, <2>1 DEF Outside
<1>12. TextsTyped'
  BY <1>2, <1>8, <1>10 DEF TextsInv, TextsTyped
<1>13. NoneLost' => Scan(written').split = parts'
  BY <1>6, <1>9 DEF NoneLost
<1> QED BY <1>11, <1>12, <1>13 DEF TextsInv

LEMMA OrdinaryKeeps == ASSUME TextsInv, WriteOrdinary PROVE TextsInv'
<1> DEFINE z == << >>
           c == Ordinary
<1>1. /\ c \in Alphabet /\ c # Backslash /\ c # Delimiter /\ c # Quote /\ c \notin {"[", "]"}
      /\ c \notin {OpenBrace, CloseBrace}
  BY AlphabetFacts, Zenon DEF OpenBrace, CloseBrace
<1> HIDE DEF c
<1>2. /\ Writes(<<c>>) /\ ~open /\ part' = Append(part, c) /\ parts' = parts /\ open' = open /\ plain' = plain
      /\ written \in Seq(Alphabet) /\ part \in Seq(Alphabet) /\ plain \in BOOLEAN
      /\ In(Scan(written), FALSE, 0, 0)
  BY DEF WriteOrdinary, Writes, TextsInv, TextsTyped, Outside, c
<1>3. <<c>> \in Seq(Alphabet) /\ part \o <<c>> = Append(part, c) /\ z \in Seq(Alphabet) /\ z \o <<c>> = <<c>>
  <2>1. <<c>> \in Seq(Alphabet) /\ part \o <<c>> = Append(part, c)
    BY <1>1, <1>2, OneFacts
  <2>2. << >> \in Seq(Alphabet)
    OBVIOUS
  <2> QED BY <2>1, <2>2, ConcatEmptySeq
<1>4. Passed(written, <<c>>)
  <2> DEFINE s == Scan(written)
  <2>1. s \in States /\ s.quoted = FALSE /\ s.braces = 0 /\ s.squares = 0 /\ ~s.escaped
    BY <1>2, ScanIn DEF In
  <2> DEFINE u == Nested(s, c)
  <2>2. SameBalance(u, s)
    <3>1. u.braces = s.braces /\ u.squares = s.squares /\ u.quoted = s.quoted
      BY <1>1, <2>1, NestedCounts
    <3> QED BY <3>1 DEF SameBalance
  <2>3. ~EndsPart(s, c)
    BY <1>1 DEF EndsPart
  <2> QED BY <1>1, <1>2, <2>1, <2>2, <2>3, CharPasses
<1> HIDE DEF z
<1> QED BY <1>1, <1>2, <1>3, <1>4, PartGrows

LEMMA EscapeKeeps == ASSUME TextsInv, WriteEscape PROVE TextsInv'
<1>1. PICK x \in Escapes : Writes(x) /\ part' = part \o x /\ parts' = parts /\ open' = open /\ plain' = plain
  BY DEF WriteEscape
<1>2. PICK c \in Alphabet : x = <<Backslash, c>>
  BY <1>1 DEF Escapes
<1> DEFINE z == <<Backslash>>
<1>3. Backslash \in Alphabet
  BY AlphabetFacts
<1>4. z \in Seq(Alphabet) /\ x = z \o <<c>> /\ Len(z) = 1
  BY <1>2, <1>3, PairFacts, OneFacts
<1>5. /\ ~open /\ written \in Seq(Alphabet) /\ plain \in BOOLEAN /\ In(Scan(written), FALSE, 0, 0)
  BY <1>1 DEF Writes, TextsInv, TextsTyped, Outside
<1>6. Passed(written, x)
  BY <1>2, <1>5, EscapePasses DEF In
<1> HIDE DEF z
<1>7. Len(z) > 0
  BY <1>4
<1> QED BY <1>1, <1>4, <1>5, <1>6, <1>7, PartGrows

LEMMA GroupKeeps == ASSUME TextsInv, WriteGroup PROVE TextsInv'
<1>1. PICK g \in Groups : /\ Writes(g) /\ part' = part \o g /\ parts' = parts /\ open' = open
                          /\ plain' \in BOOLEAN
  BY Zenon DEF WriteGroup
<1>2. g \in Seq(Alphabet) /\ Inert(FALSE, 0, 0, g)
  BY GroupFacts
<1>3. PICK z \in Seq(Alphabet), c \in Alphabet : g = z \o <<c>> /\ Len(z) > 0 /\ c # Delimiter
  BY GroupFacts
<1>4. ~open /\ written \in Seq(Alphabet) /\ In(Scan(written), FALSE, 0, 0)
  BY <1>1 DEF Writes, TextsInv, TextsTyped, Outside
<1>5. Passed(written, g)
  BY <1>2, <1>4 DEF Inert
<1> QED BY <1>1, <1>3, <1>4, <1>5, PartGrows

LEMMA UnfinishedKeeps == ASSUME TextsInv, WriteUnfinished PROVE TextsInv'
<1>1. PICK x \in Unfinished : /\ Writes(x) /\ part' = << >> /\ open' = TRUE /\ parts' = parts
                              /\ plain' = plain
  BY DEF WriteUnfinished
<1>2. PICK g \in Groups : \E n \in 1..(Len(g) - 1) : x = SubSeq(g, 1, n)
  BY <1>1 DEF Unfinished
<1>3. PICK n \in 1..(Len(g) - 1) : x = SubSeq(g, 1, n)
  BY <1>2
<1>4. g \in Seq(Alphabet) /\ Inert(FALSE, 0, 0, g)
  BY GroupFacts
<1>5. /\ ~open /\ written \in Seq(Alphabet) /\ In(Scan(written), FALSE, 0, 0)
      /\ written' = written \o x /\ Len(written') <= MaxLength /\ plain \in BOOLEAN
      /\ parts \in Seq(Seq(Alphabet))
  BY <1>1 DEF Writes, TextsInv, TextsTyped, Outside
<1>6. Adds(written, x) /\ ~Balanced(Scan(written \o x))
  BY <1>3, <1>4, <1>5 DEF Inert, Within
<1>7. x \in Seq(Alphabet)
  <2>1. Len(g) \in Nat /\ n \in 0..Len(g)
    BY <1>4, LenProperties
  <2> QED BY <1>3, <1>4, <2>1, PrefixFacts
<1>8. written' \in Seq(Alphabet)
  BY <1>5, <1>7, ConcatProperties
<1>9. TextsTyped'
  <2>1. << >> \in Seq(Alphabet)
    OBVIOUS
  <2> QED BY <1>1, <1>5, <1>8, <2>1 DEF TextsTyped
<1>10. Amid(Scan(written))'
  BY <1>1, <1>5, <1>6 DEF Amid
<1>11. NoneLost' => Scan(written').split = parts'
  BY <1>1, <1>5, <1>6 DEF NoneLost, Adds, TextsInv
<1> QED BY <1>1, <1>9, <1>10, <1>11 DEF TextsInv

LEMMA DelimiterKeeps == ASSUME TextsInv, WriteDelimiter PROVE TextsInv'
<1> DEFINE c == Delimiter
           s == Scan(written)
           u == Scan(written')
<1>1. /\ c \in Alphabet /\ c # Backslash /\ c # Quote /\ c \notin {"[", "]"}
      /\ c \notin {OpenBrace, CloseBrace}
  BY AlphabetFacts, Zenon DEF OpenBrace, CloseBrace
<1>2. /\ ~open /\ written' = written \o <<c>> /\ Len(written') <= MaxLength
      /\ parts' = (IF part = << >> THEN parts ELSE Append(parts, part)) /\ part' = << >>
      /\ open' = open /\ plain' = plain
      /\ written \in Seq(Alphabet) /\ part \in Seq(Alphabet) /\ parts \in Seq(Seq(Alphabet))
      /\ plain \in BOOLEAN /\ open \in BOOLEAN /\ Outside(s) /\ (NoneLost => s.split = parts)
  BY DEF WriteDelimiter, Writes, TextsInv, TextsTyped
<1>3. written' \in Seq(Alphabet) /\ s \in States /\ u \in States /\ u = Scanned(s, c)
  BY <1>1, <1>2, ScanNext
<1>4. In(s, FALSE, 0, 0) /\ s.part = part
  BY <1>2 DEF Outside
<1>5. EndsPart(s, c)
  BY <1>4 DEF EndsPart, In, Balanced
<1> HIDE DEF c, s, u
<1>6. /\ u.part = << >> /\ SameBalance(u, Nested(s, c)) /\ ~u.escaped
      /\ part = << >> \/ s.before = Delimiter => u.split = s.split
      /\ part # << >> /\ s.before # Delimiter => u.split = Append(s.split, part)
  <2>1. ~s.escaped
    BY <1>4 DEF In
  <2> DEFINE v == Scanned(s, c)
  <2>2. /\ v.part = << >> /\ SameBalance(v, Nested(s, c)) /\ (v.escaped <=> c = Backslash /\ ~s.escaped)
        /\ s.part = << >> \/ s.before = Delimiter => v.split = s.split
        /\ s.part # << >> /\ s.before # Delimiter => v.split = Append(s.split, s.part)
    BY <1>1, <1>3, <1>5, <2>1, ScannedNext
  <2> HIDE DEF v
  <2>3. u = v
    BY <1>3 DEF v
  <2> QED BY <1>1, <1>4, <2>2, <2>3
<1>7. In(u, FALSE, 0, 0)
  <2> DEFINE v == Nested(s, c)
  <2>1. v.braces = s.braces /\ v.squares = s.squares /\ v.quoted = s.quoted
    BY <1>1, <1>3, NestedCounts
  <2> HIDE DEF v
  <2>2. SameBalance(u, v)
    BY <1>6 DEF v
  <2> QED BY <1>4, <1>6, <2>1, <2>2 DEF In, SameBalance
<1>8. TextsTyped'
  <2>1. << >> \in Seq(Alphabet) /\ Append(parts, part) \in Seq(Seq(Alphabet))
    BY <1>2, AppendProperties
  <2> QED BY <1>2, <1>3, <2>1 DEF TextsTyped
<1>9. Outside(Scan(written))'
  BY <1>2, <1>6, <1>7 DEF Outside, u
<1>10. ASSUME NoneLost' PROVE u.split = parts'
  <2>1. CASE part = << >>
    <3>1. NoneLost
      BY <1>2, <1>10, <2>1 DEF NoneLost
    <3> QED BY <1>2, <1>6, <2>1, <3>1
  <2>2. CASE part # << >>
    <3>1. /\ parts' = Append(parts, part) /\ Len(parts') = Len(parts) + 1 /\ Len(parts) \in Nat
          /\ parts'[Len(parts) + 1] = part /\ \A i \in 1..Len(parts) : parts'[i] = parts[i]
      BY <1>2, <2>2, AppendProperties, LenProperties
    <3>2. \A i \in 1..Len(parts') : ~Loses(parts'[i])
      BY <1>10 DEF NoneLost, Loses
    <3>3. ~Loses(part)
      <4>1. Len(parts) + 1 \in 1..Len(parts')
        BY <3>1
      <4> QED BY <3>1, <3>2, <4>1
    <3>4. NoneLost
      <4> SUFFICES ASSUME NEW i \in 1..Len(parts) PROVE ~Loses(parts[i])
        BY DEF NoneLost
      <4>1. i \in 1..Len(parts') /\ parts'[i] = parts[i]
        BY <3>1
      <4> QED BY <3>2, <4>1
    <3>5. s.before # Delimiter
      BY <1>2, <2>2, <3>3 DEF Outside, Loses
    <3> QED BY <1>2, <1>6, <2>2, <3>1, <3>4, <3>5
  <2> QED BY <2>1, <2>2
<1> QED BY <1>2, <1>8, <1>9, <1>10 DEF TextsInv, u

LEMMA TextsInitial == TextsInit => TextsInv
<1> SUFFICES ASSUME TextsInit PROVE TextsInv
  OBVIOUS
<1>1. << >> \in Seq(Alphabet) /\ << >> \in Seq(Seq(Alphabet)) /\ Len(<< >>) = 0 /\ 0 <= MaxLength
  BY TextsAssumption
<1>2. Outside(Scan(<< >>)) /\ Scan(<< >>).split = << >>
  BY ScanEmpty, StartFacts DEF Outside, In, TextsInit
<1> QED BY <1>1, <1>2 DEF TextsInit, TextsInv, TextsTyped

LEMMA TextsStep == TextsInv /\ [TextsNext]_texts => TextsInv'
<1> SUFFICES ASSUME TextsInv, [TextsNext]_texts PROVE TextsInv'
  OBVIOUS
<1>1. CASE UNCHANGED texts
  BY <1>1 DEF texts, TextsInv, TextsTyped, Outside, Amid, NoneLost, Loses
<1> QED BY <1>1, OrdinaryKeeps, EscapeKeeps, GroupKeeps, UnfinishedKeeps, DelimiterKeeps DEF TextsNext

LEMMA TextsInvHolds == TextsSpec => []TextsInv
<1>1. TextsInit => TextsInv
  BY TextsInitial
<1>2. TextsInv /\ [TextsNext]_texts => TextsInv'
  BY TextsStep
<1> QED BY <1>1, <1>2, PTL DEF TextsSpec

LEMMA TextsFacts == TextsInv => TextsTypeOK /\ SplitsByRules /\ CompleteByRules
<1> SUFFICES ASSUME TextsInv PROVE TextsTypeOK /\ SplitsByRules /\ CompleteByRules
  OBVIOUS
<1> DEFINE s == Scan(written)
<1>1. s \in States
  BY ScanIn DEF TextsInv, TextsTyped
<1>2. /\ Split(written) = IF Balanced(s) /\ s.part # << >> THEN Append(s.split, s.part) ELSE s.split
      /\ IsComplete(written) = Balanced(s)
  BY DEF Split, IsComplete
<1>3. ~open => Outside(s)
  BY DEF TextsInv
<1>4. open => Amid(s)
  BY DEF TextsInv
<1>5. NoneLost => s.split = parts
  BY DEF TextsInv
<1> HIDE DEF s
<1>6. Split(written) \in Seq(Seq(Alphabet) \ {<< >>})
  <2>1. s.split \in Seq(Seq(Alphabet) \ {<< >>}) /\ s.part \in Seq(Alphabet)
    BY <1>1, StateTypes
  <2>2. s.part # << >> => Append(s.split, s.part) \in Seq(Seq(Alphabet) \ {<< >>})
    BY <2>1, AppendProperties
  <2> QED BY <1>2, <2>1, <2>2
<1>7. Balanced(s) <=> ~open
  BY <1>3, <1>4 DEF Outside, Amid, In, Balanced
<1>8. ASSUME NoneLost PROVE Split(written) = AllParts
  <2>1. CASE open
    BY <1>2, <1>4, <1>5, <1>7, <1>8, <2>1 DEF Amid, AllParts
  <2>2. CASE ~open
    BY <1>2, <1>3, <1>5, <1>7, <1>8, <2>2 DEF Outside, AllParts
  <2> QED BY <2>1, <2>2
<1>9. TextsTypeOK
  BY <1>6 DEF TextsTypeOK, TextsInv, TextsTyped
<1>10. SplitsByRules
  BY <1>8 DEF SplitsByRules, NoneLost
<1>11. IsComplete(written) \in BOOLEAN
  BY <1>2 DEF Balanced
<1>12. CompleteByRules
  BY <1>2, <1>7, <1>11 DEF CompleteByRules, TextsInv, TextsTyped
<1> QED BY <1>9, <1>10, <1>12

\* Whatever is written, it stays a text of the alphabet within its bound, and the
\* split of it is a list of texts that are not empty (Tcl_split, tcl.c:494-563).
THEOREM TextTypes == TextsSpec => []TextsTypeOK
  BY TextsInvHolds, TextsFacts, PTL

\* Tcl_split finds the parts that the rules say in a text of any length, with
\* groups nested to any depth, but for the parts that it loses (tcl.c:494-563).
THEOREM RulesSplit == TextsSpec => []SplitsByRules
  BY TextsInvHolds, TextsFacts, PTL

\* Tcl_isComplete says that a text is complete exactly if it does not end within a
\* group (tcl.c:655-660).
THEOREM RulesComplete == TextsSpec => []CompleteByRules
  BY TextsInvHolds, TextsFacts, PTL

-----------------------------------------------------------------------------
(* Induction over numbers and sequences, for sets.                         *)

LEMMA AllNumbers ==
    ASSUME NEW T, 0 \in T, \A k \in Nat : k \in T => k + 1 \in T
    PROVE  \A k \in Nat : k \in T
<1> DEFINE U == {k \in Nat : k \notin T}
<1> SUFFICES ASSUME U # {} PROVE FALSE
  OBVIOUS
<1>1. U \subseteq Nat
  OBVIOUS
<1>2. PICK n \in U : \A k \in U : n <= k
  <2> HIDE DEF U
  <2> QED BY <1>1, LeastElement
<1>3. n \in Nat /\ n # 0 /\ n \notin T
  OBVIOUS
<1>4. n - 1 \in Nat /\ ~(n <= n - 1) /\ (n - 1) + 1 = n
  BY <1>3
<1>5. n - 1 \in T
  BY <1>2, <1>4
<1> QED BY <1>3, <1>4, <1>5

LEMMA AllSequences ==
    ASSUME NEW S, NEW T, << >> \in T, \A s \in Seq(S), c \in S : s \in T => s \o <<c>> \in T
    PROVE  \A s \in Seq(S) : s \in T
<1> DEFINE U == {n \in Nat : \A s \in Seq(S) : Len(s) = n => s \in T}
<1>1. ASSUME NEW n \in Nat, n \in U, NEW s \in Seq(S), Len(s) = n + 1 PROVE s \in T
  <2>1. s # << >>
    BY <1>1
  <2>2. PICK u \in Seq(S), c \in S : s = Append(u, c)
    BY <2>1, SequenceEmptyOrAppend
  <2>3. Len(u) \in Nat /\ Len(s) = Len(u) + 1
    BY <2>2, AppendProperties, LenProperties
  <2>4. Len(u) = n
    BY <1>1, <2>3
  <2>5. u \in T
    BY <1>1, <2>4
  <2> QED BY <2>2, <2>5, AppendIsConcat
<1>2. ASSUME NEW s \in Seq(S), Len(s) = 0 PROVE s \in T
  <2>1. s = << >>
    BY <1>2, EmptySeq
  <2> QED BY <2>1
<1>3. \A n \in Nat : n \in U
  <2>1. 0 \in U
    BY <1>2
  <2>2. \A n \in Nat : n \in U => n + 1 \in U
    BY <1>1
  <2> HIDE DEF U
  <2> QED BY <2>1, <2>2, AllNumbers
<1> QED BY <1>3, LenProperties

-----------------------------------------------------------------------------
(* Texts one after another (FlattenSeq).                                   *)

FlattenStep(f, ss, i) == IF i = 1 THEN ss[i] ELSE f[i - 1] \o ss[i]
FlattenBy(f, ss) == f = [i \in 1..Len(ss) |-> FlattenStep(f, ss, i)]

LEMMA FlattenIs ==
    ASSUME NEW ss, Len(ss) # 0
    PROVE  FlattenSeq(ss) = (CHOOSE f : FlattenBy(f, ss))[Len(ss)]
  BY Zenon DEF FlattenSeq, FlattenBy, FlattenStep

LEMMA FlattenExists ==
    ASSUME NEW S, NEW ss \in Seq(Seq(S))
    PROVE  \E f : FlattenBy(f, ss)
<1> DEFINE n == Len(ss)
           Good(g, k) == /\ g = [i \in 1..n |-> g[i]]
                         /\ \A i \in 1..k : i <= n => g[i] = FlattenStep(g, ss, i)
           T == {k \in Nat : \E g : Good(g, k)}
<1>0. n \in Nat
  BY LenProperties
<1> HIDE DEF n
<1>1. 0 \in T
  <2> DEFINE g == [i \in 1..n |-> 0]
  <2>1. g = [i \in 1..n |-> g[i]]
    OBVIOUS
  <2>2. Good(g, 0)
    BY <2>1
  <2> QED BY <2>2
<1>2. ASSUME NEW k \in Nat, NEW f, Good(f, k) PROVE \E g : Good(g, k + 1)
  <2> DEFINE g == [i \in 1..n |-> IF i <= k THEN f[i] ELSE FlattenStep(f, ss, i)]
  <2>1. g = [i \in 1..n |-> g[i]]
    OBVIOUS
  <2>2. ASSUME NEW i \in 1..(k + 1), i <= n PROVE g[i] = FlattenStep(g, ss, i)
    <3>1. i \in 1..n
      BY <1>0, <2>2
    <3>2. g[i] = FlattenStep(f, ss, i)
      BY <1>2, <3>1
    <3>3. CASE i = 1
      BY <3>2, <3>3 DEF FlattenStep
    <3>4. CASE i # 1
      <4>1. i - 1 \in 1..n /\ i - 1 <= k
        BY <1>0, <3>1, <3>4
      <4>2. g[i - 1] = f[i - 1]
        BY <4>1
      <4> HIDE DEF g
      <4> QED BY <3>2, <3>4, <4>2 DEF FlattenStep
    <3> QED BY <3>3, <3>4
  <2> HIDE DEF g
  <2> QED BY <2>1, <2>2
<1>3. n \in T
  <2>1. \A k \in Nat : k \in T => k + 1 \in T
    <3> HIDE DEF Good
    <3> QED BY <1>2
  <2> HIDE DEF T
  <2> QED BY <1>0, <1>1, <2>1, AllNumbers
<1>4. PICK g : Good(g, n)
  BY <1>3
<1>5. \A i \in 1..n : g[i] = FlattenStep(g, ss, i)
  BY <1>0, <1>4
<1>6. g = [i \in 1..n |-> g[i]]
  BY <1>4
<1> QED BY <1>5, <1>6, Zenon DEF FlattenBy, n

LEMMA FlattenNone == FlattenSeq(<< >>) = << >>
<1>1. Len(<< >>) = 0
  OBVIOUS
<1> QED BY <1>1 DEF FlattenSeq

LEMMA FlattenSteps ==
    ASSUME NEW S, NEW ss \in Seq(Seq(S)), NEW x \in Seq(S)
    PROVE  FlattenSeq(ss \o <<x>>) = FlattenSeq(ss) \o x
<1> DEFINE n == Len(ss)
           tt == ss \o <<x>>
           f == CHOOSE h : FlattenBy(h, ss)
           g == CHOOSE h : FlattenBy(h, tt)
<1>1. /\ tt \in Seq(Seq(S)) /\ Len(tt) = n + 1 /\ n \in Nat /\ tt[n + 1] = x
      /\ \A i \in 1..n : tt[i] = ss[i]
  <2>1. tt = Append(ss, x)
    BY OneFacts
  <2>2. /\ Append(ss, x) \in Seq(Seq(S)) /\ Len(Append(ss, x)) = n + 1 /\ n \in Nat
        /\ Append(ss, x)[n + 1] = x /\ \A i \in 1..n : Append(ss, x)[i] = ss[i]
    BY AppendProperties, LenProperties
  <2> QED BY <2>1, <2>2
<1> HIDE DEF tt
<1>2. FlattenBy(f, ss) /\ FlattenBy(g, tt)
  BY <1>1, FlattenExists
<1>3. FlattenSeq(tt) = g[n + 1]
  BY <1>1, FlattenIs
<1>4. n # 0 => FlattenSeq(ss) = f[n]
  BY FlattenIs
<1> HIDE DEF f, g
<1>5. /\ \A i \in 1..n : f[i] = FlattenStep(f, ss, i)
      /\ \A i \in 1..(n + 1) : g[i] = FlattenStep(g, tt, i)
  BY <1>1, <1>2 DEF FlattenBy
<1> HIDE DEF n
<1>6. CASE n = 0
  <2>1. ss = << >>
    BY <1>6, EmptySeq DEF n
  <2>2. g[1] = x
    BY <1>1, <1>5, <1>6 DEF FlattenStep
  <2>3. FlattenSeq(ss) \o x = x
    BY <2>1, FlattenNone, ConcatEmptySeq
  <2> QED BY <1>3, <1>6, <2>2, <2>3 DEF tt
<1>7. CASE n # 0
  <2> DEFINE T == {k \in Nat : 1 <= k /\ k <= n => f[k] = g[k]}
  <2>1. 0 \in T
    OBVIOUS
  <2>2. ASSUME NEW k \in Nat, k \in T, 1 <= k + 1, k + 1 <= n PROVE f[k + 1] = g[k + 1]
    <3>1. k + 1 \in 1..n /\ k + 1 \in 1..(n + 1) /\ (k + 1) - 1 = k
      BY <1>1, <2>2
    <3>2. f[k + 1] = FlattenStep(f, ss, k + 1) /\ g[k + 1] = FlattenStep(g, tt, k + 1) /\ ss[k + 1] = tt[k + 1]
      BY <1>1, <1>5, <3>1
    <3>3. k = 0 \/ f[k] = g[k]
      BY <1>1, <2>2
    <3> QED BY <3>1, <3>2, <3>3 DEF FlattenStep
  <2>3. n \in T
    <3>1. \A k \in Nat : k \in T => k + 1 \in T
      BY <2>2
    <3> HIDE DEF T
    <3> QED BY <1>1, <2>1, <3>1, AllNumbers
  <2>4. f[n] = g[n]
    BY <1>1, <1>7, <2>3
  <2>5. g[n + 1] = FlattenStep(g, tt, n + 1) /\ n + 1 # 1 /\ (n + 1) - 1 = n
    BY <1>1, <1>5, <1>7
  <2> QED BY <1>1, <1>3, <1>4, <1>7, <2>4, <2>5 DEF FlattenStep, tt
<1> QED BY <1>6, <1>7

LEMMA FlattenIn ==
    ASSUME NEW S, NEW ss \in Seq(Seq(S)) PROVE FlattenSeq(ss) \in Seq(S)
<1> DEFINE T == {tt \in Seq(Seq(S)) : FlattenSeq(tt) \in Seq(S)}
<1>1. << >> \in T
  <2>1. << >> \in Seq(Seq(S)) /\ << >> \in Seq(S)
    OBVIOUS
  <2> QED BY <2>1, FlattenNone
<1>2. ASSUME NEW tt \in Seq(Seq(S)), NEW x \in Seq(S), tt \in T PROVE tt \o <<x>> \in T
  <2>1. tt \o <<x>> \in Seq(Seq(S))
    BY OneFacts, ConcatProperties
  <2>2. FlattenSeq(tt) \o x \in Seq(S)
    BY <1>2, ConcatProperties
  <2> QED BY <2>1, <2>2, FlattenSteps
<1> HIDE DEF T
<1>3. ss \in T
  BY <1>1, <1>2, AllSequences
<1> QED BY <1>3 DEF T

-----------------------------------------------------------------------------
(* The expansion from place to place (Tcl_expand_).                        *)

Places(v) == (1..(Len(v) + 2)) \X (0..Len(v))
Closes(f, v, i, n, c) == LET end == FindMatching(SubSeq(v, 1, n), i, FALSE, c)
                         IN  end > 0 /\ f[<<end + 1, n>>]
Unquotes(f, v, i, n) == LET end == FindMatching(SubSeq(v, 1, n), i, TRUE, Quote)
                        IN  end > 0 /\ f[<<i + 1, end - 1>>] /\ f[<<end + 1, n>>]
CaseStep(f, v, i, n) == IF i > n THEN TRUE ELSE
    CASE v[i] = Backslash -> f[<<i + 2, n>>]
      [] v[i] \in {OpenBrace, "["} -> Closes(f, v, i, n, IF v[i] = OpenBrace THEN CloseBrace ELSE "]")
      [] v[i] = Quote -> Unquotes(f, v, i, n)
      [] OTHER -> f[<<i + 1, n>>]
ExpandStep(f, v, i, n) ==
    IF i > n THEN TRUE
    ELSE IF v[i] = Backslash THEN f[<<i + 2, n>>]
    ELSE IF v[i] = OpenBrace THEN Closes(f, v, i, n, CloseBrace)
    ELSE IF v[i] = "[" THEN Closes(f, v, i, n, "]")
    ELSE IF v[i] = Quote THEN Unquotes(f, v, i, n)
    ELSE f[<<i + 1, n>>]
CaseBy(f, v) == f = [at \in Places(v) |-> CaseStep(f, v, at[1], at[2])]
ExpandBy(f, v) == f = [at \in Places(v) |-> ExpandStep(f, v, at[1], at[2])]
ExpandOf(v) == CHOOSE f : ExpandBy(f, v)

LEMMA StepCases == \A f, v, i, n : CaseStep(f, v, i, n) = ExpandStep(f, v, i, n)
<1> SUFFICES ASSUME NEW f, NEW v, NEW i, NEW n PROVE CaseStep(f, v, i, n) = ExpandStep(f, v, i, n)
  OBVIOUS
<1>0. /\ OpenBrace \notin {"[", Quote, Backslash} /\ Quote \notin {"[", Backslash} /\ Backslash # "["
  BY AlphabetFacts, BraceFacts
<1>1. CASE i > n
  BY <1>1 DEF CaseStep, ExpandStep
<1>2. CASE ~(i > n) /\ v[i] = OpenBrace
  BY <1>0, <1>2 DEF CaseStep, ExpandStep
<1>3. CASE ~(i > n) /\ v[i] = "["
  BY <1>0, <1>3 DEF CaseStep, ExpandStep
<1>4. CASE ~(i > n) /\ v[i] \notin {OpenBrace, "["}
  BY <1>0, <1>4 DEF CaseStep, ExpandStep
<1> QED BY <1>1, <1>2, <1>3, <1>4

LEMMA ExpandsIs == \A v : Expands(v) = ExpandOf(v)[<<1, Len(v)>>]
<1> SUFFICES ASSUME NEW v PROVE Expands(v) = ExpandOf(v)[<<1, Len(v)>>]
  OBVIOUS
<1>1. Expands(v) = (CHOOSE f : CaseBy(f, v))[<<1, Len(v)>>]
  BY Zenon DEF Expands, CaseBy, CaseStep, Closes, Unquotes, Places, OpenBrace, CloseBrace
<1>2. ASSUME NEW f PROVE CaseBy(f, v) <=> ExpandBy(f, v)
  <2>1. \A at \in Places(v) : CaseStep(f, v, at[1], at[2]) = ExpandStep(f, v, at[1], at[2])
    BY StepCases
  <2> QED BY <2>1 DEF CaseBy, ExpandBy
<1>3. (CHOOSE f : CaseBy(f, v)) = CHOOSE f : ExpandBy(f, v)
  BY <1>2
<1> QED BY <1>1, <1>3 DEF ExpandOf

\* FindMatching gives the first place where nothing is open.
LEMMA MatchingFacts ==
    ASSUME NEW w, NEW i \in Nat, NEW e, NEW c, Len(w) \in Nat
    PROVE  /\ FindMatching(w, i, e, c) \in Nat
           /\ FindMatching(w, i, e, c) > 0 => FindMatching(w, i, e, c) \in (i + 1)..Len(w)
           /\ \A k \in (i + 1)..Len(w) :
                /\ Depth(w, i, c, Skipped(w, i, e), k) = 0
                /\ \A j \in (i + 1)..(k - 1) : Depth(w, i, c, Skipped(w, i, e), j) # 0
                => FindMatching(w, i, e, c) = k
<1> DEFINE skipped == Skipped(w, i, e)
           ends == {j \in (i + 1)..Len(w) : Depth(w, i, c, skipped, j) = 0}
           m == CHOOSE j \in ends : \A k \in ends : j <= k
<1>1. FindMatching(w, i, e, c) = IF ends = {} THEN 0 ELSE m
  BY Zenon DEF FindMatching
<1> HIDE DEF skipped
<1>2. ends \subseteq Nat /\ ends \subseteq (i + 1)..Len(w)
  OBVIOUS
<1>3. ends # {} => m \in ends /\ \A k \in ends : m <= k
  <2> HIDE DEF ends
  <2> QED BY <1>2, LeastElement
<1>4. ends # {} => m \in (i + 1)..Len(w) /\ Depth(w, i, c, skipped, m) = 0
  <2> HIDE DEF m
  <2> QED BY <1>3
<1>5. ASSUME NEW k \in (i + 1)..Len(w), Depth(w, i, c, skipped, k) = 0,
             \A j \in (i + 1)..(k - 1) : Depth(w, i, c, skipped, j) # 0
      PROVE  ends # {} /\ m = k
  <2>1. k \in ends
    BY <1>5
  <2>2. m \in ends /\ m <= k
    <3> HIDE DEF ends, m
    <3> QED BY <1>3, <2>1
  <2>3. m \notin (i + 1)..(k - 1) /\ m \in (i + 1)..Len(w)
    <3> HIDE DEF m
    <3> QED BY <1>5, <2>2
  <2> HIDE DEF ends, m
  <2> QED BY <2>1, <2>2, <2>3
<1> HIDE DEF m, ends
<1>6. FindMatching(w, i, e, c) \in Nat /\ (FindMatching(w, i, e, c) > 0 => FindMatching(w, i, e, c) \in (i + 1)..Len(w))
  BY <1>1, <1>4
<1> HIDE DEF m, ends
<1> QED BY <1>1, <1>5, <1>6 DEF skipped

\* Functions that agree on the places with less to go give the same step.
LEMMA ExpandSame ==
    ASSUME NEW v, Len(v) \in Nat, NEW i \in 1..(Len(v) + 2), NEW n \in 0..Len(v), NEW f, NEW g,
           \A j \in 1..(Len(v) + 2), m \in 0..Len(v) : m - j < n - i => f[<<j, m>>] = g[<<j, m>>]
    PROVE  ExpandStep(f, v, i, n) = ExpandStep(g, v, i, n)
<1>1. CASE i > n
  BY <1>1 DEF ExpandStep
<1>2. CASE ~(i > n)
  <2>1. f[<<i + 1, n>>] = g[<<i + 1, n>>] /\ f[<<i + 2, n>>] = g[<<i + 2, n>>]
    <3>1. i + 1 \in 1..(Len(v) + 2) /\ i + 2 \in 1..(Len(v) + 2) /\ n - (i + 1) < n - i /\ n - (i + 2) < n - i
      BY <1>2
    <3> QED BY <3>1
  <2> DEFINE w == SubSeq(v, 1, n)
  <2>2. Len(w) = n /\ Len(w) \in Nat /\ i \in Nat
    BY <1>2
  <2> HIDE DEF w
  <2>3. ASSUME NEW end, end > 0 => end \in (i + 1)..n
        PROVE  end > 0 => /\ f[<<end + 1, n>>] = g[<<end + 1, n>>]
                          /\ f[<<i + 1, end - 1>>] = g[<<i + 1, end - 1>>]
    <3> SUFFICES ASSUME end > 0 PROVE f[<<end + 1, n>>] = g[<<end + 1, n>>] /\ f[<<i + 1, end - 1>>] = g[<<i + 1, end - 1>>]
      OBVIOUS
    <3>1. /\ end + 1 \in 1..(Len(v) + 2) /\ n - (end + 1) < n - i
          /\ end - 1 \in 0..Len(v) /\ (end - 1) - (i + 1) < n - i /\ i + 1 \in 1..(Len(v) + 2)
      BY <1>2, <2>3
    <3> QED BY <3>1
  <2>4. ASSUME NEW c PROVE Closes(f, v, i, n, c) = Closes(g, v, i, n, c)
    <3> DEFINE end == FindMatching(w, i, FALSE, c)
    <3>1. end > 0 => end \in (i + 1)..n
      BY <2>2, MatchingFacts
    <3>2. Closes(f, v, i, n, c) = (end > 0 /\ f[<<end + 1, n>>]) /\ Closes(g, v, i, n, c) = (end > 0 /\ g[<<end + 1, n>>])
      BY DEF Closes, w
    <3> HIDE DEF end
    <3> QED BY <2>3, <3>1, <3>2
  <2>5. Unquotes(f, v, i, n) = Unquotes(g, v, i, n)
    <3> DEFINE end == FindMatching(w, i, TRUE, Quote)
    <3>1. end > 0 => end \in (i + 1)..n
      BY <2>2, MatchingFacts
    <3>2. /\ Unquotes(f, v, i, n) = (end > 0 /\ f[<<i + 1, end - 1>>] /\ f[<<end + 1, n>>])
          /\ Unquotes(g, v, i, n) = (end > 0 /\ g[<<i + 1, end - 1>>] /\ g[<<end + 1, n>>])
      BY DEF Unquotes, w
    <3> HIDE DEF end
    <3> QED BY <2>3, <3>1, <3>2
  <2> QED BY <1>2, <2>1, <2>4, <2>5 DEF ExpandStep
<1> QED BY <1>1, <1>2

LEMMA ExpandExists ==
    ASSUME NEW v, Len(v) \in Nat PROVE \E f : ExpandBy(f, v)
<1> DEFINE l == Len(v)
           P == Places(v)
           Good(g, k) == /\ g = [at \in P |-> g[at]]
                         /\ \A i \in 1..(l + 2), n \in 0..l :
                              n - i + l + 2 <= k => g[<<i, n>>] = ExpandStep(g, v, i, n)
           T == {k \in Nat : \E g : Good(g, k)}
<1> HIDE DEF l
<1>0. P = (1..(l + 2)) \X (0..l) /\ l \in Nat
  BY DEF Places, l
<1> HIDE DEF P
<1>1. 0 \in T
  <2> DEFINE g == [at \in P |-> ExpandStep(TRUE, v, at[1], at[2])]
  <2>1. g = [at \in P |-> g[at]]
    OBVIOUS
  <2>2. \A i \in 1..(l + 2), n \in 0..l : n - i + l + 2 <= 0 => i > n
    BY <1>0
  <2>3. \A i \in 1..(l + 2), n \in 0..l : <<i, n>> \in P /\ <<i, n>>[1] = i /\ <<i, n>>[2] = n
    BY <1>0
  <2>4. \A i \in 1..(l + 2), n \in 0..l : n - i + l + 2 <= 0 => g[<<i, n>>] = ExpandStep(g, v, i, n)
    BY <2>2, <2>3 DEF ExpandStep
  <2> QED BY <2>1, <2>4
<1>2. ASSUME NEW k \in Nat, NEW f, Good(f, k) PROVE \E g : Good(g, k + 1)
  <2> DEFINE g == [at \in P |-> IF at[2] - at[1] + l + 2 <= k THEN f[at] ELSE ExpandStep(f, v, at[1], at[2])]
  <2>1. g = [at \in P |-> g[at]]
    OBVIOUS
  <2>2. \A i \in 1..(l + 2), n \in 0..l : <<i, n>> \in P /\ <<i, n>>[1] = i /\ <<i, n>>[2] = n
    BY <1>0
  <2>3. \A i \in 1..(l + 2), n \in 0..l :
          g[<<i, n>>] = IF n - i + l + 2 <= k THEN f[<<i, n>>] ELSE ExpandStep(f, v, i, n)
    BY <2>2
  <2> HIDE DEF g
  <2>4. ASSUME NEW i \in 1..(l + 2), NEW n \in 0..l, n - i + l + 2 <= k + 1
        PROVE  g[<<i, n>>] = ExpandStep(g, v, i, n)
    <3>1. ASSUME NEW j \in 1..(l + 2), NEW m \in 0..l, m - j < n - i PROVE f[<<j, m>>] = g[<<j, m>>]
      <4>1. m - j + l + 2 <= k
        BY <1>0, <2>4, <3>1
      <4> QED BY <2>3, <4>1
    <3>2. ExpandStep(f, v, i, n) = ExpandStep(g, v, i, n)
      BY <1>0, <3>1, ExpandSame DEF l
    <3>3. n - i + l + 2 <= k => f[<<i, n>>] = ExpandStep(f, v, i, n)
      BY <1>2
    <3> QED BY <2>3, <3>2, <3>3
  <2> QED BY <2>1, <2>4
<1>3. 2 * l + 2 \in T
  <2>1. \A k \in Nat : k \in T => k + 1 \in T
    <3> HIDE DEF Good
    <3> QED BY <1>2
  <2>2. 2 * l + 2 \in Nat
    BY <1>0
  <2> HIDE DEF T
  <2> QED BY <1>1, <2>1, <2>2, AllNumbers
<1>4. PICK g : Good(g, 2 * l + 2)
  BY <1>3
<1>5. \A i \in 1..(l + 2), n \in 0..l : g[<<i, n>>] = ExpandStep(g, v, i, n)
  <2>1. \A i \in 1..(l + 2), n \in 0..l : n - i + l + 2 <= 2 * l + 2
    BY <1>0
  <2> QED BY <1>4, <2>1
<1>6. g = [at \in P |-> ExpandStep(g, v, at[1], at[2])]
  <2>1. \A at \in P : at[1] \in 1..(l + 2) /\ at[2] \in 0..l /\ at = <<at[1], at[2]>>
    BY <1>0
  <2>2. \A at \in P : g[at] = ExpandStep(g, v, at[1], at[2])
    BY <1>5, <2>1
  <2>3. g = [at \in P |-> g[at]]
    BY <1>4
  <2> QED BY <2>2, <2>3
<1> QED BY <1>6 DEF ExpandBy, P

LEMMA ExpandUnfolds ==
    ASSUME NEW v, Len(v) \in Nat, NEW i \in 1..(Len(v) + 2), NEW n \in 0..Len(v)
    PROVE  ExpandOf(v)[<<i, n>>] = ExpandStep(ExpandOf(v), v, i, n)
<1> DEFINE f == ExpandOf(v)
<1>1. ExpandBy(f, v)
  BY ExpandExists DEF ExpandOf
<1> HIDE DEF f
<1>2. <<i, n>> \in Places(v) /\ <<i, n>>[1] = i /\ <<i, n>>[2] = n
  BY DEF Places
<1> QED BY <1>1, <1>2 DEF ExpandBy, f

-----------------------------------------------------------------------------
(* How deep findMatching is at a place.                                    *)

LEMMA CountNext ==
    ASSUME NEW P, NEW i \in Nat, NEW k \in Nat, k >= i
    PROVE  /\ Cardinality(P \cap (i + 1)..k) \in Nat
           /\ k + 1 \in P => Cardinality(P \cap (i + 1)..(k + 1)) = Cardinality(P \cap (i + 1)..k) + 1
           /\ k + 1 \notin P => Cardinality(P \cap (i + 1)..(k + 1)) = Cardinality(P \cap (i + 1)..k)
<1> DEFINE A == P \cap (i + 1)..k
<1>1. IsFiniteSet((i + 1)..k) /\ A \in SUBSET ((i + 1)..k)
  BY FS_Interval
<1>2. IsFiniteSet(A)
  BY <1>1, FS_Subset
<1>3. k + 1 \notin A
  OBVIOUS
<1>4. k + 1 \in P => P \cap (i + 1)..(k + 1) = A \cup {k + 1}
  OBVIOUS
<1>5. k + 1 \notin P => P \cap (i + 1)..(k + 1) = A
  <2>1. \A j \in (i + 1)..(k + 1) : j \in (i + 1)..k \/ j = k + 1
    OBVIOUS
  <2>2. \A j \in (i + 1)..k : j \in (i + 1)..(k + 1)
    OBVIOUS
  <2> QED BY <2>1, <2>2
<1> HIDE DEF A
<1>6. Cardinality(A) \in Nat /\ Cardinality(A \cup {k + 1}) = Cardinality(A) + 1
  BY <1>2, <1>3, FS_CardinalityType, FS_AddElement
<1> QED BY <1>4, <1>5, <1>6 DEF A

LEMMA DepthFirst == \A w, c, S : \A i \in Nat : Depth(w, i, c, S, i) = 1
<1> SUFFICES ASSUME NEW w, NEW c, NEW S, NEW i \in Nat PROVE Depth(w, i, c, S, i) = 1
  OBVIOUS
<1> DEFINE seen == (i + 1)..i \ S
           A == {j \in seen : w[j] = w[i] /\ w[j] # c}
           B == {j \in seen : w[j] = c}
<1>1. A = {} /\ B = {}
  OBVIOUS
<1>2. Depth(w, i, c, S, i) = 1 + Cardinality(A) - Cardinality(B)
  BY Zenon DEF Depth
<1> HIDE DEF A, B
<1>3. Cardinality(A) = 0 /\ Cardinality(B) = 0
  BY <1>1, FS_EmptySet
<1> QED BY <1>2, <1>3

\* One more than before after what opens, and one less after what closes.
LEMMA DepthNext ==
    ASSUME NEW w, NEW i \in Nat, NEW c, NEW S, NEW k \in Nat, k >= i
    PROVE  LET d == Depth(w, i, c, S, k)
               e == Depth(w, i, c, S, k + 1)
           IN  /\ d \in Int /\ e \in Int
               /\ k + 1 \in S \/ w[k + 1] \notin {w[i], c} => e = d
               /\ k + 1 \notin S /\ w[k + 1] = w[i] /\ w[k + 1] # c => e = d + 1
               /\ k + 1 \notin S /\ w[k + 1] = c => e = d - 1
<1> DEFINE O == {j \in Nat : j \notin S /\ w[j] = w[i] /\ w[j] # c}
           C == {j \in Nat : j \notin S /\ w[j] = c}
<1>1. ASSUME NEW m \in Nat
      PROVE  Depth(w, i, c, S, m) = 1 + Cardinality(O \cap (i + 1)..m) - Cardinality(C \cap (i + 1)..m)
  <2> DEFINE seen == (i + 1)..m \ S
             A == {j \in seen : w[j] = w[i] /\ w[j] # c}
             B == {j \in seen : w[j] = c}
  <2>1. Depth(w, i, c, S, m) = 1 + Cardinality(A) - Cardinality(B)
    BY Zenon DEF Depth
  <2>2. A = O \cap (i + 1)..m /\ B = C \cap (i + 1)..m
    <3>1. \A j \in (i + 1)..m : j \in Nat
      OBVIOUS
    <3> QED BY <3>1, Zenon
  <2> HIDE DEF A, B
  <2> QED BY <2>1, <2>2
<1>2. k + 1 \in Nat
  OBVIOUS
<1>3. /\ k + 1 \in S \/ w[k + 1] \notin {w[i], c} => k + 1 \notin O /\ k + 1 \notin C
      /\ k + 1 \notin S /\ w[k + 1] = w[i] /\ w[k + 1] # c => k + 1 \in O /\ k + 1 \notin C
      /\ k + 1 \notin S /\ w[k + 1] = c => k + 1 \notin O /\ k + 1 \in C
  BY <1>2, Zenon
<1> HIDE DEF O, C
<1> DEFINE o == Cardinality(O \cap (i + 1)..k)
           p == Cardinality(O \cap (i + 1)..(k + 1))
           q == Cardinality(C \cap (i + 1)..k)
           r == Cardinality(C \cap (i + 1)..(k + 1))
<1>4. o \in Nat /\ (k + 1 \in O => p = o + 1) /\ (k + 1 \notin O => p = o)
  BY CountNext
<1>5. q \in Nat /\ (k + 1 \in C => r = q + 1) /\ (k + 1 \notin C => r = q)
  BY CountNext
<1>6. Depth(w, i, c, S, k) = 1 + o - q /\ Depth(w, i, c, S, k + 1) = 1 + p - r
  BY <1>1, <1>2
<1> HIDE DEF o, p, q, r
<1> DEFINE d == Depth(w, i, c, S, k)
           e == Depth(w, i, c, S, k + 1)
<1>7. d = 1 + o - q /\ e = 1 + p - r
  BY <1>6
<1> HIDE DEF d, e
<1>8. /\ d \in Int /\ e \in Int
      /\ k + 1 \notin O /\ k + 1 \notin C => e = d
      /\ k + 1 \in O /\ k + 1 \notin C => e = d + 1
      /\ k + 1 \notin O /\ k + 1 \in C => e = d - 1
  BY <1>4, <1>5, <1>7
<1> QED BY <1>3, <1>8 DEF d, e

LEMMA NoneSkipped == \A w, i : Skipped(w, i, FALSE) = {}
  BY Zenon DEF Skipped

-----------------------------------------------------------------------------
(* findMatching finds the end of a group that has no escape.               *)

\* The two that only count themselves within them, and how deep in it a scan is.
Brackets == {<<OpenBrace, CloseBrace>>, <<"[", "]">>}
Level(s, o, d) == In(s, FALSE, IF o = "[" THEN 0 ELSE d, IF o = "[" THEN d ELSE 0)

LEMMA LevelNext ==
    ASSUME NEW o, NEW c, <<o, c>> \in Brackets, NEW s \in States, NEW a \in Alphabet, a # Backslash,
           NEW d \in Int, Level(s, o, d), d # 0 \/ a = o
    PROVE  /\ a \notin {o, c} => Level(Scanned(s, a), o, d)
           /\ a = o => Level(Scanned(s, a), o, d + 1)
           /\ a = c => Level(Scanned(s, a), o, d - 1)
<1> DEFINE u == Nested(s, a)
           v == Scanned(s, a)
<1>0. \/ o = OpenBrace /\ c = CloseBrace
      \/ o = "[" /\ c = "]"
  BY DEF Brackets
<1>1. /\ OpenBrace # CloseBrace /\ "[" # "]"
      /\ OpenBrace \notin {"[", "]", Quote} /\ CloseBrace \notin {"[", "]", Quote} /\ Quote \notin {"[", "]"}
  BY BraceFacts, AlphabetFacts
<1>2. ~s.escaped /\ s.quoted = FALSE
  BY DEF Level, In
<1>3. ~v.escaped /\ SameBalance(v, u)
  BY <1>2, ScannedNext
<1>4. v.quoted = u.quoted /\ v.braces = u.braces /\ v.squares = u.squares
  BY <1>3 DEF SameBalance
<1>5. CASE o = OpenBrace /\ c = CloseBrace
  <2>1. s.braces = d /\ s.squares = 0
    BY <1>1, <1>5 DEF Level, In
  <2>2. /\ a \notin {o, c} => u.braces = d
        /\ a = o => u.braces = d + 1
        /\ a = c => u.braces = d - 1
        /\ u.squares = 0 /\ u.quoted = FALSE
    BY <1>1, <1>2, <1>5, <2>1, NestedCounts
  <2> HIDE DEF u, v
  <2>3. o # "["
    BY <1>1, <1>5
  <2> QED BY <1>3, <1>4, <2>2, <2>3 DEF Level, In, v
<1>6. CASE o = "[" /\ c = "]"
  <2>1. s.squares = d /\ s.braces = 0
    BY <1>6 DEF Level, In
  <2>2. /\ a \notin {o, c} => u.squares = d
        /\ a = o => u.squares = d + 1
        /\ a = c => u.squares = d - 1
        /\ u.braces = 0 /\ u.quoted = FALSE
    BY <1>1, <1>2, <1>6, <2>1, NestedCounts
  <2> HIDE DEF u, v
  <2> QED BY <1>3, <1>4, <1>6, <2>2 DEF Level, In, v
<1> QED BY <1>0, <1>5, <1>6

\* What w has from place i on is x.
Stands(x, w, i) == i + Len(x) - 1 <= Len(w) /\ \A k \in 1..Len(x) : w[i + k - 1] = x[k]

LEMMA GroupMatched ==
    ASSUME NEW o, NEW c, <<o, c>> \in Brackets, NEW g \in Seq(Alphabet), Len(g) > 1, g[1] = o,
           \A k \in 1..Len(g) : g[k] # Backslash, Inert(FALSE, 0, 0, g),
           NEW w, Len(w) \in Nat, NEW i \in Nat, i > 0, Stands(g, w, i)
    PROVE  FindMatching(w, i, FALSE, c) = i + Len(g) - 1
<1> DEFINE e == << >>
           n == Len(g)
           P(m) == SubSeq(g, 1, m)
           D(m) == Depth(w, i, c, {}, i + m - 1)
           T == {m \in Nat : 1 <= m /\ m <= n => Level(Scan(P(m)), o, D(m)) /\ D(m) \in Int}
<1>0. o \in Alphabet /\ c \in Alphabet /\ o # c /\ o # Backslash /\ (o = OpenBrace \/ o = "[")
  BY BraceFacts, AlphabetFacts DEF Brackets
<1>1. /\ n \in Nat /\ n > 1 /\ i + n - 1 <= Len(w)
      /\ \A k \in 1..n : w[i + k - 1] = g[k] /\ g[k] \in Alphabet
  BY LenProperties, ElementOfSeq DEF Stands
<1>14. n \in Nat /\ n > 1 /\ i + n - 1 <= Len(w) /\ Len(w) \in Nat
  BY <1>1
<1>2. e \in Seq(Alphabet) /\ In(Scan(e), FALSE, 0, 0) /\ Scan(e) \in States
  <2>1. e \in Seq(Alphabet)
    OBVIOUS
  <2> QED BY <2>1, ScanEmpty, StartFacts DEF In
<1>3. Passed(e, g) /\ Within(e, g)
  BY <1>2 DEF Inert
<1>4. \A z \in Seq(Alphabet) : e \o z = z
  BY ConcatEmptySeq
<1> HIDE DEF e, n
<1>5. \A m \in 1..(n - 1) : P(m) \in Seq(Alphabet) /\ ~Balanced(Scan(P(m)))
  <2> SUFFICES ASSUME NEW m \in 1..(n - 1) PROVE P(m) \in Seq(Alphabet) /\ ~Balanced(Scan(P(m)))
    OBVIOUS
  <2>1. m \in 0..Len(g) /\ m \in 1..(Len(g) - 1)
    BY <1>1 DEF n
  <2>2. P(m) \in Seq(Alphabet)
    BY <2>1, PrefixFacts
  <2>3. ~Balanced(Scan(e \o P(m)))
    BY <1>3, <2>1 DEF Within
  <2> QED BY <1>4, <2>2, <2>3
<1>6. P(n) = g /\ In(Scan(g), FALSE, 0, 0)
  <2>1. P(n) = g
    BY SubSeqFull DEF n
  <2>2. SameBalance(Scan(g), Scan(e)) /\ ~Scan(g).escaped
    BY <1>3, <1>4 DEF Passed
  <2> QED BY <1>2, <2>1, <2>2 DEF In, SameBalance
<1>7. 0 \in T
  OBVIOUS
<1>8. ASSUME NEW m \in Nat, m \in T, m + 1 <= n
      PROVE  Level(Scan(P(m + 1)), o, D(m + 1)) /\ D(m + 1) \in Int
  <2>1. CASE m = 0
    <3>1. D(1) = 1
      BY DepthFirst
    <3>2. P(1) = <<o>>
      <4>1. 1 \in 0..Len(g) /\ 1 \in 1..1
        BY <1>1 DEF n
      <4>2. P(1) \in Seq(Alphabet) /\ Len(P(1)) = 1 /\ P(1)[1] = g[1]
        BY <4>1, PrefixFacts
      <4>3. <<o>> \in Seq(Alphabet) /\ Len(<<o>>) = 1 /\ <<o>>[1] = o
        BY <1>0, OneFacts
      <4>4. \A k \in 1..1 : k = 1
        OBVIOUS
      <4> HIDE DEF P
      <4> QED BY <4>2, <4>3, <4>4, SeqEqual
    <3>3. Scan(<<o>>) = Scanned(Scan(e), o)
      <4>1. Scan(e \o <<o>>) = Scanned(Scan(e), o) /\ <<o>> \in Seq(Alphabet)
        BY <1>0, <1>2, ScanNext, OneFacts
      <4>2. e \o <<o>> = <<o>>
        BY <1>4, <4>1
      <4> QED BY <4>1, <4>2
    <3>4. Level(Scan(e), o, 0)
      BY <1>2 DEF Level
    <3>5. Level(Scanned(Scan(e), o), o, 0 + 1)
      BY <1>0, <1>2, <3>4, LevelNext
    <3> HIDE DEF P, D
    <3> QED BY <2>1, <3>1, <3>2, <3>3, <3>5
  <2>2. CASE m # 0
    <3> DEFINE s == Scan(P(m))
               a == g[m + 1]
               d == D(m)
    <3>1. m \in 1..(n - 1) /\ m + 1 \in 1..n /\ i + m - 1 \in Nat /\ i + m - 1 >= i
          /\ (i + m - 1) + 1 = i + (m + 1) - 1
      <4>1. m + 1 <= n
        BY <1>8
      <4> HIDE DEF T
      <4> QED BY <1>14, <2>2, <4>1
    <3>2. Level(s, o, d) /\ d \in Int
      <4>1. 1 <= m /\ m <= n
        BY <1>14, <3>1
      <4> HIDE DEF P, D
      <4> QED BY <1>8, <4>1
    <3>3. P(m) \in Seq(Alphabet) /\ ~Balanced(s) /\ s \in States
      BY <1>5, <3>1, ScanIn
    <3>4. d # 0
      BY <3>2, <3>3 DEF Level, In, Balanced
    <3>5. a \in Alphabet /\ a # Backslash /\ w[(i + m - 1) + 1] = a /\ w[i] = o
      <4>1. 1 \in 1..n /\ i + 1 - 1 = i
        BY <1>1
      <4>2. w[i] = o
        BY <1>1, <4>1
      <4> QED BY <1>1, <3>1, <4>2 DEF n
    <3>6. /\ D(m + 1) \in Int
          /\ a \notin {o, c} => D(m + 1) = d
          /\ a = o => D(m + 1) = d + 1
          /\ a = c => D(m + 1) = d - 1
      <4> DEFINE k == i + m - 1
                 d0 == Depth(w, i, c, {}, k)
                 d1 == Depth(w, i, c, {}, k + 1)
      <4>1. k \in Nat /\ k >= i /\ k + 1 \notin {} /\ D(m + 1) = d1 /\ d = d0
        BY <3>1
      <4> HIDE DEF k
      <4> HIDE DEF D, d, a, T
      <4>2. /\ d0 \in Int /\ d1 \in Int
            /\ k + 1 \in {} \/ w[k + 1] \notin {w[i], c} => d1 = d0
            /\ k + 1 \notin {} /\ w[k + 1] = w[i] /\ w[k + 1] # c => d1 = d0 + 1
            /\ k + 1 \notin {} /\ w[k + 1] = c => d1 = d0 - 1
        <5> HIDE DEF d0, d1
        <5> DEFINE nil == {}
        <5>1. k \in Nat /\ k >= i
          BY <4>1
        <5> HIDE DEF nil
        <5>2. LET e0 == Depth(w, i, c, nil, k)
                  e1 == Depth(w, i, c, nil, k + 1)
              IN  /\ e0 \in Int /\ e1 \in Int
                  /\ k + 1 \in nil \/ w[k + 1] \notin {w[i], c} => e1 = e0
                  /\ k + 1 \notin nil /\ w[k + 1] = w[i] /\ w[k + 1] # c => e1 = e0 + 1
                  /\ k + 1 \notin nil /\ w[k + 1] = c => e1 = e0 - 1
          BY <5>1, DepthNext
        <5> QED BY <5>2 DEF d0, d1, nil
      <4>3. w[k + 1] = a
        BY <3>5 DEF k
      <4> HIDE DEF d0, d1, d, a, D
      <4> QED BY <1>0, <3>5, <4>1, <4>2, <4>3
    <3>7. P(m + 1) = P(m) \o <<a>>
      <4>1. m \in 0..Len(g) /\ m + 1 \in 0..Len(g)
        BY <1>14, <3>1 DEF n
      <4> DEFINE x == P(m)
                 y == P(m + 1)
                 z == Append(x, a)
      <4>2. x \in Seq(Alphabet) /\ Len(x) = m /\ \A k \in 1..m : x[k] = g[k]
        BY <4>1, PrefixFacts
      <4>3. y \in Seq(Alphabet) /\ Len(y) = m + 1 /\ \A k \in 1..(m + 1) : y[k] = g[k]
        BY <4>1, PrefixFacts
      <4> HIDE DEF x, y, a, P
      <4>4. z \in Seq(Alphabet) /\ Len(z) = m + 1 /\ z[m + 1] = a /\ \A k \in 1..m : z[k] = x[k]
        BY <3>5, <4>2, AppendProperties
      <4>5. \A k \in 1..(m + 1) : k \in 1..m \/ k = m + 1
        OBVIOUS
      <4>6. \A k \in 1..(m + 1) : z[k] = y[k]
        BY <4>2, <4>3, <4>4, <4>5 DEF a
      <4>7. z = y
        BY <4>3, <4>4, <4>6, SeqEqual
      <4>8. x \o <<a>> = z
        BY <3>5, <4>2, OneFacts
      <4> QED BY <4>7, <4>8 DEF x, y
    <3>8. Scan(P(m + 1)) = Scanned(s, a)
      <4> HIDE DEF P, a
      <4> QED BY <3>3, <3>5, <3>7, ScanNext
    <3> HIDE DEF s, a, d, P, D
    <3>9. /\ a \notin {o, c} => Level(Scanned(s, a), o, d)
          /\ a = o => Level(Scanned(s, a), o, d + 1)
          /\ a = c => Level(Scanned(s, a), o, d - 1)
      BY <3>2, <3>3, <3>4, <3>5, LevelNext
    <3> QED BY <3>6, <3>8, <3>9
  <2> QED BY <2>1, <2>2
<1>9. \A m \in Nat : m \in T
  <2>1. \A m \in Nat : m \in T => m + 1 \in T
    <3> HIDE DEF D, P
    <3> QED BY <1>8
  <2> HIDE DEF T
  <2> QED BY <1>7, <2>1, AllNumbers
<1>10. D(n) = 0
  <2>1. Level(Scan(P(n)), o, D(n))
    <3> HIDE DEF D, P
    <3> QED BY <1>1, <1>9
  <2> QED BY <1>6, <2>1 DEF Level, In
<1>11. \A m \in 1..(n - 1) : D(m) # 0
  <2> SUFFICES ASSUME NEW m \in 1..(n - 1) PROVE D(m) # 0
    OBVIOUS
  <2>1. m \in Nat /\ 1 <= m /\ m <= n
    BY <1>1
  <2>2. Level(Scan(P(m)), o, D(m)) /\ ~Balanced(Scan(P(m)))
    <3> HIDE DEF D, P
    <3> QED BY <1>5, <1>9, <2>1
  <2> HIDE DEF D, P
  <2> QED BY <2>2 DEF Level, In, Balanced
<1> DEFINE k == i + n - 1
<1>12. /\ k \in (i + 1)..Len(w) /\ Depth(w, i, c, {}, k) = 0
       /\ \A j \in (i + 1)..(k - 1) : Depth(w, i, c, {}, j) # 0
  <2>1. \A j \in (i + 1)..(k - 1) : j - i + 1 \in 1..(n - 1) /\ i + (j - i + 1) - 1 = j
    BY <1>14
  <2>2. \A j \in (i + 1)..(k - 1) : D(j - i + 1) = Depth(w, i, c, {}, j)
    BY <2>1
  <2>3. k \in (i + 1)..Len(w)
    BY <1>14
  <2>4. Depth(w, i, c, {}, k) = 0
    BY <1>10
  <2> HIDE DEF D, k
  <2> QED BY <1>11, <2>1, <2>2, <2>3, <2>4
<1> HIDE DEF k
<1>13. FindMatching(w, i, FALSE, c) = k
  BY <1>12, MatchingFacts, NoneSkipped
<1> QED BY <1>13 DEF k, n

-----------------------------------------------------------------------------
(* findMatching finds the end of quotes that have no escape.               *)

SkipStep(f, w, i, j) == j > i + 1 /\ ~f[j - 1] /\ w[j - 1] = Backslash
SkipBy(f, w, i) == f = [j \in i..Len(w) |-> SkipStep(f, w, i, j)]

LEMMA SkippedIs ==
    \A w, i : Skipped(w, i, TRUE) = {j \in i..Len(w) : TRUE /\ ((CHOOSE f : SkipBy(f, w, i))[j] \/ w[j] = Backslash)}
  BY Zenon DEF Skipped, SkipBy, SkipStep

LEMMA SkipExists ==
    ASSUME NEW w, NEW i \in Nat, Len(w) \in Nat PROVE \E f : SkipBy(f, w, i)
<1> DEFINE n == Len(w)
           Good(g, k) == /\ g = [j \in i..n |-> g[j]]
                         /\ \A j \in i..n : j < i + k => g[j] = SkipStep(g, w, i, j)
           T == {k \in Nat : \E g : Good(g, k)}
<1> HIDE DEF n
<1>0. n \in Nat
  BY DEF n
<1>1. 0 \in T
  <2> DEFINE g == [j \in i..n |-> 0]
  <2>1. g = [j \in i..n |-> g[j]]
    OBVIOUS
  <2>2. \A j \in i..n : ~(j < i + 0)
    OBVIOUS
  <2>3. Good(g, 0)
    BY <2>1, <2>2
  <2> QED BY <2>3
<1>2. ASSUME NEW k \in Nat, NEW f, Good(f, k) PROVE \E g : Good(g, k + 1)
  <2> DEFINE g == [j \in i..n |-> IF j < i + k THEN f[j] ELSE SkipStep(f, w, i, j)]
  <2>1. g = [j \in i..n |-> g[j]]
    OBVIOUS
  <2>2. ASSUME NEW j \in i..n, j < i + (k + 1) PROVE g[j] = SkipStep(g, w, i, j)
    <3>1. g[j] = SkipStep(f, w, i, j)
      BY <1>2
    <3>2. CASE ~(j > i + 1)
      BY <3>1, <3>2 DEF SkipStep
    <3>3. CASE j > i + 1
      <4>1. j - 1 \in i..n /\ j - 1 < i + k
        BY <1>0, <2>2, <3>3
      <4>2. g[j - 1] = f[j - 1]
        BY <4>1
      <4> HIDE DEF g
      <4> QED BY <3>1, <3>3, <4>2 DEF SkipStep
    <3> QED BY <3>2, <3>3
  <2> HIDE DEF g
  <2> QED BY <2>1, <2>2
<1>3. n + 1 \in T
  <2>1. \A k \in Nat : k \in T => k + 1 \in T
    <3> HIDE DEF Good
    <3> QED BY <1>2
  <2>2. n + 1 \in Nat
    BY <1>0
  <2> HIDE DEF T
  <2> QED BY <1>1, <2>1, <2>2, AllNumbers
<1>4. PICK g : Good(g, n + 1)
  BY <1>3
<1>5. \A j \in i..n : g[j] = SkipStep(g, w, i, j)
  <2>1. \A j \in i..n : j < i + (n + 1)
    BY <1>0
  <2> QED BY <1>4, <2>1
<1>6. g = [j \in i..n |-> g[j]]
  BY <1>4
<1> QED BY <1>5, <1>6, Zenon DEF SkipBy, n

\* Nothing is skipped before the first backslash.
LEMMA NotSkipped ==
    ASSUME NEW w, NEW i \in Nat, Len(w) \in Nat, NEW e \in Nat, e <= Len(w), \A k \in i..e : w[k] # Backslash
    PROVE  \A j \in i..e : j \notin Skipped(w, i, TRUE)
<1> DEFINE f == CHOOSE h : SkipBy(h, w, i)
<1>1. SkipBy(f, w, i)
  BY SkipExists
<1>2. Skipped(w, i, TRUE) = {j \in i..Len(w) : TRUE /\ (f[j] \/ w[j] = Backslash)}
  BY SkippedIs
<1> HIDE DEF f
<1>3. \A j \in i..Len(w) : f[j] = SkipStep(f, w, i, j)
  BY <1>1 DEF SkipBy
<1>4. ASSUME NEW j \in i..e PROVE ~f[j] /\ w[j] # Backslash
  <2>1. j \in i..Len(w) /\ (j > i + 1 => j - 1 \in i..e)
    OBVIOUS
  <2> QED BY <1>3, <2>1 DEF SkipStep
<1> QED BY <1>2, <1>4

LEMMA DepthStill ==
    ASSUME NEW w, NEW i \in Nat, NEW c, NEW S, NEW k \in Nat, k >= i, k + 1 \notin S, w[i] = c
    PROVE  /\ w[k + 1] # c => Depth(w, i, c, S, k + 1) = Depth(w, i, c, S, k)
           /\ w[k + 1] = c => Depth(w, i, c, S, k + 1) = Depth(w, i, c, S, k) - 1
  BY DepthNext

LEMMA QuotesMatched ==
    ASSUME NEW w, Len(w) \in Nat, NEW i \in Nat, NEW n \in Nat, i + n + 1 <= Len(w),
           w[i] = Quote, w[i + n + 1] = Quote, \A k \in (i + 1)..(i + n) : w[k] \notin {Backslash, Quote}
    PROVE  FindMatching(w, i, TRUE, Quote) = i + n + 1
<1> DEFINE e == i + n + 1
           S == Skipped(w, i, TRUE)
           D(k) == Depth(w, i, Quote, S, k)
<1>0. Quote # Backslash
  BY AlphabetFacts
<1>1. e \in Nat /\ e <= Len(w) /\ e \in (i + 1)..Len(w)
  OBVIOUS
<1>2. \A k \in i..e : w[k] # Backslash
  <2>1. \A k \in i..e : k = i \/ k = e \/ k \in (i + 1)..(i + n)
    OBVIOUS
  <2> QED BY <1>0, <2>1
<1>3. \A j \in i..e : j \notin S
  <2> HIDE DEF e
  <2> QED BY <1>1, <1>2, NotSkipped
<1> HIDE DEF S
<1> DEFINE T == {m \in Nat : m <= n => D(i + m) = 1}
<1>4. 0 \in T
  <2>1. D(i) = 1 /\ i + 0 = i
    BY DepthFirst
  <2> HIDE DEF D
  <2> QED BY <2>1
<1>5. ASSUME NEW k \in Nat, k >= i, k + 1 \in i..e
      PROVE  /\ w[k + 1] # Quote => D(k + 1) = D(k)
             /\ w[k + 1] = Quote => D(k + 1) = D(k) - 1
  <2>1. k + 1 \notin S
    BY <1>3, <1>5
  <2> DEFINE q == Quote
  <2>2. w[i] = q /\ k \in Nat /\ k >= i
    BY <1>5
  <2> HIDE DEF q, D, T, e
  <2>3. /\ w[k + 1] # q => Depth(w, i, q, S, k + 1) = Depth(w, i, q, S, k)
        /\ w[k + 1] = q => Depth(w, i, q, S, k + 1) = Depth(w, i, q, S, k) - 1
    BY <2>1, <2>2, DepthStill
  <2> QED BY <2>3 DEF q, D
<1>6. ASSUME NEW m \in Nat, m \in T PROVE m + 1 \in T
  <2> SUFFICES ASSUME m + 1 <= n PROVE D(i + (m + 1)) = 1
    OBVIOUS
  <2>1. /\ i + m \in Nat /\ i + m >= i /\ (i + m) + 1 \in i..e /\ (i + m) + 1 = i + (m + 1)
        /\ (i + m) + 1 \in (i + 1)..(i + n)
    <3> HIDE DEF T, D
    <3> QED OBVIOUS
  <2>2. D(i + m) = 1
    <3>1. m \in T /\ m <= n
      <4> HIDE DEF T
      <4> QED BY <1>6
    <3> HIDE DEF D
    <3> QED BY <3>1
  <2>3. D((i + m) + 1) = D(i + m)
    <3> HIDE DEF D, e
    <3> QED BY <1>5, <2>1
  <2> HIDE DEF D
  <2> QED BY <2>1, <2>2, <2>3
<1>7. \A m \in Nat : m \in T
  <2> HIDE DEF T
  <2> QED BY <1>4, <1>6, AllNumbers
<1>8. \A j \in (i + 1)..(e - 1) : D(j) # 0
  <2> SUFFICES ASSUME NEW j \in (i + 1)..(e - 1) PROVE D(j) # 0
    OBVIOUS
  <2>1. j - i \in Nat /\ j - i <= n /\ i + (j - i) = j
    OBVIOUS
  <2>2. D(j) = 1
    <3> HIDE DEF D
    <3> QED BY <1>7, <2>1
  <2> HIDE DEF D
  <2> QED BY <2>2
<1>9. D(e) = 0
  <2>1. D(i + n) = 1
    <3>1. n \in T /\ n <= n
      <4> HIDE DEF T
      <4> QED BY <1>7
    <3> HIDE DEF D
    <3> QED BY <3>1
  <2>2. i + n \in Nat /\ i + n >= i /\ (i + n) + 1 \in i..e
    OBVIOUS
  <2>3. D((i + n) + 1) = D(i + n) - 1
    <3> HIDE DEF D, e
    <3> QED BY <1>5, <2>2
  <2>4. e = (i + n) + 1
    OBVIOUS
  <2> HIDE DEF D, e
  <2> QED BY <2>1, <2>3, <2>4
<1> HIDE DEF e
<1>10. FindMatching(w, i, TRUE, Quote) = e
  <2>1. Depth(w, i, Quote, S, e) = 0 /\ \A j \in (i + 1)..(e - 1) : Depth(w, i, Quote, S, j) # 0
    BY <1>8, <1>9
  <2> HIDE DEF D
  <2> DEFINE q == Quote
  <2>2. Depth(w, i, q, S, e) = 0 /\ \A j \in (i + 1)..(e - 1) : Depth(w, i, q, S, j) # 0
    BY <2>1
  <2> HIDE DEF q
  <2>3. FindMatching(w, i, TRUE, q) = e
    BY <1>1, <2>2, MatchingFacts DEF S
  <2> QED BY <2>3 DEF q
<1> QED BY <1>10 DEF e

-----------------------------------------------------------------------------
(* Texts that the expansion gets over.                                     *)

\* Wherever x stands, the expansion gets from its beginning to the place after it.
Passing(x) == \A v \in Seq(Alphabet), i \in Nat : i > 0 /\ Stands(x, v, i) =>
    \A n \in (i + Len(x) - 1)..Len(v) : ExpandOf(v)[<<i, n>>] <=> ExpandOf(v)[<<i + Len(x), n>>]

LEMMA PassingEmpty == Passing(<< >>)
<1>1. Len(<< >>) = 0 /\ \A i \in Nat : i + 0 = i
  OBVIOUS
<1> QED BY <1>1 DEF Passing

LEMMA PassingConcat ==
    ASSUME NEW x \in Seq(Alphabet), NEW y \in Seq(Alphabet), Passing(x), Passing(y)
    PROVE  Passing(x \o y)
<1> DEFINE z == x \o y
           k == Len(x)
           m == Len(y)
<1>1. /\ Len(z) = k + m /\ k \in Nat /\ m \in Nat
      /\ \A j \in 1..k : z[j] = x[j]
      /\ \A j \in 1..m : z[k + j] = y[j]
  BY ConcatFacts
<1> HIDE DEF z, k, m
<1> SUFFICES ASSUME NEW v \in Seq(Alphabet), NEW i \in Nat, i > 0, Stands(z, v, i),
                    NEW n \in (i + Len(z) - 1)..Len(v)
             PROVE  ExpandOf(v)[<<i, n>>] <=> ExpandOf(v)[<<i + Len(z), n>>]
  BY DEF Passing, z
<1>2. Len(v) \in Nat
  BY LenProperties
<1>3. i + k + m - 1 <= Len(v) /\ \A j \in 1..(k + m) : v[i + j - 1] = z[j]
  BY <1>1 DEF Stands
<1>4. Stands(x, v, i)
  <2>1. \A j \in 1..k : j \in 1..(k + m)
    BY <1>1
  <2>2. i + k - 1 <= Len(v)
    BY <1>1, <1>2, <1>3
  <2> QED BY <1>1, <1>3, <2>1, <2>2 DEF Stands, k
<1>5. Stands(y, v, i + k)
  <2>1. \A j \in 1..m : k + j \in 1..(k + m) /\ i + (k + j) - 1 = (i + k) + j - 1
    BY <1>1
  <2>2. (i + k) + m - 1 <= Len(v)
    BY <1>1, <1>3
  <2>3. \A j \in 1..m : v[(i + k) + j - 1] = y[j]
    BY <1>1, <1>3, <2>1
  <2> QED BY <2>2, <2>3 DEF Stands, m
<1>6. n \in (i + k - 1)..Len(v) /\ n \in ((i + k) + m - 1)..Len(v) /\ i + k \in Nat /\ i + k > 0 /\ (i + k) + m = i + Len(z)
  BY <1>1, <1>2
<1>7. ExpandOf(v)[<<i, n>>] <=> ExpandOf(v)[<<i + k, n>>]
  BY <1>4, <1>6 DEF Passing, k
<1>8. ExpandOf(v)[<<i + k, n>>] <=> ExpandOf(v)[<<(i + k) + m, n>>]
  BY <1>5, <1>6 DEF Passing, m
<1> QED BY <1>6, <1>7, <1>8

LEMMA ExpandUnfoldsAt ==
    ASSUME NEW v \in Seq(Alphabet), NEW i \in Nat, i > 0, NEW n \in Nat, i <= n, n <= Len(v)
    PROVE  LET f == ExpandOf(v)
           IN  /\ v[i] = Backslash => f[<<i, n>>] = f[<<i + 2, n>>]
               /\ v[i] = OpenBrace => f[<<i, n>>] = Closes(f, v, i, n, CloseBrace)
               /\ v[i] = "[" => f[<<i, n>>] = Closes(f, v, i, n, "]")
               /\ v[i] = Quote => f[<<i, n>>] = Unquotes(f, v, i, n)
               /\ v[i] \notin {Backslash, OpenBrace, "[", Quote} => f[<<i, n>>] = f[<<i + 1, n>>]
<1> DEFINE f == ExpandOf(v)
<1>1. Len(v) \in Nat
  BY LenProperties
<1>2. i \in 1..(Len(v) + 2) /\ n \in 0..Len(v) /\ ~(i > n)
  BY <1>1
<1>3. f[<<i, n>>] = ExpandStep(f, v, i, n)
  BY <1>1, <1>2, ExpandUnfolds
<1>4. OpenBrace \notin {"[", Quote, Backslash} /\ Quote \notin {"[", Backslash} /\ Backslash # "["
  BY AlphabetFacts, BraceFacts
<1> HIDE DEF f
<1> QED BY <1>2, <1>3, <1>4 DEF ExpandStep, f

LEMMA PassingChar ==
    ASSUME NEW c \in Alphabet, c \notin {Backslash, OpenBrace, "[", Quote} PROVE Passing(<<c>>)
<1> DEFINE x == <<c>>
<1>1. Len(x) = 1 /\ x[1] = c
  BY OneFacts
<1> HIDE DEF x
<1> SUFFICES ASSUME NEW v \in Seq(Alphabet), NEW i \in Nat, i > 0, Stands(x, v, i),
                    NEW n \in (i + Len(x) - 1)..Len(v)
             PROVE  ExpandOf(v)[<<i, n>>] <=> ExpandOf(v)[<<i + Len(x), n>>]
  BY DEF Passing, x
<1>2. Len(v) \in Nat
  BY LenProperties
<1>3. i <= n /\ n <= Len(v) /\ n \in Nat
  BY <1>1, <1>2
<1>4. v[i] = c
  <2>1. 1 \in 1..Len(x) /\ i + 1 - 1 = i
    BY <1>1
  <2> QED BY <1>1, <2>1 DEF Stands
<1>5. ExpandOf(v)[<<i, n>>] = ExpandOf(v)[<<i + 1, n>>]
  BY <1>3, <1>4, ExpandUnfoldsAt
<1> QED BY <1>1, <1>5

LEMMA PassingEscape ==
    ASSUME NEW c \in Alphabet PROVE Passing(<<Backslash, c>>)
<1> DEFINE x == <<Backslash, c>>
<1>0. Backslash \in Alphabet
  BY AlphabetFacts
<1>1. Len(x) = 2 /\ x[1] = Backslash
  BY <1>0, PairFacts
<1> HIDE DEF x
<1> SUFFICES ASSUME NEW v \in Seq(Alphabet), NEW i \in Nat, i > 0, Stands(x, v, i),
                    NEW n \in (i + Len(x) - 1)..Len(v)
             PROVE  ExpandOf(v)[<<i, n>>] <=> ExpandOf(v)[<<i + Len(x), n>>]
  BY DEF Passing, x
<1>2. Len(v) \in Nat
  BY LenProperties
<1>3. i <= n /\ n <= Len(v) /\ n \in Nat
  BY <1>1, <1>2
<1>4. v[i] = Backslash
  <2>1. 1 \in 1..Len(x) /\ i + 1 - 1 = i
    BY <1>1
  <2> QED BY <1>1, <2>1 DEF Stands
<1>5. ExpandOf(v)[<<i, n>>] = ExpandOf(v)[<<i + 2, n>>]
  BY <1>3, <1>4, ExpandUnfoldsAt
<1> QED BY <1>1, <1>5

\* Text that stands in v stands in as much of it as holds it.
LEMMA StandsBefore ==
    ASSUME NEW x \in Seq(Alphabet), NEW v \in Seq(Alphabet), NEW i \in Nat, i > 0, Stands(x, v, i),
           NEW n \in (i + Len(x) - 1)..Len(v)
    PROVE  LET w == SubSeq(v, 1, n)
           IN  w \in Seq(Alphabet) /\ Len(w) = n /\ n \in Nat /\ Stands(x, w, i)
<1> DEFINE w == SubSeq(v, 1, n)
<1>1. Len(v) \in Nat /\ Len(x) \in Nat
  BY LenProperties
<1>2. n \in 0..Len(v) /\ n \in Nat /\ i + Len(x) - 1 <= n
  BY <1>1
<1>3. w \in Seq(Alphabet) /\ Len(w) = n /\ \A k \in 1..n : w[k] = v[k]
  BY <1>2, PrefixFacts
<1> HIDE DEF w
<1>4. \A k \in 1..Len(x) : w[i + k - 1] = x[k]
  <2>1. \A k \in 1..Len(x) : i + k - 1 \in 1..n
    BY <1>1, <1>2
  <2> QED BY <1>3, <2>1 DEF Stands
<1> QED BY <1>2, <1>3, <1>4 DEF Stands, w

LEMMA BracketsAre == \A o, c : <<o, c>> \in Brackets => (o = OpenBrace /\ c = CloseBrace) \/ (o = "[" /\ c = "]")
  BY DEF Brackets

LEMMA PassingGroup ==
    ASSUME NEW o, NEW c, <<o, c>> \in Brackets, NEW g \in Seq(Alphabet), Len(g) > 1, g[1] = o,
           \A k \in 1..Len(g) : g[k] # Backslash, Inert(FALSE, 0, 0, g)
    PROVE  Passing(g)
<1> SUFFICES ASSUME NEW v \in Seq(Alphabet), NEW i \in Nat, i > 0, Stands(g, v, i),
                    NEW n \in (i + Len(g) - 1)..Len(v)
             PROVE  ExpandOf(v)[<<i, n>>] <=> ExpandOf(v)[<<i + Len(g), n>>]
  BY DEF Passing
<1> DEFINE w == SubSeq(v, 1, n)
           e == FindMatching(w, i, FALSE, c)
           f == ExpandOf(v)
<1>1. w \in Seq(Alphabet) /\ Len(w) = n /\ n \in Nat /\ Stands(g, w, i)
  BY StandsBefore
<1>2. Len(v) \in Nat /\ Len(g) \in Nat
  BY LenProperties
<1>3. i <= n /\ n <= Len(v)
  BY <1>2
<1> HIDE DEF w
<1>4. e = i + Len(g) - 1
  BY <1>1, GroupMatched
<1>5. v[i] = o
  <2>1. 1 \in 1..Len(g) /\ i + 1 - 1 = i
    BY <1>2
  <2> QED BY <2>1 DEF Stands
<1>6. (o = OpenBrace /\ c = CloseBrace) \/ (o = "[" /\ c = "]")
  BY BracketsAre
<1> HIDE DEF e
<1>7. f[<<i, n>>] = Closes(f, v, i, n, c)
  <2>1. /\ v[i] = OpenBrace => f[<<i, n>>] = Closes(f, v, i, n, CloseBrace)
        /\ v[i] = "[" => f[<<i, n>>] = Closes(f, v, i, n, "]")
    BY <1>1, <1>3, ExpandUnfoldsAt
  <2> HIDE DEF f
  <2> QED BY <1>5, <1>6, <2>1
<1> HIDE DEF f
<1>8. Closes(f, v, i, n, c) = (e > 0 /\ f[<<e + 1, n>>])
  BY DEF Closes, e, w
<1>9. e > 0 /\ e + 1 = i + Len(g)
  BY <1>2, <1>4
<1> QED BY <1>7, <1>8, <1>9 DEF f

LEMMA GroupShape ==
    ASSUME NEW o \in Alphabet, NEW c \in Alphabet, NEW x \in Seq(Alphabet)
    PROVE  LET g == (<<o>> \o x) \o <<c>>
           IN  /\ g \in Seq(Alphabet) /\ Len(g) = Len(x) + 2 /\ Len(x) \in Nat
               /\ g[1] = o /\ g[Len(x) + 2] = c
               /\ \A k \in 1..Len(x) : g[k + 1] = x[k]
               /\ \A k \in 2..(Len(x) + 1) : g[k] = x[k - 1]
<1> DEFINE p == <<o>>
           q == <<c>>
           y == p \o x
           g == y \o q
<1>1. p \in Seq(Alphabet) /\ Len(p) = 1 /\ p[1] = o /\ q \in Seq(Alphabet) /\ Len(q) = 1 /\ q[1] = c
  BY OneFacts
<1> HIDE DEF p, q
<1>2. /\ y \in Seq(Alphabet) /\ Len(y) = 1 + Len(x) /\ Len(x) \in Nat /\ y[1] = o
      /\ \A k \in 1..Len(x) : y[1 + k] = x[k]
  <2>1. /\ y \in Seq(Alphabet) /\ Len(y) = Len(p) + Len(x) /\ Len(x) \in Nat
        /\ \A k \in 1..Len(p) : y[k] = p[k]
        /\ \A k \in 1..Len(x) : y[Len(p) + k] = x[k]
    <3>1. p \in Seq(Alphabet)
      BY <1>1
    <3> HIDE DEF g
    <3> QED BY <3>1, ConcatFacts
  <2>2. 1 \in 1..Len(p)
    BY <1>1
  <2> HIDE DEF y
  <2> QED BY <1>1, <2>1, <2>2
<1> HIDE DEF y
<1>3. /\ g \in Seq(Alphabet) /\ Len(g) = Len(y) + 1 /\ g[Len(y) + 1] = c
      /\ \A k \in 1..Len(y) : g[k] = y[k]
  <2>1. /\ g \in Seq(Alphabet) /\ Len(g) = Len(y) + Len(q)
        /\ \A k \in 1..Len(y) : g[k] = y[k]
        /\ \A k \in 1..Len(q) : g[Len(y) + k] = q[k]
    <3>1. y \in Seq(Alphabet) /\ q \in Seq(Alphabet)
      BY <1>1, <1>2
    <3> QED BY <3>1, ConcatFacts
  <2>2. 1 \in 1..Len(q)
    BY <1>1
  <2> HIDE DEF g
  <2> QED BY <1>1, <2>1, <2>2
<1> HIDE DEF g
<1>4. g[1] = o /\ Len(g) = Len(x) + 2 /\ g[Len(x) + 2] = c
  <2>1. 1 \in 1..Len(y) /\ Len(y) + 1 = Len(x) + 2
    BY <1>2
  <2> QED BY <1>2, <1>3, <2>1
<1>5. \A k \in 1..Len(x) : g[k + 1] = x[k]
  <2>1. \A k \in 1..Len(x) : k + 1 \in 1..Len(y) /\ 1 + k = k + 1
    BY <1>2
  <2> QED BY <1>2, <1>3, <2>1
<1>6. \A k \in 2..(Len(x) + 1) : g[k] = x[k - 1]
  <2>1. \A k \in 2..(Len(x) + 1) : k - 1 \in 1..Len(x) /\ (k - 1) + 1 = k
    BY <1>2
  <2> QED BY <1>5, <2>1
<1> QED BY <1>2, <1>3, <1>4, <1>5, <1>6 DEF g, y, p, q

LEMMA PassingQuotes ==
    ASSUME NEW x \in Seq(Alphabet), \A k \in 1..Len(x) : x[k] \notin {Backslash, Quote}, Passing(x)
    PROVE  Passing((<<Quote>> \o x) \o <<Quote>>)
<1> DEFINE g == (<<Quote>> \o x) \o <<Quote>>
           m == Len(x)
<1>1. /\ g \in Seq(Alphabet) /\ Len(g) = m + 2 /\ m \in Nat /\ g[1] = Quote /\ g[m + 2] = Quote
      /\ \A k \in 1..m : g[k + 1] = x[k]
  <2> DEFINE q == Quote
  <2>1. q \in Alphabet
    BY AlphabetFacts
  <2> HIDE DEF q, m
  <2>2. LET h == (<<q>> \o x) \o <<q>>
        IN  /\ h \in Seq(Alphabet) /\ Len(h) = Len(x) + 2 /\ Len(x) \in Nat
            /\ h[1] = q /\ h[Len(x) + 2] = q
            /\ \A k \in 1..Len(x) : h[k + 1] = x[k]
            /\ \A k \in 2..(Len(x) + 1) : h[k] = x[k - 1]
    BY <2>1, GroupShape
  <2> QED BY <2>2 DEF q, m
<1> HIDE DEF g
<1> SUFFICES ASSUME NEW v \in Seq(Alphabet), NEW i \in Nat, i > 0, Stands(g, v, i),
                    NEW n \in (i + Len(g) - 1)..Len(v)
             PROVE  ExpandOf(v)[<<i, n>>] <=> ExpandOf(v)[<<i + Len(g), n>>]
  BY DEF Passing, g
<1> DEFINE w == SubSeq(v, 1, n)
           e == FindMatching(w, i, TRUE, Quote)
           f == ExpandOf(v)
<1>2. w \in Seq(Alphabet) /\ Len(w) = n /\ n \in Nat /\ Stands(g, w, i)
  BY <1>1, StandsBefore
<1>3. Len(v) \in Nat
  BY LenProperties
<1> HIDE DEF w, m
<1>4. i + m + 1 <= n /\ i <= n /\ n <= Len(v) /\ i + m + 1 <= Len(v)
  BY <1>1, <1>3
<1>5. /\ \A k \in 1..(m + 2) : w[i + k - 1] = g[k] /\ v[i + k - 1] = g[k]
  BY <1>1, <1>2 DEF Stands
<1>6. e = i + m + 1
  <2>1. w[i] = Quote
    <3>1. 1 \in 1..(m + 2) /\ i + 1 - 1 = i
      BY <1>1
    <3> QED BY <1>1, <1>5, <3>1
  <2>2. w[i + m + 1] = Quote
    <3>1. m + 2 \in 1..(m + 2) /\ i + (m + 2) - 1 = i + m + 1
      BY <1>1
    <3> QED BY <1>1, <1>5, <3>1
  <2>3. \A k \in (i + 1)..(i + m) : w[k] \notin {Backslash, Quote}
    <3> SUFFICES ASSUME NEW k \in (i + 1)..(i + m) PROVE w[k] \notin {Backslash, Quote}
      OBVIOUS
    <3>1. k - i \in 1..m /\ (k - i) + 1 \in 1..(m + 2) /\ i + ((k - i) + 1) - 1 = k
      BY <1>1
    <3>2. w[k] = x[k - i]
      BY <1>1, <1>5, <3>1
    <3>3. x[k - i] \notin {Backslash, Quote}
      BY <3>1 DEF m
    <3> QED BY <3>2, <3>3
  <2>4. i + m + 1 <= Len(w) /\ Len(w) \in Nat /\ m \in Nat
    BY <1>1, <1>2, <1>4
  <2> QED BY <2>1, <2>2, <2>3, <2>4, QuotesMatched
<1>7. v[i] = Quote
  <2>1. 1 \in 1..(m + 2) /\ i + 1 - 1 = i
    BY <1>1
  <2> QED BY <1>1, <1>5, <2>1
<1> HIDE DEF e
<1>8. f[<<i, n>>] = Unquotes(f, v, i, n)
  BY <1>2, <1>4, <1>7, ExpandUnfoldsAt
<1>9. f[<<i + 1, i + m>>]
  <2>1. Stands(x, v, i + 1)
    <3>1. \A k \in 1..m : k + 1 \in 1..(m + 2) /\ i + (k + 1) - 1 = (i + 1) + k - 1
      BY <1>1
    <3>2. \A k \in 1..m : v[(i + 1) + k - 1] = x[k]
      BY <1>1, <1>5, <3>1
    <3>3. (i + 1) + m - 1 <= Len(v)
      BY <1>1, <1>3, <1>4
    <3> QED BY <3>2, <3>3 DEF Stands, m
  <2>2. i + 1 \in Nat /\ i + 1 > 0 /\ i + m \in ((i + 1) + m - 1)..Len(v)
    BY <1>1, <1>3, <1>4
  <2> HIDE DEF f
  <2>3. f[<<i + 1, i + m>>] <=> f[<<(i + 1) + m, i + m>>]
    BY <2>1, <2>2 DEF Passing, m, f
  <2>4. f[<<(i + 1) + m, i + m>>]
    <3> DEFINE j == (i + 1) + m
               l == i + m
    <3>1. j \in 1..(Len(v) + 2) /\ l \in 0..Len(v) /\ j > l
      BY <1>1, <1>3, <1>4
    <3> HIDE DEF j, l
    <3>2. f[<<j, l>>] = ExpandStep(f, v, j, l)
      BY <1>3, <3>1, ExpandUnfolds DEF f
    <3>3. f[<<j, l>>]
      BY <3>1, <3>2 DEF ExpandStep
    <3> QED BY <3>3 DEF j, l
  <2> QED BY <2>3, <2>4
<1> HIDE DEF f
<1>10. Unquotes(f, v, i, n) = (e > 0 /\ f[<<i + 1, e - 1>>] /\ f[<<e + 1, n>>])
  BY DEF Unquotes, e, w
<1>11. e > 0 /\ e - 1 = i + m /\ e + 1 = i + Len(g)
  BY <1>1, <1>6
<1> QED BY <1>8, <1>9, <1>10, <1>11 DEF f

LEMMA PassingBracketed ==
    ASSUME NEW o, NEW c, <<o, c>> \in Brackets, NEW x \in Seq(Alphabet),
           \A k \in 1..Len(x) : x[k] # Backslash, Inert(FALSE, 0, 0, (<<o>> \o x) \o <<c>>)
    PROVE  Passing((<<o>> \o x) \o <<c>>)
<1> DEFINE g == (<<o>> \o x) \o <<c>>
<1>1. o \in Alphabet /\ c \in Alphabet /\ o # Backslash /\ c # Backslash
  BY BracketsAre, BraceFacts, AlphabetFacts
<1>2. /\ g \in Seq(Alphabet) /\ Len(g) = Len(x) + 2 /\ Len(x) \in Nat /\ g[1] = o /\ g[Len(x) + 2] = c
      /\ \A k \in 2..(Len(x) + 1) : g[k] = x[k - 1]
  BY <1>1, GroupShape
<1> HIDE DEF g
<1>3. \A k \in 1..Len(g) : g[k] # Backslash
  <2> SUFFICES ASSUME NEW k \in 1..Len(g) PROVE g[k] # Backslash
    OBVIOUS
  <2>1. k = 1 \/ k = Len(x) + 2 \/ k \in 2..(Len(x) + 1)
    BY <1>2
  <2>2. CASE k \in 2..(Len(x) + 1)
    <3>1. k - 1 \in 1..Len(x)
      BY <1>2, <2>2
    <3> QED BY <1>2, <2>2, <3>1
  <2> QED BY <1>1, <1>2, <2>1, <2>2
<1>4. Len(g) > 1
  BY <1>2
<1>5. Passing(g)
  BY <1>2, <1>3, <1>4, PassingGroup DEF g
<1> QED BY <1>5 DEF g

\* What is in quotes, without escapes, opening braces and quotes in brackets.
LEMMA QuotesPass ==
    ASSUME NEW n \in 0..MaxLength, NEW x \in InQuotes[n],
           \A k \in 1..Len(x) : x[k] \notin {Backslash, Quote, OpenBrace}
    PROVE  Passing(x)
<1> DEFINE Clear(x1) == \A k \in 1..Len(x1) : x1[k] \notin {Backslash, Quote, OpenBrace}
           T == {m \in 0..MaxLength : \A x1 \in InQuotes[m] : Clear(x1) => Passing(x1)}
           A == Alphabet \ {"[", "]", Quote, Backslash}
<1>0. MaxLength \in Nat
  BY TextsAssumption
<1>1. ASSUME NEW y \in Seq(Alphabet), NEW z \in Seq(Alphabet), Clear(y \o z) PROVE Clear(y) /\ Clear(z)
  <2>1. /\ Len(y \o z) = Len(y) + Len(z) /\ Len(y) \in Nat /\ Len(z) \in Nat
        /\ \A k \in 1..Len(y) : (y \o z)[k] = y[k]
        /\ \A k \in 1..Len(z) : (y \o z)[Len(y) + k] = z[k]
    BY ConcatFacts
  <2>2. /\ \A k \in 1..Len(y) : k \in 1..(Len(y) + Len(z))
        /\ \A k \in 1..Len(z) : Len(y) + k \in 1..(Len(y) + Len(z))
    BY <2>1
  <2> QED BY <1>1, <2>1, <2>2
<1>2. ASSUME NEW m \in 0..MaxLength, \A k \in 0..(m - 1) : k \in T, NEW x1 \in InQuotes[m], Clear(x1)
      PROVE  Passing(x1)
  <2>1. x1 \in Content(A, "[", InBrackets, "]", InQuotes, m)
    BY QuotesUnfolds, Zenon
  <2>2. m \in Nat /\ x1 \in Seq(Alphabet)
    <3> HIDE DEF T, Clear, A
    <3>1. m \in Nat
      BY <1>0
    <3> QED BY <1>2, <3>1, QuotesInert
  <2>3. HasContent(x1, A, "[", InBrackets, "]", InQuotes, m)
    BY <2>1, <2>2, ContentCases
  <2>4. \/ x1 = << >>
        \/ m # 0 /\ \E d \in A, y \in InQuotes[m - 1] : x1 = <<d>> \o y
        \/ m - 2 \in Nat /\ \E d \in Alphabet, y \in InQuotes[m - 2] : x1 = <<Backslash, d>> \o y
        \/ \E k \in 0..(m - 2) : \E w \in InBrackets[k], y \in InQuotes[m - 2 - k] :
             x1 = ((<<"[">> \o w) \o <<"]">>) \o y
    BY <2>3, Zenon DEF HasContent
  <2>5. ASSUME NEW k \in 0..(m - 1), NEW y \in InQuotes[k]
        PROVE  y \in Seq(Alphabet) /\ (Clear(y) => Passing(y))
    <3>1. k \in 0..MaxLength
      BY <1>0
    <3>2. k \in T
      <4> HIDE DEF T
      <4> QED BY <1>2
    <3> HIDE DEF Clear
    <3> QED BY <3>1, <3>2, QuotesInert
  <2>6. CASE m # 0 /\ \E d \in A, y \in InQuotes[m - 1] : x1 = <<d>> \o y
    <3>1. PICK d \in A, y \in InQuotes[m - 1] : x1 = <<d>> \o y
      BY <2>6
    <3>2. m - 1 \in 0..(m - 1)
      BY <2>2, <2>6
    <3>3. y \in Seq(Alphabet) /\ (Clear(y) => Passing(y))
      <4> HIDE DEF Clear
      <4> QED BY <2>5, <3>2
    <3> DEFINE z == <<d>>
    <3>4. d \in Alphabet /\ z \in Seq(Alphabet) /\ Len(z) = 1 /\ z[1] = d
      BY OneFacts
    <3>5. d \notin {"[", "]", Quote, Backslash}
      OBVIOUS
    <3> HIDE DEF z, A
    <3>6. Clear(z) /\ Clear(y)
      <4>1. Clear(z \o y)
        BY <1>2, <3>1 DEF z
      <4> HIDE DEF Clear
      <4> QED BY <1>1, <3>3, <3>4, <4>1
    <3>7. d # OpenBrace
      <4>1. 1 \in 1..Len(z)
        BY <3>4
      <4> QED BY <3>4, <3>6, <4>1
    <3>8. Passing(z)
      BY <3>4, <3>5, <3>7, PassingChar DEF z
    <3> HIDE DEF Clear
    <3> QED BY <3>1, <3>3, <3>4, <3>6, <3>8, PassingConcat DEF z
  <2>7. CASE m - 2 \in Nat /\ \E d \in Alphabet, y \in InQuotes[m - 2] : x1 = <<Backslash, d>> \o y
    <3>1. PICK d \in Alphabet, y \in InQuotes[m - 2] : x1 = <<Backslash, d>> \o y
      BY <2>7
    <3>2. m - 2 \in 0..(m - 1)
      BY <2>2, <2>7
    <3>3. y \in Seq(Alphabet)
      <4> HIDE DEF Clear
      <4> QED BY <2>5, <3>2
    <3> DEFINE z == <<Backslash, d>>
    <3>4. z \in Seq(Alphabet) /\ Len(z) = 2 /\ z[1] = Backslash
      <4>1. Backslash \in Alphabet
        BY AlphabetFacts
      <4> QED BY <4>1, PairFacts
    <3> HIDE DEF z
    <3>5. Clear(z)
      <4>1. Clear(z \o y)
        BY <1>2, <3>1 DEF z
      <4> HIDE DEF Clear
      <4> QED BY <1>1, <3>3, <3>4, <4>1
    <3>6. 1 \in 1..Len(z)
      BY <3>4
    <3> QED BY <3>4, <3>5, <3>6
  <2>8. CASE \E k \in 0..(m - 2) : \E w \in InBrackets[k], y \in InQuotes[m - 2 - k] :
               x1 = ((<<"[">> \o w) \o <<"]">>) \o y
    <3>1. PICK k \in 0..(m - 2) : \E w \in InBrackets[k], y \in InQuotes[m - 2 - k] :
               x1 = ((<<"[">> \o w) \o <<"]">>) \o y
      BY <2>8
    <3>2. PICK w \in InBrackets[k], y \in InQuotes[m - 2 - k] : x1 = ((<<"[">> \o w) \o <<"]">>) \o y
      BY <3>1
    <3>3. m - 2 - k \in 0..(m - 1) /\ k \in 0..MaxLength
      BY <1>0, <2>2
    <3>4. y \in Seq(Alphabet) /\ (Clear(y) => Passing(y))
      <4> HIDE DEF Clear
      <4> QED BY <2>5, <3>3
    <3> DEFINE z == (<<"[">> \o w) \o <<"]">>
    <3>5. w \in Seq(Alphabet) /\ Inert(FALSE, 0, 0, z)
      BY <3>3, BracketGroup
    <3>6. /\ z \in Seq(Alphabet) /\ Len(z) = Len(w) + 2 /\ Len(w) \in Nat
          /\ \A j \in 1..Len(w) : z[j + 1] = w[j]
      <4>1. "[" \in Alphabet /\ "]" \in Alphabet
        BY AlphabetFacts
      <4> QED BY <3>5, <4>1, GroupShape
    <3> HIDE DEF z
    <3>7. Clear(z) /\ Clear(y)
      <4>1. Clear(z \o y)
        BY <1>2, <3>2 DEF z
      <4> HIDE DEF Clear
      <4> QED BY <1>1, <3>4, <3>6, <4>1
    <3>8. \A j \in 1..Len(w) : w[j] # Backslash
      <4>1. \A j \in 1..Len(w) : j + 1 \in 1..Len(z)
        BY <3>6
      <4> QED BY <3>6, <3>7, <4>1
    <3>9. Passing(z)
      <4>1. <<"[", "]">> \in Brackets
        BY DEF Brackets
      <4> QED BY <3>5, <3>8, <4>1, PassingBracketed DEF z
    <3> HIDE DEF Clear
    <3> QED BY <3>2, <3>4, <3>6, <3>7, <3>9, PassingConcat DEF z
  <2> QED BY <2>4, <2>6, <2>7, <2>8, PassingEmpty
<1>3. ASSUME NEW m \in 0..MaxLength, \A k \in 0..(m - 1) : k \in T PROVE m \in T
  <2>1. \A x1 \in InQuotes[m] : Clear(x1) => Passing(x1)
    <3> HIDE DEF T, Clear
    <3> QED BY <1>2, <1>3
  <2> HIDE DEF Clear
  <2> QED BY <2>1
<1>4. n \in T
  <2> HIDE DEF T
  <2> QED BY <1>3, AllLengths
<1>5. Clear(x)
  OBVIOUS
<1> HIDE DEF Clear
<1> QED BY <1>4, <1>5

LEMMA GroupPasses ==
    ASSUME NEW g \in Groups,
           \A k \in 2..(Len(g) - 1) : g[k] # Backslash /\ (g[1] = Quote => g[k] \notin {Quote, OpenBrace})
    PROVE  Passing(g)
<1>0. MaxLength \in Nat
  BY TextsAssumption
<1>1. PICK n \in 0..(MaxLength - 2) : \/ g \in Group(OpenBrace, InBraces[n], CloseBrace)
                                      \/ g \in Group("[", InBrackets[n], "]")
                                      \/ g \in Group(Quote, InQuotes[n], Quote)
  BY Zenon DEF Groups, OpenBrace, CloseBrace
<1>2. n \in 0..MaxLength
  BY <1>0
<1>3. "[" \in Alphabet /\ "]" \in Alphabet /\ Quote \in Alphabet /\ OpenBrace \in Alphabet /\ CloseBrace \in Alphabet
  BY AlphabetFacts, BraceFacts
<1>4. ASSUME NEW o \in Alphabet, NEW c \in Alphabet, NEW x \in Seq(Alphabet), g = (<<o>> \o x) \o <<c>>
      PROVE  \A k \in 1..Len(x) : x[k] # Backslash /\ (o = Quote => x[k] \notin {Quote, OpenBrace})
  <2>1. /\ Len(g) = Len(x) + 2 /\ Len(x) \in Nat /\ g[1] = o
        /\ \A k \in 1..Len(x) : g[k + 1] = x[k]
    BY <1>4, GroupShape
  <2>2. \A k \in 1..Len(x) : k + 1 \in 2..(Len(g) - 1)
    BY <2>1
  <2> QED BY <2>1, <2>2
<1>5. <<OpenBrace, CloseBrace>> \in Brackets /\ <<"[", "]">> \in Brackets
  BY DEF Brackets
<1>6. CASE g \in Group(OpenBrace, InBraces[n], CloseBrace)
  <2>1. PICK x \in InBraces[n] : g = (<<OpenBrace>> \o x) \o <<CloseBrace>>
    BY <1>6 DEF Group
  <2>2. x \in Seq(Alphabet) /\ Inert(FALSE, 0, 0, (<<OpenBrace>> \o x) \o <<CloseBrace>>)
    BY <1>2, BraceGroup
  <2>3. \A k \in 1..Len(x) : x[k] # Backslash
    BY <1>3, <1>4, <2>1, <2>2
  <2> QED BY <1>5, <2>1, <2>2, <2>3, PassingBracketed
<1>7. CASE g \in Group("[", InBrackets[n], "]")
  <2>1. PICK x \in InBrackets[n] : g = (<<"[">> \o x) \o <<"]">>
    BY <1>7 DEF Group
  <2>2. x \in Seq(Alphabet) /\ Inert(FALSE, 0, 0, (<<"[">> \o x) \o <<"]">>)
    BY <1>2, BracketGroup
  <2>3. \A k \in 1..Len(x) : x[k] # Backslash
    BY <1>3, <1>4, <2>1, <2>2
  <2> QED BY <1>5, <2>1, <2>2, <2>3, PassingBracketed
<1>8. CASE g \in Group(Quote, InQuotes[n], Quote)
  <2>1. PICK x \in InQuotes[n] : g = (<<Quote>> \o x) \o <<Quote>>
    BY <1>8 DEF Group
  <2>2. x \in Seq(Alphabet)
    BY <1>2, QuotesInert
  <2>3. \A k \in 1..Len(x) : x[k] \notin {Backslash, Quote, OpenBrace}
    BY <1>3, <1>4, <2>1, <2>2
  <2>4. Passing(x)
    BY <1>2, <2>3, QuotesPass
  <2> QED BY <2>1, <2>2, <2>3, <2>4, PassingQuotes
<1> QED BY <1>1, <1>6, <1>7, <1>8

\* The expansion gets over every part of a plain text, and over the one being written.
PartsPass == plain => Passing(part) /\ \A i \in 1..Len(parts) : Passing(parts[i])

LEMMA PassStep ==
    ASSUME TextsInv, PartsPass, [TextsNext]_texts PROVE PartsPass'
<1>0. part \in Seq(Alphabet) /\ parts \in Seq(Seq(Alphabet)) /\ plain \in BOOLEAN
  BY DEF TextsInv, TextsTyped
<1>1. ASSUME NEW x \in Seq(Alphabet), part' = part \o x, parts' = parts, plain' => plain,
             plain' => Passing(x)
      PROVE  PartsPass'
  <2>1. plain' => Passing(part')
    BY <1>0, <1>1, PassingConcat DEF PartsPass
  <2> QED BY <1>1, <2>1 DEF PartsPass
<1>2. CASE UNCHANGED texts
  BY <1>2 DEF texts, PartsPass
<1>3. CASE WriteOrdinary
  <2> DEFINE c == Ordinary
  <2>1. c \in Alphabet /\ c \notin {Backslash, OpenBrace, "[", Quote}
    BY AlphabetFacts, Zenon DEF OpenBrace
  <2>2. part' = Append(part, c) /\ parts' = parts /\ plain' = plain
    BY <1>3 DEF WriteOrdinary
  <2> HIDE DEF c
  <2>3. part' = part \o <<c>> /\ <<c>> \in Seq(Alphabet) /\ Passing(<<c>>)
    BY <1>0, <2>1, <2>2, OneFacts, PassingChar
  <2> QED BY <1>1, <2>2, <2>3
<1>4. CASE WriteEscape
  <2>1. PICK x \in Escapes : part' = part \o x /\ parts' = parts /\ plain' = plain
    BY <1>4 DEF WriteEscape
  <2>2. PICK c \in Alphabet : x = <<Backslash, c>>
    BY <2>1 DEF Escapes
  <2>3. x \in Seq(Alphabet) /\ Passing(x)
    BY <2>2, AlphabetFacts, PairFacts, PassingEscape
  <2> QED BY <1>1, <2>1, <2>3
<1>5. CASE WriteGroup
  <2>1. PICK g \in Groups :
             /\ part' = part \o g /\ parts' = parts
             /\ plain' = (plain /\ \A k \in 2..(Len(g) - 1) :
                     g[k] # Backslash /\ (g[1] = Quote => g[k] \notin {Quote, OpenBrace}))
    BY <1>5, Zenon DEF WriteGroup, OpenBrace
  <2>2. g \in Seq(Alphabet)
    BY GroupFacts
  <2>3. plain' => plain /\ Passing(g)
    BY <1>0, <2>1, GroupPasses
  <2> QED BY <1>1, <2>1, <2>2, <2>3
<1>6. ASSUME part' = << >>, plain' = plain,
             parts' = parts \/ parts' = Append(parts, part)
      PROVE  PartsPass'
  <2>1. plain' => Passing(part')
    BY <1>6, PassingEmpty
  <2>2. ASSUME plain', NEW i \in 1..Len(parts') PROVE Passing(parts'[i])
    <3>1. plain /\ Passing(part) /\ \A k \in 1..Len(parts) : Passing(parts[k])
      BY <1>6, <2>2 DEF PartsPass
    <3>2. CASE parts' = parts
      BY <3>1, <3>2
    <3>3. CASE parts' = Append(parts, part)
      <4>1. /\ Len(parts') = Len(parts) + 1 /\ Len(parts) \in Nat
            /\ parts'[Len(parts) + 1] = part /\ \A k \in 1..Len(parts) : parts'[k] = parts[k]
        BY <1>0, <3>3, AppendProperties, LenProperties
      <4>2. i = Len(parts) + 1 \/ i \in 1..Len(parts)
        BY <4>1
      <4> QED BY <3>1, <4>1, <4>2
    <3> QED BY <1>6, <3>2, <3>3
  <2> QED BY <2>1, <2>2 DEF PartsPass
<1>7. CASE WriteUnfinished
  BY <1>6, <1>7 DEF WriteUnfinished
<1>8. CASE WriteDelimiter
  BY <1>6, <1>8 DEF WriteDelimiter
<1> QED BY <1>2, <1>3, <1>4, <1>5, <1>7, <1>8 DEF TextsNext

LEMMA PassingExpands ==
    ASSUME NEW p \in Seq(Alphabet), Passing(p) PROVE Expands(p)
<1> DEFINE f == ExpandOf(p)
           n == Len(p)
<1>1. n \in Nat
  BY LenProperties
<1>2. Stands(p, p, 1)
  <2>1. \A k \in 1..n : 1 + k - 1 = k
    BY <1>1
  <2> QED BY <1>1, <2>1 DEF Stands
<1>3. 1 \in Nat /\ 1 > 0 /\ n \in (1 + n - 1)..n /\ 1 + n = n + 1
  BY <1>1
<1> HIDE DEF f
<1>4. f[<<1, n>>] <=> f[<<n + 1, n>>]
  BY <1>2, <1>3 DEF Passing, f
<1>5. n + 1 \in 1..(n + 2) /\ n \in 0..n /\ n + 1 > n
  BY <1>1
<1>6. f[<<n + 1, n>>] = ExpandStep(f, p, n + 1, n)
  BY <1>1, <1>5, ExpandUnfolds DEF f
<1>7. f[<<n + 1, n>>]
  BY <1>5, <1>6 DEF ExpandStep
<1> QED BY <1>4, <1>7, ExpandsIs DEF f

\* Every part of a text that Tcl_split finds is expanded without a group that is not
\* closed (findMatching against Tcl_split, tcl.c:314-333, tcl.c:494-563), unless a
\* group has an escape, or quotes have an opening brace or a quote in brackets.
THEOREM RulesExpand == TextsSpec => []PartsExpand
<1>1. TextsInit => TextsInv /\ PartsPass
  BY TextsInitial, PassingEmpty DEF TextsInit, PartsPass
<1>2. TextsInv /\ PartsPass /\ [TextsNext]_texts => (TextsInv /\ PartsPass)'
  BY TextsStep, PassStep
<1>3. TextsInv /\ PartsPass => PartsExpand
  <2> SUFFICES ASSUME TextsInv, PartsPass, plain, NEW i \in 1..Len(AllParts) PROVE Expands(AllParts[i])
    BY DEF PartsExpand
  <2>0. part \in Seq(Alphabet) /\ parts \in Seq(Seq(Alphabet))
    BY DEF TextsInv, TextsTyped
  <2>1. AllParts[i] \in Seq(Alphabet) /\ Passing(AllParts[i])
    <3>1. Passing(part) /\ \A k \in 1..Len(parts) : Passing(parts[k]) /\ parts[k] \in Seq(Alphabet)
      BY <2>0, ElementOfSeq DEF PartsPass
    <3>2. CASE AllParts = parts
      BY <3>1, <3>2
    <3>3. CASE AllParts = Append(parts, part)
      <4>1. /\ Len(AllParts) = Len(parts) + 1 /\ Len(parts) \in Nat
            /\ AllParts[Len(parts) + 1] = part /\ \A k \in 1..Len(parts) : AllParts[k] = parts[k]
        BY <2>0, <3>3, AppendProperties, LenProperties
      <4>2. i = Len(parts) + 1 \/ i \in 1..Len(parts)
        BY <4>1
      <4> QED BY <2>0, <3>1, <4>1, <4>2
    <3> QED BY <3>2, <3>3 DEF AllParts
  <2> QED BY <2>1, PassingExpands
<1> QED BY <1>1, <1>2, <1>3, PTL DEF TextsSpec

\* One text more.
LEMMA FlattenGrows ==
    ASSUME NEW S, NEW ss \in Seq(Seq(S)), NEW tt \in Seq(Seq(S)), NEW x \in Seq(S),
           Len(tt) = Len(ss) + 1, tt[Len(tt)] = x, \A i \in 1..Len(ss) : tt[i] = ss[i]
    PROVE  FlattenSeq(tt) = FlattenSeq(ss) \o x /\ FlattenSeq(ss) \in Seq(S)
<1> DEFINE uu == Append(ss, x)
           n == Len(ss)
<1>1. /\ uu \in Seq(Seq(S)) /\ Len(uu) = n + 1 /\ n \in Nat
      /\ uu[n + 1] = x /\ \A i \in 1..n : uu[i] = ss[i]
  BY AppendProperties, LenProperties
<1>2. uu = ss \o <<x>>
  BY OneFacts
<1> HIDE DEF uu
<1>3. tt = uu
  <2>1. \A i \in 1..(n + 1) : i \in 1..n \/ i = n + 1
    BY <1>1
  <2>2. \A i \in 1..(n + 1) : tt[i] = uu[i]
    BY <1>1, <2>1
  <2> QED BY <1>1, <2>2, SeqEqual
<1> QED BY <1>2, <1>3, FlattenSteps, FlattenIn

-----------------------------------------------------------------------------
(* Escaping and unescaping.                                                *)

PlainChars == Alphabet \ {Backslash}
EscapeOf(c) == IF c \in {Delimiter, Backslash} THEN <<Backslash, c>> ELSE <<c>>
UnescapeOf(c) == IF c = Backslash THEN << >> ELSE <<c>>
EscapesOf(t) == [i \in 1..Len(t) |-> EscapeOf(t[i])]
UnescapesOf(t) == [i \in 1..Len(t) |-> UnescapeOf(t[i])]

LEMMA PlainFacts ==
    /\ PlainChars \subseteq Alphabet /\ Seq(PlainChars) \subseteq Seq(Alphabet)
    /\ \A c \in Alphabet : EscapeOf(c) \in Seq(Alphabet) /\ UnescapeOf(c) \in Seq(PlainChars)
<1>1. Backslash \in Alphabet
  BY AlphabetFacts
<1>2. PlainChars \subseteq Alphabet
  BY DEF PlainChars
<1>3. \A c \in Alphabet : EscapeOf(c) \in Seq(Alphabet)
  <2>1. \A c \in Alphabet : <<Backslash, c>> \in Seq(Alphabet) /\ <<c>> \in Seq(Alphabet)
    BY <1>1, PairFacts, OneFacts
  <2> QED BY <2>1 DEF EscapeOf
<1>4. \A c \in Alphabet : UnescapeOf(c) \in Seq(PlainChars)
  <2>1. \A c \in PlainChars : <<c>> \in Seq(PlainChars)
    BY OneFacts
  <2>2. << >> \in Seq(PlainChars)
    OBVIOUS
  <2> QED BY <2>1, <2>2 DEF UnescapeOf, PlainChars
<1>5. Seq(PlainChars) \subseteq Seq(Alphabet)
  <2> SUFFICES ASSUME NEW s \in Seq(PlainChars) PROVE s \in Seq(Alphabet)
    OBVIOUS
  <2> HIDE DEF PlainChars
  <2> QED BY <1>2, ElementOfSeq, LenProperties
<1> QED BY <1>2, <1>3, <1>4, <1>5

LEMMA AreFlattened ==
    ASSUME NEW t \in Seq(Alphabet)
    PROVE  /\ Escaped(t) = FlattenSeq(EscapesOf(t)) /\ EscapesOf(t) \in Seq(Seq(Alphabet))
           /\ Unescaped(t) = FlattenSeq(UnescapesOf(t)) /\ UnescapesOf(t) \in Seq(Seq(PlainChars))
           /\ Len(EscapesOf(t)) = Len(t) /\ Len(UnescapesOf(t)) = Len(t)
<1>1. Len(t) \in Nat /\ \A i \in 1..Len(t) : t[i] \in Alphabet
  BY ElementOfSeq, LenProperties
<1>2. \A i \in 1..Len(t) : EscapeOf(t[i]) \in Seq(Alphabet) /\ UnescapeOf(t[i]) \in Seq(PlainChars)
  BY <1>1, PlainFacts
<1>3. EscapesOf(t) \in Seq(Seq(Alphabet)) /\ Len(EscapesOf(t)) = Len(t)
  BY <1>1, <1>2, IsASeq DEF EscapesOf
<1>4. UnescapesOf(t) \in Seq(Seq(PlainChars)) /\ Len(UnescapesOf(t)) = Len(t)
  BY <1>1, <1>2, IsASeq DEF UnescapesOf
<1>5. Escaped(t) = FlattenSeq(EscapesOf(t)) /\ Unescaped(t) = FlattenSeq(UnescapesOf(t))
  BY Zenon DEF Escaped, Unescaped, EscapesOf, UnescapesOf, EscapeOf, UnescapeOf
<1> QED BY <1>3, <1>4, <1>5

LEMMA UnescapedNext ==
    ASSUME NEW t \in Seq(Alphabet), NEW c \in Alphabet
    PROVE  /\ Unescaped(t) \in Seq(PlainChars) /\ Escaped(t) \in Seq(Alphabet)
           /\ Unescaped(t \o <<c>>) = Unescaped(t) \o UnescapeOf(c)
           /\ Escaped(t \o <<c>>) = Escaped(t) \o EscapeOf(c)
<1> DEFINE u == t \o <<c>>
           n == Len(t)
<1>1. /\ u \in Seq(Alphabet) /\ Len(u) = n + 1 /\ n \in Nat /\ u[n + 1] = c
      /\ \A i \in 1..n : u[i] = t[i]
  <2>1. u = Append(t, c)
    BY OneFacts
  <2>2. /\ Append(t, c) \in Seq(Alphabet) /\ Len(Append(t, c)) = n + 1 /\ n \in Nat
        /\ Append(t, c)[n + 1] = c /\ \A i \in 1..n : Append(t, c)[i] = t[i]
    BY AppendProperties, LenProperties
  <2> QED BY <2>1, <2>2
<1> HIDE DEF u
<1>2. \A i \in 1..n : i \in 1..(n + 1)
  BY <1>1
<1>3. /\ \A i \in 1..n : EscapesOf(u)[i] = EscapesOf(t)[i] /\ UnescapesOf(u)[i] = UnescapesOf(t)[i]
      /\ EscapesOf(u)[n + 1] = EscapeOf(c) /\ UnescapesOf(u)[n + 1] = UnescapeOf(c)
  BY <1>1, <1>2 DEF EscapesOf, UnescapesOf
<1>4. /\ EscapesOf(u) \in Seq(Seq(Alphabet)) /\ EscapesOf(t) \in Seq(Seq(Alphabet))
      /\ UnescapesOf(u) \in Seq(Seq(PlainChars)) /\ UnescapesOf(t) \in Seq(Seq(PlainChars))
      /\ Len(EscapesOf(u)) = n + 1 /\ Len(UnescapesOf(u)) = n + 1
      /\ Len(EscapesOf(t)) = n /\ Len(UnescapesOf(t)) = n
      /\ EscapeOf(c) \in Seq(Alphabet) /\ UnescapeOf(c) \in Seq(PlainChars)
  BY <1>1, AreFlattened, PlainFacts
<1> HIDE DEF n
<1>5. /\ FlattenSeq(EscapesOf(u)) = FlattenSeq(EscapesOf(t)) \o EscapeOf(c)
      /\ FlattenSeq(EscapesOf(t)) \in Seq(Alphabet)
  BY <1>3, <1>4, FlattenGrows
<1>6. /\ FlattenSeq(UnescapesOf(u)) = FlattenSeq(UnescapesOf(t)) \o UnescapeOf(c)
      /\ FlattenSeq(UnescapesOf(t)) \in Seq(PlainChars)
  BY <1>3, <1>4, FlattenGrows
<1> QED BY <1>1, <1>5, <1>6, AreFlattened DEF u

LEMMA UnescapedNone == Unescaped(<< >>) = << >> /\ Escaped(<< >>) = << >>
<1>1. << >> \in Seq(Alphabet) /\ Len(<< >>) = 0
  OBVIOUS
<1>2. Len(EscapesOf(<< >>)) = 0 /\ Len(UnescapesOf(<< >>)) = 0
  BY <1>1, AreFlattened
<1>3. EscapesOf(<< >>) = << >> /\ UnescapesOf(<< >>) = << >>
  BY <1>1, <1>2, AreFlattened, EmptySeq
<1> QED BY <1>1, <1>3, AreFlattened, FlattenNone

LEMMA UnescapedConcat ==
    ASSUME NEW t \in Seq(Alphabet), NEW u \in Seq(Alphabet)
    PROVE  Unescaped(t \o u) = Unescaped(t) \o Unescaped(u)
<1> DEFINE T == {s \in Seq(Alphabet) : Unescaped(t \o s) = Unescaped(t) \o Unescaped(s)}
<1>0. Unescaped(t) \in Seq(PlainChars)
  BY UnescapedNext, AlphabetFacts
<1>1. << >> \in T
  <2>1. << >> \in Seq(Alphabet) /\ t \o << >> = t /\ Unescaped(t) \o << >> = Unescaped(t)
    BY <1>0, ConcatEmptySeq
  <2> QED BY <2>1, UnescapedNone
<1>2. ASSUME NEW s \in Seq(Alphabet), NEW c \in Alphabet, s \in T PROVE s \o <<c>> \in T
  <2> DEFINE m == Unescaped(t)
             v == Unescaped(s)
             d == UnescapeOf(c)
             x == <<c>>
  <2>1. x \in Seq(Alphabet) /\ t \o s \in Seq(Alphabet) /\ s \o x \in Seq(Alphabet)
    BY OneFacts, ConcatProperties
  <2>2. v \in Seq(PlainChars) /\ d \in Seq(PlainChars) /\ m \in Seq(PlainChars) /\ Unescaped(s \o x) = v \o d
    BY <1>0, UnescapedNext, PlainFacts
  <2>3. Unescaped((t \o s) \o x) = Unescaped(t \o s) \o d
    BY <2>1, UnescapedNext
  <2>5. Unescaped(t \o s) = m \o v
    BY <1>2
  <2> HIDE DEF m, v, d, x
  <2>4. (t \o s) \o x = t \o (s \o x)
    BY <2>1, ConcatAssociative
  <2>6. (m \o v) \o d = m \o (v \o d)
    <3>1. m \in Seq(PlainChars) /\ v \in Seq(PlainChars) /\ d \in Seq(PlainChars)
      BY <2>2
    <3> QED BY <3>1, ConcatAssociative
  <2> QED BY <2>1, <2>2, <2>3, <2>4, <2>5, <2>6 DEF m, x
<1> HIDE DEF T
<1>3. u \in T
  BY <1>1, <1>2, AllSequences
<1> QED BY <1>3 DEF T

LEMMA UnescapedChars ==
    /\ Unescaped(<<Backslash>>) = << >>
    /\ \A c \in PlainChars : Unescaped(<<c>>) = <<c>>
<1>1. ASSUME NEW c \in Alphabet PROVE Unescaped(<<c>>) = UnescapeOf(c)
  <2> DEFINE e == << >>
             x == <<c>>
             d == UnescapeOf(c)
  <2>1. e \in Seq(Alphabet) /\ x \in Seq(Alphabet) /\ d \in Seq(PlainChars)
    BY OneFacts, PlainFacts
  <2>2. Unescaped(e \o x) = e \o d
    BY <2>1, UnescapedNext, UnescapedNone
  <2>3. e \o x = x /\ e \o d = d
    <3> HIDE DEF x, d
    <3> QED BY <2>1, ConcatEmptySeq
  <2> QED BY <2>2, <2>3
<1>2. Backslash \in Alphabet
  BY AlphabetFacts
<1> QED BY <1>1, <1>2 DEF UnescapeOf, PlainChars

\* What is unescaped has nothing to unescape, and unescaping undoes the escaping of
\* such a text.
LEMMA UnescapedPlain ==
    ASSUME NEW p \in Seq(PlainChars)
    PROVE  Unescaped(Escaped(p)) = p
<1> DEFINE T == {s \in Seq(PlainChars) : Unescaped(Escaped(s)) = s}
<1>1. << >> \in T
  <2>1. << >> \in Seq(PlainChars)
    OBVIOUS
  <2> QED BY <2>1, UnescapedNone
<1>2. ASSUME NEW s \in Seq(PlainChars), NEW c \in PlainChars, s \in T PROVE s \o <<c>> \in T
  <2> DEFINE e == Escaped(s)
             d == EscapeOf(c)
             b == <<Backslash>>
             x == <<c>>
  <2>1. s \in Seq(Alphabet) /\ c \in Alphabet /\ s \o x \in Seq(PlainChars)
    BY PlainFacts, OneFacts, ConcatProperties
  <2>2. b \in Seq(Alphabet) /\ x \in Seq(Alphabet)
    BY <2>1, AlphabetFacts, OneFacts
  <2>3. Escaped(s \o x) = e \o d /\ e \in Seq(Alphabet) /\ d \in Seq(Alphabet)
    BY <2>1, UnescapedNext, PlainFacts
  <2>4. Unescaped(x) = x /\ Unescaped(b) = << >>
    BY UnescapedChars
  <2>5. << >> \o x = x
    <3> HIDE DEF x
    <3> QED BY <2>2, ConcatEmptySeq
  <2>6. d = x \/ d = b \o x
    <3>1. <<Backslash, c>> = <<Backslash>> \o <<c>>
      <4>1. Backslash \in Alphabet /\ c \in Alphabet
        BY <2>1, AlphabetFacts
      <4> QED BY <4>1, PairFacts
    <3> QED BY <3>1 DEF EscapeOf
  <2>7. Unescaped(e) = s
    BY <1>2
  <2> HIDE DEF b, x, e, d
  <2>8. Unescaped(d) = x
    <3>1. Unescaped(b \o x) = x
      BY <2>2, <2>4, <2>5, UnescapedConcat
    <3> QED BY <2>4, <2>6, <3>1
  <2>9. Unescaped(e \o d) = s \o x
    BY <2>3, <2>7, <2>8, UnescapedConcat
  <2> QED BY <2>1, <2>3, <2>9 DEF x
<1> HIDE DEF T
<1>3. p \in T
  BY <1>1, <1>2, AllSequences
<1> QED BY <1>3 DEF T

-----------------------------------------------------------------------------
(* The parts of a text without escapes are whole: on their own they are    *)
(* scanned as one part.                                                    *)

\* The balance after a character depends on the balance before.
LEMMA BalanceFollows ==
    ASSUME NEW s \in States, NEW u \in States, NEW c \in Alphabet, SameBalance(s, u)
    PROVE  SameBalance(Nested(s, c), Nested(u, c))
<1>1. s.quoted = u.quoted /\ s.braces = u.braces /\ s.squares = u.squares
  BY DEF SameBalance
<1>2. s.quoted \in BOOLEAN /\ u.quoted \in BOOLEAN
  BY StateTypes
<1>3. Nested(s, c) \in States /\ Nested(u, c) \in States
  BY NestedFacts
<1>4. Nested(s, c).quoted \in BOOLEAN /\ Nested(u, c).quoted \in BOOLEAN
  BY <1>3, StateTypes
<1>5. Nested(s, c).braces = Nested(u, c).braces
  BY <1>1, NestedCounts
<1>6. Nested(s, c).squares = Nested(u, c).squares
  BY <1>1, NestedCounts
<1>7. Nested(s, c).quoted = Nested(u, c).quoted
  BY <1>1, <1>2, <1>4, NestedCounts
<1> QED BY <1>5, <1>6, <1>7 DEF SameBalance

\* A state is where a text has been scanned to, and u is where its rest is scanned
\* to on its own, after parts that are l.
Like(s, u, l) == /\ SameBalance(s, u) /\ ~s.escaped /\ ~u.escaped
                 /\ s.part = u.part /\ s.split = l \o u.split
                 /\ u.part # << >> => s.before = u.before

LEMMA LikeStep ==
    ASSUME NEW s \in States, NEW u \in States, NEW l \in Seq(Seq(Alphabet)), NEW c \in PlainChars,
           Like(s, u, l)
    PROVE  Like(Scanned(s, c), Scanned(u, c), l)
<1> DEFINE s2 == Scanned(s, c)
           u2 == Scanned(u, c)
<1>1. c \in Alphabet /\ c # Backslash
  BY DEF PlainChars
<1>2. /\ s2 \in States /\ s2.before = c /\ ~s2.escaped /\ SameBalance(s2, Nested(s, c))
      /\ ~EndsPart(s, c) => s2.split = s.split /\ s2.part = Append(s.part, c)
      /\ EndsPart(s, c) => s2.part = << >>
      /\ EndsPart(s, c) /\ (s.part = << >> \/ s.before = Delimiter) => s2.split = s.split
      /\ EndsPart(s, c) /\ s.part # << >> /\ s.before # Delimiter => s2.split = Append(s.split, s.part)
  BY <1>1, ScannedNext DEF Like
<1>3. /\ u2 \in States /\ u2.before = c /\ ~u2.escaped /\ SameBalance(u2, Nested(u, c))
      /\ ~EndsPart(u, c) => u2.split = u.split /\ u2.part = Append(u.part, c)
      /\ EndsPart(u, c) => u2.part = << >>
      /\ EndsPart(u, c) /\ (u.part = << >> \/ u.before = Delimiter) => u2.split = u.split
      /\ EndsPart(u, c) /\ u.part # << >> /\ u.before # Delimiter => u2.split = Append(u.split, u.part)
  BY <1>1, ScannedNext DEF Like
<1> HIDE DEF s2, u2
<1>4. SameBalance(s2, u2)
  <2>1. SameBalance(Nested(s, c), Nested(u, c))
    BY <1>1, BalanceFollows DEF Like
  <2> QED BY <1>2, <1>3, <2>1 DEF SameBalance
<1>5. EndsPart(s, c) <=> EndsPart(u, c)
  BY DEF Like, EndsPart, Balanced, SameBalance
<1>6. s2.part = u2.part
  BY <1>2, <1>3, <1>5 DEF Like
<1>7. s2.split = l \o u2.split
  <2>1. CASE u2.split = u.split /\ s2.split = s.split
    BY <2>1 DEF Like
  <2>2. CASE u2.split = Append(u.split, u.part) /\ s2.split = Append(s.split, s.part)
    <3> DEFINE k == u.split
               p == u.part
    <3>1. k \in Seq(Seq(Alphabet) \ {<< >>}) /\ p \in Seq(Alphabet)
      BY StateTypes
    <3>2. k \in Seq(Seq(Alphabet))
      <4>1. Seq(Alphabet) \ {<< >>} \subseteq Seq(Alphabet)
        OBVIOUS
      <4> QED BY <3>1, <4>1
    <3>3. s2.split = Append(l \o k, p) /\ u2.split = Append(k, p)
      BY <2>2 DEF Like
    <3> HIDE DEF k, p
    <3>4. Append(l \o k, p) = (l \o k) \o <<p>> /\ Append(k, p) = k \o <<p>> /\ <<p>> \in Seq(Seq(Alphabet))
      <4> DEFINE A == Seq(Alphabet)
      <4>1. l \in Seq(A) /\ k \in Seq(A) /\ p \in A
        BY <3>1, <3>2
      <4> HIDE DEF A
      <4>2. l \o k \in Seq(A)
        BY <4>1, ConcatProperties
      <4> QED BY <4>1, <4>2, OneFacts DEF A
    <3> DEFINE x == <<p>>
    <3>5. x \in Seq(Seq(Alphabet))
      BY <3>4
    <3> HIDE DEF x
    <3>6. (l \o k) \o x = l \o (k \o x)
      BY <3>2, <3>5, ConcatAssociative
    <3> QED BY <3>3, <3>4, <3>6 DEF x
  <2>3. s.part = u.part /\ (u.part # << >> => s.before = u.before)
    BY DEF Like
  <2> QED BY <1>2, <1>3, <1>5, <2>1, <2>2, <2>3
<1> QED BY <1>2, <1>3, <1>4, <1>6, <1>7 DEF Like, s2, u2

\* After a text that the scanner has got out of, the rest is scanned as on its own.
LEMMA Restarts ==
    ASSUME NEW t \in Seq(Alphabet), In(Scan(t), FALSE, 0, 0), Scan(t).part = << >>, NEW y \in Seq(PlainChars)
    PROVE  Like(Scan(t \o y), Scan(y), Scan(t).split)
<1> DEFINE l == Scan(t).split
           T == {z \in Seq(PlainChars) : Like(Scan(t \o z), Scan(z), l)}
<1>1. l \in Seq(Seq(Alphabet))
  <2>1. l \in Seq(Seq(Alphabet) \ {<< >>})
    BY ScanIn, StateTypes
  <2>2. Seq(Alphabet) \ {<< >>} \subseteq Seq(Alphabet)
    OBVIOUS
  <2> HIDE DEF l
  <2> QED BY <2>1, <2>2
<1>2. << >> \in T
  <2>1. << >> \in Seq(PlainChars) /\ t \o << >> = t
    BY ConcatEmptySeq
  <2>2. l \o << >> = l
    <3> HIDE DEF l
    <3> QED BY <1>1, ConcatEmptySeq
  <2>3. Like(Scan(t), Start, l)
    BY <2>2, StartFacts DEF Like, In, SameBalance
  <2> QED BY <2>1, <2>3, ScanEmpty
<1>3. ASSUME NEW z \in Seq(PlainChars), NEW c \in PlainChars, z \in T PROVE z \o <<c>> \in T
  <2> DEFINE x == <<c>>
  <2>1. /\ z \in Seq(Alphabet) /\ c \in Alphabet /\ z \o x \in Seq(PlainChars) /\ x \in Seq(Alphabet)
        /\ t \o z \in Seq(Alphabet)
    BY PlainFacts, OneFacts, ConcatProperties
  <2>2. /\ Scan(z \o x) = Scanned(Scan(z), c) /\ Scan(z) \in States
        /\ Scan((t \o z) \o x) = Scanned(Scan(t \o z), c) /\ Scan(t \o z) \in States
    BY <2>1, ScanNext
  <2>3. (t \o z) \o x = t \o (z \o x)
    <3> HIDE DEF x
    <3> QED BY <2>1, ConcatAssociative
  <2>4. Like(Scan(t \o z), Scan(z), l)
    BY <1>3
  <2> HIDE DEF l
  <2>5. Like(Scanned(Scan(t \o z), c), Scanned(Scan(z), c), l)
    BY <1>1, <2>2, <2>4, LikeStep
  <2> QED BY <2>1, <2>2, <2>3, <2>5
<1> HIDE DEF T
<1>4. y \in T
  BY <1>2, <1>3, AllSequences
<1> QED BY <1>4 DEF T

\* Parts that are scanned as one part on their own.
Wholes == {q \in Seq(PlainChars) : /\ q # << >> /\ Balanced(Scan(q)) /\ Scan(q).split = << >>
                                   /\ Scan(q).part = q /\ Scan(q).before # Delimiter}

\* p on its own is scanned to where s is.
Same(p, s) == /\ SameBalance(Scan(p), s) /\ Scan(p).part = p /\ Scan(p).split = << >>
              /\ ~Scan(p).escaped /\ (p # << >> => Scan(p).before = s.before)
Tidy(s) == /\ s.split \in Seq(Wholes) /\ s.part \in Seq(PlainChars) /\ ~s.escaped
           /\ Same(s.part, s)
           /\ s.part # << >> /\ s.before = Delimiter => ~Balanced(s)

LEMMA TidyPart ==
    ASSUME NEW s \in States, Tidy(s), Balanced(s), s.part # << >>
    PROVE  s.part \in Wholes /\ s.before # Delimiter
  BY DEF Tidy, Same, SameBalance, Balanced, Wholes

LEMMA TidyStep ==
    ASSUME NEW s \in States, Tidy(s), NEW c \in PlainChars
    PROVE  Tidy(Scanned(s, c))
<1> DEFINE u == Scanned(s, c)
           p == s.part
           r == Scan(p)
           v == Scanned(r, c)
<1>1. c \in Alphabet /\ c # Backslash
  BY DEF PlainChars
<1>2. p \in Seq(PlainChars) /\ p \in Seq(Alphabet) /\ r \in States /\ ~s.escaped /\ ~r.escaped
  <2>1. p \in Seq(PlainChars) /\ p \in Seq(Alphabet)
    BY PlainFacts DEF Tidy
  <2> QED BY <2>1, ScanIn DEF Tidy, Same
<1>3. /\ u \in States /\ u.before = c /\ ~u.escaped /\ SameBalance(u, Nested(s, c))
      /\ ~EndsPart(s, c) => u.split = s.split /\ u.part = Append(p, c)
      /\ EndsPart(s, c) => u.part = << >>
      /\ EndsPart(s, c) /\ (p = << >> \/ s.before = Delimiter) => u.split = s.split
      /\ EndsPart(s, c) /\ p # << >> /\ s.before # Delimiter => u.split = Append(s.split, p)
  BY <1>1, <1>2, ScannedNext
<1>4. /\ v \in States /\ v.before = c /\ ~v.escaped /\ SameBalance(v, Nested(r, c))
      /\ ~EndsPart(r, c) => v.split = r.split /\ v.part = Append(r.part, c)
  BY <1>1, <1>2, ScannedNext
<1>5. SameBalance(r, s) /\ r.part = p /\ r.split = << >> /\ s.split \in Seq(Wholes)
  BY DEF Tidy, Same
<1>6. EndsPart(r, c) <=> EndsPart(s, c)
  BY <1>2, <1>5 DEF EndsPart, Balanced, SameBalance
<1>7. SameBalance(v, u)
  <2>1. SameBalance(Nested(r, c), Nested(s, c))
    BY <1>1, <1>2, <1>5, BalanceFollows
  <2> QED BY <1>3, <1>4, <2>1 DEF SameBalance
<1>8. c = Delimiter => SameBalance(u, s)
  <2>1. c = Delimiter => SameBalance(Nested(s, c), s)
    BY NestedFacts, AlphabetFacts DEF SameBalance
  <2> QED BY <1>3, <2>1 DEF SameBalance
<1>9. CASE EndsPart(s, c)
  <2>1. Balanced(s) /\ Balanced(u) /\ u.part = << >>
    BY <1>3, <1>8, <1>9 DEF EndsPart, Balanced, SameBalance
  <2>2. Same(<< >>, u)
    BY <2>1, ScanEmpty, StartFacts, StateTypes, <1>3 DEF Same, SameBalance, Balanced
  <2>3. u.split \in Seq(Wholes)
    <3>1. p # << >> => p \in Wholes /\ s.before # Delimiter
      BY <2>1, TidyPart
    <3>2. p # << >> => Append(s.split, p) \in Seq(Wholes)
      <4> DEFINE W == Wholes
                 l == s.split
      <4>1. l \in Seq(W) /\ (p # << >> => p \in W)
        BY <1>5, <3>1
      <4> HIDE DEF W, l, p
      <4>2. p # << >> => Append(l, p) \in Seq(W)
        BY <4>1, AppendProperties
      <4> QED BY <4>2 DEF W, l
    <3> QED BY <1>3, <1>5, <1>9, <3>1, <3>2
  <2>4. << >> \in Seq(PlainChars)
    OBVIOUS
  <2> QED BY <1>3, <2>1, <2>2, <2>3, <2>4 DEF Tidy
<1>10. CASE ~EndsPart(s, c)
  <2> DEFINE w == Append(p, c)
  <2>1. u.split = s.split /\ u.part = w /\ v.split = << >> /\ v.part = w
    BY <1>3, <1>4, <1>5, <1>6, <1>10
  <2>2. w \in Seq(PlainChars) /\ Scan(w) = v
    <3>1. w = p \o <<c>>
      BY <1>2, OneFacts
    <3>2. Scan(p \o <<c>>) = Scanned(Scan(p), c)
      BY <1>1, <1>2, ScanNext
    <3>3. w \in Seq(PlainChars)
      BY <1>2, AppendProperties
    <3> QED BY <3>1, <3>2, <3>3
  <2>3. u.before = Delimiter => ~Balanced(u)
    BY <1>2, <1>3, <1>8, <1>10 DEF EndsPart, Balanced, SameBalance
  <2> HIDE DEF w, u, v
  <2>4. Same(w, u)
    BY <1>3, <1>4, <1>7, <2>1, <2>2 DEF Same
  <2> QED BY <1>3, <1>5, <2>1, <2>2, <2>3, <2>4 DEF Tidy, u
<1> QED BY <1>9, <1>10

LEMMA ScanTidy ==
    ASSUME NEW y \in Seq(PlainChars) PROVE Tidy(Scan(y))
<1> DEFINE T == {z \in Seq(PlainChars) : Tidy(Scan(z))}
<1>1. << >> \in T
  <2>1. << >> \in Seq(PlainChars) /\ << >> \in Seq(Wholes)
    OBVIOUS
  <2>2. Tidy(Start)
    BY <2>1, ScanEmpty, StartFacts DEF Tidy, Same, SameBalance
  <2> QED BY <2>1, <2>2, ScanEmpty
<1>2. ASSUME NEW z \in Seq(PlainChars), NEW c \in PlainChars, z \in T PROVE z \o <<c>> \in T
  <2>1. z \in Seq(Alphabet) /\ c \in Alphabet /\ z \o <<c>> \in Seq(PlainChars)
    BY PlainFacts, OneFacts, ConcatProperties
  <2>2. Scan(z \o <<c>>) = Scanned(Scan(z), c) /\ Scan(z) \in States
    BY <2>1, ScanNext
  <2>3. Tidy(Scan(z))
    BY <1>2
  <2> QED BY <2>1, <2>2, <2>3, TidyStep
<1> HIDE DEF T
<1>3. y \in T
  BY <1>1, <1>2, AllSequences
<1> QED BY <1>3 DEF T

\* The coercion of any text to a list gives whole parts.
LEMMA AsListWhole ==
    ASSUME NEW t \in Seq(Alphabet) PROVE AsList(t) \in Seq(Wholes)
<1> DEFINE s == Scan(Unescaped(t))
           W == Wholes
           l == s.split
           p == s.part
<1>1. Unescaped(t) \in Seq(PlainChars) /\ Unescaped(t) \in Seq(Alphabet)
  BY UnescapedNext, AlphabetFacts, PlainFacts
<1>2. s \in States /\ Tidy(s)
  BY <1>1, ScanIn, ScanTidy
<1>3. AsList(t) = IF Balanced(s) /\ p # << >> THEN Append(l, p) ELSE l
  BY DEF AsList, Split
<1> HIDE DEF s
<1>4. l \in Seq(W) /\ (Balanced(s) /\ p # << >> => p \in W)
  BY <1>2, TidyPart DEF Tidy
<1> HIDE DEF W, l, p
<1>5. p \in W => Append(l, p) \in Seq(W)
  BY <1>4, AppendProperties
<1> QED BY <1>3, <1>4, <1>5 DEF W

-----------------------------------------------------------------------------
(* The text of a list of whole parts.                                      *)

\* The text with a delimiter after the last part, too.
Delimited(list) == FlattenSeq([i \in 1..Len(list) |-> Escaped(list[i]) \o <<Delimiter>>])

LEMMA WholeFacts ==
    /\ Wholes \subseteq Seq(PlainChars) /\ Wholes \subseteq Seq(Alphabet)
    /\ \A q \in Wholes : Escaped(q) \in Seq(Alphabet) /\ Unescaped(Escaped(q)) = q
    /\ <<Delimiter>> \in Seq(PlainChars) /\ <<Delimiter>> \in Seq(Alphabet)
    /\ Unescaped(<<Delimiter>>) = <<Delimiter>> /\ Delimiter \in PlainChars
<1>1. Wholes \subseteq Seq(PlainChars) /\ Wholes \subseteq Seq(Alphabet)
  BY PlainFacts DEF Wholes
<1>2. ASSUME NEW q \in Wholes PROVE Escaped(q) \in Seq(Alphabet) /\ Unescaped(Escaped(q)) = q
  <2>1. q \in Seq(PlainChars) /\ q \in Seq(Alphabet) /\ Delimiter \in Alphabet
    BY <1>1, AlphabetFacts
  <2> QED BY <2>1, UnescapedNext, UnescapedPlain
<1>3. Delimiter \in PlainChars /\ Delimiter \in Alphabet
  BY AlphabetFacts DEF PlainChars
<1> QED BY <1>1, <1>2, <1>3, OneFacts, UnescapedChars

LEMMA JoinedNext ==
    ASSUME NEW list \in Seq(Wholes), NEW q \in Wholes
    PROVE  /\ Delimited(list) \in Seq(Alphabet)
           /\ Delimited(list \o <<q>>) = Delimited(list) \o (Escaped(q) \o <<Delimiter>>)
           /\ Joined(list \o <<q>>) = Delimited(list) \o Escaped(q)
<1> DEFINE n == Len(list)
           M == list \o <<q>>
           d == <<Delimiter>>
           ss == [i \in 1..n |-> Escaped(list[i]) \o d]
           tt == [i \in 1..Len(M) |-> Escaped(M[i]) \o d]
           jj == [i \in 1..Len(M) |-> Escaped(M[i]) \o IF i < Len(M) THEN d ELSE << >>]
           e == Escaped(q)
           x == e \o d
<1>1. /\ Len(M) = n + 1 /\ n \in Nat /\ M[n + 1] = q
      /\ \A i \in 1..n : M[i] = list[i] /\ list[i] \in Wholes
  <2> DEFINE W == Wholes
  <2>1. list \in Seq(W) /\ q \in W
    OBVIOUS
  <2> HIDE DEF W
  <2>2. M = Append(list, q)
    BY <2>1, OneFacts
  <2>3. Len(Append(list, q)) = n + 1 /\ n \in Nat /\ Append(list, q)[n + 1] = q /\ \A i \in 1..n : Append(list, q)[i] = list[i]
    BY <2>1, AppendProperties, LenProperties
  <2>4. \A i \in 1..n : list[i] \in W
    BY <2>1, ElementOfSeq
  <2> QED BY <2>2, <2>3, <2>4 DEF W
<1>2. Delimited(list) = FlattenSeq(ss) /\ Delimited(M) = FlattenSeq(tt) /\ Joined(M) = FlattenSeq(jj)
  BY Zenon DEF Delimited, Joined
<1>3. d \in Seq(Alphabet) /\ << >> \in Seq(Alphabet) /\ \A r \in Wholes : Escaped(r) \in Seq(Alphabet)
  BY WholeFacts
<1> HIDE DEF M, d
<1>4. e \in Seq(Alphabet) /\ x \in Seq(Alphabet) /\ e \o << >> = e
  BY <1>3, ConcatProperties, ConcatEmptySeq
<1>5. ASSUME NEW i \in 1..n
      PROVE  /\ i \in 1..(n + 1) /\ i < n + 1 /\ Escaped(M[i]) \o d = Escaped(list[i]) \o d
             /\ Escaped(list[i]) \o d \in Seq(Alphabet)
  <2>1. i \in 1..(n + 1) /\ i < n + 1 /\ M[i] = list[i] /\ list[i] \in Wholes
    BY <1>1, <1>5
  <2>2. Escaped(list[i]) \in Seq(Alphabet)
    BY <1>3, <2>1
  <2> QED BY <1>3, <2>1, <2>2, ConcatProperties
<1>6. ss \in Seq(Seq(Alphabet)) /\ Len(ss) = n
  BY <1>1, <1>5, IsASeq
<1>7. \A i \in 1..(n + 1) : i \in 1..n \/ i = n + 1
  BY <1>1
<1>8. tt \in Seq(Seq(Alphabet)) /\ Len(tt) = n + 1 /\ tt[n + 1] = x /\ \A i \in 1..n : tt[i] = ss[i]
  <2>1. n + 1 \in Nat /\ n + 1 \in 1..(n + 1)
    BY <1>1
  <2>2. \A i \in 1..(n + 1) : Escaped(M[i]) \o d \in Seq(Alphabet)
    BY <1>1, <1>4, <1>5, <1>7
  <2>3. tt = [i \in 1..(n + 1) |-> Escaped(M[i]) \o d]
    BY <1>1
  <2>4. tt \in Seq(Seq(Alphabet)) /\ Len(tt) = n + 1
    BY <2>1, <2>2, <2>3, IsASeq
  <2>5. tt[n + 1] = x /\ \A i \in 1..n : tt[i] = ss[i]
    BY <1>1, <1>5, <2>1, <2>3
  <2> QED BY <2>4, <2>5
<1>9. jj \in Seq(Seq(Alphabet)) /\ Len(jj) = n + 1 /\ jj[n + 1] = e /\ \A i \in 1..n : jj[i] = ss[i]
  <2> DEFINE J(i) == Escaped(M[i]) \o IF i < n + 1 THEN d ELSE << >>
  <2>1. n + 1 \in Nat /\ n + 1 \in 1..(n + 1) /\ ~(n + 1 < n + 1)
    BY <1>1
  <2>2. J(n + 1) = e /\ \A i \in 1..n : J(i) = Escaped(list[i]) \o d
    BY <1>1, <1>4, <1>5, <2>1
  <2>3. jj = [i \in 1..(n + 1) |-> J(i)]
    BY <1>1
  <2>4. \A i \in 1..(n + 1) : J(i) \in Seq(Alphabet)
    <3> HIDE DEF J
    <3> QED BY <1>4, <1>5, <1>7, <2>2
  <2>5. jj \in Seq(Seq(Alphabet)) /\ Len(jj) = n + 1
    BY <2>1, <2>3, <2>4, IsASeq
  <2>6. jj[n + 1] = e /\ \A i \in 1..n : jj[i] = ss[i]
    BY <1>5, <2>1, <2>2, <2>3
  <2> QED BY <2>5, <2>6
<1> HIDE DEF ss, tt, jj, x, e, n
<1>10. FlattenSeq(tt) = FlattenSeq(ss) \o x /\ FlattenSeq(ss) \in Seq(Alphabet)
  BY <1>4, <1>6, <1>8, FlattenGrows
<1>11. FlattenSeq(jj) = FlattenSeq(ss) \o e
  BY <1>4, <1>6, <1>9, FlattenGrows
<1> QED BY <1>2, <1>10, <1>11 DEF M, x, e, d

\* A whole part after a text that the scanner has got out of, and a delimiter.
LEMMA WholeAfter ==
    ASSUME NEW t \in Seq(Alphabet), In(Scan(t), FALSE, 0, 0), Scan(t).part = << >>, NEW q \in Wholes
    PROVE  /\ Balanced(Scan(t \o q)) /\ Scan(t \o q).part = q /\ Scan(t \o q).split = Scan(t).split
           /\ LET u == Scan(t \o (q \o <<Delimiter>>))
              IN  In(u, FALSE, 0, 0) /\ u.part = << >> /\ u.split = Append(Scan(t).split, q)
<1> DEFINE s == Scan(t \o q)
           l == Scan(t).split
           d == <<Delimiter>>
           u == Scan(t \o (q \o d))
<1>1. q \in Seq(PlainChars) /\ q \in Seq(Alphabet) /\ d \in Seq(Alphabet) /\ Delimiter \in Alphabet
  BY WholeFacts, PlainFacts
<1>2. q # << >> /\ Balanced(Scan(q)) /\ Scan(q).split = << >> /\ Scan(q).part = q /\ Scan(q).before # Delimiter
  BY DEF Wholes
<1>3. Like(s, Scan(q), l)
  BY <1>1, Restarts
<1>4. l \in Seq(Seq(Alphabet) \ {<< >>})
  BY ScanIn, StateTypes
<1>5. l \o << >> = l
  <2> HIDE DEF l
  <2> QED BY <1>4, ConcatEmptySeq
<1>6. /\ Balanced(s) /\ ~s.escaped /\ s.part = q /\ s.split = l /\ s.before # Delimiter
  BY <1>2, <1>3, <1>5 DEF Like, SameBalance, Balanced
<1>7. t \o q \in Seq(Alphabet) /\ t \o (q \o d) = (t \o q) \o d
  <2> HIDE DEF d
  <2> QED BY <1>1, ConcatProperties, ConcatAssociative
<1>8. u = Scanned(s, Delimiter) /\ s \in States
  BY <1>1, <1>7, ScanNext
<1> HIDE DEF s, u, l
<1>9. EndsPart(s, Delimiter)
  BY <1>6 DEF EndsPart
<1>10. /\ u \in States /\ u.part = << >> /\ ~u.escaped /\ SameBalance(u, Nested(s, Delimiter))
       /\ u.split = Append(l, q)
  <2>1. Delimiter # Backslash
    BY AlphabetFacts
  <2>2. u = Scanned(s, Delimiter) /\ s \in States /\ Delimiter \in Alphabet /\ s.part # << >> /\ ~s.escaped
       /\ s.before # Delimiter
    BY <1>1, <1>2, <1>6, <1>8
  <2>3. /\ u \in States /\ u.part = << >> /\ ~u.escaped /\ SameBalance(u, Nested(s, Delimiter))
        /\ u.split = Append(s.split, s.part)
    <3> HIDE DEF d
    <3> QED BY <1>9, <2>1, <2>2, ScannedNext
  <2> QED BY <1>6, <2>3
<1>11. SameBalance(Nested(s, Delimiter), s)
  BY <1>8, NestedFacts, AlphabetFacts DEF SameBalance
<1>12. In(u, FALSE, 0, 0)
  <2>1. u.quoted = s.quoted /\ u.braces = 0 /\ u.squares = 0 /\ ~s.quoted
    BY <1>6, <1>10, <1>11 DEF Balanced, SameBalance
  <2>2. s.quoted \in BOOLEAN
    BY <1>8, StateTypes
  <2> QED BY <1>10, <2>1, <2>2 DEF In
<1> QED BY <1>6, <1>10, <1>12 DEF s, u, l, d

LEMMA DelimitedSplits ==
    ASSUME NEW list \in Seq(Wholes)
    PROVE  LET s == Scan(Unescaped(Delimited(list)))
           IN  /\ Delimited(list) \in Seq(Alphabet) /\ In(s, FALSE, 0, 0) /\ s.part = << >> /\ s.split = list
<1> DEFINE U(M) == Unescaped(Delimited(M))
           Splits(M) == /\ Delimited(M) \in Seq(Alphabet) /\ In(Scan(U(M)), FALSE, 0, 0)
                        /\ Scan(U(M)).part = << >> /\ Scan(U(M)).split = M
           T == {M \in Seq(Wholes) : Splits(M)}
<1>1. << >> \in T
  <2> DEFINE o == << >>
             f == [i \in 1..Len(o) |-> Escaped(o[i]) \o <<Delimiter>>]
  <2>1. o \in Seq(Wholes) /\ Len(o) = 0 /\ 1..0 = {} /\ o \in Seq(Alphabet)
    OBVIOUS
  <2>2. f \in Seq({}) /\ Len(f) = 0
    BY <2>1, IsASeq
  <2>3. f = o
    <3> HIDE DEF f
    <3> QED BY <2>2, EmptySeq
  <2>4. Delimited(o) = o
    BY <2>3, FlattenNone DEF Delimited
  <2>5. U(o) = o
    BY <2>4, UnescapedNone
  <2>6. Splits(o)
    BY <2>1, <2>4, <2>5, ScanEmpty, StartFacts DEF In
  <2> QED BY <2>1, <2>6
<1>2. ASSUME NEW M \in Seq(Wholes), NEW q \in Wholes, M \in T PROVE M \o <<q>> \in T
  <2> DEFINE N == M \o <<q>>
             j == Delimited(M)
             e == Escaped(q)
             d == <<Delimiter>>
             v == Unescaped(j)
  <2>1. j \in Seq(Alphabet) /\ In(Scan(v), FALSE, 0, 0) /\ Scan(v).part = << >> /\ Scan(v).split = M
    BY <1>2
  <2>2. Delimited(N) = j \o (e \o d)
    BY JoinedNext
  <2>3. e \in Seq(Alphabet) /\ d \in Seq(Alphabet) /\ Unescaped(e) = q /\ Unescaped(d) = d
    BY WholeFacts
  <2>4. N \in Seq(Wholes) /\ N = Append(M, q)
    <3> DEFINE W == Wholes
    <3>1. M \in Seq(W) /\ q \in W
      OBVIOUS
    <3> HIDE DEF W
    <3>2. Append(M, q) \in Seq(W) /\ M \o <<q>> = Append(M, q)
      BY <3>1, AppendProperties, OneFacts
    <3> QED BY <3>2 DEF W
  <2> HIDE DEF N, j, e, d
  <2>5. e \o d \in Seq(Alphabet) /\ j \o (e \o d) \in Seq(Alphabet)
    BY <2>1, <2>3, ConcatProperties
  <2>6. Unescaped(j \o (e \o d)) = v \o (q \o d)
    <3>1. Unescaped(e \o d) = q \o d
      BY <2>3, UnescapedConcat
    <3>2. Unescaped(j \o (e \o d)) = v \o Unescaped(e \o d)
      BY <2>1, <2>5, UnescapedConcat
    <3> QED BY <3>1, <3>2
  <2>7. v \in Seq(Alphabet)
    BY <2>1, UnescapedNext, AlphabetFacts, PlainFacts
  <2> HIDE DEF v
  <2>8. LET u == Scan(v \o (q \o <<Delimiter>>))
        IN  In(u, FALSE, 0, 0) /\ u.part = << >> /\ u.split = Append(Scan(v).split, q)
    BY <2>1, <2>7, WholeAfter
  <2>9. U(N) = v \o (q \o d)
    BY <2>2, <2>6
  <2> HIDE DEF U
  <2>10. Splits(N)
    BY <2>1, <2>2, <2>4, <2>5, <2>8, <2>9 DEF d
  <2> QED BY <2>4, <2>10 DEF N
<1> HIDE DEF T
<1>3. list \in T
  BY <1>1, <1>2, AllSequences
<1> QED BY <1>3 DEF T

\* The text of a list of whole parts is coerced to the same list.
LEMMA JoinedAgain ==
    ASSUME NEW list \in Seq(Wholes) PROVE AsList(Joined(list)) = list
<1>1. CASE list = << >>
  <2> DEFINE o == << >>
             f == [i \in 1..Len(o) |-> Escaped(o[i]) \o IF i < Len(o) THEN <<Delimiter>> ELSE << >>]
  <2>1. Len(o) = 0 /\ 1..0 = {}
    OBVIOUS
  <2>2. f \in Seq({}) /\ Len(f) = 0
    BY <2>1, IsASeq
  <2>3. f = o
    <3> HIDE DEF f
    <3> QED BY <2>2, EmptySeq
  <2>4. Joined(o) = o
    BY <2>3, FlattenNone DEF Joined
  <2>5. Split(o) = o
    BY ScanEmpty, StartFacts DEF Split
  <2> QED BY <1>1, <2>4, <2>5, UnescapedNone DEF AsList
<1>2. CASE list # << >>
  <2> DEFINE W == Wholes
  <2>1. list \in Seq(W)
    OBVIOUS
  <2> HIDE DEF W
  <2>2. PICK M \in Seq(W), q \in W : list = Append(M, q)
    BY <1>2, <2>1, SequenceEmptyOrAppend
  <2>3. list = M \o <<q>>
    BY <2>2, OneFacts
  <2>4. M \in Seq(Wholes) /\ q \in Wholes
    BY <2>2 DEF W
  <2> DEFINE j == Delimited(M)
             e == Escaped(q)
             v == Unescaped(j)
             s == Scan(v \o q)
  <2>5. Joined(list) = j \o e /\ j \in Seq(Alphabet)
    BY <2>3, <2>4, JoinedNext
  <2>6. e \in Seq(Alphabet) /\ Unescaped(e) = q /\ q # << >>
    BY <2>4, WholeFacts DEF Wholes
  <2>7. In(Scan(v), FALSE, 0, 0) /\ Scan(v).part = << >> /\ Scan(v).split = M
    BY <2>4, DelimitedSplits
  <2>8. v \in Seq(Alphabet)
    BY <2>5, UnescapedNext, AlphabetFacts, PlainFacts
  <2> HIDE DEF j, e
  <2>9. Unescaped(j \o e) = v \o q
    BY <2>5, <2>6, UnescapedConcat
  <2> HIDE DEF v
  <2>10. Balanced(s) /\ s.part = q /\ s.split = M
    BY <2>4, <2>7, <2>8, WholeAfter
  <2> HIDE DEF s
  <2>11. AsList(Joined(list)) = IF Balanced(s) /\ s.part # << >> THEN Append(s.split, s.part) ELSE s.split
    BY <2>5, <2>9 DEF AsList, Split, s
  <2> QED BY <2>2, <2>6, <2>10, <2>11
<1> QED BY <1>1, <1>2

\* A text made a list, the list made a text and that a list again: the second
\* list is the first, whatever the text is, escapes and unclosed groups and all
\* (TclValue_coerce, TclValue_list_join_: value.c:303-327, value.c:359-373).
THEOREM Coercion == TextsSpec => []CoercionStable
<1>1. TextsInv => CoercionStable
  <2> SUFFICES ASSUME TextsInv PROVE CoercionStable
    OBVIOUS
  <2>1. AsList(written) \in Seq(Wholes)
    BY AsListWhole DEF TextsInv, TextsTyped
  <2> QED BY <2>1, JoinedAgain DEF CoercionStable
<1> QED BY <1>1, TextsInvHolds, PTL

-----------------------------------------------------------------------------
(* Buffers and their texts.                                                *)

Buffers == {b \in [Indices -> Characters \cup {Nul}] : \E i \in Indices : b[i] = Nul}
Lines == {t \in Seq(Characters) : Len(t) \in Indices}

LEMMA CharacterFacts ==
    /\ Size \in Nat \ {0} /\ Nul \notin Characters
    /\ Delimiter \in Characters /\ EndOfFile \in Characters /\ Typed \subseteq Characters
    /\ Indices \subseteq Nat /\ 0 \in Indices
  BY LineEditAssumption DEF Characters, Nul, Delimiter, EndOfFile, Indices

\* n is strlen(b).
Ends0(b, n) == b[n] = Nul /\ \A i \in 0..(n - 1) : b[i] # Nul

LEMMA LengthFacts ==
    ASSUME NEW b \in Buffers
    PROVE  /\ Length(b) \in Indices /\ b[Length(b)] = Nul
           /\ \A i \in 0..(Length(b) - 1) : i \in Indices /\ b[i] \in Characters
<1> DEFINE T == {i \in Indices : b[i] = Nul}
<1>1. T \subseteq Nat /\ T # {}
  BY CharacterFacts DEF Buffers
<1>2. PICK n \in T : \A y \in T : n <= y
  <2> HIDE DEF T
  <2> QED BY <1>1, LeastElement
<1>3. \A i \in 0..(n - 1) : i \in Indices
  BY CharacterFacts DEF Indices
<1>4. n \in Indices /\ Ends0(b, n)
  BY <1>2, <1>3, CharacterFacts DEF Ends0
<1>5. Length(b) = CHOOSE m \in Indices : Ends0(b, m)
  BY DEF Length, Ends0
<1>6. Length(b) \in Indices /\ Ends0(b, Length(b))
  BY <1>4, <1>5
<1>7. \A i \in 0..(Length(b) - 1) : i \in Indices
  BY <1>6, CharacterFacts DEF Indices
<1> QED BY <1>6, <1>7 DEF Ends0, Buffers

LEMMA LengthIs ==
    ASSUME NEW b \in Buffers, NEW n \in Indices, Ends0(b, n)
    PROVE  Length(b) = n
<1>1. Length(b) \in Nat /\ n \in Nat
  BY LengthFacts, CharacterFacts
<1>2. b[Length(b)] = Nul /\ \A i \in 0..(Length(b) - 1) : b[i] # Nul
  BY LengthFacts, CharacterFacts
<1>3. ~(Length(b) < n) /\ ~(n < Length(b))
  BY <1>1, <1>2 DEF Ends0
<1> QED BY <1>1, <1>3

LEMMA TextFacts ==
    ASSUME NEW b \in Buffers
    PROVE  /\ TextOf(b) \in Lines /\ TextOf(b) \in Seq(Characters)
           /\ Len(TextOf(b)) = Length(b)
           /\ \A i \in 1..Length(b) : TextOf(b)[i] = b[i - 1]
<1> DEFINE s == [i \in 1..Size |-> b[i - 1]]
           n == Length(b)
<1>1. n \in Nat /\ n < Size /\ Size \in Nat
  BY LengthFacts, CharacterFacts DEF Indices
<1>2. ASSUME NEW i \in 1..n PROVE s[i] = b[i - 1] /\ s[i] \in Characters
  <2>1. i \in 1..Size /\ i - 1 \in 0..(n - 1)
    BY <1>1
  <2> QED BY <2>1, LengthFacts
<1>3. TextOf(b) = SubSeq(s, 1, n)
  BY DEF TextOf
<1> HIDE DEF s, n
<1>4. SubSeq(s, 1, n) \in Seq(Characters)
  BY <1>1, <1>2, SubSeqProperties
<1>5. Len(SubSeq(s, 1, n)) = n
  <2>1. Len(SubSeq(s, 1, n)) = IF 1 <= n THEN n - 1 + 1 ELSE 0
    BY <1>1, <1>2, SubSeqProperties
  <2> QED BY <1>1, <2>1
<1>6. \A i \in 1..n : SubSeq(s, 1, n)[i] = s[i]
  <2>1. \A i \in 1..(n - 1 + 1) : SubSeq(s, 1, n)[i] = s[1 + i - 1]
    BY <1>1, <1>2, SubSeqProperties
  <2> QED BY <1>1, <2>1
<1>7. n \in Indices
  BY LengthFacts DEF n
<1> QED BY <1>2, <1>3, <1>4, <1>5, <1>6, <1>7 DEF n, Lines

\* A buffer with t before its first Nul.
LEMMA TextIs ==
    ASSUME NEW b \in Buffers, NEW t \in Lines, b[Len(t)] = Nul,
           \A i \in 1..Len(t) : b[i - 1] = t[i]
    PROVE  TextOf(b) = t /\ Length(b) = Len(t)
<1>1. t \in Seq(Characters) /\ Len(t) \in Indices /\ Len(t) \in Nat
  BY CharacterFacts DEF Lines
<1>2. ASSUME NEW i \in 0..(Len(t) - 1) PROVE b[i] # Nul
  <2>1. i + 1 \in 1..Len(t) /\ (i + 1) - 1 = i
    BY <1>1
  <2>2. t[i + 1] \in Characters
    BY <1>1, <2>1, ElementOfSeq
  <2> QED BY <2>1, <2>2, CharacterFacts
<1>3. Length(b) = Len(t)
  BY <1>1, <1>2, LengthIs DEF Ends0
<1>4. /\ TextOf(b) \in Seq(Characters) /\ Len(TextOf(b)) = Len(t)
      /\ \A i \in 1..Len(t) : TextOf(b)[i] = t[i]
  BY <1>3, TextFacts
<1> QED BY <1>1, <1>3, <1>4, SeqEqual

-----------------------------------------------------------------------------
(* What the keys do to the buffer and its text.                            *)

LEMMA AddedFacts ==
    ASSUME buf \in Buffers, len + 1 \in Indices, NEW c \in Characters
    PROVE  /\ Added(c) \in Buffers /\ Length(Added(c)) = len + 1
           /\ TextOf(Added(c)) = Append(text, c)
<1> DEFINE b == Added(c)
           t == Append(text, c)
<1>1. /\ len \in Indices /\ len \in Nat
      /\ text \in Seq(Characters) /\ Len(text) = len
      /\ \A i \in 1..len : text[i] = buf[i - 1]
  BY LengthFacts, TextFacts, CharacterFacts DEF len, text
<1>2. t \in Seq(Characters) /\ Len(t) = len + 1 /\ t[len + 1] = c
      /\ \A i \in 1..len : t[i] = text[i]
  BY <1>1, AppendProperties
<1>3. b \in Buffers /\ b[len] = c /\ b[len + 1] = Nul
      /\ \A i \in Indices : i < len => b[i] = buf[i]
  BY <1>1, CharacterFacts DEF Added, Buffers
<1> HIDE DEF b, t
<1>4. ASSUME NEW i \in 1..Len(t) PROVE b[i - 1] = t[i]
  <2>1. CASE i = len + 1
    BY <1>1, <1>2, <1>3, <2>1
  <2>2. CASE i # len + 1
    <3>1. i \in 1..len /\ i - 1 \in Indices /\ i - 1 < len
      BY <1>1, <1>2, <2>2, CharacterFacts DEF Indices
    <3> QED BY <1>1, <1>2, <1>3, <3>1
  <2> QED BY <2>1, <2>2
<1>5. t \in Lines
  BY <1>2 DEF Lines
<1>6. TextOf(b) = t /\ Length(b) = len + 1
  BY <1>2, <1>3, <1>4, <1>5, TextIs
<1> QED BY <1>3, <1>6 DEF b, t

LEMMA CopiedFacts ==
    ASSUME NEW b \in Buffers, NEW t \in Lines
    PROVE  Copied(b, t) \in Buffers /\ TextOf(Copied(b, t)) = t
<1>1. t \in Seq(Characters) /\ Len(t) \in Indices /\ Len(t) \in Nat
  BY CharacterFacts DEF Lines
<1>2. ASSUME NEW i \in Indices PROVE Copied(b, t)[i] \in Characters \cup {Nul}
  <2>1. i < Len(t) => i + 1 \in 1..Len(t)
    BY <1>1, CharacterFacts
  <2>2. i < Len(t) => t[i + 1] \in Characters
    BY <1>1, <2>1, ElementOfSeq
  <2> QED BY <2>2 DEF Copied, Buffers
<1>3. Copied(b, t)[Len(t)] = Nul
  BY <1>1 DEF Copied
<1>4. Copied(b, t) \in Buffers
  BY <1>1, <1>2, <1>3 DEF Buffers, Copied
<1>5. ASSUME NEW i \in 1..Len(t) PROVE Copied(b, t)[i - 1] = t[i]
  <2>1. i - 1 \in Indices /\ i - 1 < Len(t) /\ (i - 1) + 1 = i
    BY <1>1, CharacterFacts DEF Indices
  <2> QED BY <2>1 DEF Copied
<1> QED BY <1>3, <1>4, <1>5, TextIs

LEMMA ErasedFacts ==
    ASSUME buf \in Buffers, len > 0
    PROVE  /\ [buf EXCEPT ![len - 1] = Nul] \in Buffers
           /\ Length([buf EXCEPT ![len - 1] = Nul]) = len - 1
           /\ text # << >> /\ TextOf([buf EXCEPT ![len - 1] = Nul]) = Front(text)
<1> DEFINE b == [buf EXCEPT ![len - 1] = Nul]
           t == Front(text)
           n == len - 1
<1>1. /\ len \in Indices /\ len \in Nat /\ n \in Nat
      /\ text \in Seq(Characters) /\ Len(text) = len
      /\ \A i \in 1..len : text[i] = buf[i - 1]
  BY LengthFacts, TextFacts, CharacterFacts DEF len, text
<1>2. n \in Indices
  BY <1>1, CharacterFacts DEF Indices
<1>3. b \in Buffers /\ b[n] = Nul /\ \A i \in Indices : i # n => b[i] = buf[i]
  BY <1>2 DEF Buffers
<1>4. t = SubSeq(text, 1, n)
  BY <1>1 DEF Front
<1>5. t \in Seq(Characters) /\ Len(t) = n /\ \A i \in 1..n : t[i] = text[i]
  <2>1. \A i \in 1..n : text[i] \in Characters
    BY <1>1, ElementOfSeq
  <2> HIDE DEF n, t
  <2>2. n \in Int /\ n - 1 + 1 = n /\ (1 <= n \/ n = 0)
    BY <1>1
  <2>3. /\ SubSeq(text, 1, n) \in Seq(Characters)
        /\ Len(SubSeq(text, 1, n)) = IF 1 <= n THEN n - 1 + 1 ELSE 0
        /\ \A i \in 1..(n - 1 + 1) : SubSeq(text, 1, n)[i] = text[1 + i - 1]
    BY <2>1, <2>2, SubSeqProperties
  <2> QED BY <1>4, <2>2, <2>3
<1> HIDE DEF b, t
<1>6. ASSUME NEW i \in 1..Len(t) PROVE b[i - 1] = t[i]
  <2>1. i \in 1..n /\ i \in 1..len /\ i - 1 \in Indices /\ i - 1 # n
    BY <1>1, <1>5, CharacterFacts DEF Indices
  <2> QED BY <1>1, <1>3, <1>5, <2>1
<1>7. t \in Lines
  BY <1>2, <1>5 DEF Lines
<1>8. TextOf(b) = t /\ Length(b) = n
  BY <1>3, <1>5, <1>6, <1>7, TextIs
<1>9. text # << >>
  BY <1>1, EmptySeq
<1> QED BY <1>3, <1>8, <1>9 DEF b, t

LEMMA ClearedFacts ==
    ASSUME NEW b \in Buffers
    PROVE  /\ [b EXCEPT ![0] = Nul] \in Buffers
           /\ Length([b EXCEPT ![0] = Nul]) = 0
           /\ TextOf([b EXCEPT ![0] = Nul]) = << >>
<1>1. [b EXCEPT ![0] = Nul] \in Buffers /\ [b EXCEPT ![0] = Nul][0] = Nul
  BY CharacterFacts DEF Buffers
<1>2. << >> \in Lines /\ Len(<< >>) = 0
  BY EmptySeq, CharacterFacts DEF Lines
<1>3. \A i \in 1..Len(<< >>) : FALSE
  BY <1>2
<1> DEFINE c == [b EXCEPT ![0] = Nul]
<1> HIDE DEF c
<1>4. TextOf(c) = << >> /\ Length(c) = 0
  BY <1>1, <1>2, <1>3, TextIs DEF c
<1> QED BY <1>1, <1>4 DEF c

\* A delimiter opens and closes nothing, escaped or not.
LEMMA DelimiterKeepsCompleteness ==
    ASSUME NEW t \in Seq(Characters)
    PROVE  IsComplete(Append(t, Delimiter)) <=> IsComplete(t)
<1>1. SameBalance(Scan(Append(t, Delimiter)), Scan(t))
  BY ScanSteps, ScanState, ScannedFacts, CharacterFacts
<1> QED BY <1>1 DEF IsComplete, Balanced, SameBalance

-----------------------------------------------------------------------------
(* The completion of a word.                                               *)

\* The word that is completed is an end of the text, and a match goes on from it.
LEMMA WordFacts ==
    ASSUME buf \in Buffers
    PROVE  Word \in Seq(Characters) /\ Len(Word) \in 0..len
<1> DEFINE cut == {0} \cup {i \in 1..Len(text) : text[i] = Delimiter}
           m == CHOOSE i \in cut : \A j \in cut : j <= i
<1>1. text \in Seq(Characters) /\ Len(text) = len /\ len \in Nat
  BY TextFacts, CharacterFacts, LengthFacts DEF text, len
<1>2. m \in cut /\ cut \subseteq 0..len
  <2>1. cut \subseteq 0..len /\ cut # {}
    BY <1>1
  <2>2. Max(cut) \in cut /\ \A j \in cut : j <= Max(cut)
    <3> HIDE DEF cut
    <3> QED BY <2>1, <1>1, GreatestElement
  <2> QED BY <2>1, <2>2
<1>3. m \in 0..len
  <2> HIDE DEF cut, m
  <2> QED BY <1>2
<1>4. Word = SubSeq(text, 1 + m, len)
  BY <1>1 DEF Word
<1> HIDE DEF m, cut
<1>5. \A i \in (1 + m)..len : text[i] \in Characters
  <2>1. \A i \in (1 + m)..len : i \in 1..Len(text)
    BY <1>1, <1>3
  <2> QED BY <1>1, <2>1, ElementOfSeq
<1>6. /\ SubSeq(text, 1 + m, len) \in Seq(Characters)
      /\ Len(SubSeq(text, 1 + m, len)) = IF 1 + m <= len THEN len - (1 + m) + 1 ELSE 0
  <2>1. 1 + m \in Int /\ len \in Int
    BY <1>1, <1>3
  <2> QED BY <1>5, <2>1, SubSeqProperties
<1>7. Len(Word) \in 0..len
  BY <1>1, <1>3, <1>4, <1>6
<1> QED BY <1>4, <1>6, <1>7

LEMMA RestFacts ==
    ASSUME buf \in Buffers, NEW n \in Matches
    PROVE  /\ Rest(n, Word) \in Seq(Typed) /\ Rest(n, Word) \in Seq(Characters)
           /\ Len(Rest(n, Word)) = Len(n) - Len(Word)
           /\ Rest(n, Word) \in {SubSeq(k, i, Len(k)) : k \in Names, i \in 1..(Size + 1)}
<1> DEFINE w == Len(Word)
           k == Len(n)
<1>1. n \in Names /\ n \in Seq(Typed) /\ k \in Nat /\ w \in Nat /\ w <= k
  BY WordFacts, LineEditAssumption DEF Matches, IsPrefix
<1>2. w + 1 \in 1..(Size + 1)
  BY WordFacts, LengthFacts, CharacterFacts DEF len, Indices
<1>3. Rest(n, Word) = SubSeq(n, w + 1, k)
  BY DEF Rest
<1> HIDE DEF w, k
<1>4. \A i \in (w + 1)..k : n[i] \in Typed
  <2>1. \A i \in (w + 1)..k : i \in 1..Len(n)
    BY <1>1 DEF k
  <2> QED BY <1>1, <2>1, ElementOfSeq
<1>5. /\ SubSeq(n, w + 1, k) \in Seq(Typed)
      /\ Len(SubSeq(n, w + 1, k)) = IF w + 1 <= k THEN k - (w + 1) + 1 ELSE 0
  <2>1. w + 1 \in Int /\ k \in Int
    BY <1>1
  <2> QED BY <1>4, <2>1, SubSeqProperties
<1>6. Len(Rest(n, Word)) = k - w
  BY <1>1, <1>3, <1>5
<1>7. Rest(n, Word) \in Seq(Characters)
  BY <1>3, <1>5, CharacterFacts
<1>8. Rest(n, Word) \in {SubSeq(j, i, Len(j)) : j \in Names, i \in 1..(Size + 1)}
  BY <1>1, <1>2, <1>3 DEF k
<1>9. Rest(n, Word) \in Seq(Typed)
  BY <1>1, <1>3, <1>5
<1> QED BY <1>6, <1>7, <1>8, <1>9 DEF w, k

\* The buffer after a completion by rest, with the cursor at p - Len(rest).
Completed(rest, p) ==
    LET b == [i \in Indices |-> IF i \in len..(len + Len(rest) - 1)
                                THEN rest[i - len + 1] ELSE buf[i]]
    IN  [b EXCEPT ![p] = Delimiter, ![p + 1] = Nul]

LEMMA CompletedFacts ==
    ASSUME buf \in Buffers, NEW rest \in Seq(Characters), NEW p \in Int,
           {p, p + 1, len + Len(rest)} \subseteq Indices
    PROVE  /\ Completed(rest, p) \in Buffers
           /\ p = len + Len(rest) =>
                 /\ Length(Completed(rest, p)) = p + 1
                 /\ TextOf(Completed(rest, p)) = text \o rest \o <<Delimiter>>
<1> DEFINE k == Len(rest)
           b == [i \in Indices |-> IF i \in len..(len + k - 1)
                                   THEN rest[i - len + 1] ELSE buf[i]]
           c == [b EXCEPT ![p] = Delimiter, ![p + 1] = Nul]
           t == text \o rest \o <<Delimiter>>
<1>1. /\ len \in Nat /\ k \in Nat
      /\ text \in Seq(Characters) /\ Len(text) = len
      /\ \A i \in 1..len : text[i] = buf[i - 1]
      /\ \A i \in 1..k : rest[i] \in Characters
  BY LengthFacts, TextFacts, CharacterFacts, ElementOfSeq DEF len, text
<1>2. ASSUME NEW i \in Indices PROVE b[i] \in Characters \cup {Nul}
  <2>1. i \in len..(len + k - 1) => i - len + 1 \in 1..k
    BY <1>1, CharacterFacts
  <2> HIDE DEF k
  <2> QED BY <1>1, <2>1 DEF Buffers
<1>3. b \in [Indices -> Characters \cup {Nul}]
  BY <1>2
<1> HIDE DEF b
<1>4. /\ c \in [Indices -> Characters \cup {Nul}] /\ c[p] = Delimiter /\ c[p + 1] = Nul
      /\ \A i \in Indices : i # p /\ i # p + 1 => c[i] = b[i]
  BY <1>3, CharacterFacts
<1> HIDE DEF c
<1>5. c \in Buffers
  BY <1>4 DEF Buffers
<1>6. ASSUME p = len + k
      PROVE  Length(c) = p + 1 /\ TextOf(c) = t
  <2>1. /\ t \in Seq(Characters) /\ Len(t) = p + 1 /\ t[p + 1] = Delimiter
        /\ \A i \in 1..len : t[i] = text[i]
        /\ \A i \in (len + 1)..p : t[i] = rest[i - len]
    <3> DEFINE u == text \o rest
    <3>1. /\ u \in Seq(Characters) /\ Len(u) = p
          /\ \A i \in 1..p : u[i] = IF i <= len THEN text[i] ELSE rest[i - len]
      BY <1>1, <1>6, ConcatProperties
    <3>2. t = Append(u, Delimiter)
      <4> HIDE DEF u
      <4> QED BY <3>1, CharacterFacts, AppendIsConcat DEF t, u
    <3> HIDE DEF u, t
    <3>3. /\ t \in Seq(Characters) /\ Len(t) = p + 1 /\ t[p + 1] = Delimiter
          /\ \A i \in 1..p : t[i] = u[i]
      BY <3>1, <3>2, CharacterFacts, AppendProperties
    <3>4. /\ \A i \in 1..len : i \in 1..p /\ i <= len
          /\ \A i \in (len + 1)..p : i \in 1..p /\ ~(i <= len)
      BY <1>1, <1>6
    <3> QED BY <3>1, <3>3, <3>4
  <2> HIDE DEF t
  <2>2. ASSUME NEW i \in 1..Len(t) PROVE c[i - 1] = t[i]
    <3>1. i - 1 \in Indices
      BY <1>1, <1>6, <2>1, CharacterFacts DEF Indices
    <3>2. CASE i <= len
      <4>1. i \in 1..len /\ i - 1 # p /\ i - 1 # p + 1 /\ i - 1 \notin len..(len + k - 1)
        BY <1>1, <1>6, <2>1, <3>2
      <4> QED BY <1>1, <1>4, <2>1, <3>1, <4>1 DEF b
    <3>3. CASE len < i /\ i <= p
      <4>1. /\ i \in (len + 1)..p /\ i - 1 # p /\ i - 1 # p + 1
            /\ i - 1 \in len..(len + k - 1) /\ (i - 1) - len + 1 = i - len
        BY <1>1, <1>6, <2>1, <3>3
      <4> QED BY <1>4, <2>1, <3>1, <4>1 DEF b
    <3>4. CASE i = p + 1
      BY <1>4, <2>1, <3>4
    <3> QED BY <1>1, <1>6, <2>1, <3>2, <3>3, <3>4
  <2>3. t \in Lines
    BY <2>1 DEF Lines
  <2> QED BY <1>4, <1>5, <2>1, <2>2, <2>3, TextIs
<1>7. c = Completed(rest, p)
  BY DEF Completed, c, b
<1> QED BY <1>5, <1>6, <1>7

-----------------------------------------------------------------------------
(* The inductive invariant: every line of the history has room in the      *)
(* buffer, for the arrows copy it back; and where the cursor is.           *)

LInv == /\ buf \in Buffers
        /\ bufp \in (-MaxSkew)..(Size + MaxSkew)
        /\ history \in Seq(Lines) /\ Len(history) <= MaxHistory
        /\ lastHistory \in (-1)..Len(history)
        /\ mode \in {"reading", "ended", "broken"}
        /\ closed \in BOOLEAN
        /\ CursorAtEnd /\ LinesFit

\* What one step does: what Line promises.
Lined == [bufp = len => L!Next]_<<text, history, mode = "ended">>
Good == LInv' /\ Lined

LEMMA BufferFacts ==
    ASSUME LInv
    PROVE  /\ buf \in Buffers /\ len \in Nat /\ len < Size /\ len \in Indices
           /\ text \in Lines /\ text \in Seq(Characters) /\ Len(text) = len
           /\ bufp \in Int /\ Size \in Nat /\ MaxSkew \in Nat
           /\ -MaxSkew <= bufp /\ bufp <= Size + MaxSkew
  BY LengthFacts, TextFacts, CharacterFacts, LineEditAssumption DEF LInv, len, text, Indices

\* A key that edits the text, and moves the cursor with its end.
LEMMA EditsFacts ==
    ASSUME LInv, mode = "reading", NEW b \in Buffers,
           NEW p \in (-MaxSkew)..(Size + MaxSkew), Edits(b, p),
           bufp = len => p = Length(b)
    PROVE  LInv' /\ text' = TextOf(b) /\ UNCHANGED <<history, mode>>
<1>1. /\ buf' = b /\ bufp' = p /\ history' = history /\ lastHistory' = lastHistory
      /\ mode' = mode /\ closed' = closed
  BY DEF Edits
<1>2. len' = Length(b) /\ text' = TextOf(b)
  BY <1>1 DEF len, text
<1>3. CursorAtEnd'
  BY <1>1, <1>2 DEF LInv, CursorAtEnd, Recalled
<1> QED BY <1>1, <1>2, <1>3 DEF LInv, LinesFit

LEMMA AnswersFacts ==
    ASSUME LInv, mode = "reading", NEW b \in Buffers, Answers(b), IsComplete(TextOf(b))
    PROVE  /\ LInv' /\ text' = << >> /\ history' = <<TextOf(b)>> \o history
           /\ (mode = "ended")' \in BOOLEAN
<1>1. /\ Len(history) < MaxHistory /\ history' = <<TextOf(b)>> \o history
      /\ lastHistory' = -1 /\ buf' = [b EXCEPT ![0] = Nul] /\ bufp' = 0
      /\ mode' \in {"reading", "ended"} /\ closed' = closed
  BY DEF Answers
<1>2. /\ buf' \in Buffers /\ len' = 0 /\ text' = << >>
  BY <1>1, ClearedFacts DEF len, text
<1>3. history' \in Seq(Lines) /\ Len(history') = Len(history) + 1
  <2>1. TextOf(b) \in Lines /\ history \in Seq(Lines)
    BY TextFacts DEF LInv
  <2> QED BY <1>1, <2>1
<1>4. 0 \in (-MaxSkew)..(Size + MaxSkew) /\ MaxHistory \in Nat
  BY LineEditAssumption
<1>5. CursorAtEnd'
  BY <1>1, <1>2 DEF CursorAtEnd
<1>6. Len(history') <= MaxHistory /\ lastHistory' \in (-1)..Len(history')
  <2>1. Len(history) \in Nat
    BY DEF LInv
  <2> QED BY <1>1, <1>3, <1>4, <2>1
<1>7. LinesFit'
  <2> DEFINE line == TextOf(b)
  <2>1. line \in Lines /\ IsComplete(line) /\ history \in Seq(Lines)
    BY TextFacts DEF LInv
  <2>2. Len(line) < Size
    BY <2>1, CharacterFacts DEF Lines, Indices
  <2> HIDE DEF line
  <2> SUFFICES ASSUME NEW i \in 1..Len(history')
               PROVE  Len(history'[i]) < Size /\ IsComplete(history'[i])
    BY DEF LinesFit
  <2>3. CASE i = 1
    BY <1>1, <2>1, <2>2, <2>3 DEF line
  <2>4. CASE i # 1
    <3>1. i - 1 \in 1..Len(history) /\ history'[i] = history[i - 1]
      BY <1>1, <1>3, <2>1, <2>4
    <3> QED BY <3>1 DEF LInv, LinesFit
  <2> QED BY <2>3, <2>4
<1>8. LInv'
  BY <1>1, <1>2, <1>3, <1>4, <1>5, <1>6, <1>7 DEF LInv
<1> QED BY <1>1, <1>2, <1>8

LEMMA StillFacts ==
    ASSUME LInv, mode = "reading", UNCHANGED <<buf, bufp, history, lastHistory, closed>>,
           mode' \in {"ended", "broken"}
    PROVE  LInv' /\ text' = text /\ history' = history
  BY DEF LInv, LinesFit, text, CursorAtEnd

LEMMA BreaksGood == ASSUME LInv, mode = "reading", Breaks PROVE Good
  BY StillFacts DEF Breaks, Good, Lined

\* The texts after a character at the end.
LEMMA AppendedFacts ==
    ASSUME LInv, mode = "reading", NEW c \in Characters, len + 1 \in Indices,
           bufp < Size + MaxSkew, Edits(Added(c), bufp + 1)
    PROVE  Good
<1>1. /\ Added(c) \in Buffers /\ Length(Added(c)) = len + 1
      /\ TextOf(Added(c)) = Append(text, c)
  BY BufferFacts, AddedFacts
<1>2. bufp + 1 \in (-MaxSkew)..(Size + MaxSkew)
  BY BufferFacts
<1>3. LInv' /\ text' = Append(text, c) /\ UNCHANGED <<history, mode>>
  BY <1>1, <1>2, EditsFacts
<1>4. L!Type(c) /\ mode # "ended"
  BY <1>3 DEF L!Type
<1> QED BY <1>3, <1>4 DEF Good, Lined, L!Next

LEMMA TypeGood ==
    ASSUME LInv, NEW c \in Typed, Type(c)
    PROVE  Good
<1>1. mode = "reading" /\ c \in Characters
  BY CharacterFacts DEF Type, Reads
<1>2. CASE len + 1 \notin Indices
  BY <1>1, <1>2, BreaksGood DEF Type
<1>3. CASE len + 1 \in Indices
  BY <1>1, <1>3, AppendedFacts DEF Type
<1> QED BY <1>2, <1>3

\* The newline that Enter adds completes nothing: the text was complete before, or
\* is not now.
LEMMA EnterGood ==
    ASSUME LInv, Enter
    PROVE  Good
<1>1. mode = "reading"
  BY DEF Enter, Reads
<1>2. CASE IsComplete(text)
  <2>1. Answers(buf)
    BY <1>2 DEF Enter
  <2>2. /\ LInv' /\ text' = << >> /\ history' = <<text>> \o history
        /\ (mode = "ended")' \in BOOLEAN
    BY <1>1, <1>2, <2>1, BufferFacts, AnswersFacts DEF text
  <2>3. L!Answer(text)
    BY <1>2, <2>2 DEF L!Answer
  <2> QED BY <1>1, <2>2, <2>3 DEF Good, Lined, L!Next
<1>3. CASE ~ IsComplete(text) /\ len + 1 \notin Indices
  BY <1>1, <1>3, BreaksGood DEF Enter
<1>4. CASE ~ IsComplete(text) /\ len + 1 \in Indices
  <2>1. ~ IsComplete(TextOf(Added(Delimiter)))
    <3>1. buf \in Buffers /\ text \in Seq(Characters) /\ Delimiter \in Characters
      BY BufferFacts, CharacterFacts
    <3>2. TextOf(Added(Delimiter)) = Append(text, Delimiter)
      BY <1>4, <3>1, AddedFacts
    <3> QED BY <1>4, <3>1, <3>2, DelimiterKeepsCompleteness
  <2>2. bufp < Size + MaxSkew /\ Edits(Added(Delimiter), bufp + 1)
    BY <1>4, <2>1 DEF Enter
  <2> QED BY <1>1, <1>4, <2>2, CharacterFacts, AppendedFacts
<1> QED BY <1>2, <1>3, <1>4

LEMMA EofGood ==
    ASSUME LInv, mode = "reading", Eof
    PROVE  Good
<1>1. CASE bufp = 0
  <2>1. Ends
    BY <1>1 DEF Eof
  <2>2. LInv' /\ text' = text /\ history' = history /\ mode' = "ended"
    BY <2>1, StillFacts DEF Ends
  <2>3. bufp = len => text = << >>
    BY <1>1, BufferFacts, EmptySeq
  <2>4. bufp = len => L!End
    BY <2>2, <2>3 DEF L!End
  <2> QED BY <2>2, <2>4 DEF Good, Lined, L!Next
<1>2. CASE bufp # 0 /\ len + 1 \notin Indices
  BY <1>2, BreaksGood DEF Eof
<1>3. CASE bufp # 0 /\ len + 1 \in Indices
  <2>1. /\ Added(EndOfFile) \in Buffers /\ EndOfFile \in Characters
        /\ TextOf(Added(EndOfFile)) = Append(text, EndOfFile)
    BY <1>3, BufferFacts, CharacterFacts, AddedFacts
  <2>2. CASE IsComplete(TextOf(Added(EndOfFile)))
    <3>1. Answers(Added(EndOfFile))
      BY <1>3, <2>2 DEF Eof
    <3>2. /\ LInv' /\ text' = << >>
          /\ history' = <<Append(text, EndOfFile)>> \o history
          /\ (mode = "ended")' \in BOOLEAN
      BY <2>1, <2>2, <3>1, AnswersFacts
    <3>3. L!Answer(Append(text, EndOfFile))
      BY <2>1, <2>2, <3>2 DEF L!Answer
    <3> QED BY <3>2, <3>3 DEF Good, Lined, L!Next
  <2>3. CASE ~ IsComplete(TextOf(Added(EndOfFile)))
    <3>1. bufp < Size + MaxSkew /\ Edits(Added(EndOfFile), bufp + 1)
      BY <1>3, <2>3 DEF Eof
    <3> QED BY <1>3, <2>1, <3>1, AppendedFacts
  <2> QED BY <2>2, <2>3
<1> QED BY <1>1, <1>2, <1>3

LEMMA CloseGood ==
    ASSUME LInv, Close
    PROVE  Good
<1>1. closed' \in BOOLEAN /\ UNCHANGED <<buf, bufp, history, lastHistory, mode>>
  BY DEF Close
<1> QED BY <1>1 DEF LInv, Good, Lined, CursorAtEnd, LinesFit, Recalled, len, text

LEMMA EraseGood ==
    ASSUME LInv, Erase
    PROVE  Good
<1>1. mode = "reading" /\ len > 0 /\ bufp > -MaxSkew
      /\ Edits([buf EXCEPT ![len - 1] = Nul], bufp - 1)
  BY DEF Erase, Reads
<1> DEFINE b == [buf EXCEPT ![len - 1] = Nul]
<1>2. b \in Buffers /\ Length(b) = len - 1 /\ text # << >> /\ TextOf(b) = Front(text)
  BY <1>1, BufferFacts, ErasedFacts
<1>3. bufp - 1 \in (-MaxSkew)..(Size + MaxSkew)
  BY <1>1, BufferFacts
<1> HIDE DEF b
<1>4. LInv' /\ text' = Front(text) /\ UNCHANGED <<history, mode>>
  BY <1>1, <1>2, <1>3, EditsFacts DEF b
<1>5. L!Erase /\ mode # "ended"
  BY <1>1, <1>2, <1>4 DEF L!Erase, L!Front, Front
<1> QED BY <1>4, <1>5 DEF Good, Lined, L!Next

LEMMA TabGood ==
    ASSUME LInv, Tab
    PROVE  Good
<1>1. PICK n \in Matches :
        LET rest == Rest(n, Word)
            p == bufp + Len(rest)
        IN  IF {p, p + 1, len + Len(rest)} \subseteq Indices
            THEN Edits(Completed(rest, p), p + 1) ELSE Breaks
  BY DEF Tab, Completed
<1> DEFINE rest == Rest(n, Word)
           p == bufp + Len(rest)
<1>2. mode = "reading"
  BY DEF Tab, Reads
<1>3. /\ rest \in Seq(Characters) /\ Len(rest) \in Nat
      /\ Len(rest) = Len(n) - Len(Word) /\ p \in Int
      /\ rest \in {SubSeq(k, i, Len(k)) : k \in Names, i \in 1..(Size + 1)}
  BY BufferFacts, RestFacts
<1>4. CASE {p, p + 1, len + Len(rest)} \subseteq Indices
  <2>1. Edits(Completed(rest, p), p + 1)
    BY <1>1, <1>4
  <2>2. /\ Completed(rest, p) \in Buffers
        /\ p = len + Len(rest) =>
              /\ Length(Completed(rest, p)) = p + 1
              /\ TextOf(Completed(rest, p)) = text \o rest \o <<Delimiter>>
    <3>1. buf \in Buffers
      BY BufferFacts
    <3> HIDE DEF rest, p
    <3> QED BY <1>3, <1>4, <3>1, CompletedFacts, SMTT(30)
  <2>3. p + 1 \in (-MaxSkew)..(Size + MaxSkew)
    BY <1>4, BufferFacts, SMTT(30) DEF Indices
  <2> HIDE DEF rest
  <2>4. bufp = len => p = len + Len(rest)
    OBVIOUS
  <2> HIDE DEF p
  <2>5. LInv' /\ text' = TextOf(Completed(rest, p)) /\ UNCHANGED <<history, mode>>
    BY <1>2, <2>1, <2>2, <2>3, <2>4, EditsFacts
  <2>6. bufp = len => L!Complete(rest)
    BY <2>2, <2>4, <2>5 DEF L!Complete
  <2> QED BY <1>2, <1>3, <2>5, <2>6 DEF Good, Lined, L!Next
<1>5. CASE ~({p, p + 1, len + Len(rest)} \subseteq Indices)
  BY <1>1, <1>2, <1>5, BreaksGood
<1> QED BY <1>4, <1>5

LEMMA LooksGood ==
    ASSUME LInv, mode = "reading", NEW n \in Int, -1 <= n, n <= Len(history), Looks(n)
    PROVE  Good
<1>1. /\ Len(history) \in Nat /\ lastHistory' = n
      /\ UNCHANGED <<bufp, history, closed>>
  BY DEF LInv, Looks
<1>2. CASE history = << >> \/ n >= Len(history)
  <2>1. UNCHANGED <<buf, mode>>
    <3>1. ~(history # << >> /\ n < 0) \/ UNCHANGED <<buf, mode>>
      BY <1>1, <1>2
    <3> QED BY <1>1, <1>2, <3>1 DEF Looks
  <2>2. text' = text /\ len' = len
    BY <2>1 DEF text, len
  <2>3. CursorAtEnd'
    BY <1>1, <1>2, <2>1, <2>2 DEF LInv, CursorAtEnd, Recalled
  <2>4. n \in (-1)..Len(history)
    BY <1>1
  <2> QED BY <1>1, <2>1, <2>2, <2>3, <2>4 DEF LInv, Good, Lined, LinesFit
<1>3. CASE history # << >> /\ n < 0
  <2>1. mode' = "broken" /\ buf' = buf
    BY <1>1, <1>3 DEF Looks
  <2>3. CursorAtEnd' /\ text' = text
    BY <2>1 DEF CursorAtEnd, text
  <2>4. n \in (-1)..Len(history)
    BY <1>1
  <2> QED BY <1>1, <2>1, <2>3, <2>4 DEF LInv, Good, Lined, LinesFit
<1>4. CASE history # << >> /\ n >= 0 /\ n < Len(history)
  <2>1. buf' = Copied(buf, history[n + 1]) /\ mode' = mode
    BY <1>1, <1>4 DEF Looks
  <2>2. n + 1 \in 1..Len(history)
    BY <1>1, <1>4
  <2>3. history[n + 1] \in Lines
    BY <2>2, ElementOfSeq DEF LInv
  <2>4. buf' \in Buffers /\ text' = history[n + 1]
    BY <2>1, <2>3, BufferFacts, CopiedFacts DEF text
  <2>5. CursorAtEnd'
    BY <1>1, <1>4 DEF CursorAtEnd, Recalled
  <2>6. n \in (-1)..Len(history)
    BY <1>1
  <2>7. L!Recall
    <3>1. n + 1 \in DOMAIN history
      BY <2>2 DEF LInv
    <3> QED BY <1>1, <2>1, <2>4, <3>1 DEF L!Recall
  <2>8. LInv'
    BY <1>1, <2>1, <2>4, <2>5, <2>6 DEF LInv, LinesFit
  <2> QED BY <2>1, <2>7, <2>8 DEF Good, Lined, L!Next
<1> QED BY <1>1, <1>2, <1>3, <1>4

LEMMA StepGood ==
    ASSUME LInv, [Next]_vars
    PROVE  Good
<1>1. ASSUME NEW c \in Typed, Type(c) PROVE Good
  BY <1>1, TypeGood
<1>2. CASE Enter
  BY <1>2, EnterGood
<1>3. CASE CtrlD
  BY <1>3, EofGood DEF CtrlD, Reads
<1>4. CASE EndOfInput
  BY <1>4, EofGood DEF EndOfInput
<1>5. CASE Close
  BY <1>5, CloseGood
<1>6. CASE Erase
  BY <1>6, EraseGood
<1>7. CASE Tab
  BY <1>7, TabGood
<1>8. CASE Up
  <2> DEFINE n == IF lastHistory <= Len(history) - 1 THEN lastHistory + 1 ELSE lastHistory
  <2>1. mode = "reading" /\ Looks(n)
    BY <1>8 DEF Up, Reads
  <2>2. n \in Int /\ -1 <= n /\ n <= Len(history) 
    BY DEF LInv
  <2> HIDE DEF n
  <2> QED BY <2>1, <2>2, LooksGood
<1>9. CASE Down
  <2> DEFINE n == IF lastHistory > 0 THEN lastHistory - 1 ELSE lastHistory
  <2>1. mode = "reading" /\ Looks(n)
    BY <1>9 DEF Down, Reads
  <2>2. n \in Int /\ -1 <= n /\ n <= Len(history)
    BY DEF LInv
  <2> HIDE DEF n
  <2> QED BY <2>1, <2>2, LooksGood
<1>10. CASE UNCHANGED vars
  BY <1>10 DEF vars, LInv, Good, Lined, CursorAtEnd, LinesFit, Recalled, len, text
<1> QED BY <1>1, <1>2, <1>3, <1>4, <1>5, <1>6, <1>7, <1>8, <1>9, <1>10 DEF Next

LEMMA InitGood ==
    ASSUME Init
    PROVE  LInv /\ L!Init
<1>1. PICK c \in Characters \cup {Nul} : buf = [i \in Indices |-> IF i = 0 THEN Nul ELSE c]
  BY DEF Init
<1>2. buf \in Buffers /\ buf[0] = Nul
  BY <1>1, CharacterFacts DEF Buffers
<1>3. << >> \in Lines /\ Len(<< >>) = 0 /\ \A i \in 1..0 : FALSE
  BY CharacterFacts DEF Lines
<1>4. text = << >> /\ len = 0
  BY <1>2, <1>3, TextIs DEF text, len
<1>5. L!Init
  BY <1>4 DEF Init, L!Init
<1>6. 0 \in (-MaxSkew)..(Size + MaxSkew) /\ 0 <= MaxHistory
  BY LineEditAssumption
<1>7. << >> \in Seq(Lines) /\ Len(<< >>) = 0 /\ -1 \in (-1)..0
  OBVIOUS
<1>8. LinesFit
  BY <1>7 DEF Init, LinesFit
<1>9. LInv
  BY <1>2, <1>4, <1>6, <1>7, <1>8 DEF Init, LInv, CursorAtEnd
<1> QED BY <1>5, <1>9

-----------------------------------------------------------------------------
(* The theorems.                                                           *)

LEMMA Invariance == Spec => []LInv
<1>1. Init => LInv
  BY InitGood
<1>2. LInv /\ [Next]_vars => LInv'
  BY StepGood DEF Good
<1> QED BY <1>1, <1>2, PTL DEF Spec

\* The buffer always holds a Nul, and the state is what TypeOK says, whatever the
\* keys and the size of the buffer (LineRead.c:118-160, repl.c:63-120).
THEOREM EditorTypes == Spec => []TypeOK
<1>1. LInv => TypeOK
  <2> SUFFICES ASSUME LInv PROVE TypeOK
    OBVIOUS
  <2>1. history \in Seq(Seq(Characters))
    <3>1. Lines \subseteq Seq(Characters)
      BY DEF Lines
    <3> QED BY <3>1 DEF LInv
  <2> QED BY <2>1 DEF LInv, Buffers, TypeOK
<1> QED BY <1>1, Invariance, PTL

\* Until an entry of the history is looked at, the cursor of LineRead and the end of
\* the text by strlen are the same (LineRead.c:150, repl.c:88-112).
THEOREM CursorsAgree == Spec => []CursorAtEnd
<1>1. LInv => CursorAtEnd
  BY DEF LInv
<1> QED BY <1>1, Invariance, PTL

\* Every line of the history has room in the buffer and is complete, so that the
\* strcpy of a recall stays inside, whatever was recalled, completed and erased
\* before (LineRead.c:131, LineRead_addHistory).
THEOREM RecallsFit == Spec => []LinesFit
<1>1. LInv => LinesFit
  BY DEF LInv
<1> QED BY <1>1, Invariance, PTL

\* The editor implements Line as long as its cursor is at the end of the text: what
\* is typed, completed or recalled goes to the reader once and whole, whatever
\* earlier texts have left in the buffer (LineRead.c:118-160, repl.c:63-130).
THEOREM EditorIsALine == Spec => IsLine
<1>1. Init => L!Init
  BY InitGood
<1>2. LInv /\ [Next]_vars => [bufp = len => L!Next]_<<text, history, mode = "ended">>
  BY StepGood DEF Good, Lined
<1> QED BY <1>1, <1>2, Invariance, PTL DEF Spec, IsLine
=============================================================================
