# TLA+ verification of tentcl

tentcl (`src/`) is a small Tcl interpreter in C: an evaluator that expands
words and calls commands, reference counted values, a few data structures of
its own, and a line editor for the interactive shell. It has one thread and
no network. What is hard in it is *sharing*: values share containers, commands
share one result handle, namespaces share bindings, labels share the C stack,
and every function has to leave the shared part right for the others after any
sequence of calls.

Paths below are relative to the repository (`src/` in this tree).

## 1. Inventory

| Component | State | Operations | Works with | Hard behaviour | Correct when |
|---|---|---|---|---|---|
| Values `src/value.c` | handles (`TclValue`) -> containers (`TclValueRef`: tagged pointer, count); lists are `List`s of handles; a ring of 32 text buffers | new, new_ref, delete, set*, replace, append, prepend, coerce to STR / INT / LIST, list push/pop/shift/elt/size, detach | everything else | counts over shared and nested values, in-place or private coercion, the cascade that deletes a list | counts exact, one owner per handle, nothing leaks, list coercion is private |
| Lists `dstructs/src/List.c` | doubly linked nodes, head, tail | push, unshift, pop, shift, add (sorted), remove, index, rindex, find | values, namespaces, history | the two chains and both ends after every operation | chains are inverse, walks agree, it is a deque |
| Name tables `dstructs/src/BTree.c`, `Hash.c` | unbalanced binary tree of name/value pairs, compared by the names | add, get, remove, get-or-create | functions, variables, files | removal of a node with two subtrees, parent lookup | stays a tree, a lookup finds what is there |
| File commands `src/io.c` | table of streams by id | open, close, puts, gets, flush | name tables | reuse of names, closing standard streams | the table holds the open streams, and a command gets the stream of its id |
| Variables, words, results `src/tcl.c`, `std.c`, `ext.c` | namespace stack, result handle of the script, words being expanded | set, incr, foreach, return, catch, proc calls, upvar, uplevel, arithmetic | values, lists | the result, a variable and a word may be one container | counts exact, callers isolated from callees |
| Labels `src/ext.c` | label objects (`jmp_buf` and validity), C frames | label, goto, leave | namespaces, the C stack | `longjmp` undoes nothing | only live frames are jumped to, namespaces match the calls |
| Splitting and matching `src/tcl.c` | none (pure) | `Tcl_split`, `Tcl_isComplete`, `findMatching` | evaluator, read loop, list coercion | nesting of `{}`, `""`, `[]`, escapes, boundaries; split and expansion decide separately where a group ends | the parts are what the quoting rules say, and the expansion can use every part |
| Control commands `src/std.c`, `ext.c` | status codes passed up the C frames | if, if#, while, for, foreach, or, and, catch, proc, return, break, continue, exit | evaluator | statuses swallowed or passed on | a status reaches the frame that handles it, loops end when their guards turn false |
| Read loop, shell `src/repl.c`, `tclsh.c` | options, exit status, `returnInfo` of tcl.c | repl, evalFile, main | line editor, evaluator | nested loops, exit status, one static for the code of every exit | the code of the last exit arrives, and the process ends with its input |
| Line editor `lineread/src/LineRead.c`, key handler `src/repl.c` | buffer, cursor, history position | key presses | lists (history), splitting | two accounts of the cursor, bounds, ends of the history, end of the input | the text is what was typed, completed or recalled, and goes to the reader once, whole |
| Other builtins `std.c`, `ext.c`; `use` | none | string, list, directory commands, range, take, drop; dlopen | values | mostly pure | - |
| `regexp.c`, `bindings/`, `SkipList.c`, `Vector.c`, `EString.c`, `docgen.pl`, `lib/`, tests | - | wrapper of pcre2, out-of-date bindings, unfinished or unused structures, scripts | - | - | - |

How they interact: `Tcl_eval` splits a script into commands and hands one
result handle to all of them; `Tcl_expand_` builds each word, recursing into
`Tcl_eval` for brackets; a command gets its words as a list value, reads and
changes variables through the namespace stack, and writes its result into the
container of the result handle. Procs push a namespace and evaluate their body
into the result handle of the caller. Status codes travel up through return
values, and labels bypass all of it with `longjmp`.

## 2. Modules

    Deque <--refines-- DList
    StreamTable <--refines-- Files --uses-- HashTree
    TclValue
    Namespaces <--used by-- TclVars, Labels
    Control <--extended by-- Shell
    Splitting <--extended by-- Texts, LineEdit
    Line <--refines-- LineEdit
    StrRing

The theorems about a module `M` are in `MProofs`, which extends it: TclValue,
DList, Files (with HashTree), TclVars, Labels, Shell (with Control) and StrRing
have one; those about Texts and LineEdit, with Splitting below both, are in
`TextProofs` (section 4).

**TclValue** (`value.c`). The heap is one record and every C function is an
operator from heaps to heaps, composed of the primitives `Fresh`, `Attach`
(`TclValue_ref`), `FreeValue` (`TclValue_free_value_`) and `Unref`
(`TclValue_unref_`) in the order the code calls them: `Replaced` gives up the
old reference before it takes the new one, `TakeElement` takes before it gives
up. A payload is its tag. `own` are the handles the callers of value.h must
delete. Deleting a list is a cascade, one `Drain` per handle, so that the order
of deletions and their nesting are free; no API call starts meanwhile. Callers
are constrained as the ones in the repository are: a list that is pushed to is
fresh and unshared (`ListPush`), a replaced handle gets a value that stays
alive (`Replace`).

**DList** (`List.c`), with **Deque** as what `List.h` promises. Links are
functions over the nodes. `SpecSorted` drives `List_add` instead of the deque
operations.

**HashTree** (`BTree.c`, `Hash.c`): the tree as a record of functions and its
operations as operators; **Files** (`io.c`) drives the table the way the file
commands do, **StreamTable** is a partial function from names to streams that
says of every command whether it succeeds. `puts` without a file id is not a use
of the table: it prints to the stdout of the C library (`PutsStdout`), closed or
not. Names are numbers: the model needs only their order. The comparison in
`BTree_remove` reads the bytes of a pair as if they were a name; their order is
unrelated to the names', so `Spliced` chooses either outcome. Three entries
(stderr, stdin, stdout) exist from the start, in the order `TclIO_register`
makes them. `relocated` and `crashed` are history: a removal has put a subtree
elsewhere by that comparison, and a NULL has been dereferenced. `silent` is
history too: the last command failed and returned OK.

**Namespaces** holds the lookups in the stack of namespaces (current, up by a
level, the global search of level 0) that **TclVars** and **Labels** share.

**TclVars** (`tcl.c`, `std.c`, `ext.c`) models an evaluation as a stack of
activations (script, proc, uplevel, bracket, catch, or, and), each with its
namespace, its result handle and the word being expanded. Cells are the containers of
TclValue seen from the interpreter, contents reduced to five texts. A read of
freed memory yields the text `junk`: appending a string to itself does, since
realloc may have moved it (`Substitute`). `or` and `and` give the container of
the last script's result to the outer result handle and write no cell of it
(`CloseLogic`). `lost` counts the handles the code
forgets (a name that upvar or uplevel binds over another).

**Labels** (`ext.c`) keeps the C frames and the namespaces apart, because a
jump removes frames only. A jump to a frame that is gone is undefined
behaviour, so the model has no step for it: `StaleOnlyIfCrossed` says when one
is possible. The object of a label is in a container, and containers are shared
by more than `upvar` and `uplevel`: `set y [set x]` (`SetAlias`), a parameter
(`Call`, `Parameters`), a result (`PopReturning`). `carried` is history: a label
has been brought to another namespace.

**Control** (`std.c`, `ext.c`, `tcl.c`, `repl.c`): the C calls in progress as a
stack of frames and the status code that travels between them. Every test of a
status in `Tcl_eval`, `Tcl_evalExpression`, the loops, `if`, `if#`, `or`,
`and`, `catch`, proc calls, `source` and the read loop is the choice of an
action named after it (`WhileBody`, `ForDecide`, `IfGuard`, `ReadResult` ...).
A program is free: which command comes next, with which status a simple one
returns, and what a guard evaluates to are choices; `TurnFalse` says that from
some moment on no guard is true and no line is typed. Arguments are taken to be
well formed; a wrong number of them is a simple command that returns BADCMD.
The history variable `handler` is computed when a status is raised, from the
table `Stops` alone, so that the actions are checked against a statement of
their own.

**Shell** (`tclsh.c`, `tcl.c`, `std.c`) puts main around it: options in any
order, each evaluated from an empty stack, then a script file or the read loop,
and the exit code, 8 bits of what main returns (`EightBits`). What an option
evaluates ends in two ways: after `-e` its status is just the last one
(`EndOfSource`), after `-I` and `--include` every status but OK ends the process
with 1 (`EndOfInclude`). `returnInfo`, the static variable of `tcl.c` that holds the
code of an `exit n`, is `info`; which exit carries a code is a choice
(`Evaluate`). `given` and `dropped` are history: the code of the exit on its
way, and whether one with a code was stopped.

**Splitting** (`tcl.c`, `value.c`) are functions of texts, a text being a
sequence of character classes: the scanner is one `Scanned` per character,
folded; `Joined`, `Unescaped` and `AsList` are what a list goes through to be a
text and a list again. **Texts** writes texts by the rules of quoting, together
with the parts they have by these rules (braces nest braces, brackets nest
brackets, quotes contain brackets, a backslash takes the next character), so
that the scanner is compared with a grammar and not with another scanner.

**LineEdit** (`LineRead.c`, `repl.c`): one action per key, through
`LineRead_readLine`, the key handler and the test for completeness. The buffer
is an array with what earlier texts left behind its Nul; `bufp`, the cursor of
LineRead, and the length of the text, which the handler goes by, are separate as
in the code. Where the code uses an index outside of the buffer or an entry that
is not there, the mode is `broken` and nothing follows. **Line** is what the
read loop may expect of any line editor, whatever its test for a complete text.

**StrRing** (`value.c`): the ring of buffers behind `TclValue_str`. A text is
its buffer and its length; `building` are the lists being joined, innermost
last, so that the elements of a list take buffers while the list is made in its
own. What a write hits is computed from places in the ring taken as one row of
bytes, as the two-dimensional array is. Elements go through the buffer of
`TclValue_str_esc`, where each byte may take two.

The `MC*` modules add the symmetry sets for TLC, and the name that LineEdit
completes.

## 3. What the runs check

All properties are commented in their modules; here is why they matter and
what the bounds leave in.

| Run | Shows | Bounds |
|---|---|---|
| `values` | `RefExact`: every count is the number of handles. `Ownership`: every handle has exactly one place that will delete it. `NoLeak`: when the callers are done nothing is allocated. `ListCoercionPrivate`: a container in use never turns into a list. | 4 handles, 4 containers, lists of up to 2: enough for a list in a list, an element shared by two lists and a caller, and a coercion that allocates list and elements |
| `cascade` | `CascadeEnds`: deletions of nested lists end. | 4 handles, 3 containers, lists of 1: a chain of lists; no symmetry because it is a liveness property |
| `lists` | `LinksInverse`, `WalksAgree` (the walk from either end sees all nodes in opposite order), `IsDeque` (refinement). | 5 nodes, 3 data: inner nodes with two neighbours on each side |
| `files` | `StaysTree` (no cycle, no lost entry), `StreamsHeld` (entries and open streams match one to one), `LookupsExact` and `IsStreamTable` (what a command gets) as long as no removal has relocated a subtree and no command crashed; a failure that is returned as OK counts as the failure it is. | 4 nodes, 3 streams, 4 names: the three standard streams and one more, all removals with two subtrees |
| `vars` | `RefExact` across expansion, procs, catch, or, and, upvar and uplevel; `SuspendedUntouched`: waiting procs keep the containers of their variables, and a command writes only to containers that it has itself, by a variable in sight, a result or a word (`Within`): one of these may be a waiting proc's variable too, and isolation goes no further. `FreedOnlyUnderVariable`: a string is copied onto itself, and so freed first, only if a variable on the stack, or a forgotten handle, has it. | 3 containers, 1 name, 3 activations, 1 forgotten handle per container: variable, result and word can all be one container or all differ |
| `shell` | `LandsAtHandler`: a status ends at exactly the frame that deals with it. `ExitCodeKept`: when main returns the status of an exit its code, in 8 bits, is that of the process, whatever exits were stopped before; after an exit in an included file it is 1. `ShellEnds`: with no guard true any more and no line typed, the process ends, whatever statuses bodies, lines and options return. | 5 frames, scripts of 2 commands, 2 elements or clauses, 1 option, 1 code (259, which does not fit in 8 bits): a loop in a loop, in a proc, under a catch, in a guard's bracket or in an inner read loop, each with a next command and a next element that may wrongly run; an exit stopped in the option and another one in the script |
| `split` | `SplitsByRules`: the parts of a text are those of the grammar. `CompleteByRules`: a text is complete when no group is open. `PartsExpand`: the expansion finds the end of every group that the split found. `CoercionStable`: a list that goes to a text and back comes back the same. | all texts of the grammar up to 6 characters out of 8 classes: two groups, three levels of nesting, an escape in a group |
| `lineedit` | `CursorAtEnd`: the two accounts of the cursor agree until a recall. `IsLine` (refinement): from a text with its cursor at the end, every key does what Line says. `LinesFit`: what an arrow copies back is a complete text that fits in the buffer, after recalls too. `EofAnswers`: a complete text at the end of the input ends the loop. | a buffer of 4, a word and a brace to type, a name of 2 to complete, words of 1 completed (128 in the code), 2 lines of history: full buffers, incomplete texts, recalls of longer and shorter lines |
| `ring` | `TextsIntact`: a text stays what it was for as many further texts as there are buffers, its own elements among them. `StaysInRing`: nothing is written outside of the ring or of the buffer that elements are escaped in. Both up to a list that fills half a buffer. | 3 buffers of 6 bytes, texts of up to 7, 1 text held, lists in lists: a list with more elements than buffers, a Nul in the next buffer and behind the last, an element longer than a buffer |
| `labels` | `NamespacesMatch`, `JumpsStayInProc` (until an upvar, an uplevel or an argument has carried a label to another namespace), `StaleOnlyIfCrossed`. | 2 labels, 2 names, 3 frames: a label in a label in a proc |

Two runs expect a violation; each states a promise of the repository's own
documentation that the code does not keep (section 5).

Deadlock is not checked in `values` and `cascade` (a program that has used up
the bounded memory, or has nothing left to do, stops), in `files` (the program dies
when it dereferences NULL), in `lineedit` and `ring` (likewise, and when it
aborts) and in `split` (a text is at most so long).

**Fairness.** In TclValue, `FairSpec` adds weak fairness of `Drain`: the
deletions are a loop and recursion in one thread that nothing can interrupt, so
the next one always comes. In Shell it adds weak fairness of `Evaluate` and
`Main`, the steps of the evaluator and of main: they too are one thread that
waits for nothing but a line (`gets` on a terminal is outside the model). That
guards turn false and no line comes is a hypothesis of `ShellEnds`, never
assumed. What a script calls next is its own choice and not fair. In LineEdit
the end of the input is fair: once `getchar` returns EOF it does so at once and
again. `FairSpec` spells this weak fairness out (`Waits` is when `EndOfInput` is
possible) because TLC takes very long to evaluate ENABLED of that action. Keys
are not fair.

## 4. Proofs

Every invariant, every action property and every refinement of the passing runs
is proved for all values of the constants; only liveness is not. The bounds of
the runs (depth, lengths, numbers of handles, nodes, names, buffers) are
parameters of the theorems; a proof uses the `ASSUME` of its module and nothing
else.

| Module | Theorems, and the property each states | Assumed of the constants |
|---|---|---|
| TclValueProofs | HeapTypes (`TypeOK`), CountsExact (`RefExact`), OneOwner (`Ownership`), AllReclaimed (`NoLeak`), ListsArePrivate (`ListCoercionPrivate`) | finitely many handles, `FREE` is no cell, lists have a bound |
| DListProofs | ListTypes (`TypeOK`), LinksAlwaysInverse (`LinksInverse`), WalksAlwaysAgree (`WalksAgree`), ListIsDeque (`IsDeque`) | finitely many nodes, NULL is none, data are integers |
| FilesProofs | FileTypes (`TypeOK`), AlwaysATree (`StaysTree`), OpenFilesHeld (`StreamsHeld`), LookupsFind (`LookupsExact`), CommandsAreStreamTable (`IsStreamTable`) | finitely many nodes, three at least, the names of the standard streams in their order, and no FILE of fopen is a standard one |
| TclVarsProofs | VariableTypes (`TypeOK`), HandlesCounted (`RefExact`), WaitingProcsKeepContainers (`SuspendedUntouched`), OnlyVariablesSelfAssign (`FreedOnlyUnderVariable`) | finitely many names; the other texts are no numbers |
| LabelsProofs | LabelTypes (`TypeOK`), NamespacesAndCalls (`NamespacesMatch`), JumpsAreLocal (`JumpsStayInProc`), OnlyCrossedAreStale (`StaleOnlyIfCrossed`) | `NIL` is no label |
| ShellProofs | ShellTypes (`ShellTypeOK`), StatusesLand (`LandsAtHandler`), ExitCodes (`ExitCodeKept`) | exit codes are integers |
| TextProofs | TextTypes (`TextsTypeOK`), RulesSplit (`SplitsByRules`), RulesComplete (`CompleteByRules`), RulesExpand (`PartsExpand`), Coercion (`CoercionStable`) | the bound on the length of texts is a natural number |
| TextProofs | EditorTypes (`TypeOK`), CursorsAgree (`CursorAtEnd`), RecallsFit (`LinesFit`), EditorIsALine (`IsLine`) | a buffer of at least one byte; a Nul is never typed, and names are typed characters |
| StrRingProofs | RingTypes (`TypeOK`), TextsLast (`TextsIntact`), RingHolds (`StaysInRing`) | at least one buffer, of more than two bytes |

None of the properties is inductive as it stands. What each needs besides:

- *Values.* That a deleted handle is live, and stands nowhere else, is what
  `Ownership` says, so `TypeOK /\ RefExact /\ Ownership` (`Sound`) is inductive.
  Within a step it does not hold: `TclValue_replace` has given up a reference and
  not yet taken the other, a coercion has made a list that no handle points to.
  `SoundBut(s, E, F)` allows exceptions, handles E that are between two places
  and cells F that have elements and no handle. A lemma per primitive says what it
  adds to E and F (`AttachSound`, `UnrefSound`, `FreeValueSound` ...), `Settle`
  takes a handle out of E again, and a lemma per value.h function composes them so
  that both sets end empty. `NoLeak` needs more: counts alone never reclaim a
  cycle. `Acyclic` says that the containers have ranks that fall from a list to its
  elements' containers, and each function is shown to keep it, `ListPush` because
  the list pushed to is fresh and unshared, so that nothing stands above it.
- *Lists.* `TypeOK /\ LinksInverse` is inductive, but says nothing about order and
  allows a ring beside the list. `CInv` says that the nodes in use are those of one
  sequence without repetition, along which both chains run. Each operation is the
  sequence operation of `Deque` on it, hence `WalksAgree` and the refinement.
- *Tables.* `Linked`: links lead to nodes in use, one to each node and none to the
  head. `Rooted`: a set with the head in it that is closed under links has all
  nodes. Together they exclude cycles and lost nodes, and they say of a removal
  what matters: the node that is freed was on no other path than the one that is
  cut. `Searchable`: from the head, the search by names meets every node; it
  survives a removal because the subtrees that move keep the side they are on,
  which is what `relocated` is the exception of. `Streamed` relates the streams to
  the entries. `FInv` is their conjunction; while it holds and nothing has been
  relocated, an entry is its name, and every command is the one of
  `StreamTable` with the result that `silent` corrects.
- *Variables.* Counts change by what a command takes and deletes, so that they are
  exact only if what an activation loses is what its end deletes: brackets,
  catch, or and and have a result and no variables, procs and uplevels no result (`Framed`,
  `Scopeless`). `Total` is the sum of the handles of a stack as a fold, and the
  lemmas say what a change of one activation does to it. For
  `FreedOnlyUnderVariable`, exact counts are not enough, since a result and a word
  may well share a container: `Apart` says that a container that no variable has,
  and whose count is right, is in one result or word at most, seen from the
  activation that runs (`Alone`) and from each proc or uplevel that waits
  (`AloneBelow`). With it, whoever assigns a container to itself or appends it to
  itself does so under a variable (`Exposed`).
- *Labels.* Frames and namespaces are related by the number of frames that push
  one (`PushedIn`, `Matches`). As long as no label has been carried, a label that
  is still to be jumped to is bound only where its frame is, by whatever names
  (`BoundWhereMade`), so that what a jump finds is in its proc: set copies it
  within one namespace, and the result of a call only after its frames are gone.
- *Shell.* `Handles(h, calls, s)` is the table `Stops` put the way the actions
  need it: frame h stops the status, no frame above it does. It is kept by
  unwinding one frame at a time (`HandlerOfOuter`). `ExitRight` relates the code of
  the exit on its way to the static variable, and to whether an exit was stopped.
- *Splitting.* The grammar says nothing about a scanner, so the proof relates each
  group to what any scan does over it: `Inert(q, b, r, x)` says that a scan that is
  in quotes or not (q), b braces and r brackets deep, is so again after x and
  within a group all the while. What a group can contain is inert, by the least
  length that would not be (`ContentInert`). Then `TextsInv` is inductive: the
  scanner has the parts written so far and is either outside of everything, with
  the part that is being written, or within an open group.
- *Expansion.* `findMatching` and the scanner of the split are two pieces of code
  that count alike: the depth of the one is the level of the other as long as a
  group lasts (`GroupMatched`), and quotes end where they do if nothing in them is
  escaped (`QuotesMatched`). `Passing(x)` says that wherever x stands the expansion
  gets from its beginning to the place after it. Characters, escapes and groups are
  passing, and what is passing can be put together (`PassingConcat`).
- *Coercion.* The parts of a list, their backslashes gone, are `Wholes`: scanned
  on its own, each is one part (`Tidy` is the invariant of the scan). Their
  blanks are escaped when the list is joined and are blanks again in the coercion,
  so that the same parts with a delimiter between them are scanned; a scan starts
  afresh at each (`Restarts`) and finds them (`JoinedAgain`).
- *Line editor.* Every line of the history fits in the buffer, since the arrows
  copy it back (`LinesFit` is a part of the invariant); the buffer always has a Nul, so that the text is defined. A lemma
  per key gives the text after it from the text before.
- *Ring.* Where a text is follows from how many were begun after it (`Placed`), so
  two texts that are still good are never in the same buffer. Texts are in the
  order in which they were begun (`Before`), so that the one who writes has the
  newest text, or one that all newer ones belong to.

The inductive invariants were first checked with TLC on the constants of the
runs. Arguments by induction over a length or a walk are made by the least (or
greatest) counterexample: `LeastElement` follows from the well-foundedness of
finite sets under inclusion, `FS_StrictSubsetOrderingWellFounded`. Recursive
functions and folds are taken as the functions they CHOOSE, after a proof that
one exists (`WalkIs`, `FoldsAre`, `ScanExists`, `ExpandExists` ...); what holds of
texts of every length is stated of a set of texts (`AllSequences`).

The proofs changed the models where these were wrong. `Control`, `LineEdit` and
`Splitting` had CASE expressions with arms that overlapped: TLC takes the first
that holds, the definition any, so the order of the code's tests was not in the
model; they are IF chains now. `LineEdit` did not exclude that a Nul is typed.
`FreedOnlyUnderVariable` spoke of the variables in sight and held under the old
bound on counts only: a variable further down the stack can have the container.
Recursive operators of `Splitting` and `Texts` became functions and a flattening
(`Expands`, `Unescaped`), which the provers can reason about.

Only model-checked:

- `CascadeEnds`, `ShellEnds`, `EofAnswers`: liveness under fairness, out of reach
  of the prover.

## 5. What the code does differently

The first two have a run whose counterexample shows them; they are listed under
`findings` in PROJECT.json.

1. `List_insertBefore` (List.c:102-117) never sets `next` of the node before
   the new one: a value that `List_add` sorts into the middle is missing from
   walks from the head (`list_inserted`).
2. The result handle keeps sharing the variable that the previous `set` named:
   `set x 5; add 1 2` leaves 3 in x (`vars_compute`).

The rest is in the models as steps of their own or as the exceptions that a
property names.

- Tables. `BTree_findParent_` (BTree.c:111-139) looks two levels deep only, and
  `BTree_remove` dereferences its NULL: `close` of an entry further down, and
  `close stderr` at once, dies (`crashed`). `BTree_remove` relocates a subtree by
  comparing a name with a pair, after which entries are not found and `Hash_get`
  makes second ones (`Spliced`, the exception `relocated` of `LookupsExact`).
- File commands. `open` does not notice a fopen that fails: io.c:33 says that it
  "returns a fileid associated with the file", and it returns OK and an id of no
  file (`Open`, `silent`). `gets id x` with an x that exists dereferences NULL after it has
  read the line (io.c:72-78, `Gets`). `puts text` after `close stdout` prints to a
  closed FILE and returns OK (`PutsStdout`, `silent`).
- Statuses. `exit` in the body of a loop is ignored, so `while {1} {exit}` never
  ends (`WhileBody`); so it is in `or` and `and`, and an inner read loop stops
  it (`LogicNext`, `ReadResult`). `for` evaluates its guard once and never again
  (`ForGuard`, the exception `ForGoesOn` of `ShellEnds`). `if` drops the status
  of its first guard, `if#` does not (`IfGuard`, `IfHashGuard`). A `return` in a
  `for` or `foreach` ends the loop and not the proc, in a `while` both.
- Exit codes. `exit n` (std.c:255: "exits the program with the status
  returncode") in a file that `-I` or `--include` evaluates ends the process with
  1 (`EndOfInclude`, the last part of `ExitCodeKept`). A plain `exit` (std.c:255: "a default value of 0") ends with the
  code of an earlier `exit n` that was stopped (`dropped` in `ExitCodeKept`). A
  bad option sets the status to 1, which is TCL_RETURN, and the process ends
  with 0 (`BadOption`). `exit 256` ends with 0, as the system keeps 8 bits
  (`EightBits`). An exit in an `-e` does not end anything: the next option or the
  script follows (`EndOfSource`). `--e` is a known option that does nothing
  (`Ignored`). A script that is read through the loop ends with 0
  whatever it exits with (`ReadResult`), and its last line is dropped when it
  has no newline (`ReadEnd`).
- Labels. A jump past an inner label leaves that label valid with its frame gone
  (`crossed` in `StaleOnlyIfCrossed`). A jump out of an uplevel, or
  out of a proc that got the label as an argument (`proc p {l} {leave l}; label L
  {p [set L]}`), leaves its namespace on the stack (`NamespacesMatch`).
- Values. `set x [set x]` copies a string that was freed just before (`SetOld`,
  the text `junk`), and `return`, `catch` and a second bracket in a word do so
  likewise, only ever where a variable on the stack, or a handle that `uplevel` or
  `upvar` forgot, has the container too (`FreedOnlyUnderVariable`).
  `[set x]abc` appends to x itself, and `[set x]$x` appends the string to itself
  while realloc moves it (`CloseBracket`, `Literal`, `Substitute`). `or` coerces
  the variable that its script returned to an integer, and `and` empties it for
  the next one (`OrNext`, `AndNext`); a callee's
  assignment to a parameter reaches the caller's variable when the argument was
  `[set x]` (`Call`); `uplevel` forgets a reference for every name that both
  namespaces have (`Uplevel`, `lost`).
- Texts. A list's closing Nul lands at twice its length (value.c:324): from half
  a buffer on it is in the next buffer, or behind the ring (`ListEnd`, the
  exception `near`). An element that takes a whole buffer once its blanks are
  escaped is written past the end of the static one (value.c:463, `Spills`). A
  list whose text exactly fills its buffer aborts the program at its next element
  (`Abort`), and so does an element that is longer than the static buffer
  (`AbortLong`). A coercion to a list drops every backslash, so an element with a
  blank falls apart the first time, and stays as it is from then on
  (`CoercionStable`).
- Splitting. A part that ends in an escaped delimiter before a delimiter is lost
  (tcl.c:541, `Loses`). About escapes in braces and brackets, an opening brace in
  quotes (`"{"` is split as a whole and then UNMATCHED) and quotes in brackets in
  quotes, split and expansion disagree (`plain` in `PartsExpand`).
- Line editor. A recall leaves the cursor where it was, so that Ctrl-D after it
  ends the session instead of the line, and a completion writes its blank into
  the middle or behind the text (`Looks`, the exception `Recalled`). Arrow down
  on a new line asks for history entry -1 (`Looks`). Nothing limits a text
  to the buffer, and an incomplete text at the end of the input runs into its
  end (`Eof`).

## 6. Not modelled, and why

Number formats, the bytes of files and directory listings are data no property
here depends on. The static buffer of `TclValue_str_unesc` is left out of
StrRing: it is used by coercions only, which split it at once. Keyed variables (`$x(key)`), variable argument lists and `unset` are not
in TclVars; the last one gives the address of a field away as a handle, which
has no meaning a model could follow. The other builtins (strings, lists,
directories, range, take, drop) go once from arguments to a result and keep no
state. `use` runs code of other libraries, `regexp.c` and `mathexpr` wrap code
that is not in the repository. `SkipList.c` is unfinished, `Vector.c` and
`EString.c` are not used by the interpreter, the bindings do not match the
current interface.

## 7. Plan

Done: values and their texts, lists, tables with files, variables and words,
splitting, control commands, the read loop and the shell, labels, the line
editor.

The proofs cover what the runs check, but for liveness. Left for the models:

1. Variable argument lists and `unset` in TclVars, once lists are values there.
2. take, drop and range with the boundaries of their indices.
