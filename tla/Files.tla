------------------------------- MODULE Files -------------------------------
(***************************************************************************)
(* The file commands (src/src/io.c): open, close, gets, flush and puts     *)
(* over the table "files", which maps file ids to C streams.               *)
(*                                                                         *)
(*   table     the Hash "files"                                            *)
(*   stream    the data of each pair: a FILE, or NULL                      *)
(*   opened    the FILEs that were opened and fclose has not closed        *)
(*   crashed   a NULL pointer was dereferenced                             *)
(*   result    what the last command returned                              *)
(*                                                                         *)
(* and two histories, which no action reads:                               *)
(*                                                                         *)
(*   relocated a removal has moved a subtree                               *)
(*   silent    the last command failed and returned OK                     *)
(***************************************************************************)
EXTENDS HashTree

CONSTANTS Streams,                  \* FILEs fopen can return
          Stdout, Stdin, Stderr     \* the standard streams, by their names

\* The FILE of a standard stream, which fopen never returns again, is named as
\* the file id TclIO_register enters for it.
Std == {Stdout, Stdin, Stderr}
FILEs == Streams \cup Std

ASSUME FilesAssumption ==
    /\ Std \subseteq Names
    /\ Stderr < Stdin /\ Stdin < Stdout
    /\ Cardinality(Nodes) >= 3
    /\ NULL \notin FILEs /\ Streams \cap Std = {}

VARIABLES table, stream, opened, crashed, result, relocated, silent
vars == <<table, stream, opened, crashed, result, relocated, silent>>

\* Every command looks its file id up and so makes an entry for it.
Lookup(x, n) == ~crashed /\ table' = Got(table, x, n)

\* Mutants: an open file id is opened again; the name is stored for the stream.
OpenAgain(x, n) ==
    LET e == Entry(table, x, n) IN
    /\ Lookup(x, n)
    /\ \E f \in Streams \ opened :
          /\ stream' = [stream EXCEPT ![e] = f]
          /\ opened' = opened \cup {f}
    /\ result' = "OK" /\ silent' = FALSE /\ UNCHANGED <<crashed, relocated>>
OpenName(x, n) ==
    LET e == Entry(table, x, n) IN
    /\ Lookup(x, n)
    /\ stream[e] = NULL /\ stream' = [stream EXCEPT ![e] = x]
    /\ result' = "OK" /\ silent' = FALSE /\ UNCHANGED <<opened, crashed, relocated>>

\* open: an entry with a stream is an error; a fopen that fails goes unnoticed.
Open(x, n) ==
    LET e == Entry(table, x, n) IN
    /\ Lookup(x, n)
    /\ \/ /\ stream[e] # NULL
          /\ result' = "EXCEPTION" /\ silent' = FALSE
          /\ UNCHANGED <<stream, opened>>
       \/ /\ stream[e] = NULL
          /\ \/ silent' = TRUE /\ UNCHANGED <<stream, opened>>
             \/ \E f \in Streams \ opened :
                   /\ stream' = [stream EXCEPT ![e] = f]
                   /\ opened' = opened \cup {f} /\ silent' = FALSE
          /\ result' = "OK"
    /\ UNCHANGED <<crashed, relocated>>

\* close: the stream is closed and its entry removed from the table.
CloseUnknown(x, n) ==
    /\ Lookup(x, n)
    /\ stream[Entry(table, x, n)] = NULL
    /\ result' = "EXCEPTION" /\ silent' = FALSE
    /\ UNCHANGED <<stream, opened, crashed, relocated>>

Close(x, g) ==
    LET e == Found(table, x) IN
    /\ ~crashed
    /\ e # NULL /\ stream[e] # NULL
    /\ opened' = opened \ {stream[e]}
    /\ stream' = [stream EXCEPT ![e] = NULL]
    /\ \/ /\ RemoveCrashes(table, e)
          /\ crashed' = TRUE /\ UNCHANGED <<table, result, relocated, silent>>
       \/ /\ ~RemoveCrashes(table, e)
          /\ table' = Removed(table, e, g)
          /\ relocated' = (relocated \/ Relocates(table, e))
          /\ result' = "OK" /\ silent' = FALSE /\ UNCHANGED crashed

\* Mutant: a file id without a stream goes unnoticed.
PutsAny(x, n) ==
    /\ Lookup(x, n)
    /\ result' = "OK" /\ silent' = FALSE
    /\ UNCHANGED <<stream, opened, crashed, relocated>>

\* flush, and puts to a file id: an error without a stream.
Puts(x, n) ==
    /\ Lookup(x, n)
    /\ result' = IF stream[Entry(table, x, n)] = NULL THEN "EXCEPTION" ELSE "OK"
    /\ silent' = FALSE /\ UNCHANGED <<stream, opened, crashed, relocated>>

\* gets: the same, but a line read for a variable that exists is assigned
\* through a pointer that only a new variable sets.
Gets(x, n) ==
    \/ Puts(x, n)
    \/ /\ Lookup(x, n)
       /\ stream[Entry(table, x, n)] # NULL
       /\ crashed' = TRUE /\ UNCHANGED <<stream, opened, result, relocated, silent>>

\* puts without a file id goes to the C library's stdout, not through the table,
\* and succeeds even if that was closed.
PutsStdout ==
    /\ ~crashed
    /\ result' = "OK" /\ silent' = (Stdout \notin opened)
    /\ UNCHANGED <<table, stream, opened, crashed, relocated>>

\* TclIO_register: the standard streams are entered in this order.
Init ==
    \E n \in [Std -> Nodes] :
       /\ \A x, y \in Std : n[x] = n[y] => x = y
       /\ table = Got(Got(Got(EmptyTable, Stdout, n[Stdout]), Stdin, n[Stdin]),
                      Stderr, n[Stderr])
       /\ stream = [m \in Nodes |->
                      IF m \in table.used THEN table.name[m] ELSE NULL]
       /\ opened = Std
       /\ crashed = FALSE /\ relocated = FALSE /\ silent = FALSE /\ result = "OK"

\* Where the bytes of a pair can fall among the names.
Cuts == Names \cup {x + 1 : x \in Names}

Next == \/ \E x \in Names : \E n \in Spares(table, x) : Open(x, n)
        \/ \E x \in Names : \E n \in Spares(table, x) : Puts(x, n)
        \/ \E x \in Names : \E n \in Spares(table, x) : Gets(x, n)
        \/ \E x \in Names : \E n \in Spares(table, x) : CloseUnknown(x, n)
        \/ \E x \in Names, g \in Cuts : Close(x, g)
        \/ PutsStdout

Spec == Init /\ [][Next]_vars

-----------------------------------------------------------------------------
(* Properties.                                                             *)

\* Every part of the state has its type.
TypeOK == /\ table \in Tables
          /\ stream \in [Nodes -> FILEs \cup {NULL}]
          /\ opened \subseteq FILEs
          /\ crashed \in BOOLEAN /\ relocated \in BOOLEAN /\ silent \in BOOLEAN
          /\ result \in {"OK", "EXCEPTION"}

\* Removals keep the links a tree of all the nodes in memory: relocating a
\* subtree neither loses it nor makes a cycle (BTree_remove), even when the
\* place it goes to is the wrong one.
StaysTree == ~crashed => IsTree(table)

\* The entries hold exactly the open FILEs, each in one entry: whatever file id a
\* command names, the stream it gets is open, none is closed twice and none is
\* leaked, even when a name has come to have two entries.
StreamsHeld ==
    LET holders == {n \in table.used : stream[n] # NULL} IN
    /\ {stream[n] : n \in holders} = opened
    /\ Cardinality(holders) = Cardinality(opened)

\* As long as no removal moves a subtree, every lookup finds its entry: taking
\* out a node with one child keeps the order of the tree.
LookupsExact == ~relocated /\ ~crashed => Searchable(table)

\* Until a removal relocates or a command crashes, the commands implement a table
\* of streams, each the one it is named for, if a failure that goes unnoticed
\* counts as one: every other result is that of the abstract command, and none
\* opens or closes another file id than its own.
OpenNames == {table.name[n] : n \in {m \in table.used : stream[m] # NULL}}
HasOutput == Stdout \in opened
Outcome == IF silent THEN "EXCEPTION" ELSE result
Abstract == INSTANCE StreamTable WITH
    Initial <- Std, Output <- Stdout,
    open <- OpenNames, output <- HasOutput, result <- Outcome
Refines(x) ==
    /\ (\E n \in Spares(table, x) : Open(x, n)) => Abstract!Open(x)
    /\ (\E n \in Spares(table, x) : Puts(x, n)) => Abstract!Use(x)
    /\ (\E n \in Spares(table, x) : Gets(x, n)) => Abstract!Use(x)
    /\ (\E n \in Spares(table, x) : CloseUnknown(x, n)) => Abstract!Close(x)
    /\ (\E g \in Cuts : Close(x, g)) => Abstract!Close(x)
IsStreamTable ==
    /\ Abstract!Init
    /\ [][~relocated' /\ ~crashed' =>
            /\ [Abstract!Next]_<<OpenNames, HasOutput, Outcome>>
            /\ PutsStdout => Abstract!PutsStdout
            /\ \A x \in Names : Refines(x)]_vars
=============================================================================
