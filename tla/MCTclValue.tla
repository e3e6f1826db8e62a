----------------------------- MODULE MCTclValue -----------------------------
(* TLC instances of TclValue: handles and cells are interchangeable.       *)
EXTENDS TclValue, TLC

MCSymmetry == Permutations(Handles) \cup Permutations(Cells)
=============================================================================
