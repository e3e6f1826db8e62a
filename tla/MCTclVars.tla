----------------------------- MODULE MCTclVars -----------------------------
(* TLC instances of TclVars: cells are interchangeable.                    *)
EXTENDS TclVars, TLC

MCSymmetry == Permutations(Cells)
=============================================================================
