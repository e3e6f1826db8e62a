------------------------------ MODULE MCDList ------------------------------
(* TLC instances of DList: nodes are interchangeable.                      *)
EXTENDS DList, TLC

MCSymmetry == Permutations(Nodes)
=============================================================================
