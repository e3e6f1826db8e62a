------------------------------ MODULE MCLabels ------------------------------
(* TLC instances of Labels: objects and names are interchangeable.         *)
EXTENDS Labels, TLC

MCSymmetry == Permutations(Objects) \cup Permutations(Names)
=============================================================================
