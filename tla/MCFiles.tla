------------------------------ MODULE MCFiles ------------------------------
(* TLC instances of Files: nodes and streams are interchangeable.          *)
EXTENDS Files, TLC

MCSymmetry == Permutations(Nodes) \cup Permutations(Streams)
=============================================================================
