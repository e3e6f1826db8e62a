----------------------------- MODULE MCLineEdit -----------------------------
(* LineEdit with one name to complete.                                     *)
EXTENDS LineEdit

MCNames == {<<"w", "w">>}
=============================================================================
