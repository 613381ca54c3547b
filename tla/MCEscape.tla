------------------------------ MODULE MCEscape ------------------------------
(* Programs of two names, which are interchangeable. *)
EXTENDS Escape, TLC

CONSTANTS n1, n2

MCNames == {n1, n2}
MCSymmetry == Permutations(MCNames)
ParamsShadow == {"PARAM"}
ForsShadow == {"FOR"}
VarsShadow == {"VAR"}
=============================================================================
