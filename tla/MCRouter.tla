------------------------------ MODULE MCRouter ------------------------------
(***************************************************************************)
(* Router for TLC: displays are interchangeable.  Renderers are not, since *)
(* a run says which of them may crash.                                     *)
(***************************************************************************)
EXTENDS Router, TLC

Symmetry == Permutations(Displays)
=============================================================================
