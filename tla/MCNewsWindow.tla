----------------------------- MODULE MCNewsWindow -----------------------------
(***************************************************************************)
(* Recipients and runs are interchangeable: no definition tells one from the    *)
(* other, and only safety is checked.                                         *)
(***************************************************************************)
EXTENDS NewsWindow, TLC

Symmetry == Permutations(Recipients) \cup Permutations(Runs)
=============================================================================
