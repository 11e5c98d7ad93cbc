----------------------------- MODULE MCManualRun -----------------------------
(***************************************************************************)
(* Two runs told to write the same capture, fixtures of two files.         *)
(***************************************************************************)
EXTENDS ManualRun, TLC

CONSTANTS r1, r2, a, b

OneState == {"interrupted"}

OneBuilt == {[n \in Name |-> a]}

Symmetry == Permutations(Run)
=============================================================================
