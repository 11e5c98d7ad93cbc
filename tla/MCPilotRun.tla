----------------------------- MODULE MCPilotRun -----------------------------
(***************************************************************************)
(* One or two runs of one arm, fixtures of one or two files.               *)
(***************************************************************************)
EXTENDS PilotRun, TLC

CONSTANTS r1, r2, a, b

OneBuilt == {[n \in Name |-> a]}

Symmetry == Permutations(Run)
=============================================================================
