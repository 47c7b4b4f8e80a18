---------------------------- MODULE MCStreamRelay ----------------------------
(***************************************************************************)
(* Values of StreamRelay's constants for the model checker.                *)
(***************************************************************************)
EXTENDS StreamRelay, TLC

Symmetry == Permutations(Task) \cup Permutations(Id)
=============================================================================
