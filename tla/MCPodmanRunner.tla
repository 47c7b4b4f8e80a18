--------------------------- MODULE MCPodmanRunner ---------------------------
(* PodmanRunner for the model checker.                                     *)
EXTENDS PodmanRunner
=============================================================================
