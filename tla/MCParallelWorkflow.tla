------------------------- MODULE MCParallelWorkflow -------------------------
(* TLC instances of ParallelWorkflow.  Members, monitors and reapers are   *)
(* interchangeable; the run for liveness uses no symmetry.                 *)
EXTENDS ParallelWorkflow, TLC

Symmetry ==
  Permutations(Members) \cup Permutations(Monitors) \cup Permutations(Reapers)
=============================================================================
