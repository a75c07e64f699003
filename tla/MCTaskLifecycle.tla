-------------------------- MODULE MCTaskLifecycle --------------------------
(* TLC instances of TaskLifecycle.  Slots, monitors, reapers and operators *)
(* are interchangeable among themselves; the runs that use the symmetry    *)
(* check no liveness.                                                      *)
EXTENDS TaskLifecycle, TLC

Symmetry ==
  Permutations(Slots) \cup Permutations(Monitors)
    \cup Permutations(Reapers) \cup Permutations(Operators)
=============================================================================
