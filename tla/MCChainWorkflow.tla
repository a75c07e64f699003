-------------------------- MODULE MCChainWorkflow --------------------------
(* TLC instances of ChainWorkflow.  Reapers and operators are interchangeable. *)
EXTENDS ChainWorkflow, TLC

Symmetry == Permutations(Reapers) \cup Permutations(Operators)
=============================================================================
