-------------------------- MODULE MCExecutionGraph --------------------------
(* TLC instance of ExecutionGraph: a node, and a gated node after it.      *)
EXTENDS ExecutionGraph

Line == {<<1, 2>>}
=============================================================================
