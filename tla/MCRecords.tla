----------------------------- MODULE MCRecords -----------------------------
(* The TLC instance of Records: a gated chain of three steps and a short   *)
(* one without a gate, a graph of two roots that meet in a third node, two *)
(* callers, and the policies, prices and rows below.                       *)
EXTENDS Records, TLC

Symmetry == Permutations(Callers)

JoinEdges == {<<1, 3>>, <<2, 3>>}

ExceptionNames == {"RateLimited", "Timeout"}
SomePolicies ==
  [max_attempts: {3}, base_delay: {5, 20},
   backoff_strategy: {"fixed", "linear", "exponential"}, jitter_max: {0, 50},
   retry_exceptions: {{}, {"Timeout"}}, skip_exceptions: {{}, {"RateLimited"}},
   rate_limit_exceptions: {{"RateLimited"}, ExceptionNames}, rate_limit_max_delay: {5, 100}]

(* Two attempts of one task and one of another; a price that may change.   *)
TaskOfAttempt == [a \in {"a1", "a2", "b1"} |-> IF a = "b1" THEN "b" ELSE "a"]
=============================================================================
