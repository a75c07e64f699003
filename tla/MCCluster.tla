----------------------------- MODULE MCCluster -----------------------------
(* A TLC instance of Cluster: two lanes-polling pushers, two threads that  *)
(* enqueue; a chain and a graph of one task; a batch that is a node.       *)
EXTENDS Cluster

PusherHome == [p \in Pushers |-> "q"]
SendWork == {<<"q", TRUE, "high">>, <<"web", TRUE, "high">>, <<"web", FALSE, "high">>}
PollWork == {<<"q", TRUE, "high">>, <<"q", TRUE, "low">>}

StepOwner == [t \in Tasks |-> IF t = "step" THEN "chain" ELSE "none"]
MemberOwner == [t \in BatchTasks |-> "batch"]
=============================================================================
