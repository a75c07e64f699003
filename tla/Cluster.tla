------------------------------- MODULE Cluster -------------------------------
(***************************************************************************)
(* What a cluster does beside running tasks: the lanes its pushers drain,  *)
(* and its sweep, that of Retention, beside the rows of Retention's        *)
(* constants or beside a batch.  The lanes are seen twice, from a process  *)
(* whose threads enqueue and build brokers under a patched Conf, and from  *)
(* pushers that share them while locks run out.  The initial state chooses *)
(* the system at work.                                                     *)
(***************************************************************************)
EXTENDS Retention

CONSTANTS
  Messages, Clusters, Own, Draining, Callers, Pushers, Home, MaxLeases,  \* lanes
  SendPushers, SendRequests, SendBulk,   \* where the threads enqueue
  PollCallers, PollRequests, PollBulk,   \* where the pushers compete
  BatchTasks, BatchWorkflows, BatchOwner, BatchGraph     \* the batch

VARIABLES
  which,   \* the system at work
  l_row, l_conf, l_cache, l_call, l_scan, l_astray, l_early

l_vars == <<l_row, l_conf, l_cache, l_call, l_scan, l_astray, l_early>>
suite == <<which, l_vars, vars>>

Send == INSTANCE PriorityLanes WITH
  Requests <- SendRequests, Bulk <- SendBulk,
  row <- l_row, conf <- l_conf, cache <- l_cache, call <- l_call,
  scan <- l_scan, astray <- l_astray, early <- l_early

Poll == INSTANCE PriorityLanes WITH
  Requests <- PollRequests, Bulk <- PollBulk,
  row <- l_row, conf <- l_conf, cache <- l_cache, call <- l_call,
  scan <- l_scan, astray <- l_astray, early <- l_early

Batch == INSTANCE Retention WITH
  Tasks <- BatchTasks, Workflows <- BatchWorkflows, Chains <- {},
  Owner <- BatchOwner, InGraph <- BatchGraph

ASSUME ClusterAssumption ==
  /\ Send!LanesAssumption /\ Poll!LanesAssumption
  /\ SendPushers \subseteq Pushers /\ PollCallers \subseteq Callers
  /\ RetentionAssumption /\ Batch!RetentionAssumption
-----------------------------------------------------------------------------
SuiteInit ==
  /\ which \in {"send", "poll", "chain", "batch"}
  /\ Send!Init
  /\ IF which = "chain" THEN Init ELSE Batch!Init

(* Only the system at work moves, and there only its callers and pushers.  *)
SuiteNext ==
  /\ UNCHANGED which
  /\ \/ /\ which = "send" /\ Send!Next /\ UNCHANGED vars
        /\ \A p \in Pushers \ SendPushers : UNCHANGED l_scan[p]
     \/ /\ which = "poll" /\ Poll!Next /\ UNCHANGED vars
        /\ \A t \in Callers \ PollCallers : UNCHANGED l_call[t]
     \/ which = "chain" /\ Next /\ UNCHANGED l_vars
     \/ which = "batch" /\ Batch!Next /\ UNCHANGED l_vars

(* The fairness of each system, while it is the one at work. *)
While(system, A) == which = system /\ A

SuiteFairness ==
  /\ \A p \in SendPushers : WF_l_vars(While("send", Send!Pusher(p)))
  /\ \A t \in Callers :
       WF_l_vars(While("send", Send!Build(t) \/ Send!Built(t) \/ Send!Put(t)))
  /\ \A p \in Pushers : WF_l_vars(While("poll", Poll!Pusher(p)))
  /\ \A t \in PollCallers :
       WF_l_vars(While("poll", Poll!Build(t) \/ Poll!Built(t) \/ Poll!Put(t)))
  /\ \A t \in Tasks : WF_vars(While("chain", Finish(t)))
  /\ SF_vars(While("chain", Age)) /\ WF_vars(While("chain", Sweeper))
  /\ \A g \in Generations : WF_vars(While("chain", Dispatch(g)))
  /\ \A t \in BatchTasks : WF_vars(While("batch", Batch!Finish(t)))
  /\ SF_vars(While("batch", Batch!Age)) /\ WF_vars(While("batch", Batch!Sweeper))
  /\ \A g \in Generations : WF_vars(While("batch", Batch!Dispatch(g)))

SuiteSpec == SuiteInit /\ [][SuiteNext]_suite /\ SuiteFairness
-----------------------------------------------------------------------------
(* Whatever is patched while brokers are built, a message lands in a lane  *)
(* that some pusher drains (brokers.py).                                   *)
EveryLaneIsDrained ==
  /\ which = "send" => Send!TypeOK /\ Send!EveryLaneIsDrained
  /\ which = "poll" => Poll!TypeOK /\ Poll!EveryLaneIsDrained

(* A row is leased only when its lock has run out, and past a row of a     *)
(* higher lane only by a poller that lost a race for that lane (brokers).  *)
LanesInOrder == Poll!LeasedWhenReady /\ Poll!LanesInOrder

(* Every message is served in the end, and what stays settled is pruned,   *)
(* the dispatch rows of its hooks included (brokers.py, retention.py).     *)
NothingPilesUp ==
  /\ which = "poll" => Poll!LanesDrain
  /\ which \in {"chain", "batch"} => Batch!PrunedInTheEnd
=============================================================================
