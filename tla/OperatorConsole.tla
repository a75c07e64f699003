-------------------------- MODULE OperatorConsole --------------------------
(***************************************************************************)
(* The dashboard's buttons (dashboard/views.py) and the admin's actions:   *)
(* which of them a page shows, what the request does when it arrives, and  *)
(* what it answers.  Several people press them at once, and the system     *)
(* goes on between a page, a request and the transaction inside it.  One   *)
(* behaviour is about one task, one chain or one graph of three nodes:     *)
(* `work`, `review`, a gate, and `later` after both.                       *)
(***************************************************************************)
EXTENDS Integers, FiniteSets

CONSTANTS
  Operators,     \* people at the dashboard
  MaxNumber,     \* bound: attempts of the task
  MaxGeneration  \* bound: generations of the graph

ConsoleAssumption == MaxNumber \in Nat \ {0} /\ MaxGeneration \in Nat \ {0}

VARIABLES
  task,      \* its status and the number of its newest attempt
  chain,     \* its status, and whether settled_at is set
  graph,     \* its status and generation
  node,      \* QraftGraphNode.status
  req,       \* each operator's request
  requeues,  \* history: requeues and retries that were accepted
  gate       \* history: how often the gate parked, and was decided

rows == <<task, chain, graph, node>>
vars == <<task, chain, graph, node, req, requeues, gate>>

Nodes == {"work", "later", "review"}
After == [n \in Nodes |-> IF n = "later" THEN {"work", "review"} ELSE {}]
Gated == {"review"}

Dead == {"FAILED", "EXHAUSTED"}
Cancellable == {"PENDING", "RUNNING", "WAITING_APPROVAL"}
LiveGraph == {"RUNNING", "WAITING_APPROVAL"}
ValidTransitions ==
  {<<"PENDING", "RUNNING">>, <<"PENDING", "CANCELLED">>,
   <<"RUNNING", "WAITING_APPROVAL">>, <<"RUNNING", "SUCCEEDED">>,
   <<"RUNNING", "FAILED">>, <<"RUNNING", "CANCELLED">>,
   <<"WAITING_APPROVAL", "RUNNING">>, <<"WAITING_APPROVAL", "CANCELLED">>,
   <<"FAILED", "RUNNING">>}

Buttons ==
  {<<op, "none">> : op \in {"requeue", "approve_chain", "reject_chain", "cancel_chain",
                            "cancel_graph", "resume_graph"}}
  \cup {<<op, n>> : op \in {"skip_node", "approve_node", "reject_node"}, n \in Nodes}
Refusals == {"409", "500"}
Answers == {"200", "already"} \cup Refusals

TypeOK ==
  /\ task \in [status: {"absent", "PENDING", "RUNNING", "SUCCEEDED"} \cup Dead,
               number: 1..MaxNumber]
  /\ chain \in [status: {"absent", "SUCCEEDED", "FAILED", "CANCELLED"} \cup Cancellable,
                settled: BOOLEAN]
  /\ graph \in [status: {"absent", "SUCCEEDED", "FAILED", "CANCELLED"} \cup LiveGraph,
                generation: 1..MaxGeneration]
  /\ node \in [Nodes -> {"PENDING", "RUNNING", "WAITING_APPROVAL", "SUCCEEDED",
                         "FAILED", "SKIPPED", "CANCELLED"}]
  /\ req \in [Operators -> [pc: {"idle", "sent", "loaded", "numbered"} \cup Answers,
                            button: Buttons, number: 0..MaxNumber + 1,
                            due: BOOLEAN]]
  /\ requeues \in 0..MaxNumber
  /\ gate \in [parked: Nat, decided: Nat]
-----------------------------------------------------------------------------
(* The graph of the three nodes (graphs.py; ExecutionGraph has the whole). *)

Ready(ns) ==
  {n \in Nodes : ns[n] = "PENDING" /\ \A d \in After[n] : ns[d] \in {"SUCCEEDED", "SKIPPED"}}

(* _dispatch_frontier. *)
Frontier(ns) ==
  [n \in Nodes |-> IF n \notin Ready(ns) THEN ns[n]
                   ELSE IF n \in Gated THEN "WAITING_APPROVAL" ELSE "RUNNING"]

(* What _maybe_settle makes of a running graph. *)
Verdict(ns) ==
  LET has(st) == \E n \in Nodes : ns[n] = st IN
  CASE has("RUNNING") \/ Ready(ns) # {} -> "RUNNING"
    [] OTHER ->
       IF has("FAILED") THEN "FAILED"
       ELSE IF has("CANCELLED") THEN "CANCELLED"
       ELSE IF has("WAITING_APPROVAL") THEN "WAITING_APPROVAL"
       ELSE IF \A n \in Nodes : ns[n] \in {"SUCCEEDED", "SKIPPED"} THEN "SUCCEEDED"
       ELSE "RUNNING"

Parks(ns) == node["review"] # "WAITING_APPROVAL" /\ ns["review"] = "WAITING_APPROVAL"
MoveNodes(ns, st) ==
  /\ node' = ns
  /\ graph' = [graph EXCEPT !.status = st]
  /\ gate' = IF Parks(ns) THEN [gate EXCEPT !.parked = @ + 1] ELSE gate

Idle == [pc |-> "idle", button |-> <<"requeue", "none">>, number |-> 0, due |-> FALSE]

(* A dead task; a chain that was built; a graph that has just started.     *)
Init ==
  /\ req = [o \in Operators |-> Idle]
  /\ requeues = 0
  /\ \E subject \in {"task", "chain", "graph"} :
       /\ task = [status |-> IF subject = "task" THEN "FAILED" ELSE "absent", number |-> 1]
       /\ chain = [status |-> IF subject = "chain" THEN "PENDING" ELSE "absent",
                   settled |-> FALSE]
       /\ graph = [status |-> IF subject = "graph" THEN "RUNNING" ELSE "absent",
                   generation |-> 1]
  /\ node = Frontier([n \in Nodes |-> "PENDING"])
  /\ gate = [parked |-> 1, decided |-> 0]
-----------------------------------------------------------------------------
(* The page: the flags of _graph_rows and _workflow_rows, the list of dead *)
(* letters, and the buttons the template makes of them.                    *)

CanRequeue == task.status \in Dead
CanApproveChain == chain.status = "WAITING_APPROVAL"
CanCancelChain == chain.status \in Cancellable
CanCancelGraph == graph.status \in LiveGraph
CanResume == graph.status = "FAILED"
CanApproveNode(n) == graph.status \in LiveGraph /\ node[n] = "WAITING_APPROVAL"

(* Mutant: a parked graph's nodes can be skipped too. *)
CanSkipParked(n) == graph.status \in LiveGraph /\ node[n] = "PENDING"

CanSkip(n) == graph.status = "RUNNING" /\ node[n] = "PENDING"

Shown(b) ==
  LET op == b[1] IN
  \/ op = "requeue" /\ CanRequeue
  \/ op \in {"approve_chain", "reject_chain"} /\ CanApproveChain
  \/ op = "cancel_chain" /\ CanCancelChain
  \/ op = "cancel_graph" /\ CanCancelGraph
  \/ op = "resume_graph" /\ CanResume
  \/ op \in {"approve_node", "reject_node"} /\ CanApproveNode(b[2])
  \/ op = "skip_node" /\ CanSkip(b[2])

Exists(b) ==
  IF b[1] = "requeue" THEN task.status # "absent"
  ELSE IF b[1] \in {"approve_chain", "reject_chain", "cancel_chain"}
  THEN chain.status # "absent" ELSE graph.status # "absent"

(* A button of this page or of an older one. *)
Press(o, b) ==
  /\ req[o].pc \in {"idle"} \cup Answers
  /\ Exists(b)
  /\ req' = [req EXCEPT ![o] = [pc |-> "sent", button |-> b, number |-> 0,
                                due |-> Shown(b)]]
  /\ UNCHANGED <<rows, requeues, gate>>
-----------------------------------------------------------------------------
(* Answers.  A request that is `due` was on the page when it was pressed,  *)
(* and nothing has moved since.                                            *)

Disturbed(r) == [r EXCEPT !.due = FALSE]
Disturb == req' = [o \in Operators |-> Disturbed(req[o])]
Answered(answer) == [Idle EXCEPT !.pc = answer]
Accept(o) ==
  req' = [p \in Operators |-> IF p = o THEN Answered("200") ELSE Disturbed(req[p])]
GoOn(o, pc) ==
  /\ req' = [req EXCEPT ![o] = IF pc \in Answers THEN Answered(pc) ELSE [@ EXCEPT !.pc = pc]]
  /\ UNCHANGED <<rows, requeues, gate>>
At(o, op, pc) == req[o].pc = pc /\ req[o].button[1] = op
On(o) == req[o].button[2]

(* requeue_task, requeue_dead_tasks: dlq.requeue looks at the status of    *)
(* the instance the view loaded and reads the newest number before it      *)
(* takes the task's lock.                                                  *)
LoadTask(o) ==
  /\ At(o, "requeue", "sent")
  /\ GoOn(o, IF task.status \in Dead THEN "loaded" ELSE "409")

ReadLatest(o) ==
  /\ At(o, "requeue", "loaded")
  /\ req' = [req EXCEPT ![o].pc = "numbered", ![o].number = task.number + 1]
  /\ UNCHANGED <<rows, requeues, gate>>

(* Mutant: the table has no unique constraint. *)
NumberTakenNever(k) == FALSE

(* unique_attempt_per_task: an IntegrityError no view catches. *)
NumberTaken(k) == k <= task.number

Schedule(o) ==
  /\ At(o, "requeue", "numbered")
  /\ \/ /\ NumberTaken(req[o].number)
        /\ GoOn(o, "500")
     \/ /\ ~NumberTaken(req[o].number) /\ req[o].number <= MaxNumber
        /\ task' = [status |-> "PENDING", number |-> req[o].number]
        /\ requeues' = requeues + 1
        /\ Accept(o)
        /\ UNCHANGED <<chain, graph, node, gate>>
-----------------------------------------------------------------------------
(* The chain.  reject_chain and cancel_workflow first look whether it is   *)
(* cancelled already.                                                      *)

(* Mutant: whatever is parked, failed or cancelled can be set running. *)
CanMoveAnywhere(st) == chain.status # "SUCCEEDED"

CanMove(st) == <<chain.status, st>> \in ValidTransitions

LoadChain(o) ==
  /\ At(o, "reject_chain", "sent") \/ At(o, "cancel_chain", "sent")
  /\ GoOn(o, IF chain.status = "CANCELLED" THEN "already" ELSE "loaded")

MoveChain(o, st, settled) ==
  /\ chain' = [status |-> st, settled |-> settled]
  /\ Accept(o)
  /\ UNCHANGED <<task, graph, node, requeues, gate>>

ApproveChain(o) ==
  /\ At(o, "approve_chain", "sent")
  /\ IF CanMove("RUNNING") THEN MoveChain(o, "RUNNING", chain.settled) ELSE GoOn(o, "409")

RejectChain(o) ==
  /\ At(o, "reject_chain", "loaded")
  /\ IF CanMove("CANCELLED") THEN MoveChain(o, "CANCELLED", TRUE) ELSE GoOn(o, "409")

CancelChain(o) ==
  /\ At(o, "cancel_chain", "loaded")
  /\ IF chain.status \in Cancellable /\ ~chain.settled
     THEN MoveChain(o, "CANCELLED", TRUE) ELSE GoOn(o, "409")
-----------------------------------------------------------------------------
(* The graph, each request in one transaction under the graph's lock.      *)

ActOnGraph(o, guard, ns, st) ==
  IF guard THEN /\ MoveNodes(ns, st) /\ Accept(o)
                /\ UNCHANGED <<task, chain, requeues>>
  ELSE GoOn(o, "409")

CancelGraph(o) ==
  /\ At(o, "cancel_graph", "sent")
  /\ ActOnGraph(o, graph.status \in LiveGraph, node, "CANCELLED")

Skip(o) ==
  LET ns == Frontier([node EXCEPT ![On(o)] = "SKIPPED"]) IN
  /\ At(o, "skip_node", "sent")
  /\ ActOnGraph(o, graph.status = "RUNNING" /\ node[On(o)] = "PENDING", ns, Verdict(ns))

(* Mutants: the gate is not looked at again, nor the graph. *)
ApprovesAnyNode(n) == graph.status \in LiveGraph /\ n \in Gated
ApprovesAnyGraph(n) == node[n] = "WAITING_APPROVAL"

(* What approve and reject look at under the lock. *)
Approves(n) == graph.status \in LiveGraph /\ node[n] = "WAITING_APPROVAL"

Decide(o, ns, st) ==
  IF Approves(On(o))
  THEN /\ node' = ns
       /\ graph' = [graph EXCEPT !.status = st]
       /\ gate' = [gate EXCEPT !.decided = @ + 1]
       /\ Accept(o)
       /\ UNCHANGED <<task, chain, requeues>>
  ELSE GoOn(o, "409")

ApproveNode(o) ==
  /\ At(o, "approve_node", "sent")
  /\ Decide(o, [node EXCEPT ![On(o)] = "RUNNING"], "RUNNING")

RejectNode(o) ==
  LET ns == [node EXCEPT ![On(o)] = "CANCELLED"] IN
  /\ At(o, "reject_node", "sent")
  /\ Decide(o, ns, Verdict(ns))

(* Mutant: a cancelled graph is resumed like a failed one. *)
ResumableAlsoCancelled == graph.status \in {"FAILED", "CANCELLED"}

Resumable == graph.status = "FAILED"

(* The failed nodes and what ran after them. *)
Rerun ==
  LET failed == {n \in Nodes : node[n] = "FAILED"}
  IN  {n \in Nodes : node[n] # "PENDING" /\ (n \in failed \/ After[n] \cap failed # {})}

ResumeGraph(o) ==
  LET ns == Frontier([n \in Nodes |-> IF n \in Rerun THEN "PENDING" ELSE node[n]]) IN
  /\ At(o, "resume_graph", "sent")
  /\ IF Resumable /\ Rerun # {}
     THEN /\ graph.generation < MaxGeneration
          /\ node' = ns
          /\ graph' = [status |-> Verdict(ns), generation |-> graph.generation + 1]
          /\ gate' = IF Parks(ns) THEN [gate EXCEPT !.parked = @ + 1] ELSE gate
          /\ Accept(o)
          /\ UNCHANGED <<task, chain, requeues>>
     ELSE GoOn(o, "409")
-----------------------------------------------------------------------------
(* What goes on meanwhile.                                                 *)

(* The newest attempt is dispatched, ends, or is retried. *)
TaskGoesOn ==
  /\ \/ task.status = "PENDING" /\ task' = [task EXCEPT !.status = "RUNNING"]
        /\ UNCHANGED requeues
     \/ /\ task.status = "RUNNING"
        /\ \E st \in {"SUCCEEDED"} \cup Dead : task' = [task EXCEPT !.status = st]
        /\ UNCHANGED requeues
     \/ /\ task.status = "RUNNING" /\ task.number < MaxNumber
        /\ task' = [status |-> "PENDING", number |-> task.number + 1]
        /\ requeues' = requeues + 1
  /\ Disturb
  /\ UNCHANGED <<chain, graph, node, gate>>

(* run(); a step succeeds and the next is gated; the chain settles, unless *)
(* its settled_at says it has (settle_workflow).                           *)
ChainGoesOn ==
  /\ \/ /\ chain.status = "PENDING"
        /\ \E st \in {"RUNNING", "WAITING_APPROVAL"} : chain' = [chain EXCEPT !.status = st]
     \/ chain.status = "RUNNING" /\ chain' = [chain EXCEPT !.status = "WAITING_APPROVAL"]
     \/ /\ chain.status = "RUNNING" /\ ~chain.settled
        /\ \E st \in {"SUCCEEDED", "FAILED"} : chain' = [status |-> st, settled |-> TRUE]
  /\ Disturb
  /\ UNCHANGED <<task, graph, node, requeues, gate>>

(* A node ends; a graph that no longer runs only records it. *)
NodeEnds(n, st) ==
  LET ns == [node EXCEPT ![n] = st] IN
  /\ graph.status # "absent" /\ node[n] = "RUNNING"
  /\ IF graph.status = "RUNNING" THEN MoveNodes(Frontier(ns), Verdict(Frontier(ns)))
     ELSE MoveNodes(ns, graph.status)
  /\ Disturb
  /\ UNCHANGED <<task, chain, requeues>>

Request(o) ==
  \/ LoadTask(o) \/ ReadLatest(o) \/ Schedule(o)
  \/ LoadChain(o) \/ ApproveChain(o) \/ RejectChain(o) \/ CancelChain(o)
  \/ CancelGraph(o) \/ ResumeGraph(o) \/ Skip(o) \/ ApproveNode(o) \/ RejectNode(o)

Next ==
  \/ \E o \in Operators : Request(o) \/ \E b \in Buttons : Press(o, b)
  \/ TaskGoesOn \/ ChainGoesOn
  \/ \E n \in Nodes, st \in {"SUCCEEDED", "FAILED"} : NodeEnds(n, st)

Spec == Init /\ [][Next]_vars
-----------------------------------------------------------------------------
(* Properties.                                                             *)

(* A button the page shows does what it says unless something else moved   *)
(* first: the flags of _graph_rows and _workflow_rows promise no more than *)
(* dlq, chain, base and graphs then allow.  (The exception is the chain    *)
(* that was approved after it had failed: with settled_at still set, its   *)
(* cancel button never works.)                                             *)
ButtonsWork ==
  [][\A o \in Operators :
       req[o].due /\ req[o].pc \notin Answers /\ req'[o].pc \in Answers =>
         \/ req'[o].pc = "200"
         \/ chain.settled /\ chain.status \in {"RUNNING", "WAITING_APPROVAL"}]_vars

(* However many people requeue a task at once, every request that is       *)
(* accepted adds one attempt, and one that is not adds none                *)
(* (dlq.requeue, unique_attempt_per_task).                                 *)
RequeuesAreAttempts == task.number = 1 + requeues

(* A gate is decided once each time a node parks at it, whoever approves   *)
(* and rejects at the same time (graphs.approve, graphs.reject).           *)
GateDecidedOnce == gate.decided <= gate.parked

(* What has been cancelled stays cancelled and starts nothing, whatever is *)
(* pressed afterwards, on whichever page (graphs.cancel, base.cancel).     *)
CancelStands ==
  [][/\ chain.status = "CANCELLED" => chain' = chain
     /\ graph.status = "CANCELLED" =>
          /\ graph' = graph
          /\ \A n \in Nodes : node'[n] # node[n] => node[n] = "RUNNING"]_vars

(* Whoever presses what at the same time, what was decided stands: every   *)
(* requeue that is accepted is one attempt, a gate is decided once, a      *)
(* cancellation is final, and a button that was shown works.               *)
DecisionsStand ==
  /\ [](TypeOK /\ RequeuesAreAttempts /\ GateDecidedOnce)
  /\ CancelStands /\ ButtonsWork

(* What docs/dashboard.md:82-84 says: every refusal answers 409.  The      *)
(* slower of two requeues violates the unique constraint instead.          *)
RefusalsAreAnswered == \A o \in Operators : req[o].pc # "500"

(* And: requeueing a live task, approving a chain that is not parked is    *)
(* refused.  The chain may have failed, and the task's status may be old.  *)
RefusesAsDocumented ==
  [][\A o \in Operators : req[o].pc \in {"sent", "numbered"} /\ req'[o].pc = "200" =>
       /\ req[o].button[1] = "requeue" => task.status \in Dead
       /\ req[o].button[1] = "approve_chain" => chain.status = "WAITING_APPROVAL"]_vars
=============================================================================
