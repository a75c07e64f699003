---------------------------- MODULE RecordsProofs ----------------------------
(***************************************************************************)
(* Theorems about the systems of Records, for any callers, operators,      *)
(* policies, chains and graphs.                                            *)
(*                                                                         *)
(* Chains and graphs have their proofs beside their modules; they are      *)
(* brought here through instances, and all that is left to show is that    *)
(* a system which is not at work does not move.  Calls, the retry delay    *)
(* and the operator console are proved here.                               *)
(***************************************************************************)
EXTENDS Records, Sequences, FiniteSetTheorems, TLAPS

(***************************************************************************)
(* The operator console.                                                   *)
(*                                                                         *)
(* That a button which was shown works takes an invariant over requests in *)
(* flight: as long as nothing else has moved, what made the page show the  *)
(* button is what the transaction looks for.  For the resume button that   *)
(* is so because a graph fails with a failed node, for the cancel button   *)
(* of a chain because a chain that has not run has not settled.            *)
(***************************************************************************)
NodeStatus == {"PENDING", "RUNNING", "WAITING_APPROVAL", "SUCCEEDED",
               "FAILED", "SKIPPED", "CANCELLED"}

(* Only a gate parks, and it is decided once for each time it has parked.  *)
Waiting(ns) == \A n \in Nodes : ns[n] = "WAITING_APPROVAL" => n = "review"
GateInv ==
  /\ Waiting(node)
  /\ gate.decided <= gate.parked
  /\ node["review"] = "WAITING_APPROVAL" => gate.decided < gate.parked

(* A failed graph has what a resume looks for. *)
HasFailed(ns) == \E n \in Nodes : ns[n] = "FAILED"
FailedInv == graph.status = "FAILED" => HasFailed(node)

ChainInv == chain.status = "PENDING" => ~chain.settled

(* What was shown still holds, and numbers only grow old. *)
Holds(r) ==
  /\ r.due /\ r.pc \notin Answers =>
       Shown(r.button) /\ (r.pc = "numbered" => r.number = task.number + 1)
  /\ r.pc = "numbered" => r.number <= task.number + 1
PromiseInv == \A o \in Operators : Holds(req[o])

ConsoleInv ==
  /\ TypeOK /\ RequeuesAreAttempts /\ GateInv
  /\ FailedInv /\ ChainInv /\ PromiseInv

Requests == [pc: {"idle", "sent", "loaded", "numbered"} \cup Answers,
             button: Buttons, number: 0..MaxNumber + 1, due: BOOLEAN]
-----------------------------------------------------------------------------
(* The operators of the model.                                             *)

LEMMA ButtonsAre ==
  /\ <<"requeue", "none">> \in Buttons
  /\ \A b \in Buttons :
       b[1] \in {"skip_node", "approve_node", "reject_node"} => b[2] \in Nodes
BY DEF Buttons

LEMMA IdleIsRequest ==
  ASSUME ConsoleAssumption, NEW answer \in Answers
  PROVE  Idle \in Requests /\ Answered(answer) \in Requests
<1>1. 0 \in 0..MaxNumber + 1
  BY DEF ConsoleAssumption
<1>2. Idle \in Requests
  BY <1>1, ButtonsAre DEF Idle, Requests
<1>3. Answered(answer) \in Requests
  BY <1>2 DEF Answered, Requests
<1> QED
  BY <1>2, <1>3

LEMMA FrontierIs ==
  ASSUME NEW ns \in [Nodes -> NodeStatus], Waiting(ns)
  PROVE  Frontier(ns) \in [Nodes -> NodeStatus] /\ Waiting(Frontier(ns))
<1>1. Frontier(ns) \in [Nodes -> NodeStatus]
  BY DEF Frontier, NodeStatus
<1>2. Waiting(Frontier(ns))
  BY DEF Frontier, Waiting, Gated
<1> QED
  BY <1>1, <1>2

LEMMA VerdictIs ==
  ASSUME NEW ns
  PROVE  /\ Verdict(ns) \in {"SUCCEEDED", "FAILED", "CANCELLED"} \cup LiveGraph
         /\ Verdict(ns) = "FAILED" => HasFailed(ns)
BY DEF Verdict, HasFailed, LiveGraph

(* Whatever moves takes the promise back from every request. *)
LEMMA MovesTakeBack ==
  ASSUME ConsoleAssumption, req \in [Operators -> Requests], PromiseInv,
         task.number \in Nat, task'.number \in Nat, task.number <= task'.number,
         Disturb \/ \E o \in Operators : Accept(o)
  PROVE  req' \in [Operators -> Requests] /\ PromiseInv'
<1>1. \A r \in Requests :
        /\ Disturbed(r) \in Requests /\ ~Disturbed(r).due
        /\ Disturbed(r).pc = r.pc /\ Disturbed(r).number = r.number /\ r.number \in Nat
  <2>1. \A r \in Requests : r.number \in Nat
    BY DEF Requests, ConsoleAssumption
  <2>2. \A r \in Requests :
          /\ Disturbed(r) \in Requests /\ ~Disturbed(r).due
          /\ Disturbed(r).pc = r.pc /\ Disturbed(r).number = r.number
    BY DEF Disturbed, Requests
  <2> QED
    BY <2>1, <2>2
<1>2. /\ Answered("200") \in Requests /\ ~Answered("200").due
      /\ Answered("200").pc = "200"
  BY IdleIsRequest DEF Answered, Idle, Answers
<1>3. CASE Disturb
  BY <1>1, <1>3 DEF Disturb, PromiseInv, Holds
<1>4. CASE \E o \in Operators : Accept(o)
  BY <1>1, <1>2, <1>4 DEF Accept, PromiseInv, Holds
<1> QED
  BY <1>3, <1>4

(* A step of one request that moves no row. *)
LEMMA OneRequestKeeps ==
  ASSUME ConsoleAssumption, ConsoleInv, NEW o \in Operators, NEW r \in Requests,
         req' = [req EXCEPT ![o] = r], Holds(r), UNCHANGED <<rows, requeues, gate>>
  PROVE  ConsoleInv'
<1>1. TypeOK'
  BY DEF ConsoleInv, TypeOK, rows, Requests
<1>2. PromiseInv'
  <2>1. \A b : Shown(b)' <=> Shown(b)
    BY DEF rows, Shown, CanRequeue, CanApproveChain, CanCancelChain, CanCancelGraph,
           CanResume, CanApproveNode, CanSkip
  <2>2. \A p \in Operators : Holds(req'[p])
    BY DEF ConsoleInv, TypeOK, PromiseInv, Requests
  <2> QED
    BY <2>1, <2>2 DEF PromiseInv, Holds, rows
<1>3. RequeuesAreAttempts' /\ GateInv' /\ FailedInv' /\ ChainInv'
  BY DEF ConsoleInv, rows, RequeuesAreAttempts, GateInv, Waiting, FailedInv, HasFailed, ChainInv
<1> QED
  BY <1>1, <1>2, <1>3 DEF ConsoleInv

LEMMA GoOnKeeps ==
  ASSUME ConsoleAssumption, ConsoleInv, NEW o \in Operators,
         NEW pc \in Answers \cup {"loaded"}, GoOn(o, pc),
         req[o].pc \in {"sent", "loaded", "numbered"}
  PROVE  ConsoleInv'
<1>1. req[o] \in Requests
  BY DEF ConsoleInv, TypeOK, Requests
<1>2. CASE pc \in Answers
  <2>1. Answered(pc) \in Requests
    BY <1>2, IdleIsRequest
  <2>2. ~Answered(pc).due /\ Answered(pc).pc = pc
    BY DEF Answered, Idle
  <2>3. Holds(Answered(pc))
    BY <1>2, <2>2 DEF Holds, Answers, Refusals
  <2> QED
    BY <1>2, <2>1, <2>3, OneRequestKeeps DEF GoOn
<1>3. CASE pc = "loaded"
  <2> DEFINE r == [req[o] EXCEPT !.pc = "loaded"]
  <2>1. "loaded" \notin Answers
    BY DEF Answers, Refusals
  <2>2. r \in Requests
    BY <1>1 DEF Requests
  <2>3. Holds(req[o]) /\ req[o].pc \notin Answers
    BY DEF ConsoleInv, PromiseInv, Answers, Refusals
  <2>4. Holds(r)
    BY <1>1, <2>3 DEF Holds, Requests
  <2>5. req' = [req EXCEPT ![o] = r] /\ UNCHANGED <<rows, requeues, gate>>
    BY <1>3, <2>1 DEF GoOn
  <2> QED
    BY <2>2, <2>4, <2>5, OneRequestKeeps
<1> QED
  BY <1>2, <1>3
-----------------------------------------------------------------------------
(* The invariant.                                                          *)

LEMMA ConsoleStart ==
  ASSUME ConsoleAssumption, Init
  PROVE  ConsoleInv
<1>1. [n \in Nodes |-> "PENDING"] \in [Nodes -> NodeStatus]
  BY DEF NodeStatus
<1>2. Waiting([n \in Nodes |-> "PENDING"])
  BY DEF Waiting
<1>3. node \in [Nodes -> NodeStatus] /\ Waiting(node)
  BY <1>1, <1>2, FrontierIs DEF Init
<1>4. req \in [Operators -> Requests] /\ PromiseInv
  BY IdleIsRequest DEF Init, PromiseInv, Holds, Idle, Answers
<1>5. TypeOK
  <2>1. 1 \in 1..MaxNumber /\ 1 \in 1..MaxGeneration /\ 0 \in 0..MaxNumber
    BY DEF ConsoleAssumption
  <2>2. PICK subject \in {"task", "chain", "graph"} :
          /\ task = [status |-> IF subject = "task" THEN "FAILED" ELSE "absent", number |-> 1]
          /\ chain = [status |-> IF subject = "chain" THEN "PENDING" ELSE "absent",
                      settled |-> FALSE]
          /\ graph = [status |-> IF subject = "graph" THEN "RUNNING" ELSE "absent",
                      generation |-> 1]
    BY DEF Init
  <2>3. requeues = 0 /\ gate = [parked |-> 1, decided |-> 0]
    BY DEF Init
  <2> QED
    BY <1>3, <1>4, <2>1, <2>2, <2>3
       DEF TypeOK, NodeStatus, Requests, LiveGraph, Cancellable, Dead
<1>6. RequeuesAreAttempts /\ GateInv /\ FailedInv /\ ChainInv
  BY <1>3 DEF Init, RequeuesAreAttempts, GateInv, FailedInv, ChainInv
<1> QED
  BY <1>4, <1>5, <1>6 DEF ConsoleInv

LEMMA PressKeeps ==
  ASSUME ConsoleAssumption, ConsoleInv, NEW o \in Operators, NEW b \in Buttons, Press(o, b)
  PROVE  ConsoleInv'
<1> DEFINE r == [pc |-> "sent", button |-> b, number |-> 0, due |-> Shown(b)]
<1>1. 0 \in 0..MaxNumber + 1
  BY DEF ConsoleAssumption
<1>2. Shown(b) \in BOOLEAN
  BY DEF Shown
<1>3. r \in Requests /\ Holds(r)
  BY <1>1, <1>2 DEF Requests, Holds
<1>4. req' = [req EXCEPT ![o] = r] /\ UNCHANGED <<rows, requeues, gate>>
  BY DEF Press
<1> QED
  BY <1>3, <1>4, OneRequestKeeps

LEMMA ReadLatestKeeps ==
  ASSUME ConsoleAssumption, ConsoleInv, NEW o \in Operators, ReadLatest(o)
  PROVE  ConsoleInv'
<1> DEFINE r == [req[o] EXCEPT !.pc = "numbered", !.number = task.number + 1]
<1>1. req[o] \in Requests /\ req[o].pc = "loaded"
  BY DEF ConsoleInv, TypeOK, Requests, ReadLatest, At
<1>2. task.number + 1 \in 0..MaxNumber + 1
  BY DEF ConsoleInv, TypeOK, ConsoleAssumption
<1>3. r \in Requests
  BY <1>1, <1>2 DEF Requests
<1>4. Holds(r)
  <2>1. /\ r.due = req[o].due /\ r.button = req[o].button
        /\ r.number = task.number + 1 /\ task.number + 1 \in Int
    BY <1>1, <1>2 DEF Requests
  <2>2. req[o].due => Shown(req[o].button)
    BY <1>1 DEF ConsoleInv, PromiseInv, Holds, Answers, Refusals
  <2> QED
    BY <2>1, <2>2 DEF Holds
<1>5. req' = [req EXCEPT ![o] = r] /\ UNCHANGED <<rows, requeues, gate>>
  BY <1>1 DEF ReadLatest, ConsoleInv, TypeOK, Requests
<1> QED
  BY <1>3, <1>4, <1>5, OneRequestKeeps

(* An accepted requeue, a retry, and the rest of a task's life.            *)
LEMMA TaskStepKeeps ==
  ASSUME ConsoleAssumption, ConsoleInv,
         Disturb \/ \E o \in Operators : Accept(o),
         task' \in [status: {"absent", "PENDING", "RUNNING", "SUCCEEDED"} \cup Dead,
                    number: 1..MaxNumber],
         task'.number - task.number = requeues' - requeues, requeues' \in Nat,
         requeues <= requeues',
         UNCHANGED <<chain, graph, node, gate>>
  PROVE  ConsoleInv'
<1>1. req' \in [Operators -> Requests] /\ PromiseInv'
  <2>1. /\ task.number \in Nat /\ task'.number \in Nat /\ requeues \in Nat
        /\ task.number <= task'.number
    BY DEF ConsoleInv, TypeOK, ConsoleAssumption
  <2> QED
    BY <2>1, MovesTakeBack DEF ConsoleInv, TypeOK, Requests
<1>2. RequeuesAreAttempts'
  BY DEF ConsoleInv, TypeOK, RequeuesAreAttempts
<1>3. requeues' \in 0..MaxNumber
  BY <1>2 DEF RequeuesAreAttempts, ConsoleAssumption
<1>4. TypeOK'
  BY <1>1, <1>3 DEF ConsoleInv, TypeOK, Requests
<1>5. GateInv' /\ FailedInv' /\ ChainInv'
  BY DEF ConsoleInv, GateInv, Waiting, FailedInv, HasFailed, ChainInv
<1> QED
  BY <1>1, <1>2, <1>4, <1>5 DEF ConsoleInv

LEMMA ScheduleKeeps ==
  ASSUME ConsoleAssumption, ConsoleInv, NEW o \in Operators, Schedule(o)
  PROVE  ConsoleInv'
<1>1. req[o] \in Requests /\ req[o].pc = "numbered" /\ requeues \in Nat
  BY DEF ConsoleInv, TypeOK, Requests, Schedule, At
<1>2. CASE GoOn(o, "500")
  BY <1>1, <1>2, GoOnKeeps DEF Answers, Refusals
<1>3. CASE /\ ~NumberTaken(req[o].number) /\ req[o].number <= MaxNumber
           /\ task' = [status |-> "PENDING", number |-> req[o].number]
           /\ requeues' = requeues + 1
           /\ Accept(o)
           /\ UNCHANGED <<chain, graph, node, gate>>
  <2>1. req[o].number = task.number + 1
    BY <1>1, <1>3 DEF NumberTaken, ConsoleInv, PromiseInv, Holds, Requests, TypeOK,
                      ConsoleAssumption
  <2>2. task.number + 1 \in 1..MaxNumber
    BY <1>3, <2>1 DEF ConsoleInv, TypeOK, ConsoleAssumption
  <2>3. task' = [status |-> "PENDING", number |-> task.number + 1]
    BY <1>3, <2>1
  <2> QED
    BY <1>1, <1>3, <2>2, <2>3, TaskStepKeeps DEF ConsoleInv, TypeOK
<1> QED
  BY <1>2, <1>3 DEF Schedule

LEMMA TaskGoesOnKeeps ==
  ASSUME ConsoleAssumption, ConsoleInv, TaskGoesOn
  PROVE  ConsoleInv'
<1>1. task.number \in Nat /\ requeues \in Nat
  BY DEF ConsoleInv, TypeOK
<1>2. CASE task.status = "PENDING" /\ task' = [task EXCEPT !.status = "RUNNING"]
           /\ UNCHANGED requeues
  BY <1>1, <1>2, TaskStepKeeps DEF TaskGoesOn, ConsoleInv, TypeOK
<1>3. CASE /\ task.status = "RUNNING"
           /\ \E st \in {"SUCCEEDED"} \cup Dead : task' = [task EXCEPT !.status = st]
           /\ UNCHANGED requeues
  BY <1>1, <1>3, TaskStepKeeps DEF TaskGoesOn, ConsoleInv, TypeOK
<1>4. CASE /\ task.status = "RUNNING" /\ task.number < MaxNumber
           /\ task' = [status |-> "PENDING", number |-> task.number + 1]
           /\ requeues' = requeues + 1
  <2>1. task.number + 1 \in 1..MaxNumber
    BY <1>1, <1>4 DEF ConsoleAssumption
  <2> QED
    BY <1>1, <1>4, <2>1, TaskStepKeeps DEF TaskGoesOn
<1> QED
  BY <1>2, <1>3, <1>4 DEF TaskGoesOn

(* A step of the chain. *)
LEMMA ChainStepKeeps ==
  ASSUME ConsoleAssumption, ConsoleInv,
         Disturb \/ \E o \in Operators : Accept(o),
         chain' \in [status: {"absent", "SUCCEEDED", "FAILED", "CANCELLED"} \cup Cancellable,
                     settled: BOOLEAN],
         chain'.status # "PENDING",
         UNCHANGED <<task, graph, node, requeues, gate>>
  PROVE  ConsoleInv'
<1>1. req' \in [Operators -> Requests] /\ PromiseInv'
  <2>1. task.number \in Nat
    BY DEF ConsoleInv, TypeOK
  <2> QED
    BY <2>1, MovesTakeBack DEF ConsoleInv, TypeOK, Requests
<1>2. TypeOK'
  BY <1>1 DEF ConsoleInv, TypeOK, Requests
<1>3. RequeuesAreAttempts' /\ GateInv' /\ FailedInv' /\ ChainInv'
  BY DEF ConsoleInv, RequeuesAreAttempts, GateInv, Waiting, FailedInv, HasFailed, ChainInv
<1> QED
  BY <1>1, <1>2, <1>3 DEF ConsoleInv

LEMMA ChainGoesOnKeeps ==
  ASSUME ConsoleAssumption, ConsoleInv, ChainGoesOn
  PROVE  ConsoleInv'
<1>1. /\ chain' \in [status: {"absent", "SUCCEEDED", "FAILED", "CANCELLED"} \cup Cancellable,
                     settled: BOOLEAN]
      /\ chain'.status # "PENDING"
  <2>1. chain \in [status: {"absent", "SUCCEEDED", "FAILED", "CANCELLED"} \cup Cancellable,
                   settled: BOOLEAN]
    BY DEF ConsoleInv, TypeOK
  <2> DEFINE Moved == [status: {"RUNNING", "WAITING_APPROVAL", "SUCCEEDED", "FAILED"},
                       settled: BOOLEAN]
  <2>2. \A st \in {"RUNNING", "WAITING_APPROVAL", "SUCCEEDED", "FAILED"} :
          /\ [chain EXCEPT !.status = st] \in Moved
          /\ [status |-> st, settled |-> TRUE] \in Moved
    BY <2>1
  <2>3. chain' \in Moved
    <3> HIDE DEF Moved
    <3> QED
      BY <2>2 DEF ChainGoesOn
  <2> QED
    BY <2>3 DEF Cancellable
<1> QED
  BY <1>1, ChainStepKeeps DEF ChainGoesOn

LEMMA ChainRequestKeeps ==
  ASSUME ConsoleAssumption, ConsoleInv, NEW o \in Operators,
         LoadChain(o) \/ ApproveChain(o) \/ RejectChain(o) \/ CancelChain(o)
  PROVE  ConsoleInv'
<1>1. ASSUME NEW pc \in Answers \cup {"loaded"}, GoOn(o, pc), req[o].pc \in {"sent", "loaded"}
      PROVE  ConsoleInv'
  BY <1>1, GoOnKeeps
<1>2. ASSUME NEW st \in {"RUNNING", "CANCELLED"}, NEW b \in BOOLEAN, MoveChain(o, st, b)
      PROVE  ConsoleInv'
  BY <1>2, ChainStepKeeps DEF MoveChain, Cancellable
<1>3. chain.settled \in BOOLEAN /\ {"already", "409"} \subseteq Answers
  BY DEF ConsoleInv, TypeOK, Answers, Refusals
<1>4. CASE LoadChain(o)
  BY <1>1, <1>3, <1>4 DEF LoadChain, At
<1>5. CASE ApproveChain(o)
  BY <1>1, <1>2, <1>3, <1>5 DEF ApproveChain, At
<1>6. CASE RejectChain(o)
  BY <1>1, <1>2, <1>3, <1>6 DEF RejectChain, At
<1>7. CASE CancelChain(o)
  BY <1>1, <1>2, <1>3, <1>7 DEF CancelChain, At
<1> QED
  BY <1>4, <1>5, <1>6, <1>7

(* A step of the graph. *)
LEMMA GraphStepKeeps ==
  ASSUME ConsoleAssumption, ConsoleInv,
         Disturb \/ \E o \in Operators : Accept(o),
         node' \in [Nodes -> NodeStatus],
         graph' \in [status: {"absent", "SUCCEEDED", "FAILED", "CANCELLED"} \cup LiveGraph,
                     generation: 1..MaxGeneration],
         gate' \in [parked: Nat, decided: Nat],
         GateInv', FailedInv',
         UNCHANGED <<task, chain, requeues>>
  PROVE  ConsoleInv'
<1>1. req' \in [Operators -> Requests] /\ PromiseInv'
  <2>1. task.number \in Nat
    BY DEF ConsoleInv, TypeOK
  <2> QED
    BY <2>1, MovesTakeBack DEF ConsoleInv, TypeOK, Requests
<1>2. TypeOK'
  BY <1>1 DEF ConsoleInv, TypeOK, Requests, NodeStatus
<1>3. RequeuesAreAttempts' /\ ChainInv'
  BY DEF ConsoleInv, RequeuesAreAttempts, ChainInv
<1> QED
  BY <1>1, <1>2, <1>3 DEF ConsoleInv

(* Each time a node parks is counted. *)
LEMMA ParkingCounts ==
  ASSUME ConsoleInv, Waiting(node'),
         gate' = IF Parks(node') THEN [gate EXCEPT !.parked = @ + 1] ELSE gate
  PROVE  gate' \in [parked: Nat, decided: Nat] /\ GateInv'
<1>1. gate \in [parked: Nat, decided: Nat]
  BY DEF ConsoleInv, TypeOK
<1>2. gate' \in [parked: Nat, decided: Nat]
  BY <1>1
<1>3. GateInv'
  BY <1>1 DEF ConsoleInv, GateInv, Waiting, Parks
<1> QED
  BY <1>2, <1>3

LEMMA NodeEndsKeeps ==
  ASSUME ConsoleAssumption, ConsoleInv, NEW n \in Nodes, NEW st \in {"SUCCEEDED", "FAILED"},
         NodeEnds(n, st)
  PROVE  ConsoleInv'
<1> DEFINE ns == [node EXCEPT ![n] = st]
<1>1. ns \in [Nodes -> NodeStatus] /\ Waiting(ns)
  BY DEF ConsoleInv, TypeOK, NodeStatus, GateInv, Waiting
<1>2. Frontier(ns) \in [Nodes -> NodeStatus] /\ Waiting(Frontier(ns))
  BY <1>1, FrontierIs
<1>3. graph \in [status: {"absent", "SUCCEEDED", "FAILED", "CANCELLED"} \cup LiveGraph,
                 generation: 1..MaxGeneration]
  BY DEF ConsoleInv, TypeOK
<1>4. CASE graph.status = "RUNNING"
  <2>1. /\ node' = Frontier(ns) /\ graph' = [graph EXCEPT !.status = Verdict(Frontier(ns))]
        /\ gate' = IF Parks(node') THEN [gate EXCEPT !.parked = @ + 1] ELSE gate
    BY <1>4 DEF NodeEnds, MoveNodes
  <2>2. FailedInv'
    BY <1>3, <2>1, VerdictIs DEF FailedInv, HasFailed
  <2>3. graph' \in [status: {"absent", "SUCCEEDED", "FAILED", "CANCELLED"} \cup LiveGraph,
                    generation: 1..MaxGeneration]
    BY <1>3, <2>1, VerdictIs
  <2>4. gate' \in [parked: Nat, decided: Nat] /\ GateInv'
    BY <1>2, <2>1, ParkingCounts
  <2> QED
    BY <1>2, <2>1, <2>2, <2>3, <2>4, GraphStepKeeps DEF NodeEnds
<1>5. CASE graph.status # "RUNNING"
  <2>1. /\ node' = ns /\ graph' = graph
        /\ gate' = IF Parks(node') THEN [gate EXCEPT !.parked = @ + 1] ELSE gate
    BY <1>3, <1>5 DEF NodeEnds, MoveNodes
  <2>2. FailedInv'
    BY <2>1 DEF FailedInv, HasFailed, ConsoleInv, TypeOK, NodeEnds
  <2>3. gate' \in [parked: Nat, decided: Nat] /\ GateInv'
    BY <1>1, <2>1, ParkingCounts
  <2> QED
    BY <1>1, <1>3, <2>1, <2>2, <2>3, GraphStepKeeps DEF NodeEnds
<1> QED
  BY <1>4, <1>5

LEMMA CancelGraphKeeps ==
  ASSUME ConsoleAssumption, ConsoleInv, NEW o \in Operators, CancelGraph(o)
  PROVE  ConsoleInv'
<1>1. CASE GoOn(o, "409")
  BY <1>1, GoOnKeeps DEF CancelGraph, At, Answers, Refusals
<1>2. CASE MoveNodes(node, "CANCELLED") /\ Accept(o) /\ UNCHANGED <<task, chain, requeues>>
  <2>1. /\ node' = node /\ graph' = [graph EXCEPT !.status = "CANCELLED"]
        /\ gate' = IF Parks(node') THEN [gate EXCEPT !.parked = @ + 1] ELSE gate
    BY <1>2 DEF MoveNodes
  <2>2. node' \in [Nodes -> NodeStatus] /\ Waiting(node')
    BY <2>1 DEF ConsoleInv, TypeOK, NodeStatus, GateInv
  <2>3. gate' \in [parked: Nat, decided: Nat] /\ GateInv'
    BY <2>1, <2>2, ParkingCounts
  <2>4. graph' \in [status: {"CANCELLED"}, generation: 1..MaxGeneration]
    BY <2>1 DEF ConsoleInv, TypeOK
  <2> QED
    BY <1>2, <2>2, <2>3, <2>4, GraphStepKeeps DEF FailedInv
<1> QED
  BY <1>1, <1>2 DEF CancelGraph, ActOnGraph

LEMMA SkipKeeps ==
  ASSUME ConsoleAssumption, ConsoleInv, NEW o \in Operators, Skip(o)
  PROVE  ConsoleInv'
<1> DEFINE ns == Frontier([node EXCEPT ![On(o)] = "SKIPPED"])
<1>1. CASE GoOn(o, "409")
  BY <1>1, GoOnKeeps DEF Skip, At, Answers, Refusals
<1>2. CASE MoveNodes(ns, Verdict(ns)) /\ Accept(o) /\ UNCHANGED <<task, chain, requeues>>
  <2>1. /\ node' = ns /\ graph' = [graph EXCEPT !.status = Verdict(ns)]
        /\ gate' = IF Parks(node') THEN [gate EXCEPT !.parked = @ + 1] ELSE gate
    BY <1>2 DEF MoveNodes
  <2>2. [node EXCEPT ![On(o)] = "SKIPPED"] \in [Nodes -> NodeStatus]
        /\ Waiting([node EXCEPT ![On(o)] = "SKIPPED"])
    BY DEF ConsoleInv, TypeOK, NodeStatus, GateInv, Waiting
  <2>3. node' \in [Nodes -> NodeStatus] /\ Waiting(node')
    BY <2>1, <2>2, FrontierIs
  <2>4. gate' \in [parked: Nat, decided: Nat] /\ GateInv'
    BY <2>1, <2>3, ParkingCounts
  <2>5. graph' \in [status: {"absent", "SUCCEEDED", "FAILED", "CANCELLED"} \cup LiveGraph,
                    generation: 1..MaxGeneration] /\ FailedInv'
    BY <2>1, VerdictIs DEF ConsoleInv, TypeOK, FailedInv, HasFailed
  <2> QED
    BY <1>2, <2>3, <2>4, <2>5, GraphStepKeeps
<1> QED
  BY <1>1, <1>2 DEF Skip, ActOnGraph

LEMMA DecideKeeps ==
  ASSUME ConsoleAssumption, ConsoleInv, NEW o \in Operators, ApproveNode(o) \/ RejectNode(o)
  PROVE  ConsoleInv'
<1>1. CASE GoOn(o, "409")
  BY <1>1, GoOnKeeps DEF ApproveNode, RejectNode, At, Answers, Refusals
<1>2. CASE ~GoOn(o, "409")
  <2> DEFINE Next1(ns, st) ==
               /\ node' = ns /\ graph' = [graph EXCEPT !.status = st]
               /\ st \in {"SUCCEEDED", "FAILED", "CANCELLED"} \cup LiveGraph
               /\ st = "FAILED" => HasFailed(ns)
  <2>1. /\ Approves(On(o)) /\ Accept(o) /\ gate' = [gate EXCEPT !.decided = @ + 1]
        /\ UNCHANGED <<task, chain, requeues>>
    BY <1>2 DEF ApproveNode, RejectNode, Decide
  <2>2. PICK act, st :
          /\ act \in {"RUNNING", "CANCELLED"}
          /\ Next1([node EXCEPT ![On(o)] = act], st)
    <3>1. CASE ApproveNode(o)
      BY <1>2, <3>1 DEF ApproveNode, Decide, LiveGraph
    <3>2. CASE RejectNode(o)
      BY <1>2, <3>2, VerdictIs DEF RejectNode, Decide
    <3> QED
      BY <3>1, <3>2
  <2>3. On(o) = "review"
    <3>1. req[o].button \in Buttons
          /\ req[o].button[1] \in {"approve_node", "reject_node"}
      BY DEF ConsoleInv, TypeOK, ApproveNode, RejectNode, At
    <3> QED
      BY <2>1, <3>1, ButtonsAre DEF Approves, On, ConsoleInv, GateInv, Waiting
  <2>4. node' \in [Nodes -> NodeStatus]
    BY <2>2 DEF ConsoleInv, TypeOK, NodeStatus
  <2>5. "review" \in Nodes /\ node["review"] = "WAITING_APPROVAL"
    BY <2>1, <2>3 DEF Approves, Nodes
  <2>6. gate' \in [parked: Nat, decided: Nat] /\ GateInv'
    BY <2>1, <2>2, <2>3, <2>5 DEF ConsoleInv, TypeOK, GateInv, Waiting
  <2>7. graph' \in [status: {"absent", "SUCCEEDED", "FAILED", "CANCELLED"} \cup LiveGraph,
                    generation: 1..MaxGeneration] /\ FailedInv'
    BY <2>2 DEF ConsoleInv, TypeOK, FailedInv, HasFailed
  <2> QED
    BY <2>1, <2>4, <2>6, <2>7, GraphStepKeeps
<1> QED
  BY <1>1, <1>2

LEMMA ResumeKeeps ==
  ASSUME ConsoleAssumption, ConsoleInv, NEW o \in Operators, ResumeGraph(o)
  PROVE  ConsoleInv'
<1> DEFINE again == [n \in Nodes |-> IF n \in Rerun THEN "PENDING" ELSE node[n]]
           ns == Frontier(again)
<1>1. CASE GoOn(o, "409")
  BY <1>1, GoOnKeeps DEF ResumeGraph, At, Answers, Refusals
<1>2. CASE ~GoOn(o, "409")
  <2>1. /\ graph.generation < MaxGeneration
        /\ node' = ns
        /\ graph' = [status |-> Verdict(ns), generation |-> graph.generation + 1]
        /\ gate' = IF Parks(node') THEN [gate EXCEPT !.parked = @ + 1] ELSE gate
        /\ Accept(o)
        /\ UNCHANGED <<task, chain, requeues>>
    BY <1>2 DEF ResumeGraph
  <2>2. again \in [Nodes -> NodeStatus] /\ Waiting(again)
    BY DEF ConsoleInv, TypeOK, NodeStatus, GateInv, Waiting
  <2>3. node' \in [Nodes -> NodeStatus] /\ Waiting(node')
    BY <2>1, <2>2, FrontierIs
  <2>4. gate' \in [parked: Nat, decided: Nat] /\ GateInv'
    BY <2>1, <2>3, ParkingCounts
  <2>5. graph.generation + 1 \in 1..MaxGeneration
    BY <2>1 DEF ConsoleInv, TypeOK, ConsoleAssumption
  <2>6. graph' \in [status: {"absent", "SUCCEEDED", "FAILED", "CANCELLED"} \cup LiveGraph,
                    generation: 1..MaxGeneration] /\ FailedInv'
    <3> HIDE DEF ns
    <3> QED
      BY <2>1, <2>5, VerdictIs DEF FailedInv, HasFailed
  <2> QED
    BY <2>1, <2>3, <2>4, <2>6, GraphStepKeeps
<1> QED
  BY <1>1, <1>2

LEMMA LoadTaskKeeps ==
  ASSUME ConsoleAssumption, ConsoleInv, NEW o \in Operators, LoadTask(o)
  PROVE  ConsoleInv'
BY GoOnKeeps DEF LoadTask, At, Answers, Refusals

LEMMA ConsoleKeeps ==
  ASSUME ConsoleAssumption, ConsoleInv, [Next]_vars
  PROVE  ConsoleInv'
<1>1. CASE UNCHANGED vars
  <2>1. TypeOK' /\ RequeuesAreAttempts' /\ GateInv' /\ FailedInv' /\ ChainInv'
    BY <1>1 DEF vars, ConsoleInv, TypeOK, RequeuesAreAttempts, GateInv, Waiting, FailedInv,
                HasFailed, ChainInv
  <2>2. PromiseInv'
    BY <1>1 DEF vars, ConsoleInv, PromiseInv, Holds, Shown, CanRequeue, CanApproveChain,
                CanCancelChain, CanCancelGraph, CanResume, CanApproveNode, CanSkip
  <2> QED
    BY <2>1, <2>2 DEF ConsoleInv
<1>2. ASSUME NEW o \in Operators, Request(o)
      PROVE  ConsoleInv'
  BY <1>2, LoadTaskKeeps, ReadLatestKeeps, ScheduleKeeps, ChainRequestKeeps,
     CancelGraphKeeps, ResumeKeeps, SkipKeeps, DecideKeeps
     DEF Request
<1> QED
  BY <1>1, <1>2, PressKeeps, TaskGoesOnKeeps, ChainGoesOnKeeps, NodeEndsKeeps DEF Next
-----------------------------------------------------------------------------
(* What a step may not do.                                                 *)

(* Nothing moves a cancelled chain, and a cancelled graph only notes the   *)
(* ends of what was running.                                               *)
LEMMA CancelledStays ==
  ASSUME ConsoleInv, Next
  PROVE  /\ chain.status = "CANCELLED" => chain' = chain
         /\ graph.status = "CANCELLED" =>
              /\ graph' = graph
              /\ \A n \in Nodes : node'[n] # node[n] => node[n] = "RUNNING"
<1>1. CASE UNCHANGED <<chain, graph, node>>
  BY <1>1
<1>2. CASE TaskGoesOn \/ \E o \in Operators : Schedule(o)
  BY <1>1, <1>2 DEF TaskGoesOn, Schedule, GoOn, rows
<1>3. CASE ChainGoesOn
  BY <1>3 DEF ChainGoesOn
<1>4. CASE \E n \in Nodes, st \in {"SUCCEEDED", "FAILED"} : NodeEnds(n, st)
  BY <1>4 DEF NodeEnds, MoveNodes, ConsoleInv, TypeOK
<1>5. CASE \E o \in Operators : LoadChain(o) \/ ApproveChain(o) \/ RejectChain(o) \/ CancelChain(o)
  BY <1>1, <1>5 DEF LoadChain, ApproveChain, RejectChain, CancelChain, CanMove,
              ValidTransitions, Cancellable, MoveChain, GoOn, rows
<1>6. CASE \E o \in Operators : CancelGraph(o) \/ Skip(o)
  BY <1>1, <1>6 DEF CancelGraph, Skip, ActOnGraph, LiveGraph, GoOn, rows
<1>7. CASE \E o \in Operators : ApproveNode(o) \/ RejectNode(o)
  BY <1>1, <1>7 DEF ApproveNode, RejectNode, Decide, Approves, LiveGraph, GoOn, rows
<1>8. CASE \E o \in Operators : ResumeGraph(o)
  BY <1>1, <1>8 DEF ResumeGraph, Resumable, GoOn, rows
<1>9. CASE \E o \in Operators :
             LoadTask(o) \/ ReadLatest(o) \/ \E b \in Buttons : Press(o, b)
  BY <1>1, <1>9 DEF LoadTask, ReadLatest, Press, GoOn, rows
<1> QED
  BY <1>2, <1>3, <1>4, <1>5, <1>6, <1>7, <1>8, <1>9 DEF Next, Request

(* A request that is still as good as the page answers 200.                *)
LEMMA PromiseIsKept ==
  ASSUME ConsoleAssumption, ConsoleInv, NEW o \in Operators, Request(o),
         req[o].due, req'[o].pc \in Answers
  PROVE  \/ req'[o].pc = "200"
         \/ chain.settled /\ chain.status \in {"RUNNING", "WAITING_APPROVAL"}
<1> DEFINE b == req[o].button
<1>1. req[o] \in Requests /\ req[o].pc \in {"sent", "loaded", "numbered"}
  BY DEF ConsoleInv, TypeOK, Requests, Request, LoadTask, ReadLatest, Schedule, LoadChain,
         ApproveChain, RejectChain, CancelChain, CancelGraph, ResumeGraph, Skip,
         ApproveNode, RejectNode, At
<1>2. Shown(b) /\ (req[o].pc = "numbered" => req[o].number = task.number + 1)
  BY <1>1 DEF ConsoleInv, PromiseInv, Holds, Answers, Refusals
<1>3. req \in [Operators -> Requests]
  BY DEF ConsoleInv, TypeOK, Requests
<1>4. Accept(o) => req'[o].pc = "200"
  BY DEF Accept, Answered, Idle
<1>5. \A pc : pc \notin Answers /\ GoOn(o, pc) => req'[o].pc = pc
  BY <1>1, <1>3 DEF GoOn, Requests
<1>6. CASE LoadTask(o)
  <2>1. task.status \in Dead
    BY <1>2, <1>6 DEF LoadTask, At, Shown, CanRequeue
  <2> QED
    BY <1>5, <1>6, <2>1 DEF LoadTask, Answers, Refusals
<1>7. CASE ReadLatest(o)
  <2>1. req'[o].pc = "numbered"
    BY <1>1, <1>3, <1>7 DEF ReadLatest, Requests
  <2> QED
    BY <2>1 DEF Answers, Refusals
<1>8. CASE Schedule(o)
  <2>1. req[o].number = task.number + 1 /\ task.number \in Nat
    BY <1>2, <1>8 DEF Schedule, At, ConsoleInv, TypeOK
  <2> QED
    BY <1>4, <1>8, <2>1 DEF Schedule, NumberTaken
<1>9. CASE LoadChain(o)
  <2>1. chain.status # "CANCELLED"
    BY <1>2, <1>9 DEF LoadChain, At, Shown, CanApproveChain, CanCancelChain, Cancellable
  <2> QED
    BY <1>5, <1>9, <2>1 DEF LoadChain, Answers, Refusals
<1>10. CASE ApproveChain(o) \/ RejectChain(o)
  <2>1. chain.status = "WAITING_APPROVAL"
    BY <1>2, <1>10 DEF ApproveChain, RejectChain, At, Shown, CanApproveChain
  <2> QED
    BY <1>4, <1>10, <2>1 DEF ApproveChain, RejectChain, CanMove, ValidTransitions, MoveChain
<1>11. CASE CancelChain(o)
  <2>1. chain.status \in Cancellable
    BY <1>2, <1>11 DEF CancelChain, At, Shown, CanCancelChain
  <2>2. chain.settled => chain.status # "PENDING"
    BY DEF ConsoleInv, ChainInv
  <2> QED
    BY <1>4, <1>11, <2>1, <2>2 DEF CancelChain, MoveChain, Cancellable
<1>12. CASE CancelGraph(o) \/ Skip(o)
  <2>1. /\ CancelGraph(o) => CanCancelGraph
        /\ Skip(o) => CanSkip(On(o))
    BY <1>2, <1>12 DEF CancelGraph, Skip, At, On, Shown
  <2> QED
    BY <1>4, <1>12, <2>1 DEF CancelGraph, Skip, ActOnGraph, CanCancelGraph, CanSkip
<1>13. CASE ApproveNode(o) \/ RejectNode(o)
  <2>1. CanApproveNode(On(o))
    BY <1>2, <1>13 DEF ApproveNode, RejectNode, At, On, Shown
  <2> QED
    BY <1>4, <1>13, <2>1 DEF ApproveNode, RejectNode, Decide, Approves, CanApproveNode
<1>14. CASE ResumeGraph(o)
  <2>1. graph.status = "FAILED"
    BY <1>2, <1>14 DEF ResumeGraph, At, Shown, CanResume
  <2>2. Rerun # {}
    BY <2>1 DEF Rerun, ConsoleInv, FailedInv, HasFailed
  <2> QED
    BY <1>4, <1>14, <2>1, <2>2 DEF ResumeGraph, Resumable
<1> QED
  BY <1>6, <1>7, <1>8, <1>9, <1>10, <1>11, <1>12, <1>13, <1>14 DEF Request

(* Only its own request answers an operator.                               *)
LEMMA OthersDoNotAnswer ==
  ASSUME ConsoleAssumption, ConsoleInv, Next, NEW o \in Operators,
         req[o].pc \notin Answers, req'[o].pc \in Answers
  PROVE  Request(o)
<1>1. req \in [Operators -> Requests]
  BY DEF ConsoleInv, TypeOK, Requests
<1>2. \A r \in Requests : Disturbed(r).pc = r.pc
  BY DEF Disturbed, Requests
<1>3. Disturb => req'[o].pc = req[o].pc
  BY <1>1, <1>2 DEF Disturb
<1>4. ASSUME NEW p \in Operators, NEW b \in Buttons, Press(p, b)
      PROVE  req'[o].pc \in {"sent", req[o].pc}
  BY <1>1, <1>4 DEF Press
<1>5. ASSUME NEW p \in Operators, Request(p), p # o
      PROVE  req'[o].pc = req[o].pc
  <2>1. Accept(p) => req'[o].pc = req[o].pc
    BY <1>1, <1>2, <1>5 DEF Accept
  <2>2. \A pc : GoOn(p, pc) => req'[o] = req[o]
    BY <1>1, <1>5 DEF GoOn
  <2>3. ReadLatest(p) => req'[o] = req[o]
    BY <1>1, <1>5 DEF ReadLatest
  <2> QED
    BY <1>5, <2>1, <2>2, <2>3 DEF Request, LoadTask, Schedule, LoadChain, ApproveChain,
       RejectChain, CancelChain, MoveChain, CancelGraph, ResumeGraph, Skip, ActOnGraph,
       ApproveNode, RejectNode, Decide
<1>6. "sent" \notin Answers
  BY DEF Answers, Refusals
<1> QED
  BY <1>3, <1>4, <1>5, <1>6 DEF Next, TaskGoesOn, ChainGoesOn, NodeEnds
-----------------------------------------------------------------------------
(* Every accepted requeue is one attempt, a gate is decided once for each  *)
(* time it parks, a cancellation is final, and a button that was shown     *)
(* works unless something moved first (dashboard/views.py, dlq.requeue,    *)
(* graphs.approve, graphs.reject, graphs.cancel, base.cancel).             *)
THEOREM DecisionsAreKept ==
  ASSUME ConsoleAssumption
  PROVE  Spec => DecisionsStand
<1>1. ConsoleInv => TypeOK /\ RequeuesAreAttempts /\ GateDecidedOnce
  BY DEF ConsoleInv, GateInv, GateDecidedOnce
<1>2. ASSUME ConsoleInv, [Next]_vars
      PROVE  [/\ chain.status = "CANCELLED" => chain' = chain
              /\ graph.status = "CANCELLED" =>
                   /\ graph' = graph
                   /\ \A n \in Nodes : node'[n] # node[n] => node[n] = "RUNNING"]_vars
  BY <1>2, CancelledStays
<1>3. ASSUME ConsoleInv, [Next]_vars
      PROVE  [\A o \in Operators :
                req[o].due /\ req[o].pc \notin Answers /\ req'[o].pc \in Answers =>
                  \/ req'[o].pc = "200"
                  \/ chain.settled /\ chain.status \in {"RUNNING", "WAITING_APPROVAL"}]_vars
  BY <1>3, OthersDoNotAnswer, PromiseIsKept
<1>4. Spec => CancelStands
  BY ConsoleStart, ConsoleKeeps, <1>2, PTL DEF Spec, CancelStands
<1>5. Spec => ButtonsWork
  BY ConsoleStart, ConsoleKeeps, <1>3, PTL DEF Spec, ButtonsWork
<1>6. Spec => [](TypeOK /\ RequeuesAreAttempts /\ GateDecidedOnce)
  BY ConsoleStart, ConsoleKeeps, <1>1, PTL DEF Spec
<1> QED
  BY <1>4, <1>5, <1>6 DEF DecisionsStand
-----------------------------------------------------------------------------
(***************************************************************************)
(* Calls that submit work, of every kind at once: those with a key and     *)
(* those that name a graph are two selections from them.                   *)
(***************************************************************************)
Any == INSTANCE Submission WITH
  Requests <- KeyRequests \cup LabelRequests, task <- s_task, graph <- s_graph,
  started <- s_started, call <- s_call, revived <- s_revived, taken <- s_taken

Places == {"idle", "begun", "reclaimed", "looked", "labelled",
           "collided", "created", "done", "failed"}
Subjects == {"none", "s"}
Numbers == 0..MaxTask
CallRow == [at: Places, kind: Any!Kinds, subject: Subjects, answer: Numbers]
SubjectRow == [status: {"RUNNING", "SETTLED"}, subject: {"none", "s"}]

(* Tasks are numbered in the order of creation.                            *)
RowsTyped ==
  /\ \E n \in 0..MaxTask : Any!Ids = 1..n
  /\ \A t \in Any!Ids : s_task[t] \in Any!Tasks
  /\ s_graph \in SubjectRow
  /\ s_revived \subseteq Any!Ids /\ s_taken \subseteq Any!Ids

(* One task holds the key; who was born with it and lost it had it taken   *)
(* away while dead, and lives again only by a requeue.                     *)
KeyOf(t) ==
  /\ s_task[t].key => Any!Born(t) /\ s_task[t].attempt /\ t \notin s_taken
  /\ Any!Born(t) /\ ~s_task[t].key => t \in s_taken
  /\ t \in s_taken \ s_revived => ~Any!Live(t)
KeyKept ==
  /\ \A t, u \in Any!Holders : t = u
  /\ \A t \in Any!Ids : KeyOf(t)

(* What a caller knows: a label is the graph's, an answer is a task that   *)
(* is there and nobody has one before the end, and who has run into the    *)
(* key has somebody to be answered with unless the key was taken away.     *)
Informed(v) ==
  /\ v \in CallRow
  /\ v.subject \in {"none", s_graph.subject}
  /\ v.answer \in Any!Ids \cup {Any!None}
  /\ v.at \notin {"created", "done"} => v.answer = Any!None
  /\ v.at = "created" => v.answer # Any!None
  /\ v.at = "done" /\ v.answer # Any!None => s_task[v.answer].attempt
  /\ v.at = "collided" => Any!Keyed(v.kind) /\ (Any!Holders # {} \/ s_taken # {})
  /\ v.at = "failed" /\ Any!Keyed(v.kind) => s_taken # {}

RowsInv == RowsTyped /\ KeyKept /\ Any!SubjectsAgree
CallsInv ==
  /\ RowsInv /\ s_started \in 0..1
  /\ s_call \in [Callers -> CallRow]
  /\ \A c \in Callers : Informed(s_call[c])

(* What callers know stays true when tasks are added or go on.             *)
Grows ==
  /\ Any!Ids \subseteq Any!Ids'
  /\ \A t \in Any!Ids : s_task[t].attempt => s_task'[t].attempt
  /\ s_taken \subseteq s_taken'
  /\ Any!Holders # {} => Any!Holders' # {} \/ s_taken' # {}
  /\ s_graph.subject \in {"none", s_graph'.subject}
-----------------------------------------------------------------------------
(* The next task's number is the one after the last.                       *)
LEMMA NextNumber ==
  ASSUME RowsTyped, Any!SubmissionAssumption
  PROVE  /\ Any!NewId \in Nat \ {0} /\ Any!NewId \notin Any!Ids
         /\ 1..Any!NewId = Any!Ids \cup {Any!NewId}
         /\ Any!NewId <= MaxTask => Any!NewId \in 1..MaxTask
         /\ Any!Ids \subseteq 1..MaxTask
<1>1. PICK n \in 0..MaxTask : Any!Ids = 1..n
  BY DEF RowsTyped
<1>2. n \in Nat /\ MaxTask \in Nat
  BY DEF Any!SubmissionAssumption
<1>3. Cardinality(1..n) = n
  <2>1. 1 \in Int /\ n \in Int
    BY <1>2
  <2>2. Cardinality(1..n) = IF 1 > n THEN 0 ELSE n - 1 + 1
    BY <2>1, FS_Interval
  <2> QED
    BY <1>2, <2>2
<1>4. Any!NewId = n + 1
  <2>1. Any!NewId = Cardinality(Any!Ids) + 1
    BY DEF Any!NewId, Any!Cardinality, Cardinality
  <2> QED
    BY <1>1, <1>3, <2>1
<1> QED
  BY <1>1, <1>2, <1>4

LEMMA InformedStays ==
  ASSUME NEW v, Informed(v), Grows
  PROVE  Informed(v)'
BY DEF Informed, Grows, Any!None

(* A step of one call that leaves the rows alone.                          *)
LEMMA OneCallKeeps ==
  ASSUME CallsInv, NEW c \in Callers, NEW v,
         Informed(v), s_call' = [s_call EXCEPT ![c] = v],
         s_started' \in 0..1, UNCHANGED <<s_task, s_graph, s_revived, s_taken>>
  PROVE  CallsInv'
<1>1. RowsInv'
  BY DEF CallsInv, RowsInv, RowsTyped, KeyKept, KeyOf, Any!Born, Any!Live, Any!Holders, Any!Ids,
         Any!SubjectsAgree
<1>2. Grows
  BY DEF Grows, Any!Ids, Any!Holders
<1>3. s_call' \in [Callers -> CallRow]
  BY DEF CallsInv, Informed
<1>4. ASSUME NEW d \in Callers PROVE Informed(s_call[d])'
  <2>1. Informed(s_call'[d])
    BY DEF CallsInv
  <2>2. PICK w : w = s_call'[d]
    OBVIOUS
  <2>3. Informed(w)'
    BY <2>1, <2>2, <1>2, InformedStays
  <2> QED
    BY <2>2, <2>3
<1> QED
  BY <1>1, <1>3, <1>4 DEF CallsInv

(* A step of the rows that moves no call, or one to `v`.                   *)
LEMMA RowsStepKeeps ==
  ASSUME CallsInv, RowsInv', Grows, s_started' = s_started,
         s_call' \in [Callers -> CallRow],
         \A c \in Callers : s_call'[c] = s_call[c] \/ Informed(s_call[c])'
  PROVE  CallsInv'
<1>1. ASSUME NEW d \in Callers PROVE Informed(s_call[d])'
  <2>1. CASE s_call'[d] = s_call[d]
    <3>1. PICK w : w = s_call[d]
      OBVIOUS
    <3>2. Informed(w)
      BY <3>1 DEF CallsInv
    <3>3. Informed(w)'
      BY <3>2, InformedStays
    <3> QED
      BY <3>1, <3>3, <2>1
  <2> QED
    BY <2>1
<1> QED
  BY <1>1 DEF CallsInv

-----------------------------------------------------------------------------
(* What becomes of a row when some of its columns are written.             *)
RowIs(v, a, k, s, n) == v.at = a /\ v.kind = k /\ v.subject = s /\ v.answer = n
LEMMA CallEdited ==
  ASSUME NEW r \in CallRow, NEW a \in Places, NEW k \in Any!Kinds, NEW s \in Subjects,
         NEW n \in Numbers
  PROVE  /\ [r EXCEPT !.at = a] \in CallRow
         /\ RowIs([r EXCEPT !.at = a], a, r.kind, r.subject, r.answer)
         /\ [r EXCEPT !.at = a, !.kind = k] \in CallRow
         /\ RowIs([r EXCEPT !.at = a, !.kind = k], a, k, r.subject, r.answer)
         /\ [r EXCEPT !.at = a, !.subject = s] \in CallRow
         /\ RowIs([r EXCEPT !.at = a, !.subject = s], a, r.kind, s, r.answer)
         /\ [r EXCEPT !.at = a, !.answer = n] \in CallRow
         /\ RowIs([r EXCEPT !.at = a, !.answer = n], a, r.kind, r.subject, n)
<1>1. [r EXCEPT !.at = a] \in CallRow /\ RowIs([r EXCEPT !.at = a], a, r.kind, r.subject, r.answer)
  BY DEF CallRow, RowIs
<1>2. [r EXCEPT !.at = a, !.kind = k] \in CallRow /\ RowIs([r EXCEPT !.at = a, !.kind = k], a, k, r.subject, r.answer)
  BY DEF CallRow, RowIs
<1>3. [r EXCEPT !.at = a, !.subject = s] \in CallRow /\ RowIs([r EXCEPT !.at = a, !.subject = s], a, r.kind, s, r.answer)
  BY DEF CallRow, RowIs
<1>4. [r EXCEPT !.at = a, !.answer = n] \in CallRow /\ RowIs([r EXCEPT !.at = a, !.answer = n], a, r.kind, r.subject, n)
  BY DEF CallRow, RowIs
<1> QED
  BY <1>1, <1>2, <1>3, <1>4

LEMMA Fields ==
  ASSUME CallsInv, NEW c \in Callers
  PROVE  /\ s_call[c] \in CallRow /\ Informed(s_call[c])
         /\ s_call[c].kind \in Any!Kinds /\ s_call[c].subject \in Subjects
         /\ s_call[c].answer \in Numbers
<1>1. s_call[c] \in CallRow
  BY DEF CallsInv
<1>2. Informed(s_call[c])
  BY DEF CallsInv
<1>3. /\ s_call[c].kind \in Any!Kinds /\ s_call[c].subject \in Subjects
      /\ s_call[c].answer \in Numbers
  BY <1>1 DEF CallRow
<1> QED
  BY <1>1, <1>2, <1>3

(* What a row that says no more than the one before it has to say.         *)
LEMMA NewsInformed ==
  ASSUME NEW r, Informed(r), NEW v \in CallRow, NEW a, NEW s \in {r.subject, s_graph.subject},
         RowIs(v, a, r.kind, s, r.answer), r.answer = Any!None,
         a \notin {"created", "collided"}, a = "failed" => ~Any!Keyed(r.kind) \/ s_taken # {}
  PROVE  Informed(v)
BY DEF Informed, RowIs

(* A place without an answer can be reached from one without.              *)
LEMMA Moves ==
  ASSUME CallsInv, Any!SubmissionAssumption, NEW c \in Callers,
         NEW place \in {"reclaimed", "looked", "failed", "done"},
         s_call[c].answer = Any!None, place = "failed" => ~Any!Keyed(s_call[c].kind) \/ s_taken # {}
  PROVE  Informed([s_call[c] EXCEPT !.at = place])
<1>1. /\ s_call[c] \in CallRow /\ Informed(s_call[c])
      /\ s_call[c].kind \in Any!Kinds /\ s_call[c].subject \in Subjects
      /\ s_call[c].answer \in Numbers
  BY Fields
<1>2. place \in Places
  BY DEF Places
<1> DEFINE v == [s_call[c] EXCEPT !.at = place]
<1>3. v \in CallRow /\ RowIs(v, place, s_call[c].kind, s_call[c].subject, s_call[c].answer)
  BY <1>1, <1>2, CallEdited
<1> HIDE DEF v
<1>4. Informed(v)
  BY <1>1, <1>3, NewsInformed
<1> QED
  BY <1>4 DEF v

(* A caller makes a call, is done with one, or dies.                       *)
LEMMA IdlesKeep ==
  ASSUME CallsInv, Any!SubmissionAssumption, NEW c \in Callers,
         Any!Begin(c) \/ Any!Return(c) \/ Any!Crash(c)
  PROVE  CallsInv'
<1>1. Any!Idle \in CallRow /\ RowIs(Any!Idle, "idle", "keyed", "none", Any!None)
  <2>1. /\ "idle" \in Places /\ "keyed" \in Any!Kinds /\ "none" \in Subjects
        /\ 0 \in Numbers
    BY DEF Places, Any!Kinds, Subjects, Numbers, Any!SubmissionAssumption
  <2> QED
    BY <2>1 DEF Any!Idle, CallRow, RowIs, Any!None
<1>2. Informed(Any!Idle)
  BY <1>1 DEF Informed, RowIs
<1>3. CASE Any!Begin(c)
  <2>1. PICK kind \in (KeyRequests \cup LabelRequests) :
          s_call' = [s_call EXCEPT ![c] = [Any!Idle EXCEPT !.at = "begun", !.kind = kind]]
    BY <1>3 DEF Any!Begin
  <2>2. kind \in Any!Kinds
    BY DEF Any!SubmissionAssumption
  <2>3. Informed([Any!Idle EXCEPT !.at = "begun", !.kind = kind])
    <3> DEFINE v == [Any!Idle EXCEPT !.at = "begun", !.kind = kind]
    <3>1. "begun" \in Places /\ "none" \in Subjects /\ 0 \in Numbers
      BY DEF Places, Subjects, Numbers, Any!SubmissionAssumption
    <3>2. v \in CallRow /\ RowIs(v, "begun", kind, "none", Any!None)
      <4>1. v \in CallRow /\ RowIs(v, "begun", kind, Any!Idle.subject, Any!Idle.answer)
        BY <1>1, <2>2, <3>1, CallEdited
      <4> HIDE DEF v
      <4> QED
        BY <4>1, <1>1 DEF RowIs
    <3> HIDE DEF v
    <3>3. Informed(v)
      BY <3>2 DEF Informed, RowIs
    <3> QED
      BY <3>3 DEF v
  <2>4. s_started' \in 0..1 /\ UNCHANGED <<s_task, s_graph, s_revived, s_taken>>
    BY <1>3 DEF Any!Begin, CallsInv
  <2> QED
    BY <2>1, <2>3, <2>4, OneCallKeeps
<1>4. CASE Any!Return(c) \/ Any!Crash(c)
  <2>1. s_call' = [s_call EXCEPT ![c] = Any!Idle]
    BY <1>4 DEF Any!Return, Any!Crash
  <2>2. s_started' \in 0..1 /\ UNCHANGED <<s_task, s_graph, s_revived, s_taken>>
    BY <1>4 DEF Any!Return, Any!Crash, CallsInv
  <2> QED
    BY <2>1, <2>2, <1>2, OneCallKeeps
<1> QED
  BY <1>3, <1>4

(* A call is answered with a task that has its attempt.                    *)
LEMMA AnswersKeep ==
  ASSUME CallsInv, Any!SubmissionAssumption, NEW c \in Callers, NEW t \in Any!Ids,
         s_task[t].attempt,
         Any!Answers(c, t), UNCHANGED <<s_task, s_graph, s_started, s_revived, s_taken>>
  PROVE  CallsInv'
<1> DEFINE v == [s_call[c] EXCEPT !.at = "done", !.answer = t]
<1>1. /\ s_call[c] \in CallRow /\ Informed(s_call[c])
      /\ s_call[c].kind \in Any!Kinds /\ s_call[c].subject \in Subjects
  BY Fields
<1>2. t \in Numbers /\ "done" \in Places
  BY NextNumber DEF CallsInv, RowsInv, Places, Numbers
<1>3. Informed(v)
  <2>1. v \in CallRow /\ RowIs(v, "done", s_call[c].kind, s_call[c].subject, t)
    BY <1>1, <1>2, CallEdited
  <2> HIDE DEF v
  <2> QED
    BY <1>1, <2>1 DEF Informed, RowIs
<1>4. s_call' = [s_call EXCEPT ![c] = v]
  BY DEF Any!Answers
<1>5. s_started' \in 0..1
  BY DEF CallsInv
<1> HIDE DEF v
<1> QED
  BY <1>3, <1>4, <1>5, OneCallKeeps

(* The lookups, a label that is read, and the loser's second look.         *)
LEMMA LookUpKeeps ==
  ASSUME CallsInv, Any!SubmissionAssumption, NEW c \in Callers, Any!LookUp(c)
  PROVE  CallsInv'
<1>1. s_call[c].at \in {"begun", "reclaimed"} /\ s_call[c].answer = Any!None
  BY Fields DEF Any!LookUp, Any!At, Informed
<1>2. CASE Any!Existing = {}
  <2>1. s_call' = [s_call EXCEPT ![c] = [s_call[c] EXCEPT !.at = "looked"]]
    BY <1>2 DEF Any!LookUp, Any!To
  <2>2. Informed([s_call[c] EXCEPT !.at = "looked"])
    BY <1>1, Moves
  <2>3. s_started' \in 0..1 /\ UNCHANGED <<s_task, s_graph, s_revived, s_taken>>
    BY DEF Any!LookUp, CallsInv
  <2> QED
    BY <2>1, <2>2, <2>3, OneCallKeeps
<1>3. CASE Any!Existing # {}
  <2>1. PICK t \in Any!Existing : Any!Answers(c, t)
    BY <1>3 DEF Any!LookUp
  <2>2. t \in Any!Ids /\ s_task[t].attempt
    BY DEF Any!Existing, Any!Holders
  <2>3. UNCHANGED <<s_task, s_graph, s_started, s_revived, s_taken>>
    BY DEF Any!LookUp
  <2> QED
    BY <2>1, <2>2, <2>3, AnswersKeep
<1> QED
  BY <1>2, <1>3

LEMMA RecoverKeeps ==
  ASSUME CallsInv, Any!SubmissionAssumption, NEW c \in Callers, Any!Recover(c)
  PROVE  CallsInv'
<1>1. Informed(s_call[c]) /\ s_call[c] \in CallRow /\ Any!At(c, "collided")
  BY Fields DEF Any!Recover
<1>2. CASE Any!FallBack = {}
  <2>1. s_call' = [s_call EXCEPT ![c] = [s_call[c] EXCEPT !.at = "failed"]]
    BY <1>2 DEF Any!Recover, Any!To
  <2>2. Any!Holders = {}
    <3>1. \A t \in Any!Holders : s_task[t].attempt
      BY DEF CallsInv, RowsInv, KeyKept, KeyOf, Any!Holders
    <3> QED
      BY <3>1, <1>2 DEF Any!FallBack, Any!Existing
  <2>3. s_taken # {}
    BY <1>1, <2>2 DEF Informed, Any!At
  <2>4. s_call[c].answer = Any!None
    BY <1>1 DEF Informed, Any!At
  <2>5. Informed([s_call[c] EXCEPT !.at = "failed"])
    BY <2>3, <2>4, Moves
  <2>6. s_started' \in 0..1 /\ UNCHANGED <<s_task, s_graph, s_revived, s_taken>>
    BY DEF Any!Recover, CallsInv
  <2> QED
    BY <2>1, <2>5, <2>6, OneCallKeeps
<1>3. CASE Any!FallBack # {}
  <2>1. PICK t \in Any!FallBack : Any!Answers(c, t)
    BY <1>3 DEF Any!Recover
  <2>2. t \in Any!Ids /\ s_task[t].attempt
    BY DEF Any!FallBack, Any!Existing, Any!Holders
  <2>3. UNCHANGED <<s_task, s_graph, s_started, s_revived, s_taken>>
    BY DEF Any!Recover
  <2> QED
    BY <2>1, <2>2, <2>3, AnswersKeep
<1> QED
  BY <1>2, <1>3

LEMMA LabelKeeps ==
  ASSUME CallsInv, Any!SubmissionAssumption, NEW c \in Callers, Any!Label(c) \/ Any!LabelLocked(c)
  PROVE  CallsInv'
<1>1. Informed(s_call[c]) /\ s_call[c] \in CallRow /\ s_call[c].at = "begun"
  BY Fields DEF Any!Label, Any!LabelLocked, Any!At
<1>2. s_call[c].kind \in {"correlated", "named", "member"}
  BY DEF Any!Label, Any!LabelLocked, Any!Kind
<1>3. s_graph.subject \in {"none", "s"}
  BY DEF CallsInv, RowsInv, RowsTyped, SubjectRow
<1>4. \/ s_call' = [s_call EXCEPT ![c] = [s_call[c] EXCEPT !.at = "failed"]]
      \/ \E place \in {"failed", "labelled"} :
           s_call' = [s_call EXCEPT ![c] = [s_call[c] EXCEPT !.at = place, !.subject = s_graph.subject]]
  BY DEF Any!Label, Any!LabelLocked, Any!To
<1>5. s_call[c].answer = Any!None /\ ~Any!Keyed(s_call[c].kind)
  BY <1>1, <1>2 DEF Informed, Any!Keyed
<1>6. s_started' \in 0..1 /\ UNCHANGED <<s_task, s_graph, s_revived, s_taken>>
  BY DEF Any!Label, Any!LabelLocked, CallsInv
<1>7. CASE s_call' = [s_call EXCEPT ![c] = [s_call[c] EXCEPT !.at = "failed"]]
  BY <1>5, <1>6, <1>7, Moves, OneCallKeeps
<1>8. ASSUME NEW place \in {"failed", "labelled"},
             s_call' = [s_call EXCEPT ![c] = [s_call[c] EXCEPT !.at = place, !.subject = s_graph.subject]]
      PROVE  CallsInv'
  <2> DEFINE v == [s_call[c] EXCEPT !.at = place, !.subject = s_graph.subject]
  <2>1. place \in Places /\ s_graph.subject \in Subjects
    BY <1>3 DEF Places, Subjects
  <2>2. v \in CallRow /\ RowIs(v, place, s_call[c].kind, s_graph.subject, s_call[c].answer)
    BY Fields, <2>1, CallEdited
  <2>3. s_call' = [s_call EXCEPT ![c] = v]
    BY <1>8
  <2> HIDE DEF v
  <2>4. Informed(v)
    BY <1>1, <1>5, <2>2, NewsInformed
  <2> QED
    BY <1>6, <2>3, <2>4, OneCallKeeps
<1> QED
  BY <1>4, <1>7, <1>8

(* Graph.start looks for its graph, and creates it.                        *)
LEMMA GraphStartKeeps ==
  ASSUME CallsInv, Any!SubmissionAssumption, NEW c \in Callers,
         Any!LookUpGraph(c) \/ Any!CreateGraph(c)
  PROVE  CallsInv'
<1>1. Informed(s_call[c]) /\ s_call[c] \in CallRow /\ s_call[c].at \in {"begun", "looked"}
  BY Fields DEF Any!LookUpGraph, Any!CreateGraph, Any!At
<1>2. s_call[c].kind = "start"
  BY DEF Any!LookUpGraph, Any!CreateGraph, Any!Kind
<1>3. PICK place \in {"done", "looked", "failed"} :
        s_call' = [s_call EXCEPT ![c] = [s_call[c] EXCEPT !.at = place]]
  BY DEF Any!LookUpGraph, Any!CreateGraph, Any!To
<1>4. s_call[c].answer = Any!None /\ ~Any!Keyed(s_call[c].kind)
  BY <1>1, <1>2 DEF Informed, Any!Keyed
<1>5. s_started' \in 0..1 /\ UNCHANGED <<s_task, s_graph, s_revived, s_taken>>
  BY DEF Any!LookUpGraph, Any!CreateGraph, CallsInv
<1> QED
  BY <1>3, <1>4, <1>5, Moves, OneCallKeeps
-----------------------------------------------------------------------------
(* Existing rows: what each action may change of one.                      *)
LEMMA RowFields ==
  ASSUME RowsInv, NEW t \in Any!Ids
  PROVE  /\ s_task[t] \in Any!Tasks /\ s_task[t].key \in BOOLEAN /\ s_task[t].attempt \in BOOLEAN
         /\ s_task[t].born \in Any!Kinds /\ s_task[t].subject \in Subjects
         /\ s_task[t].status \in {"PENDING", "RUNNING", "SUCCEEDED"} \cup Any!Dead
         /\ KeyOf(t)
         /\ Any!ToGraph(s_task[t].born) => s_task[t].subject = s_graph.subject
BY DEF RowsInv, RowsTyped, Any!Tasks, KeyKept, Any!SubjectsAgree, Subjects

(* No row is added: it is enough to say what becomes of each.              *)
LEMMA SameRowsKeep ==
  ASSUME RowsInv, Any!Ids' = Any!Ids, s_graph' \in SubjectRow,
         s_revived' \subseteq Any!Ids, s_taken' \subseteq Any!Ids,
         \A t \in Any!Ids :
           /\ s_task'[t] \in Any!Tasks
           /\ KeyOf(t)'
           /\ s_task'[t].key => s_task[t].key
           /\ Any!ToGraph(s_task'[t].born) => s_task'[t].subject = s_graph'.subject
  PROVE  RowsInv'
<1>1. RowsTyped'
  BY DEF RowsInv, RowsTyped
<1>2. Any!Holders' \subseteq Any!Holders
  BY DEF Any!Holders
<1>3. KeyKept'
  BY <1>2 DEF RowsInv, KeyKept
<1>4. Any!SubjectsAgree'
  BY DEF Any!SubjectsAgree
<1> QED
  BY <1>1, <1>3, <1>4 DEF RowsInv

LEMMA StatusEdited ==
  ASSUME NEW r \in Any!Tasks, NEW s \in {"PENDING", "RUNNING", "SUCCEEDED"} \cup Any!Dead
  PROVE  /\ [r EXCEPT !.status = s] \in Any!Tasks
         /\ [r EXCEPT !.status = s].status = s
         /\ [r EXCEPT !.status = s].key = r.key
         /\ [r EXCEPT !.status = s].born = r.born
         /\ [r EXCEPT !.status = s].subject = r.subject
         /\ [r EXCEPT !.status = s].attempt = r.attempt
BY DEF Any!Tasks

LEMMA SubjectEdited ==
  ASSUME NEW r \in Any!Tasks, NEW s \in Subjects
  PROVE  /\ [r EXCEPT !.subject = s] \in Any!Tasks
         /\ [r EXCEPT !.subject = s].status = r.status
         /\ [r EXCEPT !.subject = s].key = r.key
         /\ [r EXCEPT !.subject = s].born = r.born
         /\ [r EXCEPT !.subject = s].subject = s
         /\ [r EXCEPT !.subject = s].attempt = r.attempt
BY DEF Any!Tasks, Subjects

LEMMA KeyEdited ==
  ASSUME NEW r \in Any!Tasks
  PROVE  /\ [r EXCEPT !.key = FALSE] \in Any!Tasks
         /\ [r EXCEPT !.key = FALSE].status = r.status
         /\ [r EXCEPT !.key = FALSE].key = FALSE
         /\ [r EXCEPT !.key = FALSE].born = r.born
         /\ [r EXCEPT !.key = FALSE].subject = r.subject
         /\ [r EXCEPT !.key = FALSE].attempt = r.attempt
BY DEF Any!Tasks, Subjects

LEMMA AttemptEdited ==
  ASSUME NEW r \in Any!Tasks
  PROVE  /\ [r EXCEPT !.attempt = TRUE] \in Any!Tasks
         /\ [r EXCEPT !.attempt = TRUE].status = r.status
         /\ [r EXCEPT !.attempt = TRUE].key = r.key
         /\ [r EXCEPT !.attempt = TRUE].born = r.born
         /\ [r EXCEPT !.attempt = TRUE].subject = r.subject
         /\ [r EXCEPT !.attempt = TRUE].attempt = TRUE
BY DEF Any!Tasks, Subjects

(* A task ends, or a dead one is requeued.                                 *)
LEMMA FatesKeep ==
  ASSUME CallsInv, NEW t, Any!End(t) \/ Any!Requeue(t)
  PROVE  CallsInv'
<1>1. PICK s \in {"PENDING", "RUNNING", "SUCCEEDED"} \cup Any!Dead :
        s_task' = [s_task EXCEPT ![t].status = s]
  BY DEF Any!End, Any!Requeue, Any!Dead
<1>2. t \in Any!Ids /\ Any!Ids' = Any!Ids
  BY <1>1 DEF Any!End, Any!Requeue, Any!Ids
<1>3. \A u \in Any!Ids : u # t => s_task'[u] = s_task[u]
  BY <1>1 DEF Any!Ids
<1>4. s_task'[t] = [s_task[t] EXCEPT !.status = s]
  BY <1>1, <1>2 DEF Any!Ids
<1>5. s_task[t] \in Any!Tasks
  BY <1>2, RowFields DEF CallsInv
<1>6. /\ s_task'[t] \in Any!Tasks /\ s_task'[t].key = s_task[t].key /\ s_task'[t].born = s_task[t].born
      /\ s_task'[t].subject = s_task[t].subject /\ s_task'[t].attempt = s_task[t].attempt
      /\ s_task'[t].status = s
  BY <1>4, <1>5, StatusEdited
<1>7. RowsInv'
  <2>1. s_revived' \subseteq Any!Ids /\ s_taken' \subseteq Any!Ids /\ s_graph' \in SubjectRow
    BY <1>2 DEF Any!End, Any!Requeue, CallsInv, RowsInv, RowsTyped
  <2>2. ASSUME NEW u \in Any!Ids
        PROVE  /\ s_task'[u] \in Any!Tasks
               /\ KeyOf(u)'
               /\ s_task'[u].key => s_task[u].key
               /\ Any!ToGraph(s_task'[u].born) => s_task'[u].subject = s_graph'.subject
    <3>1. /\ s_task[u] \in Any!Tasks /\ KeyOf(u)
          /\ Any!ToGraph(s_task[u].born) => s_task[u].subject = s_graph.subject
      BY RowFields DEF CallsInv
    <3>2. s_graph' = s_graph /\ s_taken' = s_taken
      BY DEF Any!End, Any!Requeue
    <3>3. CASE u # t
      BY <3>1, <3>2, <3>3, <1>3 DEF KeyOf, Any!Born, Any!Live, Any!End, Any!Requeue
    <3>4. CASE u = t
      <4>1. u \in s_taken' \ s_revived' => ~Any!Live(u)'
        <5>1. CASE Any!Requeue(t)
          BY <5>1, <3>4 DEF Any!Requeue
        <5>2. CASE Any!End(t)
          BY <5>2, <3>1, <3>2, <3>4 DEF Any!End, KeyOf, Any!Live
        <5> QED
          BY <5>1, <5>2
      <4> QED
        BY <3>1, <3>2, <3>4, <4>1, <1>6 DEF KeyOf, Any!Born
    <3> QED
      BY <3>3, <3>4
  <2> QED
    BY <1>2, <2>1, <2>2, SameRowsKeep DEF CallsInv
<1>8. Grows
  <2>1. Any!Holders' = Any!Holders
    BY <1>2, <1>3, <1>6 DEF Any!Holders
  <2> QED
    BY <1>2, <1>3, <1>6, <2>1 DEF Grows, Any!End, Any!Requeue
<1>9. s_started' = s_started /\ s_call' = s_call
  BY DEF Any!End, Any!Requeue
<1> QED
  BY <1>7, <1>8, <1>9, RowsStepKeeps DEF CallsInv

(* The graph's subject is bound, and it settles.                           *)
LEMMA GraphMovesKeep ==
  ASSUME CallsInv, Any!BindSubject \/ Any!Settle
  PROVE  CallsInv'
<1>1. s_graph \in SubjectRow
  BY DEF CallsInv, RowsInv, RowsTyped
<1>2. /\ s_graph' \in SubjectRow /\ s_graph.subject \in {"none", s_graph'.subject}
      /\ Any!BindSubject => s_graph'.subject = "s"
      /\ Any!Settle => s_graph'.subject = s_graph.subject
  BY <1>1 DEF Any!BindSubject, Any!Settle, SubjectRow
<1>3. /\ Any!Ids' = Any!Ids
      /\ \A t \in Any!Ids : s_task'[t] = IF Any!BindSubject /\ Any!Relabelled(t)
                                    THEN [s_task[t] EXCEPT !.subject = "s"] ELSE s_task[t]
  <2>1. CASE Any!BindSubject
    BY <2>1 DEF Any!BindSubject, Any!Ids
  <2>2. CASE Any!Settle /\ ~Any!BindSubject
    BY <2>2 DEF Any!Settle, Any!Ids
  <2> QED
    BY <2>1, <2>2
<1>4. s_revived' = s_revived /\ s_taken' = s_taken /\ s_started' = s_started /\ s_call' = s_call
  BY DEF Any!BindSubject, Any!Settle
<1>5. ASSUME NEW t \in Any!Ids
      PROVE  /\ s_task'[t] \in Any!Tasks /\ s_task'[t].key = s_task[t].key
             /\ s_task'[t].born = s_task[t].born /\ s_task'[t].status = s_task[t].status
             /\ s_task'[t].attempt = s_task[t].attempt
             /\ Any!ToGraph(s_task'[t].born) => s_task'[t].subject = s_graph'.subject
  <2>1. s_task[t] \in Any!Tasks /\ (Any!ToGraph(s_task[t].born) => s_task[t].subject = s_graph.subject)
    BY RowFields DEF CallsInv
  <2>2. CASE Any!BindSubject
    <3>1. s_graph.subject = "none"
      BY <2>2 DEF Any!BindSubject
    <3>2. CASE Any!Relabelled(t)
      <4>1. "s" \in Subjects
        BY DEF Subjects
      <4>2. s_task'[t] = [s_task[t] EXCEPT !.subject = "s"]
        BY <1>3, <2>2, <3>2
      <4>3. s_graph'.subject = "s"
        BY <1>2, <2>2
      <4>4. PICK r : r = s_task[t]
        OBVIOUS
      <4>5. r \in Any!Tasks /\ s_task'[t] = [r EXCEPT !.subject = "s"]
        BY <2>1, <4>2, <4>4
      <4>6. /\ s_task'[t] \in Any!Tasks /\ s_task'[t].key = r.key /\ s_task'[t].born = r.born
            /\ s_task'[t].status = r.status /\ s_task'[t].attempt = r.attempt
            /\ s_task'[t].subject = "s"
        BY <4>1, <4>5, SubjectEdited
      <4> QED
        BY <4>3, <4>4, <4>6
    <3>3. CASE ~Any!Relabelled(t)
      BY <1>2, <1>3, <2>1, <2>2, <3>1, <3>3 DEF Any!Relabelled
    <3> QED
      BY <3>2, <3>3
  <2>3. CASE ~Any!BindSubject
    BY <1>2, <1>3, <2>1, <2>3
  <2> QED
    BY <2>2, <2>3
<1>6. RowsInv'
  <2>1. \A t \in Any!Ids : KeyOf(t)'
    <3> SUFFICES ASSUME NEW t \in Any!Ids PROVE KeyOf(t)'
      OBVIOUS
    <3>1. KeyOf(t)
      BY RowFields DEF CallsInv
    <3> QED
      BY <3>1, <1>4, <1>5 DEF KeyOf, Any!Born, Any!Live
  <2>2. s_revived' \subseteq Any!Ids /\ s_taken' \subseteq Any!Ids
    BY <1>4 DEF CallsInv, RowsInv, RowsTyped
  <2> QED
    BY <1>2, <1>3, <1>5, <2>1, <2>2, SameRowsKeep DEF CallsInv
<1>7. Grows
  <2>1. Any!Holders' = Any!Holders
    BY <1>3, <1>5 DEF Any!Holders
  <2> QED
    BY <1>2, <1>3, <1>4, <1>5, <2>1 DEF Grows
<1> QED
  BY <1>4, <1>6, <1>7, RowsStepKeeps DEF CallsInv
-----------------------------------------------------------------------------
(* A dead task gives its key up.                                           *)
LEMMA ReclaimKeeps ==
  ASSUME CallsInv, Any!SubmissionAssumption, NEW c \in Callers, Any!Reclaim(c)
  PROVE  CallsInv'
<1>1. /\ Any!Ids' = Any!Ids
      /\ \A t \in Any!Ids : s_task'[t] = IF Any!Reclaimable(t) THEN [s_task[t] EXCEPT !.key = FALSE]
                                    ELSE s_task[t]
  BY DEF Any!Reclaim, Any!Ids
<1>2. s_graph' = s_graph /\ s_started' = s_started /\ s_revived' = s_revived
      /\ s_taken' = s_taken \cup {t \in Any!Ids : Any!Reclaimable(t)}
  BY DEF Any!Reclaim
<1>3. ASSUME NEW t \in Any!Ids
      PROVE  /\ s_task'[t] \in Any!Tasks
             /\ s_task'[t].key = (s_task[t].key /\ ~Any!Reclaimable(t))
             /\ s_task'[t].born = s_task[t].born /\ s_task'[t].status = s_task[t].status
             /\ s_task'[t].attempt = s_task[t].attempt /\ s_task'[t].subject = s_task[t].subject
  <2>1. s_task[t] \in Any!Tasks /\ s_task[t].key \in BOOLEAN /\ "s" \in Subjects
    BY RowFields DEF CallsInv, Subjects
  <2>2. CASE Any!Reclaimable(t)
    <3>1. PICK r : r = s_task[t]
      OBVIOUS
    <3>2. r \in Any!Tasks /\ s_task'[t] = [r EXCEPT !.key = FALSE]
      BY <1>1, <2>1, <2>2, <3>1
    <3>3. /\ s_task'[t] \in Any!Tasks /\ s_task'[t].key = FALSE /\ s_task'[t].born = r.born
          /\ s_task'[t].status = r.status /\ s_task'[t].attempt = r.attempt
          /\ s_task'[t].subject = r.subject
      BY <3>2, KeyEdited
    <3> QED
      BY <2>2, <3>1, <3>3
  <2>3. CASE ~Any!Reclaimable(t)
    BY <1>1, <2>1, <2>3
  <2> QED
    BY <2>2, <2>3
<1>4. RowsInv'
  <2>1. \A t \in Any!Ids : KeyOf(t)'
    <3> SUFFICES ASSUME NEW t \in Any!Ids PROVE KeyOf(t)'
      OBVIOUS
    <3>1. KeyOf(t) /\ s_task[t].key \in BOOLEAN
      BY RowFields DEF CallsInv
    <3>2. CASE Any!Reclaimable(t)
      BY <1>2, <1>3, <3>1, <3>2 DEF KeyOf, Any!Born, Any!Live, Any!Reclaimable, Any!Dead
    <3>3. CASE ~Any!Reclaimable(t)
      BY <1>2, <1>3, <3>1, <3>3 DEF KeyOf, Any!Born, Any!Live
    <3> QED
      BY <3>2, <3>3
  <2>2. s_revived' \subseteq Any!Ids /\ s_taken' \subseteq Any!Ids /\ s_graph' \in SubjectRow
    BY <1>2 DEF CallsInv, RowsInv, RowsTyped
  <2>3. \A t \in Any!Ids : Any!ToGraph(s_task'[t].born) => s_task'[t].subject = s_graph'.subject
    BY <1>2, <1>3, RowFields DEF CallsInv
  <2>4. \A t \in Any!Ids : s_task'[t].key => s_task[t].key
    BY <1>3, RowFields DEF CallsInv
  <2> QED
    BY <1>1, <1>3, <2>1, <2>2, <2>3, <2>4, SameRowsKeep DEF CallsInv
<1>5. Grows
  <2>1. Any!Holders # {} => Any!Holders' # {} \/ s_taken' # {}
    <3> SUFFICES ASSUME NEW t \in Any!Holders PROVE Any!Holders' # {} \/ s_taken' # {}
      OBVIOUS
    <3>1. t \in Any!Ids /\ s_task[t].key
      BY DEF Any!Holders
    <3>2. CASE Any!Reclaimable(t)
      BY <1>2, <3>1, <3>2
    <3>3. CASE ~Any!Reclaimable(t)
      <4>1. t \in Any!Holders'
        BY <1>1, <1>3, <3>1, <3>3 DEF Any!Holders
      <4> QED
        BY <4>1
    <3> QED
      BY <3>2, <3>3
  <2> QED
    BY <1>1, <1>2, <1>3, <2>1 DEF Grows
<1>6. s_call' = [s_call EXCEPT ![c] = [s_call[c] EXCEPT !.at = "reclaimed"]]
  BY DEF Any!Reclaim, Any!To
<1>7. s_call[c] \in CallRow /\ Informed(s_call[c]) /\ s_call[c].at = "begun"
  BY Fields DEF Any!Reclaim, Any!At
<1>8. Informed([s_call[c] EXCEPT !.at = "reclaimed"])
  BY <1>7, Moves DEF Informed
<1>9. s_call \in [Callers -> CallRow]
  BY DEF CallsInv
<1>10. s_call'[c] = [s_call[c] EXCEPT !.at = "reclaimed"]
       /\ \A d \in Callers : d # c => s_call'[d] = s_call[d]
  BY <1>6, <1>9
<1>11. PICK v : v = [s_call[c] EXCEPT !.at = "reclaimed"]
  OBVIOUS
<1>12. Informed(v) /\ v = s_call'[c]
  BY <1>8, <1>10, <1>11
<1>13. Informed(v)'
  BY <1>5, <1>12, InformedStays
<1>14. v \in CallRow
  BY <1>12 DEF Informed
<1>15. Informed(s_call[c])'
  BY <1>12, <1>13
<1>16. s_call' \in [Callers -> CallRow]
  BY <1>6, <1>9, <1>11, <1>14
<1> QED
  BY <1>2, <1>4, <1>5, <1>10, <1>15, <1>16, RowsStepKeeps
-----------------------------------------------------------------------------
(* A row is added: what the new one has to be.                             *)
NewRow(row) ==
  /\ row \in Any!Tasks /\ row.status \in {"PENDING", "RUNNING"}
  /\ row.key => Any!Keyed(row.born) /\ row.attempt /\ Any!Holders = {}
  /\ Any!Keyed(row.born) => row.key
  /\ Any!ToGraph(row.born) => row.subject = s_graph.subject

LEMMA AddedIs ==
  ASSUME RowsTyped, Any!SubmissionAssumption, Any!NewId <= MaxTask, NEW row,
         s_task' = Any!Added(row)
  PROVE  /\ Any!Ids' = 1..Any!NewId /\ Any!Ids' = Any!Ids \cup {Any!NewId} /\ Any!NewId \notin Any!Ids
         /\ Any!NewId \in 1..MaxTask
         /\ s_task'[Any!NewId] = row /\ \A t \in Any!Ids : s_task'[t] = s_task[t]
<1>1. /\ Any!NewId \in Nat \ {0} /\ Any!NewId \notin Any!Ids
      /\ 1..Any!NewId = Any!Ids \cup {Any!NewId} /\ Any!NewId \in 1..MaxTask
  BY NextNumber
<1>2. Any!Ids' = 1..Any!NewId
  BY DEF Any!Added, Any!Ids
<1>3. s_task'[Any!NewId] = row
  BY <1>1 DEF Any!Added
<1>4. \A t \in Any!Ids : s_task'[t] = s_task[t]
  BY <1>1 DEF Any!Added
<1> QED
  BY <1>1, <1>2, <1>3, <1>4

LEMMA AddedKeeps ==
  ASSUME RowsInv, Any!SubmissionAssumption, Any!NewId <= MaxTask, NEW row,
         s_task' = Any!Added(row), NewRow(row), UNCHANGED <<s_graph, s_revived, s_taken>>
  PROVE  RowsInv' /\ Grows
<1>1. /\ Any!Ids' = 1..Any!NewId /\ Any!Ids' = Any!Ids \cup {Any!NewId} /\ Any!NewId \notin Any!Ids
      /\ Any!NewId \in 1..MaxTask
      /\ s_task'[Any!NewId] = row /\ \A t \in Any!Ids : s_task'[t] = s_task[t]
  BY AddedIs DEF RowsInv
<1>2. \A t \in Any!Ids :
        /\ s_task[t] \in Any!Tasks /\ KeyOf(t)
        /\ Any!ToGraph(s_task[t].born) => s_task[t].subject = s_graph.subject
  BY RowFields
<1>3. Any!NewId \notin s_taken
  BY <1>1 DEF RowsInv, RowsTyped
<1>4. ASSUME NEW t \in Any!Ids'
      PROVE  /\ s_task'[t] \in Any!Tasks /\ KeyOf(t)'
             /\ Any!ToGraph(s_task'[t].born) => s_task'[t].subject = s_graph'.subject
  <2>1. CASE t \in Any!Ids
    BY <1>1, <1>2, <2>1 DEF KeyOf, Any!Born, Any!Live
  <2>2. CASE t = Any!NewId
    <3>1. s_task'[t] = row
      BY <1>1, <2>2
    <3> QED
      BY <1>3, <2>2, <3>1 DEF KeyOf, Any!Born, Any!Live, NewRow
  <2> QED
    BY <1>1, <2>1, <2>2
<1>5. RowsTyped'
  <2>1. Any!NewId \in 0..MaxTask
    BY <1>1 DEF Any!SubmissionAssumption
  <2>2. s_revived' \subseteq Any!Ids' /\ s_taken' \subseteq Any!Ids' /\ s_graph' \in SubjectRow
    BY <1>1 DEF RowsInv, RowsTyped
  <2>3. \E n \in 0..MaxTask : Any!Ids' = 1..n
    BY <1>1, <2>1
  <2> QED
    BY <1>4, <2>2, <2>3 DEF RowsTyped
<1>6. \A t, u \in Any!Holders' : t = u
  <2> SUFFICES ASSUME NEW t \in Any!Holders', NEW u \in Any!Holders' PROVE t = u
    OBVIOUS
  <2>1. /\ t \in Any!Ids' /\ u \in Any!Ids' /\ s_task'[t].key /\ s_task'[u].key
    BY DEF Any!Holders
  <2>2. \A v \in Any!Ids : s_task'[v].key => v \in Any!Holders
    BY <1>1 DEF Any!Holders
  <2>3. s_task'[Any!NewId].key => Any!Holders = {}
    BY <1>1 DEF NewRow
  <2>4. \A v, w \in Any!Holders : v = w
    BY DEF RowsInv, KeyKept
  <2>5. \A v \in Any!Ids' : v \in Any!Ids \/ v = Any!NewId
    BY <1>1
  <2>6. CASE t = Any!NewId
    BY <2>1, <2>2, <2>3, <2>5, <2>6
  <2>7. CASE u = Any!NewId
    BY <2>1, <2>2, <2>3, <2>5, <2>7
  <2>8. CASE t \in Any!Ids /\ u \in Any!Ids
    BY <2>1, <2>2, <2>4, <2>8
  <2> QED
    BY <2>1, <2>5, <2>6, <2>7, <2>8
<1>7. KeyKept'
  BY <1>4, <1>6 DEF KeyKept
<1>8. Any!SubjectsAgree'
  BY <1>4 DEF Any!SubjectsAgree
<1>9. Any!Holders \subseteq Any!Holders'
  BY <1>1 DEF Any!Holders
<1>10. Grows
  BY <1>1, <1>9, <1>4 DEF Grows, RowsInv, RowsTyped, SubjectRow
<1> QED
  BY <1>5, <1>7, <1>8, <1>10 DEF RowsInv

(* A step of the rows and of the one call that makes it.                   *)
LEMMA CallerStepKeeps ==
  ASSUME CallsInv, NEW c \in Callers, NEW v, v \in CallRow, RowsInv', Grows,
         Informed(v)', s_call' = [s_call EXCEPT ![c] = v], s_started' = s_started
  PROVE  CallsInv'
<1>1. s_call \in [Callers -> CallRow]
  BY DEF CallsInv
<1>2. s_call' \in [Callers -> CallRow] /\ s_call'[c] = v /\ \A d \in Callers : d # c => s_call'[d] = s_call[d]
  BY <1>1
<1>3. Informed(s_call[c])'
  BY <1>2
<1>4. \A d \in Callers : s_call'[d] = s_call[d] \/ Informed(s_call[d])'
  <2> SUFFICES ASSUME NEW d \in Callers PROVE s_call'[d] = s_call[d] \/ Informed(s_call[d])'
    OBVIOUS
  <2>1. CASE d = c
    BY <1>3, <2>1
  <2> QED
    BY <1>2, <2>1
<1> QED
  BY <1>2, <1>4, RowsStepKeeps

(* A deferred enqueue and an accepted one answer with the task they added. *)
LEMMA AnswerInformed ==
  ASSUME RowsTyped', NEW r, Informed(r), s_graph' = s_graph,
         NEW v \in CallRow, NEW a \in {"created", "done"}, NEW n \in Any!Ids',
         RowIs(v, a, r.kind, r.subject, n), a = "done" => s_task'[n].attempt
  PROVE  Informed(v)'
<1>1. n # Any!None /\ n \in Any!Ids'
  BY DEF RowsTyped, Any!None
<1> QED
  BY <1>1 DEF Informed, RowIs

LEMMA DeferKeeps ==
  ASSUME CallsInv, Any!SubmissionAssumption, NEW c \in Callers, Any!Defer(c)
  PROVE  CallsInv'
<1> DEFINE row == [status |-> "PENDING", key |-> FALSE, born |-> "deferred",
                   subject |-> "none", attempt |-> FALSE]
           v == [s_call[c] EXCEPT !.at = "created", !.answer = Any!NewId]
<1>1. NewRow(row)
  BY DEF NewRow, Any!Tasks, Any!Keyed, Any!ToGraph, Any!Kinds
<1>2. Any!NewId <= MaxTask /\ s_task' = Any!Added(row) /\ UNCHANGED <<s_graph, s_started, s_revived, s_taken>>
  BY DEF Any!Defer
<1>3. s_call' = [s_call EXCEPT ![c] = v]
  BY DEF Any!Defer
<1> HIDE DEF row
<1>4. RowsInv' /\ Grows
  BY <1>1, <1>2, AddedKeeps DEF CallsInv
<1>5. Any!NewId \in Any!Ids' /\ Any!NewId \in Numbers
  <2>1. Any!NewId \in Any!Ids' /\ Any!NewId \in 1..MaxTask
    BY <1>2, AddedIs DEF CallsInv, RowsInv
  <2> QED
    BY <2>1 DEF Numbers, Any!SubmissionAssumption
<1>6. s_call[c] \in CallRow /\ Informed(s_call[c])
  BY Fields
<1>7. v \in CallRow /\ RowIs(v, "created", s_call[c].kind, s_call[c].subject, Any!NewId)
  <2>1. "created" \in Places
    BY DEF Places
  <2> QED
    BY <1>5, <1>6, <2>1, CallEdited, Fields
<1> HIDE DEF v
<1>8. PICK n, r : n = Any!NewId /\ r = s_call[c]
  OBVIOUS
<1>9. n \in Any!Ids' /\ Informed(r) /\ RowIs(v, "created", r.kind, r.subject, n)
  BY <1>5, <1>6, <1>7, <1>8
<1>10. PICK w : w = v
  OBVIOUS
<1>11. Informed(w)'
  BY <1>2, <1>4, <1>7, <1>9, <1>10, AnswerInformed DEF RowsInv
<1> QED
  BY <1>2, <1>3, <1>4, <1>7, <1>10, <1>11, CallerStepKeeps

(* The attempt of a deferred task is scheduled. *)
LEMMA AttemptKeeps ==
  ASSUME CallsInv, Any!SubmissionAssumption, NEW c \in Callers, Any!Schedule(c)
  PROVE  CallsInv'
<1> DEFINE n == s_call[c].answer
           v == [s_call[c] EXCEPT !.at = "done"]
<1>1. s_call[c] \in CallRow /\ Informed(s_call[c]) /\ s_call[c].at = "created"
  BY Fields DEF Any!Schedule, Any!At
<1>2. n \in Any!Ids
  BY <1>1 DEF Informed
<1>3. /\ s_task' = [s_task EXCEPT ![n].attempt = TRUE]
      /\ UNCHANGED <<s_graph, s_started, s_revived, s_taken>> /\ s_call' = [s_call EXCEPT ![c] = v]
  BY DEF Any!Schedule, Any!To
<1> HIDE DEF n
<1>4. /\ Any!Ids' = Any!Ids /\ s_task'[n] = [s_task[n] EXCEPT !.attempt = TRUE]
      /\ \A t \in Any!Ids : t # n => s_task'[t] = s_task[t]
  BY <1>2, <1>3 DEF Any!Ids
<1>5. /\ s_task'[n] \in Any!Tasks /\ s_task'[n].status = s_task[n].status
      /\ s_task'[n].key = s_task[n].key /\ s_task'[n].born = s_task[n].born
      /\ s_task'[n].subject = s_task[n].subject /\ s_task'[n].attempt = TRUE
  <2>1. PICK r : r = s_task[n]
    OBVIOUS
  <2>2. r \in Any!Tasks /\ s_task'[n] = [r EXCEPT !.attempt = TRUE]
    BY <1>2, <1>4, <2>1, RowFields DEF CallsInv
  <2> QED
    BY <2>1, <2>2, AttemptEdited
<1>6. RowsInv'
  <2>1. ASSUME NEW t \in Any!Ids
        PROVE  /\ s_task'[t] \in Any!Tasks /\ KeyOf(t)' /\ (s_task'[t].key => s_task[t].key)
               /\ Any!ToGraph(s_task'[t].born) => s_task'[t].subject = s_graph'.subject
    <3>1. /\ s_task[t] \in Any!Tasks /\ KeyOf(t)
          /\ Any!ToGraph(s_task[t].born) => s_task[t].subject = s_graph.subject
      BY RowFields DEF CallsInv
    <3>2. CASE t = n
      BY <1>3, <1>5, <3>1, <3>2 DEF KeyOf, Any!Born, Any!Live
    <3>3. CASE t # n
      BY <1>3, <1>4, <3>1, <3>3 DEF KeyOf, Any!Born, Any!Live
    <3> QED
      BY <3>2, <3>3
  <2>2. s_graph' \in SubjectRow /\ s_revived' \subseteq Any!Ids /\ s_taken' \subseteq Any!Ids
    BY <1>3 DEF CallsInv, RowsInv, RowsTyped
  <2> QED
    BY <1>4, <2>1, <2>2, SameRowsKeep DEF CallsInv
<1>7. Grows
  <2>1. Any!Holders' = Any!Holders
    BY <1>2, <1>4, <1>5 DEF Any!Holders
  <2> QED
    BY <1>2, <1>3, <1>4, <1>5, <2>1 DEF Grows
<1>8. v \in CallRow /\ RowIs(v, "done", s_call[c].kind, s_call[c].subject, n)
  <2>1. "done" \in Places
    BY DEF Places
  <2> QED
    BY <1>1, <2>1, CallEdited, Fields DEF n
<1> HIDE DEF v
<1>9. PICK m, r, w : m = n /\ r = s_call[c] /\ w = v
  OBVIOUS
<1>10. /\ m \in Any!Ids' /\ Informed(r) /\ w \in CallRow
       /\ RowIs(w, "done", r.kind, r.subject, m) /\ s_task'[m].attempt
  BY <1>1, <1>2, <1>4, <1>5, <1>8, <1>9
<1>11. Informed(w)'
  BY <1>3, <1>6, <1>10, AnswerInformed DEF RowsInv
<1> QED
  BY <1>3, <1>6, <1>7, <1>9, <1>10, <1>11, CallerStepKeeps

(* The row is refused by the unique constraint, or added with its attempt. *)
LEMMA CreateKeeps ==
  ASSUME CallsInv, Any!SubmissionAssumption, NEW c \in Callers, Any!Create(c)
  PROVE  CallsInv'
<1>1. /\ s_call[c] \in CallRow /\ Informed(s_call[c]) /\ s_call[c].kind \in Any!Kinds
      /\ s_call[c].at \in {"looked", "labelled"}
      /\ UNCHANGED <<s_graph, s_started, s_revived, s_taken>>
  BY Fields DEF Any!Create, Any!At
<1>2. CASE Any!Collides(c)
  <2> DEFINE v == [s_call[c] EXCEPT !.at = "collided"]
  <2>1. s_call' = [s_call EXCEPT ![c] = v] /\ s_task' = s_task
    BY <1>2 DEF Any!Create, Any!To
  <2>2. v \in CallRow /\ RowIs(v, "collided", s_call[c].kind, s_call[c].subject, s_call[c].answer)
    <3>1. "collided" \in Places
      BY DEF Places
    <3> QED
      BY <1>1, <3>1, CallEdited, Fields
  <2>3. s_started' \in 0..1
    BY <1>1 DEF CallsInv
  <2> HIDE DEF v
  <2>4. Informed(v)
    BY <1>1, <1>2, <2>2 DEF Informed, RowIs, Any!Collides, Any!Kind
  <2> QED
    BY <1>1, <2>1, <2>3, <2>4, OneCallKeeps
<1>3. CASE ~Any!Collides(c)
  <2> DEFINE row == [status |-> "RUNNING", key |-> Any!Keyed(Any!Kind(c)), born |-> Any!Kind(c),
                     subject |-> Any!SubjectNow(c), attempt |-> TRUE]
             v == [s_call[c] EXCEPT !.at = "done", !.answer = Any!NewId]
  <2>1. Any!NewId <= MaxTask /\ s_task' = Any!Added(row) /\ s_call' = [s_call EXCEPT ![c] = v]
    BY <1>3 DEF Any!Create, Any!Answers
  <2>2. NewRow(row)
    <3>1. s_graph.subject \in Subjects /\ s_call[c].subject \in Subjects
      BY Fields DEF CallsInv, RowsInv, RowsTyped, SubjectRow, Subjects
    <3>2. Any!SubjectNow(c) \in Subjects
      BY <3>1 DEF Any!SubjectNow
    <3>3. Any!ToGraph(Any!Kind(c)) => Any!SubjectNow(c) = s_graph.subject
      BY <1>1 DEF Any!SubjectNow, Informed
    <3>4. Any!Keyed(Any!Kind(c)) => Any!Holders = {}
      BY <1>3 DEF Any!Collides
    <3>5. Any!Keyed(Any!Kind(c)) \in BOOLEAN
      BY DEF Any!Keyed
    <3>6. Any!Kind(c) \in Any!Kinds
      BY <1>1 DEF Any!Kind
    <3>7. PICK k, s, b : k = Any!Kind(c) /\ s = Any!SubjectNow(c) /\ b = Any!Keyed(Any!Kind(c))
      OBVIOUS
    <3>8. row = [status |-> "RUNNING", key |-> b, born |-> k, subject |-> s, attempt |-> TRUE]
      BY <3>7
    <3>9. k \in Any!Kinds /\ s \in Subjects /\ b \in BOOLEAN
      BY <3>2, <3>5, <3>6, <3>7
    <3> HIDE DEF row
    <3>10. row \in Any!Tasks
      BY <3>8, <3>9 DEF Any!Tasks, Subjects
    <3>11. /\ row.status = "RUNNING" /\ row.key = b /\ row.born = k /\ row.subject = s
           /\ row.attempt = TRUE
      BY <3>8
    <3> QED
      BY <3>3, <3>4, <3>7, <3>10, <3>11 DEF NewRow
  <2>3. s_task'[Any!NewId] = row /\ Any!NewId \in Any!Ids' /\ Any!NewId \in 1..MaxTask
    BY <2>1, AddedIs DEF CallsInv, RowsInv
  <2>4. s_task'[Any!NewId].attempt = TRUE
    BY <2>3
  <2> HIDE DEF row
  <2>5. RowsInv' /\ Grows
    BY <1>1, <2>1, <2>2, AddedKeeps DEF CallsInv
  <2>6. Any!NewId \in Numbers
    BY <2>3 DEF Numbers, Any!SubmissionAssumption
  <2>7. v \in CallRow /\ RowIs(v, "done", s_call[c].kind, s_call[c].subject, Any!NewId)
    <3>1. "done" \in Places
      BY DEF Places
    <3> QED
      BY <1>1, <2>6, <3>1, CallEdited, Fields
  <2> HIDE DEF v
  <2>8. PICK m, r, w : m = Any!NewId /\ r = s_call[c] /\ w = v
    OBVIOUS
  <2>9. /\ m \in Any!Ids' /\ Informed(r) /\ w \in CallRow
        /\ RowIs(w, "done", r.kind, r.subject, m) /\ s_task'[m].attempt
    BY <1>1, <2>3, <2>4, <2>7, <2>8
  <2>10. Informed(w)'
    BY <1>1, <2>5, <2>9, AnswerInformed DEF RowsInv
  <2> QED
    BY <1>1, <2>1, <2>5, <2>8, <2>9, <2>10, CallerStepKeeps
<1> QED
  BY <1>2, <1>3
-----------------------------------------------------------------------------
LEMMA CallsStart ==
  ASSUME Any!SubmissionAssumption, Any!Init
  PROVE  CallsInv
<1>1. Any!Ids = {} /\ Any!Holders = {}
  BY DEF Any!Init, Any!Ids, Any!Holders
<1>2. Any!Idle \in CallRow /\ RowIs(Any!Idle, "idle", "keyed", "none", Any!None)
  <2>1. /\ "idle" \in Places /\ "keyed" \in Any!Kinds /\ "none" \in Subjects
        /\ 0 \in Numbers
    BY DEF Places, Any!Kinds, Subjects, Numbers, Any!SubmissionAssumption
  <2> QED
    BY <2>1 DEF Any!Idle, CallRow, RowIs, Any!None
<1>3. RowsInv
  <2>1. 0 \in 0..MaxTask /\ Any!Ids = 1..0
    BY <1>1 DEF Any!SubmissionAssumption
  <2>2. \E n \in 0..MaxTask : Any!Ids = 1..n
    BY <2>1
  <2>3. s_graph \in SubjectRow /\ s_revived = {} /\ s_taken = {}
    BY DEF Any!Init, SubjectRow
  <2> QED
    BY <1>1, <2>2, <2>3 DEF RowsInv, RowsTyped, KeyKept, Any!SubjectsAgree
<1>4. s_started \in 0..1 /\ s_call = [c \in Callers |-> Any!Idle]
  BY DEF Any!Init
<1>5. Informed(Any!Idle)
  BY <1>2 DEF Informed, RowIs
<1> QED
  BY <1>2, <1>3, <1>4, <1>5 DEF CallsInv

LEMMA CallsStep ==
  ASSUME Any!SubmissionAssumption, CallsInv, [Any!Next]_Any!vars
  PROVE  CallsInv'
<1>1. CASE UNCHANGED Any!vars
  <2>1. UNCHANGED <<s_task, s_graph, s_started, s_call, s_revived, s_taken>>
    BY <1>1 DEF Any!vars
  <2>2. RowsInv'
    BY <2>1 DEF CallsInv, RowsInv, RowsTyped, KeyKept, KeyOf, Any!Born, Any!Live, Any!Holders,
                Any!Ids,
                Any!SubjectsAgree
  <2>3. Grows
    BY <2>1 DEF Grows, Any!Ids, Any!Holders
  <2> QED
    BY <2>1, <2>2, <2>3, RowsStepKeeps DEF CallsInv
<1>2. ASSUME NEW c \in Callers, Any!Call(c) PROVE CallsInv'
  BY <1>2, IdlesKeep, ReclaimKeeps, LookUpKeeps, LabelKeeps, CreateKeeps, RecoverKeeps,
     DeferKeeps, AttemptKeeps, GraphStartKeeps DEF Any!Call
<1>3. ASSUME NEW t \in Any!Ids, Any!End(t) \/ Any!Requeue(t) PROVE CallsInv'
  BY <1>3, FatesKeep
<1> QED
  BY <1>1, <1>2, <1>3, GraphMovesKeep DEF Any!Next

(* What the invariant says.                                                *)
LEMMA CallsMean ==
  ASSUME Any!SubmissionAssumption, CallsInv
  PROVE  Any!TypeOK /\ Any!OneLivePerKey /\ Any!LosersAreAnswered /\ Any!SubjectsAgree /\ Any!AnswersAreWhole
<1>1. Any!TypeOK
  <2>1. Any!Ids \subseteq 1..MaxTask
    BY NextNumber DEF CallsInv, RowsInv
  <2> QED
    BY <2>1 DEF Any!TypeOK, CallsInv, RowsInv, RowsTyped, SubjectRow, CallRow, Places, Subjects,
                Numbers
<1>2. Any!OneLivePerKey
  <2> SUFFICES ASSUME NEW t \in Any!Ids \ (s_revived \cap s_taken), NEW u \in Any!Ids \ (s_revived \cap s_taken),
                      Any!Born(t), Any!Born(u), Any!Live(t), Any!Live(u)
               PROVE  t = u
    BY DEF Any!OneLivePerKey
  <2>1. \A w \in Any!Ids \ (s_revived \cap s_taken) : Any!Born(w) /\ Any!Live(w) => w \in Any!Holders
    BY DEF CallsInv, RowsInv, KeyKept, KeyOf, Any!Holders
  <2> QED
    BY <2>1 DEF CallsInv, RowsInv, KeyKept
<1>3. Any!LosersAreAnswered
  BY DEF Any!LosersAreAnswered, CallsInv, Informed, Any!At, Any!Kind
<1>4. Any!AnswersAreWhole
  BY DEF Any!AnswersAreWhole, CallsInv, Informed, Any!At
<1> QED
  BY <1>1, <1>2, <1>3, <1>4 DEF CallsInv, RowsInv
-----------------------------------------------------------------------------
(***************************************************************************)
(* The delay before a retry.                                               *)
(***************************************************************************)
(* A delay is what its failure made it, and the one before it as well.     *)
DelayOf(n, f, d) == d \in Delay!Delays(n, Delay!HintOf(f), Delay!IsRateLimit(f.exception))
DelayInv ==
  /\ Delay!TypeOK
  /\ d_state \in {"scheduled", "running"} =>
       IF d_number = 1 THEN d_failure = Delay!NoFailure ELSE DelayOf(d_number - 1, d_failure, d_delay)
  /\ d_state = "scheduled" =>
       /\ d_number > 1 /\ Delay!Retries(d_failure.exception)
       /\ IF d_number = 2 THEN d_before.failure = Delay!NoFailure
          ELSE DelayOf(d_number - 2, d_before.failure, d_before.delay)
  /\ d_state = "exhausted" => ~(Delay!AllowsMore /\ Delay!Retries(d_failure.exception))

(* Tenths in whole seconds.                                                *)
LEMMA InSeconds ==
  ASSUME NEW x \in Nat
  PROVE  x \div Delay!Second \in Nat /\ (x \div Delay!Second) * Delay!Second <= x
         /\ x < (x \div Delay!Second) * Delay!Second + Delay!Second
BY DEF Delay!Second

LEMMA InSecondsGrows ==
  ASSUME NEW x \in Nat, NEW y \in Nat, x <= y
  PROVE  x \div Delay!Second <= y \div Delay!Second
BY DEF Delay!Second

LEMMA Powers ==
  ASSUME NEW n \in 1..9
  PROVE  2^(n - 1) \in Nat \ {0} /\ (n > 1 => 2^(n - 1) = 2 * 2^(n - 2))
<1>1. CASE n = 1
  <2>1. n - 1 = 0
    BY <1>1
  <2> QED
    BY <1>1, <2>1
<1>2. CASE n = 2
  <2>1. n - 1 = 1 /\ n - 2 = 0
    BY <1>2
  <2> QED
    BY <2>1
<1>3. CASE n = 3
  <2>1. n - 1 = 2 /\ n - 2 = 1
    BY <1>3
  <2> QED
    BY <2>1
<1>4. CASE n = 4
  <2>1. n - 1 = 3 /\ n - 2 = 2
    BY <1>4
  <2> QED
    BY <2>1
<1>5. CASE n = 5
  <2>1. n - 1 = 4 /\ n - 2 = 3
    BY <1>5
  <2> QED
    BY <2>1
<1>6. CASE n = 6
  <2>1. n - 1 = 5 /\ n - 2 = 4
    BY <1>6
  <2> QED
    BY <2>1
<1>7. CASE n = 7
  <2>1. n - 1 = 6 /\ n - 2 = 5
    BY <1>7
  <2> QED
    BY <2>1
<1>8. CASE n = 8
  <2>1. n - 1 = 7 /\ n - 2 = 6
    BY <1>8
  <2> QED
    BY <2>1
<1>9. CASE n = 9
  <2>1. n - 1 = 8 /\ n - 2 = 7
    BY <1>9
  <2> QED
    BY <2>1
<1> QED
  BY <1>1, <1>2, <1>3, <1>4, <1>5, <1>6, <1>7, <1>8, <1>9

LEMMA PolicyIs ==
  ASSUME Delay!PolicyAssumption, d_policy \in Policies
  PROVE  /\ d_policy.max_attempts \in 1..10 /\ d_policy.base_delay \in Nat
         /\ d_policy.jitter_max \in 0..100 /\ Delay!Cap \in Nat \ {0}
BY DEF Delay!PolicyAssumption, Delay!ValidPolicy, Delay!Cap

LEMMA HintIs ==
  ASSUME Delay!PolicyAssumption, NEW f \in Delay!Failures \cup {Delay!NoFailure}
  PROVE  /\ Delay!HintOf(f) = Delay!NoHint \/ (Delay!HintOf(f) \in Nat /\ Delay!HintOf(f) >= Delay!Second)
         /\ Delay!HintOf(f) # Delay!NoHint => Delay!IsRateLimit(f.exception)
         /\ f.hint = Delay!NoHint => Delay!HintOf(f) = Delay!NoHint
<1>1. f.hint \in Nat \cup {Delay!NoHint}
  <2>1. CASE f \in Delay!Failures
    <3>1. f.hint \in HintTexts \cup {Delay!NoHint}
      BY <2>1 DEF Delay!Failures
    <3> QED
      BY <3>1 DEF Delay!PolicyAssumption
  <2>2. CASE f = Delay!NoFailure
    BY <2>2 DEF Delay!NoFailure
  <2> QED
    BY <2>1, <2>2
<1> QED
  BY <1>1 DEF Delay!HintOf, Delay!Parsed, Delay!Larger, Delay!Second, Delay!NoHint

LEMMA BackoffIs ==
  ASSUME Delay!PolicyAssumption, d_policy \in Policies, NEW n \in 1..9, NEW rl \in BOOLEAN
  PROVE  /\ Delay!Backoff(n, rl) \in Nat
         /\ d_policy.base_delay > 0 => Delay!Backoff(n, rl) > 0
         /\ rl => Delay!Backoff(n, rl) = Delay!Smaller(d_policy.base_delay * 2^(n - 1), Delay!Cap)
<1>1. PICK p \in Nat \ {0}, b \in Nat : p = 2^(n - 1) /\ b = d_policy.base_delay
  BY Powers, PolicyIs
<1>2. b * p \in Nat /\ b * n \in Nat /\ (b > 0 => b * p > 0 /\ b * n > 0)
  BY <1>1
<1>3. Delay!Cap \in Nat \ {0}
  BY PolicyIs
<1> QED
  BY <1>1, <1>2, <1>3 DEF Delay!Backoff, Delay!Smaller, Delay!Cap

(* What was waited, in tenths, before it was cut down to whole seconds.    *)
LEMMA HintedIs ==
  ASSUME Delay!PolicyAssumption, d_policy \in Policies, NEW h \in Nat, h >= Delay!Second,
         NEW x \in Delay!Hinted(h)
  PROVE  x \in Nat /\ x <= Delay!Cap /\ x >= Delay!Smaller(h, Delay!Cap)
<1>1. Delay!Cap \in Nat \ {0}
  BY PolicyIs
<1>2. PICK j \in 0..(h \div 10) : x = Delay!Smaller(h + j, Delay!Cap)
  BY DEF Delay!Hinted, Delay!Cap
<1>3. j \in Nat
  OBVIOUS
<1> QED
  BY <1>1, <1>2, <1>3 DEF Delay!Smaller

LEMMA JitteredIs ==
  ASSUME Delay!PolicyAssumption, d_policy \in Policies, NEW d \in Nat, NEW x \in Delay!Jittered(d)
  PROVE  /\ x \in Nat
         /\ d_policy.jitter_max > 0 /\ d > 0 => x >= Delay!Second
         /\ d_policy.jitter_max = 0 => x = d
<1> DEFINE most == (d * d_policy.jitter_max) \div 100
<1>1. CASE d_policy.jitter_max = 0 \/ d = 0
  <2>1. x = d
    BY <1>1 DEF Delay!Jittered
  <2> QED
    BY <1>1, <2>1, PolicyIs
<1>2. CASE ~(d_policy.jitter_max = 0 \/ d = 0)
  <2>1. PICK j \in -most..most : x = Delay!Larger(Delay!Second, d + j)
    BY <1>2 DEF Delay!Jittered
  <2>2. most \in Int
    <3>1. PICK k \in Nat : k = d_policy.jitter_max
      BY PolicyIs
    <3>2. d * k \in Nat
      BY <3>1
    <3> QED
      BY <3>1, <3>2
  <2>3. j \in Int
    BY <2>1, <2>2
  <2> QED
    BY <1>2, <2>1, <2>3 DEF Delay!Larger, Delay!Second
<1> QED
  BY <1>1, <1>2

LEMMA CappedIs ==
  ASSUME Delay!PolicyAssumption, d_policy \in Policies, NEW d \in Nat, NEW rl \in BOOLEAN
  PROVE  /\ Delay!CappedAfter(d, rl) \in Nat /\ (rl => Delay!CappedAfter(d, rl) = Delay!Smaller(d, Delay!Cap))
         /\ rl => Delay!CappedAfter(d, rl) <= Delay!Cap
         /\ d >= Delay!Second /\ Delay!Cap >= Delay!Second => Delay!CappedAfter(d, rl) >= Delay!Second
BY PolicyIs DEF Delay!CappedAfter, Delay!Smaller, Delay!Cap, Delay!Second

(* What a delay is, in whole seconds.                                      *)
LEMMA DelayIs ==
  ASSUME Delay!PolicyAssumption, d_policy \in Policies, NEW n \in 1..9,
         NEW f \in Delay!Failures \cup {Delay!NoFailure}, NEW d, DelayOf(n, f, d)
  PROVE  /\ d \in Nat
         /\ Delay!IsRateLimit(f.exception) => d * Delay!Second <= Delay!Cap
         /\ Delay!HintOf(f) # Delay!NoHint => d >= Delay!Smaller(Delay!HintOf(f), Delay!Cap) \div Delay!Second
         /\ Delay!Cap >= Delay!Second /\ (Delay!HintOf(f) # Delay!NoHint \/ (d_policy.jitter_max > 0 /\ d_policy.base_delay > 0))
              => d >= 1
         /\ Delay!IsRateLimit(f.exception) /\ Delay!HintOf(f) = Delay!NoHint /\ d_policy.jitter_max = 0
              => d = Delay!Smaller(d_policy.base_delay * 2^(n - 1), Delay!Cap) \div Delay!Second
<1> DEFINE rl == Delay!IsRateLimit(f.exception)
<1>0. Delay!Cap \in Nat \ {0} /\ rl \in BOOLEAN
  BY PolicyIs DEF Delay!IsRateLimit
<1>1. CASE Delay!HintOf(f) # Delay!NoHint
  <2>1. PICK h \in Nat : h = Delay!HintOf(f) /\ h >= Delay!Second
    BY <1>1, HintIs
  <2>2. PICK x \in Delay!Hinted(h) : d = x \div Delay!Second
    BY <1>1, <2>1 DEF DelayOf, Delay!Delays
  <2>3. x \in Nat /\ x <= Delay!Cap /\ x >= Delay!Smaller(h, Delay!Cap)
    BY <2>1, HintedIs
  <2>4. d \in Nat /\ d * Delay!Second <= x /\ x < d * Delay!Second + Delay!Second
    BY <2>2, <2>3, InSeconds
  <2>5. Delay!Smaller(h, Delay!Cap) \in Nat
    BY <1>0 DEF Delay!Smaller
  <2>6. d >= Delay!Smaller(h, Delay!Cap) \div Delay!Second
    BY <2>2, <2>3, <2>5, InSecondsGrows, InSeconds
  <2>7. Delay!Cap >= Delay!Second => d >= 1
    BY <1>0, <2>1, <2>3, <2>4 DEF Delay!Smaller, Delay!Second
  <2>8. d * Delay!Second <= Delay!Cap
    BY <1>0, <2>3, <2>4 DEF Delay!Second
  <2> QED
    BY <1>1, <2>1, <2>4, <2>6, <2>7, <2>8
<1>2. CASE Delay!HintOf(f) = Delay!NoHint
  <2>1. PICK y \in Delay!Jittered(Delay!Backoff(n, rl)) : d = Delay!CappedAfter(y, rl) \div Delay!Second
    BY <1>2 DEF DelayOf, Delay!Delays
  <2>2. PICK b \in Nat : /\ b = Delay!Backoff(n, rl) /\ (d_policy.base_delay > 0 => b > 0)
                         /\ rl => b = Delay!Smaller(d_policy.base_delay * 2^(n - 1), Delay!Cap)
    BY <1>0, BackoffIs
  <2>3. /\ y \in Nat /\ (d_policy.jitter_max > 0 /\ b > 0 => y >= Delay!Second)
        /\ d_policy.jitter_max = 0 => y = b
    BY <2>1, <2>2, JitteredIs
  <2> HIDE DEF rl
  <2>4. PICK x \in Nat : /\ x = Delay!CappedAfter(y, rl) /\ (rl => x = Delay!Smaller(y, Delay!Cap) /\ x <= Delay!Cap)
                         /\ y >= Delay!Second /\ Delay!Cap >= Delay!Second => x >= Delay!Second
    BY <1>0, <2>3, CappedIs
  <2>5. d = x \div Delay!Second /\ d \in Nat /\ d * Delay!Second <= x /\ x < d * Delay!Second + Delay!Second
    BY <2>1, <2>4, InSeconds
  <2>6. x >= Delay!Second => d >= 1
    BY <2>4, <2>5 DEF Delay!Second
  <2>7. ASSUME rl PROVE d * Delay!Second <= Delay!Cap
    <3>1. x <= Delay!Cap /\ Delay!Cap \in Nat
      BY <1>0, <2>4, <2>7
    <3> QED
      BY <2>5, <3>1 DEF Delay!Second
  <2>8. ASSUME rl, d_policy.jitter_max = 0
        PROVE  x = Delay!Smaller(d_policy.base_delay * 2^(n - 1), Delay!Cap)
    <3>0. b = Delay!Smaller(d_policy.base_delay * 2^(n - 1), Delay!Cap) /\ x = Delay!Smaller(b, Delay!Cap)
      BY <2>2, <2>3, <2>4, <2>8
    <3>1. b <= Delay!Cap => x = b
      BY <1>0, <3>0 DEF Delay!Smaller
    <3>2. b <= Delay!Cap
      <4>1. PICK w \in Nat : w = d_policy.base_delay * 2^(n - 1)
        <5>1. PICK p \in Nat, k \in Nat : p = 2^(n - 1) /\ k = d_policy.base_delay
          BY Powers, PolicyIs
        <5>2. k * p \in Nat
          BY <5>1
        <5> QED
          BY <5>1, <5>2
      <4> QED
        BY <1>0, <3>0, <4>1 DEF Delay!Smaller
    <3> QED
      BY <3>0, <3>1, <3>2
  <2> QED
    BY <1>2, <2>3, <2>2, <2>4, <2>5, <2>6, <2>7, <2>8 DEF rl
<1> QED
  BY <1>1, <1>2

(* One more rate limit at least doubles the wait. *)
LEMMA Doubles ==
  ASSUME Delay!PolicyAssumption, d_policy \in Policies, NEW n \in 2..9
  PROVE  LET earlier == Delay!Smaller(d_policy.base_delay * 2^(n - 2), Delay!Cap) \div Delay!Second
             later == Delay!Smaller(d_policy.base_delay * 2^(n - 1), Delay!Cap) \div Delay!Second
         IN  later >= Delay!Smaller(2 * earlier, Delay!Cap \div Delay!Second)
<1>1. PICK p \in Nat \ {0}, b \in Nat, c \in Nat \ {0} :
        p = 2^(n - 2) /\ b = d_policy.base_delay /\ c = Delay!Cap
  <2>1. n - 1 \in 1..9 /\ (n - 1) - 1 = n - 2
    OBVIOUS
  <2> QED
    BY <2>1, Powers, PolicyIs
<1>2. 2^(n - 1) = 2 * p
  <2>1. n \in 1..9 /\ n > 1
    OBVIOUS
  <2> QED
    BY <1>1, <2>1, Powers
<1>3. PICK x \in Nat : x = b * p
  BY <1>1
<1>4. b * (2 * p) = 2 * x
  BY <1>1, <1>3
<1>5. Delay!Smaller(2 * x, c) \div 10 >= Delay!Smaller(2 * (Delay!Smaller(x, c) \div 10), c \div 10)
  <2> DEFINE s == Delay!Smaller(x, c)
             q == s \div 10
  <2>1. s \in Nat /\ s <= x /\ s <= c /\ (s = x \/ s = c)
    BY <1>1, <1>3 DEF Delay!Smaller
  <2> HIDE DEF s
  <2>2. q \in Nat /\ 10 * q <= s
    BY <2>1
  <2> HIDE DEF q
  <2>3. CASE 2 * x <= c
    <3>1. 2 * q <= (2 * x) \div 10
      BY <1>3, <2>1, <2>2
    <3> QED
      BY <1>1, <1>3, <2>2, <2>3, <3>1 DEF Delay!Smaller, s, q
  <2>4. CASE 2 * x > c
    BY <1>1, <1>3, <2>2, <2>4 DEF Delay!Smaller, s, q
  <2> QED
    BY <1>1, <1>3, <2>3, <2>4
<1> QED
  BY <1>1, <1>2, <1>3, <1>4, <1>5 DEF Delay!Second

LEMMA StartDelay == ASSUME Delay!PolicyAssumption, Delay!Init PROVE DelayInv
<1>1. Delay!TypeOK
  BY PolicyIs DEF Delay!Init, Delay!TypeOK
<1> QED
  BY <1>1 DEF Delay!Init, DelayInv

LEMMA FailDelays ==
  ASSUME Delay!PolicyAssumption, DelayInv, NEW f \in Delay!Failures, Delay!Fail(f)
  PROVE  DelayInv'
<1>1. /\ d_policy' = d_policy /\ d_policy \in Policies /\ d_failure' = f /\ d_state = "running"
      /\ d_before' = [failure |-> d_failure, delay |-> d_delay]
      /\ d_number \in 1..d_policy.max_attempts /\ d_policy.max_attempts \in 1..10
      /\ d_delay \in Nat /\ d_failure \in Delay!Failures \cup {Delay!NoFailure}
      /\ IF d_number = 1 THEN d_failure = Delay!NoFailure ELSE DelayOf(d_number - 1, d_failure, d_delay)
  BY PolicyIs DEF Delay!Fail, DelayInv, Delay!TypeOK
<1>2. d_before'.failure = d_failure /\ d_before'.delay = d_delay
      /\ d_before' \in [failure: Delay!Failures \cup {Delay!NoFailure}, delay: Nat]
  BY <1>1
<1>3. CASE /\ Delay!AllowsMore /\ Delay!Retries(f.exception)
           /\ d_delay' \in Delay!Delays(d_number, Delay!HintOf(f), Delay!IsRateLimit(f.exception))
           /\ d_number' = d_number + 1 /\ d_state' = "scheduled"
  <2>1. d_number \in 1..9 /\ d_number + 1 \in 1..d_policy.max_attempts
    BY <1>1, <1>3 DEF Delay!AllowsMore
  <2>2. DelayOf(d_number, f, d_delay')
    BY <1>3 DEF DelayOf
  <2>3. d_delay' \in Nat
    BY <1>1, <2>1, <2>2, DelayIs
  <2>4. Delay!TypeOK'
    BY <1>1, <1>2, <1>3, <2>1, <2>3 DEF Delay!TypeOK
  <2>5. d_number' # 1 /\ d_number' - 1 = d_number /\ d_number' - 2 = d_number - 1
        /\ (d_number' = 2 <=> d_number = 1) /\ d_number' > 1
    BY <1>3, <2>1
  <2>6. \A n, g, d : DelayOf(n, g, d)' <=> DelayOf(n, g, d)
    BY <1>1 DEF DelayOf, Delay!Delays, Delay!HintOf, Delay!Parsed, Delay!IsRateLimit, Delay!Hinted,
                Delay!Jittered, Delay!Backoff,
                Delay!CappedAfter
  <2>7. Delay!Retries(f.exception)'
    BY <1>1, <1>3 DEF Delay!Retries, Delay!IsRateLimit
  <2>8. DelayOf(d_number' - 1, d_failure', d_delay')
    BY <1>1, <2>2, <2>5
  <2>9. IF d_number' = 2 THEN d_before'.failure = Delay!NoFailure
        ELSE DelayOf(d_number' - 2, d_before'.failure, d_before'.delay)
    BY <1>1, <1>2, <2>5
  <2> QED
    BY <1>1, <1>3, <2>4, <2>5, <2>6, <2>7, <2>8, <2>9 DEF DelayInv
<1>4. CASE ~(Delay!AllowsMore /\ Delay!Retries(f.exception)) /\ d_state' = "exhausted" /\ UNCHANGED <<d_delay, d_number>>
  <2>1. Delay!TypeOK'
    BY <1>1, <1>2, <1>4 DEF Delay!TypeOK
  <2>2. ~(Delay!AllowsMore' /\ Delay!Retries(f.exception)')
    BY <1>1, <1>4 DEF Delay!AllowsMore, Delay!Retries, Delay!IsRateLimit
  <2> QED
    BY <1>1, <1>4, <2>1, <2>2 DEF DelayInv
<1> QED
  BY <1>3, <1>4 DEF Delay!Fail

LEMMA StepDelays == ASSUME Delay!PolicyAssumption, DelayInv, [Delay!Next]_Delay!vars PROVE DelayInv'
<1>1. CASE UNCHANGED Delay!vars \/ Delay!Start \/ Delay!Succeed
  <2>1. UNCHANGED <<d_policy, d_number, d_failure, d_delay, d_before>>
        /\ (d_state' = d_state \/ d_state' = "succeeded" \/ (d_state = "scheduled" /\ d_state' = "running"))
    BY <1>1 DEF Delay!vars, Delay!Start, Delay!Succeed
  <2>2. Delay!TypeOK'
    BY <2>1 DEF DelayInv, Delay!TypeOK
  <2>3. \A n, g, d : DelayOf(n, g, d)' <=> DelayOf(n, g, d)
    BY <2>1 DEF DelayOf, Delay!Delays, Delay!HintOf, Delay!Parsed, Delay!IsRateLimit, Delay!Hinted,
                Delay!Jittered, Delay!Backoff,
                Delay!CappedAfter
  <2>4. \A e : Delay!Retries(e)' <=> Delay!Retries(e)
    BY <2>1 DEF Delay!Retries, Delay!IsRateLimit
  <2> QED
    BY <2>1, <2>2, <2>3, <2>4 DEF DelayInv, Delay!AllowsMore
<1> QED
  BY <1>1, FailDelays DEF Delay!Next

(* What the invariant says of a delay.                                     *)
LEMMA DelaysMean ==
  ASSUME Delay!PolicyAssumption, DelayInv
  PROVE  /\ Delay!TypeOK /\ Delay!CapHolds /\ Delay!WholeHintIsFloor
         /\ Delay!RateLimitsBackOff /\ Delay!NeverAtOnce /\ Delay!EndsAsListed
<1>1. Delay!TypeOK /\ d_policy \in Policies
  BY DEF DelayInv, Delay!TypeOK
<1>2. ASSUME Delay!Retried
      PROVE  /\ d_number - 1 \in 1..9 /\ d_failure \in Delay!Failures \cup {Delay!NoFailure}
             /\ DelayOf(d_number - 1, d_failure, d_delay) /\ d_delay \in Nat
  BY <1>1, <1>2, PolicyIs DEF Delay!Retried, DelayInv, Delay!TypeOK
<1>3. Delay!CapHolds
  BY <1>1, <1>2, DelayIs DEF Delay!CapHolds, Delay!ByRateLimit
<1>4. Delay!WholeHintIsFloor
  BY <1>1, <1>2, DelayIs DEF Delay!WholeHintIsFloor, Delay!ByHint
<1>5. Delay!NeverAtOnce
  BY <1>1, <1>2, DelayIs DEF Delay!NeverAtOnce, Delay!ByHint
<1>6. Delay!RateLimitsBackOff
  <2> SUFFICES ASSUME Delay!ByRateLimit, ~Delay!ByHint, d_policy.jitter_max = 0,
                      d_before.failure # Delay!NoFailure,
                      Delay!IsRateLimit(d_before.failure.exception), d_before.failure.hint = Delay!NoHint
               PROVE  d_delay >= Delay!Smaller(2 * d_before.delay, Delay!Cap \div Delay!Second)
    BY DEF Delay!RateLimitsBackOff
  <2>1. Delay!Retried /\ Delay!HintOf(d_failure) = Delay!NoHint /\ Delay!IsRateLimit(d_failure.exception)
    BY DEF Delay!ByRateLimit, Delay!ByHint
  <2>2. d_number \in 3..10 /\ DelayOf(d_number - 2, d_before.failure, d_before.delay)
    BY <1>1, <2>1, PolicyIs DEF Delay!Retried, DelayInv, Delay!TypeOK
  <2>3. d_number - 2 \in 1..9 /\ (d_number - 2) - 1 = d_number - 3
        /\ d_number - 1 \in 2..9 /\ (d_number - 1) - 1 = d_number - 2 /\ (d_number - 1) - 2 = d_number - 3
    BY <2>2
  <2>4. d_before.failure \in Delay!Failures \cup {Delay!NoFailure} /\ Delay!HintOf(d_before.failure) = Delay!NoHint
    BY <1>1, HintIs DEF Delay!TypeOK
  <2>5. d_before.delay = Delay!Smaller(d_policy.base_delay * 2^(d_number - 3), Delay!Cap) \div Delay!Second
    BY <1>1, <2>2, <2>3, <2>4, DelayIs
  <2>6. PICK n \in 2..9 : n = d_number - 1 /\ n - 1 = d_number - 2 /\ n - 2 = d_number - 3
    BY <2>3
  <2>7. d_before.delay = Delay!Smaller(d_policy.base_delay * 2^(n - 2), Delay!Cap) \div Delay!Second
    BY <2>5, <2>6
  <2>8. n \in 1..9 /\ DelayOf(n, d_failure, d_delay) /\ d_failure \in Delay!Failures \cup {Delay!NoFailure}
    BY <1>2, <2>1, <2>6
  <2>9. d_delay = Delay!Smaller(d_policy.base_delay * 2^(n - 1), Delay!Cap) \div Delay!Second
    BY <1>1, <2>1, <2>8, DelayIs
  <2> QED
    BY <1>1, <2>7, <2>9, Doubles
<1>7. Delay!EndsAsListed
  BY DEF Delay!EndsAsListed, DelayInv, Delay!Retried, Delay!Retries, Delay!AllowsMore,
         Delay!IsRateLimit
<1> QED
  BY <1>1, <1>3, <1>4, <1>5, <1>6, <1>7
-----------------------------------------------------------------------------
(***************************************************************************)
(* The ledger of a task's usage.                                           *)
(***************************************************************************)
LEMMA LeastNatural ==
  ASSUME NEW T, T \subseteq Nat, T # {}
  PROVE  \E n \in T : \A m \in T : n <= m
<1> DEFINE Below == {ss \in Nat \X Nat : ss[1] < ss[2]}
<1>1. IsWellFoundedOn(Below, Nat)
  BY NatLessThanWellFounded DEF OpToRel
<1>2. \E n \in T : \A m \in T : <<m, n>> \notin Below
  <2> HIDE DEF Below
  <2> QED
    BY <1>1, WFMin
<1>3. \A m, n \in T : m < n => <<m, n>> \in Below
  OBVIOUS
<1> HIDE DEF Below
<1>4. PICK n \in T : \A m \in T : <<m, n>> \notin Below
  BY <1>2
<1>5. ASSUME NEW m \in T PROVE n <= m
  <2>1. m \in Nat /\ n \in Nat /\ ~ (m < n)
    BY <1>3, <1>4
  <2> QED
    BY <2>1
<1> QED
  BY <1>5

LEMMA NumbersReach ==
  ASSUME NEW S, 0 \in S, \A n \in Nat : n \in S => n + 1 \in S
  PROVE  Nat \subseteq S
<1> SUFFICES ASSUME Nat \ S # {} PROVE FALSE
  OBVIOUS
<1>1. PICK n \in Nat \ S : \A m \in Nat \ S : n <= m
  BY LeastNatural
<1>2. n # 0 /\ n - 1 \in Nat
  BY <1>1
<1>3. n - 1 \in S
  BY <1>1, <1>2
<1> QED
  BY <1>1, <1>2, <1>3

(* Sums. *)
Adds(h, w, n) == h[0] = 0 /\ \A i \in 1..n : h[i] = h[i - 1] + w[i]
SumTo(w, n) == (CHOOSE h \in [0..n -> Nat] : Adds(h, w, n))[n]
Weights == [Nat -> Nat]

LEMMA AddsExists ==
  ASSUME NEW w \in Weights, NEW n \in Nat
  PROVE  \E h \in [0..n -> Nat] : Adds(h, w, n)
<1> DEFINE S == {k \in Nat : \E h \in [0..k -> Nat] : Adds(h, w, k)}
<1>1. 0 \in S
  <2>1. [i \in 0..0 |-> 0] \in [0..0 -> Nat] /\ Adds([i \in 0..0 |-> 0], w, 0)
    BY DEF Adds
  <2> QED
    BY <2>1
<1>2. ASSUME NEW k \in Nat, k \in S PROVE k + 1 \in S
  <2>1. PICK h \in [0..k -> Nat] : Adds(h, w, k)
    BY <1>2
  <2> DEFINE g == [i \in 0..(k + 1) |-> IF i = k + 1 THEN h[k] + w[k + 1] ELSE h[i]]
  <2>2. g \in [0..(k + 1) -> Nat]
    <3>1. h[k] \in Nat /\ w[k + 1] \in Nat
      BY DEF Weights
    <3>2. \A i \in 0..(k + 1) : i # k + 1 => i \in 0..k
      OBVIOUS
    <3> QED
      BY <3>1, <3>2
  <2>3. Adds(g, w, k + 1)
    BY <2>1 DEF Adds
  <2> QED
    BY <2>2, <2>3
<1> QED
  <2> HIDE DEF S
  <2>1. n \in S
    BY <1>1, <1>2, NumbersReach
  <2> QED
    BY <2>1 DEF S

(* Whatever adds up some weights comes to the same sum. *)
LEMMA AddsSame ==
  ASSUME NEW w, NEW n \in Nat, NEW h, NEW g, Adds(h, w, n), Adds(g, w, n)
  PROVE  h[n] = g[n]
<1> DEFINE S == {k \in Nat : k <= n => h[k] = g[k]}
<1>1. 0 \in S
  BY DEF Adds
<1>2. ASSUME NEW k \in Nat, k \in S PROVE k + 1 \in S
  BY <1>2 DEF Adds
<1> QED
  <2> HIDE DEF S
  <2>1. n \in S
    BY <1>1, <1>2, NumbersReach
  <2> QED
    BY <2>1 DEF S

LEMMA SumIs ==
  ASSUME NEW w \in Weights, NEW n \in Nat, NEW h, Adds(h, w, n)
  PROVE  h[n] = SumTo(w, n)
<1>1. PICK g \in [0..n -> Nat] : Adds(g, w, n) /\ SumTo(w, n) = g[n]
  BY AddsExists DEF SumTo
<1> QED
  BY <1>1, AddsSame

LEMMA SumSteps ==
  ASSUME NEW w \in Weights, NEW n \in Nat
  PROVE  /\ SumTo(w, n) \in Nat /\ SumTo(w, 0) = 0
         /\ SumTo(w, n + 1) = SumTo(w, n) + w[n + 1]
<1>0. n + 1 \in Nat
  OBVIOUS
<1>1. PICK h \in [0..(n + 1) -> Nat] : Adds(h, w, n + 1)
  BY <1>0, AddsExists
<1>2. Adds(h, w, n) /\ Adds(h, w, 0)
  BY <1>1 DEF Adds
<1>3. h[n] = SumTo(w, n) /\ h[0] = SumTo(w, 0) /\ h[n + 1] = SumTo(w, n + 1)
  BY <1>1, <1>2, SumIs
<1> QED
  BY <1>1, <1>3 DEF Adds

LEMMA SumAgrees ==
  ASSUME NEW w \in Weights, NEW v \in Weights, NEW n \in Nat, \A i \in 1..n : w[i] = v[i]
  PROVE  SumTo(w, n) = SumTo(v, n)
<1>1. PICK h \in [0..n -> Nat] : Adds(h, w, n)
  BY AddsExists
<1>2. Adds(h, v, n)
  BY <1>1 DEF Adds
<1> QED
  BY <1>1, <1>2, SumIs
(* A weight left out of a sum makes it less by that weight.                *)
LEMMA SumWithout ==
  ASSUME NEW w \in Weights, NEW v \in Weights, NEW n \in Nat, NEW k \in 1..(n + 1),
         \A i \in 1..n : v[i] = IF i < k THEN w[i] ELSE w[i + 1]
  PROVE  SumTo(w, n + 1) = SumTo(v, n) + w[k]
<1> DEFINE S == {j \in Nat : j <= n /\ k <= j + 1 => SumTo(w, j + 1) = SumTo(v, j) + w[k]}
<1>0. \A j \in Nat : SumTo(w, j) \in Nat /\ SumTo(w, j + 1) = SumTo(w, j) + w[j + 1]
                     /\ SumTo(v, j) \in Nat /\ SumTo(v, j + 1) = SumTo(v, j) + v[j + 1]
  BY SumSteps
<1>1. 0 \in S
  <2>1. SumTo(w, 0) = 0 /\ SumTo(v, 0) = 0
    BY SumSteps
  <2>2. SumTo(w, 1) = w[1] /\ w[1] \in Nat
    BY <1>0, <2>1 DEF Weights
  <2>3. k <= 1 => k = 1
    OBVIOUS
  <2> QED
    BY <2>1, <2>2, <2>3
<1>2. ASSUME NEW j \in Nat, j \in S PROVE j + 1 \in S
  <2>1. SUFFICES ASSUME j + 1 <= n, k <= j + 2
                 PROVE  SumTo(w, (j + 1) + 1) = SumTo(v, j + 1) + w[k]
    OBVIOUS
  <2>2. CASE k <= j + 1
    <3>1. v[j + 1] = w[(j + 1) + 1] /\ SumTo(w, j + 1) = SumTo(v, j) + w[k]
      BY <1>2, <2>1, <2>2
    <3>2. SumTo(w, (j + 1) + 1) = SumTo(w, j + 1) + w[(j + 1) + 1]
      BY <1>0
    <3>3. j + 1 \in Nat /\ k \in Nat
      OBVIOUS
    <3>4. w[k] \in Nat /\ v[j + 1] \in Nat
      BY <3>3 DEF Weights
    <3>5. SumTo(v, j) \in Nat /\ SumTo(v, j + 1) = SumTo(v, j) + v[j + 1]
      BY <1>0
    <3> QED
      BY <3>1, <3>2, <3>4, <3>5
  <2>3. CASE k = (j + 1) + 1
    <3>1. \A i \in 1..(j + 1) : w[i] = v[i]
      BY <2>1, <2>3
    <3>2. j + 1 \in Nat
      OBVIOUS
    <3>3. SumTo(w, j + 1) = SumTo(v, j + 1)
      BY <3>1, <3>2, SumAgrees
    <3> QED
      BY <1>0, <2>3, <3>2, <3>3
  <2> QED
    BY <2>1, <2>2, <2>3
<1> QED
  <2> HIDE DEF S
  <2>1. n \in S
    BY <1>1, <1>2, NumbersReach
  <2> QED
    BY <2>1 DEF S

(* A list of a set, and the weights of its members in its order.           *)
Lists(f, n, S) ==
  /\ f \in [1..n -> S]
  /\ \A i, j \in 1..n : f[i] = f[j] => i = j
  /\ \A x \in S : \E i \in 1..n : f[i] = x
Along(v, f, n) == [i \in Nat |-> IF i \in 1..n THEN v[f[i]] ELSE 0]

LEMMA AlongIs ==
  ASSUME NEW X, NEW v \in [X -> Nat], NEW n \in Nat, NEW f, \A i \in 1..n : f[i] \in X
  PROVE  Along(v, f, n) \in Weights
BY DEF Along, Weights

(* The order of a list does not matter to its sum, nor which list it is.   *)
LEMMA OrderIsFree ==
  ASSUME NEW X, NEW v \in [X -> Nat], NEW S \in SUBSET X,
         NEW n \in Nat, NEW m \in Nat, NEW f, NEW g, Lists(f, n, S), Lists(g, m, S)
  PROVE  SumTo(Along(v, f, n), n) = SumTo(Along(v, g, m), m)
<1> DEFINE Same(T, a, b, p, q) == a = b /\ SumTo(Along(v, p, a), a) = SumTo(Along(v, q, b), b)
<1> DEFINE I == {a \in Nat : \A T \in SUBSET X, b \in Nat : \A p, q :
                   Lists(p, a, T) /\ Lists(q, b, T) => Same(T, a, b, p, q)}
<1>1. 0 \in I
  <2> SUFFICES ASSUME NEW T \in SUBSET X, NEW b \in Nat, NEW p, NEW q,
                      Lists(p, 0, T), Lists(q, b, T)
               PROVE  Same(T, 0, b, p, q)
    BY Zenon
  <2>1. T = {}
    BY DEF Lists
  <2>2. b = 0
    <3>1. 1 \in 1..b => q[1] \in T
      BY DEF Lists
    <3> QED
      BY <2>1, <3>1
  <2>3. Along(v, p, 0) \in Weights /\ Along(v, q, 0) \in Weights
    BY AlongIs
  <2>4. SumTo(Along(v, p, 0), 0) = 0 /\ SumTo(Along(v, q, 0), 0) = 0
    BY <2>3, SumSteps
  <2> QED
    BY <2>2, <2>4
<1>2. ASSUME NEW a \in Nat, a \in I PROVE a + 1 \in I
  <2>0. a + 1 \in Nat
    OBVIOUS
  <2> SUFFICES ASSUME NEW T \in SUBSET X, NEW b \in Nat, NEW p, NEW q,
                      Lists(p, a + 1, T), Lists(q, b, T)
               PROVE  Same(T, a + 1, b, p, q)
    BY <2>0, Zenon
  <2> DEFINE x == p[a + 1]
  <2>1. x \in T
    BY DEF Lists
  <2>2. PICK k \in 1..b : q[k] = x
    BY <2>1 DEF Lists
  <2>3. b - 1 \in Nat /\ b \in 1..b
    OBVIOUS
  <2> DEFINE p1 == [i \in 1..a |-> p[i]]
             q1 == [i \in 1..(b - 1) |-> IF i < k THEN q[i] ELSE q[i + 1]]
  <2>4. Lists(p1, a, T \ {x})
    <3>1. \A i \in 1..a : i \in 1..(a + 1) /\ p[i] \in T /\ p[i] # x
      BY DEF Lists
    <3>2. \A y \in T \ {x} : \E i \in 1..a : p[i] = y
      BY DEF Lists
    <3> QED
      BY <3>1, <3>2 DEF Lists
  <2>5. Lists(q1, b - 1, T \ {x})
    <3>1. \A i \in 1..(b - 1) : /\ i \in 1..b /\ i + 1 \in 1..b
                                 /\ q1[i] = (IF i < k THEN q[i] ELSE q[i + 1])
      BY <2>3
    <3>2. \A i \in 1..b : q[i] \in T /\ (q[i] = x => i = k)
      BY <2>2 DEF Lists
    <3>3. q1 \in [1..(b - 1) -> T \ {x}]
      BY <3>1, <3>2
    <3>4. ASSUME NEW i \in 1..(b - 1), NEW j \in 1..(b - 1), q1[i] = q1[j] PROVE i = j
      <4>1. PICK c \in 1..b, d \in 1..b :
              /\ c = (IF i < k THEN i ELSE i + 1) /\ d = (IF j < k THEN j ELSE j + 1)
              /\ q1[i] = q[c] /\ q1[j] = q[d]
        BY <3>1
      <4>2. c = d
        BY <3>4, <4>1 DEF Lists
      <4> QED
        BY <4>1, <4>2
    <3>5. ASSUME NEW y \in T \ {x} PROVE \E i \in 1..(b - 1) : q1[i] = y
      <4>1. PICK j \in 1..b : q[j] = y
        BY DEF Lists
      <4>2. j # k
        BY <2>2, <4>1
      <4>3. CASE j < k
        <5>1. j \in 1..(b - 1)
          BY <4>3
        <5> QED
          BY <3>1, <4>1, <4>3, <5>1
      <4>4. CASE j > k
        <5>1. j - 1 \in 1..(b - 1) /\ ~ (j - 1 < k) /\ (j - 1) + 1 = j
          BY <4>4
        <5> QED
          BY <3>1, <4>1, <5>1
      <4> QED
        BY <4>2, <4>3, <4>4
    <3> HIDE DEF q1
    <3> QED
      BY <3>3, <3>4, <3>5 DEF Lists
  <2>6. Same(T \ {x}, a, b - 1, p1, q1)
    <3>1. T \ {x} \in SUBSET X
      OBVIOUS
    <3> HIDE DEF p1, q1, x, Same
    <3> QED
      BY <1>2, <2>3, <2>4, <2>5, <3>1
  <2>7. /\ Along(v, p, a + 1) \in Weights /\ Along(v, q, b) \in Weights
        /\ Along(v, p1, a) \in Weights /\ Along(v, q1, b - 1) \in Weights
    <3>1. /\ \A i \in 1..(a + 1) : p[i] \in X
          /\ \A i \in 1..b : q[i] \in X
      BY DEF Lists
    <3>2. /\ \A i \in 1..a : p1[i] \in X
          /\ \A i \in 1..(b - 1) : q1[i] \in X
      BY <2>4, <2>5 DEF Lists
    <3>3. a + 1 \in Nat
      OBVIOUS
    <3> HIDE DEF p1, q1
    <3> QED
      BY <2>3, <3>1, <3>2, <3>3, AlongIs
  <2>8. SumTo(Along(v, p, a + 1), a + 1) = SumTo(Along(v, p1, a), a) + v[x]
    <3>1. \A i \in 1..a : Along(v, p, a + 1)[i] = Along(v, p1, a)[i]
      BY DEF Along
    <3>2. Along(v, p, a + 1)[a + 1] = v[x]
      BY DEF Along
    <3> HIDE DEF p1, x
    <3>3. SumTo(Along(v, p, a + 1), a) = SumTo(Along(v, p1, a), a)
      BY <2>7, <3>1, SumAgrees
    <3> QED
      BY <2>7, <3>2, <3>3, SumSteps
  <2>9. SumTo(Along(v, q, b), (b - 1) + 1) = SumTo(Along(v, q1, b - 1), b - 1) + v[x]
    <3>1. \A i \in 1..(b - 1) : Along(v, q1, b - 1)[i]
            = IF i < k THEN Along(v, q, b)[i] ELSE Along(v, q, b)[i + 1]
      BY <2>3 DEF Along
    <3>2. Along(v, q, b)[k] = v[x]
      BY <2>2 DEF Along
    <3>3. k \in 1..((b - 1) + 1)
      OBVIOUS
    <3> DEFINE Q == Along(v, q, b)
               Q1 == Along(v, q1, b - 1)
    <3>4. Q \in Weights /\ Q1 \in Weights
      BY <2>7
    <3> HIDE DEF q1, x, Q, Q1
    <3>5. \A i \in 1..(b - 1) : Q1[i] = IF i < k THEN Q[i] ELSE Q[i + 1]
      BY <3>1 DEF Q, Q1
    <3>6. SumTo(Q, (b - 1) + 1) = SumTo(Q1, b - 1) + Q[k]
      BY <2>3, <3>3, <3>4, <3>5, SumWithout, Zenon
    <3> QED
      BY <3>2, <3>6 DEF Q, Q1
  <2>10. (b - 1) + 1 = b
    OBVIOUS
  <2> HIDE DEF p1, q1, x
  <2> QED
    BY <2>6, <2>8, <2>9, <2>10
<1> QED
  <2> HIDE DEF I
  <2>1. n \in I
    BY <1>1, <1>2, NumbersReach
  <2> HIDE DEF Same
  <2>2. Same(S, n, m, f, g)
    BY <2>1 DEF I
  <2> QED
    BY <2>2 DEF Same

(* What follows adds to what came before.                                  *)
Follows(H, F, n, G, m) ==
  /\ \A i \in 1..n : H[i] = F[i]
  /\ \A j \in 1..m : H[n + j] = G[j]

LEMMA SumJoins ==
  ASSUME NEW H \in Weights, NEW F \in Weights, NEW G \in Weights,
         NEW n \in Nat, NEW m \in Nat, Follows(H, F, n, G, m)
  PROVE  SumTo(H, n + m) = SumTo(F, n) + SumTo(G, m)
<1> DEFINE J == {j \in Nat : j <= m => SumTo(H, n + j) = SumTo(F, n) + SumTo(G, j)}
<1>0. \A j \in Nat : SumTo(F, j) \in Nat /\ SumTo(G, j) \in Nat /\ SumTo(H, j) \in Nat
  BY SumSteps
<1>1. 0 \in J
  <2>1. SumTo(H, n) = SumTo(F, n)
    BY SumAgrees DEF Follows
  <2>2. SumTo(G, 0) = 0
    BY SumSteps
  <2> QED
    BY <1>0, <2>1, <2>2
<1>2. ASSUME NEW j \in Nat, j \in J PROVE j + 1 \in J
  <2> SUFFICES ASSUME j + 1 <= m
               PROVE  SumTo(H, n + (j + 1)) = SumTo(F, n) + SumTo(G, j + 1)
    OBVIOUS
  <2>1. n + j \in Nat /\ (n + j) + 1 = n + (j + 1) /\ j + 1 \in 1..m
    OBVIOUS
  <2>2. SumTo(H, (n + j) + 1) = SumTo(H, n + j) + H[(n + j) + 1]
    BY <2>1, SumSteps
  <2>3. SumTo(G, j + 1) = SumTo(G, j) + G[j + 1]
    BY SumSteps
  <2>4. H[(n + j) + 1] = G[j + 1] /\ G[j + 1] \in Nat
    BY <2>1 DEF Follows, Weights
  <2> QED
    BY <1>0, <1>2, <2>1, <2>2, <2>3, <2>4
<1> HIDE DEF J
<1>3. m \in J
  BY <1>1, <1>2, NumbersReach
<1> QED
  BY <1>3 DEF J

(* One list after another.                                                 *)
Joined(v, f, n, g, m, U) ==
  \E h : /\ Lists(h, n + m, U)
         /\ SumTo(Along(v, h, n + m), n + m)
            = SumTo(Along(v, f, n), n) + SumTo(Along(v, g, m), m)

LEMMA ListsJoin ==
  ASSUME NEW X, NEW v \in [X -> Nat], NEW S \in SUBSET X, NEW T \in SUBSET X,
         S \cap T = {}, NEW n \in Nat, NEW m \in Nat, NEW f, NEW g,
         Lists(f, n, S), Lists(g, m, T)
  PROVE  Joined(v, f, n, g, m, S \cup T)
<1> DEFINE h == [i \in 1..(n + m) |-> IF i <= n THEN f[i] ELSE g[i - n]]
<1>1. /\ \A i \in 1..n : i \in 1..(n + m) /\ h[i] = f[i] /\ f[i] \in S
      /\ \A j \in 1..m : n + j \in 1..(n + m) /\ h[n + j] = g[j] /\ g[j] \in T
      /\ \A i \in 1..(n + m) : i \in 1..n \/ \E j \in 1..m : i = n + j
  <2>1. \A i \in 1..n : i \in 1..(n + m) /\ h[i] = f[i] /\ f[i] \in S
    BY DEF Lists
  <2>2. \A j \in 1..m : n + j \in 1..(n + m) /\ h[n + j] = g[j] /\ g[j] \in T
    <3> TAKE j \in 1..m
    <3>1. n + j \in 1..(n + m) /\ ~ (n + j <= n) /\ (n + j) - n = j
      OBVIOUS
    <3> QED
      BY <3>1 DEF Lists
  <2>3. ASSUME NEW i \in 1..(n + m), i \notin 1..n PROVE \E j \in 1..m : i = n + j
    <3>1. i - n \in 1..m /\ i = n + (i - n)
      BY <2>3
    <3> QED
      BY <3>1
  <2> QED
    BY <2>1, <2>2, <2>3
<1>2. Lists(h, n + m, S \cup T)
  <2>1. h \in [1..(n + m) -> S \cup T]
    <3>1. ASSUME NEW i \in 1..(n + m) PROVE h[i] \in S \cup T
      <4> HIDE DEF h
      <4> QED
        BY <1>1
    <3> QED
      BY <3>1
  <2> HIDE DEF h
  <2>2. ASSUME NEW i \in 1..(n + m), NEW j \in 1..(n + m), h[i] = h[j] PROVE i = j
    <3>1. CASE i \in 1..n /\ j \in 1..n
      BY <1>1, <2>2, <3>1 DEF Lists
    <3>2. CASE i \in 1..n /\ j \notin 1..n
      <4>1. h[i] \in S
        BY <1>1, <3>2
      <4>2. h[j] \in T
        <5>1. PICK k \in 1..m : j = n + k
          BY <1>1, <3>2
        <5> QED
          BY <1>1, <5>1
      <4> QED
        BY <2>2, <4>1, <4>2
    <3>3. CASE i \notin 1..n /\ j \in 1..n
      <4>1. h[j] \in S
        BY <1>1, <3>3
      <4>2. h[i] \in T
        <5>1. PICK k \in 1..m : i = n + k
          BY <1>1, <3>3
        <5> QED
          BY <1>1, <5>1
      <4> QED
        BY <2>2, <4>1, <4>2
    <3>4. CASE i \notin 1..n /\ j \notin 1..n
      <4>1. PICK a \in 1..m, b \in 1..m : i = n + a /\ j = n + b
        BY <1>1, <3>4
      <4>2. g[a] = g[b]
        BY <1>1, <2>2, <4>1
      <4> QED
        BY <4>1, <4>2 DEF Lists
    <3> QED
      BY <3>1, <3>2, <3>3, <3>4
  <2>3. ASSUME NEW x \in S \cup T PROVE \E i \in 1..(n + m) : h[i] = x
    <3>1. CASE x \in S
      BY <1>1, <3>1 DEF Lists
    <3>2. CASE x \in T
      <4>1. PICK j \in 1..m : g[j] = x
        BY <3>2 DEF Lists
      <4> QED
        BY <1>1, <4>1
    <3> QED
      BY <3>1, <3>2
  <2> QED
    BY <2>1, <2>2, <2>3 DEF Lists
<1> DEFINE H == Along(v, h, n + m)
           F == Along(v, f, n)
           G == Along(v, g, m)
<1>3. H \in Weights /\ F \in Weights /\ G \in Weights
  <2>1. /\ \A i \in 1..(n + m) : h[i] \in X
        /\ \A i \in 1..n : f[i] \in X
        /\ \A i \in 1..m : g[i] \in X
    BY <1>2 DEF Lists
  <2>2. n + m \in Nat
    OBVIOUS
  <2> HIDE DEF h
  <2> QED
    BY <2>1, <2>2, AlongIs
<1>4. /\ \A i \in 1..n : H[i] = F[i]
      /\ \A j \in 1..m : H[n + j] = G[j]
  <2> HIDE DEF h
  <2> QED
    BY <1>1 DEF Along
<1>5. SumTo(H, n + m) = SumTo(F, n) + SumTo(G, m)
  <2> HIDE DEF h, H, F, G
  <2>1. H \in Weights /\ F \in Weights /\ G \in Weights
    BY <1>3
  <2>2. Follows(H, F, n, G, m)
    BY <1>4 DEF Follows
  <2> QED
    BY <2>1, <2>2, SumJoins
<1> HIDE DEF h
<1> QED
  BY <1>2, <1>5 DEF Joined
(* What a fold over a sequence takes next.                                 *)
LEMMA MaxIs ==
  ASSUME NEW n \in Nat, NEW s \in SUBSET (1..n), s # {}
  PROVE  Ledger!Max(s) \in s /\ \A y \in s : y <= Ledger!Max(s)
<1> DEFINE T == {n - y : y \in s}
<1>1. T \subseteq Nat /\ T # {}
  <2>1. \A y \in s : n - y \in Nat
    OBVIOUS
  <2>2. PICK y \in s : TRUE
    OBVIOUS
  <2>3. n - y \in T
    OBVIOUS
  <2> QED
    BY <2>1, <2>3
<1>2. PICK d \in T : \A e \in T : d <= e
  <2> HIDE DEF T
  <2> QED
    BY <1>1, LeastNatural
<1>3. PICK x \in s : d = n - x
  BY <1>2
<1>4. ASSUME NEW y \in s PROVE x >= y
  <2>1. n - x <= n - y
    BY <1>2, <1>3
  <2> QED
    BY <2>1
<1>5. Ledger!Max(s) \in s /\ \A y \in s : Ledger!Max(s) >= y
  BY <1>4 DEF Ledger!Max
<1> QED
  BY <1>5

LEMMA MaxOfFirst ==
  ASSUME NEW n \in Nat, NEW k \in 1..n
  PROVE  1..k \in SUBSET (1..n) /\ 1..k # {} /\ Ledger!Max(1..k) = k /\ (1..k) \ {k} = 1..(k - 1)
<1>1. 1..k \in SUBSET (1..n) /\ k \in 1..k
  OBVIOUS
<1>2. Ledger!Max(1..k) \in 1..k /\ k <= Ledger!Max(1..k)
  BY <1>1, MaxIs
<1> QED
  BY <1>1, <1>2

(* A fold whose step stays within a set of values exists.                  *)
IsFold(g, n, V, base, F) ==
  /\ g \in [SUBSET (1..n) -> V]
  /\ g = [s \in SUBSET (1..n) |-> IF s = {} THEN base ELSE F[<<Ledger!Max(s), g[s \ {Ledger!Max(s)}]>>]]
HasFold(n, V, base, F) == \E g : IsFold(g, n, V, base, F)

LEMMA FoldExists ==
  ASSUME NEW n \in Nat, NEW V, NEW base, NEW F, base \in V, F \in [(1..n) \X V -> V]
  PROVE  HasFold(n, V, base, F)
<1> DEFINE Folds(g, k) ==
             /\ g \in [SUBSET (1..k) -> V]
             /\ g[{}] = base
             /\ \A s \in SUBSET (1..k) : s # {} => g[s] = F[<<Ledger!Max(s), g[s \ {Ledger!Max(s)}]>>]
           I == {k \in Nat : k <= n => \E g : Folds(g, k)}
<1>1. 0 \in I
  <2> DEFINE g == [s \in SUBSET (1..0) |-> base]
  <2>1. \A s \in SUBSET (1..0) : s = {}
    OBVIOUS
  <2>2. g \in [SUBSET (1..0) -> V] /\ g[{}] = base
    OBVIOUS
  <2>3. Folds(g, 0)
    BY <2>1, <2>2
  <2> QED
    BY <2>3
<1>2. ASSUME NEW k \in Nat, k \in I PROVE k + 1 \in I
  <2>a. k + 1 \in Nat /\ (k + 1 <= n => k <= n)
    OBVIOUS
  <2> SUFFICES ASSUME k + 1 <= n PROVE \E g : Folds(g, k + 1)
    BY <2>a, Zenon
  <2>1. PICK g : Folds(g, k)
    <3> HIDE DEF Folds
    <3> QED
      BY <1>2, <2>a
  <2> DEFINE f == [s \in SUBSET (1..(k + 1)) |->
                    IF k + 1 \in s THEN F[<<k + 1, g[s \ {k + 1}]>>] ELSE g[s]]
  <2>2. ASSUME NEW s \in SUBSET (1..(k + 1)), k + 1 \notin s PROVE s \in SUBSET (1..k)
    BY <2>2
  <2>3. ASSUME NEW s \in SUBSET (1..(k + 1)), k + 1 \in s
        PROVE  s \ {k + 1} \in SUBSET (1..k) /\ Ledger!Max(s) = k + 1
    <3>1. k + 1 \in Nat
      OBVIOUS
    <3>2. Ledger!Max(s) \in s /\ k + 1 <= Ledger!Max(s)
      BY <2>3, <3>1, MaxIs
    <3>3. Ledger!Max(s) \in 1..(k + 1)
      BY <3>2
    <3>4. Ledger!Max(s) = k + 1
      BY <3>2, <3>3
    <3>5. s \ {k + 1} \in SUBSET (1..k)
      OBVIOUS
    <3> QED
      BY <3>4, <3>5
  <2>4. f \in [SUBSET (1..(k + 1)) -> V]
    <3> SUFFICES ASSUME NEW s \in SUBSET (1..(k + 1)) PROVE f[s] \in V
      OBVIOUS
    <3>1. CASE k + 1 \in s
      <4>1. <<k + 1, g[s \ {k + 1}]>> \in (1..n) \X V
        BY <2>1, <2>3, <3>1
      <4>2. f[s] = F[<<k + 1, g[s \ {k + 1}]>>]
        BY <3>1
      <4> HIDE DEF f
      <4> QED
        BY <4>1, <4>2
    <3>2. CASE k + 1 \notin s
      BY <2>1, <2>2, <3>2
    <3> QED
      BY <3>1, <3>2
  <2>5. f[{}] = base
    BY <2>1
  <2>6. ASSUME NEW s \in SUBSET (1..(k + 1)), s # {}
        PROVE  f[s] = F[<<Ledger!Max(s), f[s \ {Ledger!Max(s)}]>>]
    <3>1. CASE k + 1 \in s
      <4>1. k + 1 \notin s \ {k + 1} /\ s \ {k + 1} \in SUBSET (1..(k + 1))
        OBVIOUS
      <4>2. f[s \ {k + 1}] = g[s \ {k + 1}]
        BY <4>1
      <4>3. f[s] = F[<<k + 1, g[s \ {k + 1}]>>]
        BY <3>1
      <4>4. Ledger!Max(s) = k + 1
        BY <2>3, <3>1
      <4> HIDE DEF f
      <4> QED
        BY <4>2, <4>3, <4>4
    <3>2. CASE k + 1 \notin s
      <4>1. s \in SUBSET (1..k)
        BY <2>2, <3>2
      <4>2. g[s] = F[<<Ledger!Max(s), g[s \ {Ledger!Max(s)}]>>]
        BY <2>1, <2>6, <4>1
      <4>3. k + 1 \notin s \ {Ledger!Max(s)} /\ s \ {Ledger!Max(s)} \in SUBSET (1..(k + 1))
        BY <3>2
      <4>4. f[s] = g[s] /\ f[s \ {Ledger!Max(s)}] = g[s \ {Ledger!Max(s)}]
        BY <3>2, <4>3
      <4> HIDE DEF f
      <4> QED
        BY <4>2, <4>4
    <3> QED
      BY <3>1, <3>2
  <2> HIDE DEF f
  <2>7. Folds(f, k + 1)
    BY <2>4, <2>5, <2>6
  <2> QED
    BY <2>7
<1>3. PICK g : Folds(g, n)
  <2> HIDE DEF I
  <2>1. n \in I
    BY <1>1, <1>2, NumbersReach
  <2> HIDE DEF Folds
  <2> QED
    BY <2>1 DEF I
<1>4. g = [s \in SUBSET (1..n) |-> IF s = {} THEN base ELSE F[<<Ledger!Max(s), g[s \ {Ledger!Max(s)}]>>]]
  BY <1>3
<1> QED
  BY <1>3, <1>4 DEF HasFold, IsFold
-----------------------------------------------------------------------------
(* Entries. *)
Money == Nat \cup {Ledger!None}
EntryRows == {e \in [tokens: Money, amount: Money, source: {"caller", "resolver", "none"}] :
               e.source = "caller" => e.amount # Ledger!None}
Prices(s, r) == [i \in Nat |-> IF i \in 1..Len(s) THEN Ledger!OrZero(Ledger!AmountOf(s[i], r)) ELSE 0]
AddedUp(s, r) == Ledger!FoldLeft(LAMBDA sum, e : sum + Ledger!OrZero(Ledger!AmountOf(e, r)), 0, s)

LEMMA MoneyIs ==
  ASSUME Ledger!LedgerAssumption, NEW m \in Money, NEW n \in Money, NEW r \in Ledger!Rate
  PROVE  /\ Ledger!OrZero(m) \in Nat /\ Ledger!Priced(m, r) \in Money /\ Ledger!OrZero(Ledger!Priced(m, r)) \in Nat
         /\ Ledger!Total(m, n) \in Money /\ Ledger!Accumulated(m, n) \in Money
         /\ Ledger!OrZero(Ledger!Total(m, n)) = Ledger!OrZero(m) + Ledger!OrZero(n)
         /\ (Ledger!Total(m, n) = Ledger!None <=> m = Ledger!None /\ n = Ledger!None)
<1>1. Ledger!OrZero(m) \in Nat
  BY DEF Money, Ledger!OrZero, Ledger!None
<1>2. r = Ledger!None \/ r \in Nat
  BY DEF Ledger!Rate, Ledger!LedgerAssumption
<1>3. Ledger!Priced(m, r) \in Money
  <2>1. \A a, b \in Nat : a * b \in Nat
    OBVIOUS
  <2> QED
    BY <1>1, <1>2, <2>1 DEF Ledger!Priced, Money
<1>4. Ledger!OrZero(Ledger!Priced(m, r)) \in Nat
  BY <1>3 DEF Money, Ledger!OrZero, Ledger!None
<1>5. Ledger!Total(m, n) \in Money /\ Ledger!Accumulated(m, n) \in Money
  BY DEF Ledger!Total, Ledger!Accumulated, Money, Ledger!None
<1>6. Ledger!OrZero(Ledger!Total(m, n)) = Ledger!OrZero(m) + Ledger!OrZero(n)
      /\ (Ledger!Total(m, n) = Ledger!None <=> m = Ledger!None /\ n = Ledger!None)
  BY DEF Ledger!Total, Money, Ledger!None, Ledger!OrZero
<1> QED
  BY <1>1, <1>3, <1>4, <1>5, <1>6

LEMMA AmountsAre ==
  ASSUME Ledger!LedgerAssumption, NEW e \in EntryRows, NEW r \in Ledger!Rate
  PROVE  Ledger!AmountOf(e, r) \in Money /\ Ledger!OrZero(Ledger!AmountOf(e, r)) \in Nat
<1>1. e.amount \in Money /\ e.tokens \in Money
  BY DEF EntryRows
<1>2. Ledger!Priced(e.tokens, r) \in Money
  BY <1>1, MoneyIs
<1>3. Ledger!AmountOf(e, r) \in Money
  BY <1>1, <1>2 DEF Ledger!AmountOf
<1> QED
  BY <1>3, MoneyIs

LEMMA PricesAre ==
  ASSUME Ledger!LedgerAssumption, NEW s \in Seq(EntryRows), NEW r \in Ledger!Rate
  PROVE  Prices(s, r) \in Weights
<1>1. \A i \in 1..Len(s) : s[i] \in EntryRows
  OBVIOUS
<1>2. \A i \in 1..Len(s) : Ledger!OrZero(Ledger!AmountOf(s[i], r)) \in Nat
  BY <1>1, AmountsAre
<1> QED
  BY <1>2 DEF Prices, Weights

LEMMA AmountsAddUp ==
  ASSUME Ledger!LedgerAssumption, NEW s \in Seq(EntryRows), NEW r \in Ledger!Rate
  PROVE  AddedUp(s, r) = SumTo(Prices(s, r), Len(s))
<1> DEFINE n == Len(s)
           F == [p \in (1..n) \X Nat |-> p[2] + Ledger!OrZero(Ledger!AmountOf(s[p[1]], r))]
<1>1. n \in Nat /\ DOMAIN s = 1..n
  OBVIOUS
<1>2. \A i \in 1..n : Ledger!OrZero(Ledger!AmountOf(s[i], r)) \in Nat
  <2>1. \A i \in 1..n : s[i] \in EntryRows
    OBVIOUS
  <2> QED
    BY <2>1, AmountsAre
<1>3. F \in [(1..n) \X Nat -> Nat]
  BY <1>2
<1>4. \A i \in 1..n, v \in Nat : F[<<i, v>>] = v + Ledger!OrZero(Ledger!AmountOf(s[i], r))
  OBVIOUS
<1>5. PICK g \in [SUBSET (1..n) -> Nat] :
        g = [t \in SUBSET (1..n) |-> IF t = {} THEN 0 ELSE F[<<Ledger!Max(t), g[t \ {Ledger!Max(t)}]>>]]
  <2> HIDE DEF F, n
  <2>1. 0 \in Nat
    OBVIOUS
  <2>2. HasFold(n, Nat, 0, F)
    BY <1>1, <1>3, <2>1, FoldExists, Zenon
  <2> QED
    BY <2>2 DEF HasFold, IsFold
<1>6. g = [t \in SUBSET DOMAIN s |->
            IF t = {} THEN 0 ELSE g[t \ {Ledger!Max(t)}] + Ledger!OrZero(Ledger!AmountOf(s[Ledger!Max(t)], r))]
  <2> HIDE DEF F, n
  <2>1. ASSUME NEW t \in SUBSET (1..n), t # {}
        PROVE  F[<<Ledger!Max(t), g[t \ {Ledger!Max(t)}]>>]
                 = g[t \ {Ledger!Max(t)}] + Ledger!OrZero(Ledger!AmountOf(s[Ledger!Max(t)], r))
    <3>1. Ledger!Max(t) \in 1..n /\ g[t \ {Ledger!Max(t)}] \in Nat
      BY <1>1, <2>1, MaxIs
    <3> QED
      BY <1>4, <3>1
  <2> QED
    BY <1>1, <1>5, <2>1
<1>7. PICK v : /\ AddedUp(s, r) = v[DOMAIN s]
               /\ v = [t \in SUBSET DOMAIN s |->
                        IF t = {} THEN 0
                        ELSE v[t \ {Ledger!Max(t)}] + Ledger!OrZero(Ledger!AmountOf(s[Ledger!Max(t)], r))]
  BY <1>6, Zenon DEF AddedUp, Ledger!FoldLeft, Ledger!MapThenFoldSet
<1> DEFINE h == [k \in 0..n |-> v[1..k]]
<1>8. Adds(h, Prices(s, r), n)
  <2>1. h[0] = 0
    <3>1. 1..0 = {} /\ {} \in SUBSET DOMAIN s
      OBVIOUS
    <3> QED
      BY <1>7, <3>1
  <2>2. ASSUME NEW i \in 1..n PROVE h[i] = h[i - 1] + Prices(s, r)[i]
    <3>1. 1..i \in SUBSET DOMAIN s /\ 1..i # {} /\ Ledger!Max(1..i) = i /\ (1..i) \ {i} = 1..(i - 1)
      BY <1>1, MaxOfFirst
    <3>2. v[1..i] = v[1..(i - 1)] + Ledger!OrZero(Ledger!AmountOf(s[i], r))
      BY <1>7, <3>1
    <3> QED
      BY <3>2 DEF Prices
  <2> QED
    BY <2>1, <2>2 DEF Adds
<1>9. h[n] = SumTo(Prices(s, r), n)
  <2> HIDE DEF h
  <2> QED
    BY <1>1, <1>8, PricesAre, SumIs
<1>10. h[n] = v[DOMAIN s]
  BY <1>1
<1> QED
  BY <1>7, <1>9, <1>10

LEMMA AmountsOfMore ==
  ASSUME Ledger!LedgerAssumption, NEW s \in Seq(EntryRows), NEW e \in EntryRows, NEW r \in Ledger!Rate
  PROVE  /\ AddedUp(s, r) \in Nat /\ AddedUp(<<>>, r) = 0
         /\ AddedUp(Append(s, e), r) = AddedUp(s, r) + Ledger!OrZero(Ledger!AmountOf(e, r))
<1> DEFINE t == Append(s, e)
<1>0. Len(s) \in Nat
  OBVIOUS
<1>1. t \in Seq(EntryRows) /\ Len(t) = Len(s) + 1 /\ <<>> \in Seq(EntryRows) /\ Len(<<>>) = 0
  OBVIOUS
<1>2. \A i \in 1..Len(s) : Prices(t, r)[i] = Prices(s, r)[i]
  BY DEF Prices
<1>3. Prices(t, r)[Len(s) + 1] = Ledger!OrZero(Ledger!AmountOf(e, r))
  BY DEF Prices
<1> HIDE DEF t
<1>4. SumTo(Prices(t, r), Len(s)) = SumTo(Prices(s, r), Len(s))
  BY <1>0, <1>1, <1>2, PricesAre, SumAgrees
<1>5. SumTo(Prices(t, r), Len(s) + 1) = SumTo(Prices(s, r), Len(s)) + Ledger!OrZero(Ledger!AmountOf(e, r))
  BY <1>0, <1>1, <1>3, <1>4, PricesAre, SumSteps
<1>6. AddedUp(t, r) = SumTo(Prices(t, r), Len(s) + 1)
  BY <1>1, AmountsAddUp
<1>7. AddedUp(s, r) = SumTo(Prices(s, r), Len(s)) /\ AddedUp(<<>>, r) = SumTo(Prices(<<>>, r), 0)
  BY <1>1, AmountsAddUp
<1>8. SumTo(Prices(s, r), Len(s)) \in Nat /\ SumTo(Prices(<<>>, r), 0) = 0
  BY <1>0, <1>1, PricesAre, SumSteps
<1> QED
  BY <1>5, <1>6, <1>7, <1>8 DEF t
-----------------------------------------------------------------------------
(* Rows of numbers, and what a sum over rows keeps of them. *)
NumRow == [tokens: Nat, cost: Money, entries: Seq(EntryRows)]

LEMMA PriceAt ==
  ASSUME NEW s, NEW r, NEW i \in Nat, i \in 1..Len(s)
  PROVE  Prices(s, r)[i] = Ledger!OrZero(Ledger!AmountOf(s[i], r))
BY DEF Prices

LEMMA AmountsJoin ==
  ASSUME Ledger!LedgerAssumption, NEW s \in Seq(EntryRows), NEW t \in Seq(EntryRows), NEW r \in Ledger!Rate
  PROVE  s \o t \in Seq(EntryRows) /\ AddedUp(s \o t, r) = AddedUp(s, r) + AddedUp(t, r)
<1> DEFINE u == s \o t
<1>1. /\ u \in Seq(EntryRows) /\ Len(u) = Len(s) + Len(t)
      /\ Len(s) \in Nat /\ Len(t) \in Nat
  OBVIOUS
<1>2. \A i \in 1..Len(s) : i \in 1..Len(u) /\ u[i] = s[i]
  OBVIOUS
<1>3. \A j \in 1..Len(t) : Len(s) + j \in 1..Len(u) /\ u[Len(s) + j] = t[j]
  OBVIOUS
<1> HIDE DEF u
<1>4. Follows(Prices(u, r), Prices(s, r), Len(s), Prices(t, r), Len(t))
  <2>1. ASSUME NEW i \in 1..Len(s) PROVE Prices(u, r)[i] = Prices(s, r)[i]
    <3>1. i \in Nat /\ i \in 1..Len(u) /\ u[i] = s[i]
      BY <1>1, <1>2
    <3> QED
      BY <3>1, PriceAt
  <2>2. ASSUME NEW j \in 1..Len(t) PROVE Prices(u, r)[Len(s) + j] = Prices(t, r)[j]
    <3>1. PICK k \in Nat : k = Len(s) + j
      BY <1>1
    <3>2. k \in 1..Len(u) /\ u[k] = t[j] /\ j \in Nat
      BY <1>3, <3>1
    <3>3. Prices(u, r)[k] = Prices(t, r)[j]
      BY <3>2, PriceAt
    <3> QED
      BY <3>1, <3>3
  <2> QED
    BY <2>1, <2>2 DEF Follows
<1>5. SumTo(Prices(u, r), Len(s) + Len(t)) = SumTo(Prices(s, r), Len(s)) + SumTo(Prices(t, r), Len(t))
  BY <1>1, <1>4, PricesAre, SumJoins
<1>6. /\ AddedUp(u, r) = SumTo(Prices(u, r), Len(u))
      /\ AddedUp(s, r) = SumTo(Prices(s, r), Len(s))
      /\ AddedUp(t, r) = SumTo(Prices(t, r), Len(t))
  BY <1>1, AmountsAddUp
<1> QED
  BY <1>1, <1>5, <1>6 DEF u

LEMMA AddingIs ==
  ASSUME Ledger!LedgerAssumption, NEW u \in NumRow, NEW v \in NumRow
  PROVE  /\ Ledger!Added(u, v) \in NumRow /\ Ledger!Empty \in NumRow
         /\ Ledger!Added(u, v).tokens = u.tokens + v.tokens
         /\ Ledger!OrZero(Ledger!Added(u, v).cost) = Ledger!OrZero(u.cost) + Ledger!OrZero(v.cost)
         /\ (Ledger!Added(u, v).cost # Ledger!None <=> u.cost # Ledger!None \/ v.cost # Ledger!None)
         /\ Ledger!Added(u, v).entries = u.entries \o v.entries
<1>0. Ledger!Empty \in NumRow
  BY DEF Ledger!Empty, NumRow, Money
<1>1. /\ u.tokens \in Nat /\ u.cost \in Money /\ u.entries \in Seq(EntryRows)
      /\ v.tokens \in Nat /\ v.cost \in Money /\ v.entries \in Seq(EntryRows)
  BY DEF NumRow
<1>2. CASE v = Ledger!Empty
  <2>1. Ledger!Added(u, v) = u
    BY <1>2 DEF Ledger!Added
  <2>2. v.tokens = 0 /\ v.cost = Ledger!None /\ v.entries = <<>> /\ Ledger!OrZero(Ledger!None) = 0
    BY <1>2 DEF Ledger!Empty, Ledger!OrZero
  <2>3. Ledger!OrZero(u.cost) \in Nat
    BY <1>1 DEF Ledger!OrZero, Money, Ledger!None
  <2>4. u.entries \o <<>> = u.entries
    BY <1>1
  <2> QED
    BY <1>0, <1>1, <2>1, <2>2, <2>3, <2>4
<1>3. CASE v # Ledger!Empty
  <2>1. Ledger!Added(u, v) = [tokens |-> Ledger!Plus(u.tokens, v.tokens), cost |-> Ledger!Total(u.cost, v.cost),
                       entries |-> u.entries \o v.entries]
    BY <1>3 DEF Ledger!Added, Ledger!Merged
  <2>2. Ledger!Plus(u.tokens, v.tokens) = u.tokens + v.tokens
    BY <1>1 DEF Ledger!Plus, Ledger!Raises, Ledger!None
  <2>3. /\ Ledger!Total(u.cost, v.cost) \in Money
        /\ Ledger!OrZero(Ledger!Total(u.cost, v.cost)) = Ledger!OrZero(u.cost) + Ledger!OrZero(v.cost)
        /\ (Ledger!Total(u.cost, v.cost) # Ledger!None <=> u.cost # Ledger!None \/ v.cost # Ledger!None)
    BY <1>1 DEF Ledger!Total, Money, Ledger!None, Ledger!OrZero
  <2>4. u.entries \o v.entries \in Seq(EntryRows) /\ u.tokens + v.tokens \in Nat
    BY <1>1
  <2> QED
    BY <1>0, <2>1, <2>2, <2>3, <2>4 DEF NumRow
<1> QED
  BY <1>2, <1>3

Runs(h, us, n) ==
  /\ h \in [0..n -> NumRow] /\ h[0] = Ledger!Empty
  /\ \A i \in 1..n : h[i] = Ledger!Added(h[i - 1], us[i])
AreRows(us, n) == DOMAIN us = 1..n /\ \A i \in 1..n : us[i] \in NumRow

(* The fold of the sum goes through the rows in their order.               *)
LEMMA SumRuns ==
  ASSUME Ledger!LedgerAssumption, NEW n \in Nat, NEW us, AreRows(us, n)
  PROVE  \E h : Runs(h, us, n) /\ Ledger!SumUsage(us) = h[n]
<1> DEFINE F == [p \in (1..n) \X NumRow |-> Ledger!Added(p[2], us[p[1]])]
<1>0. Ledger!Empty \in NumRow
  BY DEF Ledger!Empty, NumRow, Money
<1>1. \A i \in 1..n, u \in NumRow : F[<<i, u>>] = Ledger!Added(u, us[i]) /\ Ledger!Added(u, us[i]) \in NumRow
  BY AddingIs DEF AreRows
<1>2. F \in [(1..n) \X NumRow -> NumRow]
  BY <1>1
<1>3. PICK g \in [SUBSET (1..n) -> NumRow] :
        g = [t \in SUBSET (1..n) |->
              IF t = {} THEN Ledger!Empty ELSE F[<<Ledger!Max(t), g[t \ {Ledger!Max(t)}]>>]]
  <2> HIDE DEF F
  <2>1. HasFold(n, NumRow, Ledger!Empty, F)
    BY <1>0, <1>2, FoldExists, Zenon
  <2> QED
    BY <2>1 DEF HasFold, IsFold
<1>4. g = [t \in SUBSET DOMAIN us |->
            IF t = {} THEN Ledger!Empty ELSE Ledger!Added(g[t \ {Ledger!Max(t)}], us[Ledger!Max(t)])]
  <2> HIDE DEF F
  <2>1. ASSUME NEW t \in SUBSET (1..n), t # {}
        PROVE  F[<<Ledger!Max(t), g[t \ {Ledger!Max(t)}]>>]
                 = Ledger!Added(g[t \ {Ledger!Max(t)}], us[Ledger!Max(t)])
    <3>1. Ledger!Max(t) \in 1..n /\ g[t \ {Ledger!Max(t)}] \in NumRow
      BY <2>1, MaxIs
    <3> QED
      BY <1>1, <3>1
  <2> QED
    BY <1>3, <2>1 DEF AreRows
<1>5. PICK v : /\ Ledger!SumUsage(us) = v[DOMAIN us]
               /\ v = [t \in SUBSET DOMAIN us |->
                        IF t = {} THEN Ledger!Empty
                        ELSE Ledger!Added(v[t \ {Ledger!Max(t)}], us[Ledger!Max(t)])]
  BY <1>4, Zenon DEF Ledger!SumUsage, Ledger!FoldLeft, Ledger!MapThenFoldSet
<1>6. DOMAIN us = 1..n
  BY DEF AreRows
<1> DEFINE h == [k \in 0..n |-> v[1..k]]
<1>7. h[0] = Ledger!Empty
  <2>1. 1..0 = {} /\ {} \in SUBSET DOMAIN us
    OBVIOUS
  <2> QED
    BY <1>5, <2>1
<1>8. ASSUME NEW i \in 1..n PROVE h[i] = Ledger!Added(h[i - 1], us[i])
  <2>1. 1..i \in SUBSET DOMAIN us /\ 1..i # {} /\ Ledger!Max(1..i) = i /\ (1..i) \ {i} = 1..(i - 1)
    BY <1>6, MaxOfFirst
  <2>2. v[1..i] = Ledger!Added(v[1..(i - 1)], us[i])
    BY <1>5, <2>1
  <2> QED
    BY <2>2
<1>9. h \in [0..n -> NumRow]
  <2> DEFINE J == {j \in Nat : j <= n => h[j] \in NumRow}
  <2>1. 0 \in J
    BY <1>0, <1>7
  <2>2. ASSUME NEW j \in Nat, j \in J PROVE j + 1 \in J
    <3>1. j + 1 \in 1..n => h[j + 1] = Ledger!Added(h[(j + 1) - 1], us[j + 1]) /\ us[j + 1] \in NumRow
      BY <1>8 DEF AreRows
    <3> HIDE DEF h
    <3>2. (j + 1) - 1 = j /\ j + 1 \in Nat /\ (j + 1 <= n => j + 1 \in 1..n /\ j <= n)
      OBVIOUS
    <3>3. j + 1 <= n => h[j] \in NumRow
      BY <2>2, <3>2
    <3>4. ASSUME j + 1 <= n PROVE h[j + 1] \in NumRow
      <4>1. h[j + 1] = Ledger!Added(h[j], us[j + 1]) /\ us[j + 1] \in NumRow
        BY <3>1, <3>2, <3>4
      <4>2. h[j] \in NumRow
        BY <3>3, <3>4
      <4> QED
        BY <4>1, <4>2, AddingIs
    <3> QED
      BY <3>2, <3>4
  <2> HIDE DEF J
  <2>3. Nat \subseteq J
    BY <2>1, <2>2, NumbersReach
  <2>4. ASSUME NEW j \in 0..n PROVE h[j] \in NumRow
    <3> HIDE DEF h
    <3>1. j \in Nat /\ j <= n
      OBVIOUS
    <3> QED
      BY <2>3, <3>1 DEF J
  <2> QED
    BY <2>4
<1>10. h[n] = v[DOMAIN us]
  BY <1>6
<1> HIDE DEF h
<1> QED
  BY <1>5, <1>7, <1>8, <1>9, <1>10 DEF Runs

(* A number that adds up with the rows, and a trait one row is enough for. *)
Additive(mu) ==
  /\ mu \in [NumRow -> Nat] /\ mu[Ledger!Empty] = 0
  /\ \A u, v \in NumRow : mu[Ledger!Added(u, v)] = mu[u] + mu[v]
Spreads(B) ==
  /\ Ledger!Empty \notin B
  /\ \A u, v \in NumRow : Ledger!Added(u, v) \in B <=> u \in B \/ v \in B

LEMMA SumMeasures ==
  ASSUME Ledger!LedgerAssumption, NEW n \in Nat, NEW us, AreRows(us, n), NEW mu, Additive(mu)
  PROVE  Ledger!SumUsage(us) \in NumRow /\ mu[Ledger!SumUsage(us)] = SumTo(Along(mu, us, n), n)
<1>1. PICK h : Runs(h, us, n) /\ Ledger!SumUsage(us) = h[n]
  BY SumRuns
<1> DEFINE g == [i \in 0..n |-> mu[h[i]]]
<1>2. Along(mu, us, n) \in Weights
  <2>1. mu \in [NumRow -> Nat] /\ \A i \in 1..n : us[i] \in NumRow
    BY DEF Additive, AreRows
  <2> QED
    BY <2>1, AlongIs
<1>3. Adds(g, Along(mu, us, n), n)
  <2>1. g[0] = 0
    BY <1>1 DEF Runs, Additive
  <2>2. ASSUME NEW i \in 1..n PROVE g[i] = g[i - 1] + Along(mu, us, n)[i]
    <3>1. i - 1 \in 0..n /\ i \in 0..n /\ i \in Nat
      OBVIOUS
    <3>2. h[i - 1] \in NumRow /\ us[i] \in NumRow /\ h[i] = Ledger!Added(h[i - 1], us[i])
      BY <1>1, <3>1 DEF Runs, AreRows
    <3>3. mu[h[i]] = mu[h[i - 1]] + mu[us[i]]
      BY <3>2 DEF Additive
    <3>4. Along(mu, us, n)[i] = mu[us[i]]
      BY <3>1 DEF Along
    <3> QED
      BY <3>1, <3>3, <3>4
  <2> HIDE DEF g
  <2> QED
    BY <2>1, <2>2 DEF Adds
<1>4. g[n] = mu[Ledger!SumUsage(us)] /\ h[n] \in NumRow
  BY <1>1 DEF Runs
<1> HIDE DEF g
<1> QED
  BY <1>1, <1>2, <1>3, <1>4, SumIs

LEMMA SumSpreads ==
  ASSUME Ledger!LedgerAssumption, NEW n \in Nat, NEW us, AreRows(us, n), NEW B, Spreads(B)
  PROVE  Ledger!SumUsage(us) \in B <=> \E i \in 1..n : us[i] \in B
<1>1. PICK h : Runs(h, us, n) /\ Ledger!SumUsage(us) = h[n]
  BY SumRuns
<1> DEFINE J == {j \in Nat : j <= n => (h[j] \in B <=> \E i \in 1..j : us[i] \in B)}
<1>2. 0 \in J
  BY <1>1 DEF Runs, Spreads
<1>3. ASSUME NEW j \in Nat, j \in J PROVE j + 1 \in J
  <2>0. j + 1 \in Nat
    OBVIOUS
  <2> SUFFICES ASSUME j + 1 <= n
               PROVE  h[j + 1] \in B <=> \E i \in 1..(j + 1) : us[i] \in B
    BY <2>0
  <2>1. j \in 0..n /\ j + 1 \in 1..n /\ (j + 1) - 1 = j
    OBVIOUS
  <2>2. h[j] \in NumRow /\ us[j + 1] \in NumRow /\ h[j + 1] = Ledger!Added(h[j], us[j + 1])
    BY <1>1, <2>1 DEF Runs, AreRows
  <2>3. h[j + 1] \in B <=> h[j] \in B \/ us[j + 1] \in B
    BY <2>2 DEF Spreads
  <2>4. h[j] \in B <=> \E i \in 1..j : us[i] \in B
    BY <1>3, <2>1
  <2>5. \A i : i \in 1..(j + 1) <=> i \in 1..j \/ i = j + 1
    OBVIOUS
  <2> QED
    BY <2>3, <2>4, <2>5
<1>4. n \in J
  <2> HIDE DEF J
  <2> QED
    BY <1>2, <1>3, NumbersReach
<1> QED
  BY <1>1, <1>4
-----------------------------------------------------------------------------
(* What is finite to the ledger is finite. *)
LEMMA FiniteIs ==
  ASSUME NEW S
  PROVE  Ledger!IsFiniteSet(S) <=> IsFiniteSet(S)
<1>1. Ledger!IsFiniteSet(S) <=> \E seq \in Seq(S) : \A s \in S : \E n \in 1..Len(seq) : seq[n] = s
  BY Zenon DEF Ledger!IsFiniteSet
<1>2. IsFiniteSet(S) <=> \E seq \in Seq(S) : \A s \in S : \E n \in 1..Len(seq) : seq[n] = s
  BY Zenon DEF IsFiniteSet
<1> QED
  BY <1>1, <1>2

(* SetToSeq lists a finite set. *)
LEMMA SeqLists ==
  ASSUME NEW S, IsFiniteSet(S)
  PROVE  \E n \in Nat : DOMAIN Ledger!SetToSeq(S) = 1..n /\ Lists(Ledger!SetToSeq(S), n, S)
<1> DEFINE n == Cardinality(S)
           f == Ledger!SetToSeq(S)
<1>1. n \in Nat /\ ExistsBijection(1..n, S)
  BY FS_CardinalityType
<1>2. \E g \in [1..n -> S] : Ledger!IsInjective(g)
  <2>1. PICK g : g \in Bijection(1..n, S)
    BY <1>1 DEF ExistsBijection
  <2>2. g \in [1..n -> S] /\ IsInjective(g)
    BY <2>1 DEF Bijection, Injection
  <2>3. Ledger!IsInjective(g)
    BY <2>2 DEF IsInjective, Ledger!IsInjective
  <2> QED
    BY <2>2, <2>3
<1>3. f \in [1..n -> S] /\ Ledger!IsInjective(f)
  <2>1. Ledger!Cardinality(S) = Cardinality(S)
    BY DEF Ledger!Cardinality, Cardinality
  <2>2. f = CHOOSE g \in [1..Ledger!Cardinality(S) -> S] : Ledger!IsInjective(g)
    BY DEF Ledger!SetToSeq
  <2>3. f = CHOOSE g \in [1..n -> S] : Ledger!IsInjective(g)
    BY <2>1, <2>2
  <2> HIDE DEF f, n
  <2> QED
    BY <1>2, <2>3
<1> HIDE DEF f, n
<1>4. IsFiniteSet(1..n) /\ Cardinality(1..n) = n
  <2>1. 1 \in Int /\ n \in Int /\ n - 1 + 1 = n /\ (1 > n => n = 0)
    BY <1>1
  <2> QED
    BY <1>1, <2>1, FS_Interval
<1>5. f \in Injection(1..n, S)
  BY <1>3 DEF Injection, IsInjective, Ledger!IsInjective
<1>6. f \in Surjection(1..n, S)
  BY <1>4, <1>5, FS_Injection DEF n
<1>7. DOMAIN f = 1..n
  BY <1>3
<1>8. \A i, j \in 1..n : f[i] = f[j] => i = j
  BY <1>3, <1>7 DEF Ledger!IsInjective
<1>9. \A x \in S : \E i \in 1..n : f[i] = x
  BY <1>6 DEF Surjection
<1>10. Lists(f, n, S)
  BY <1>3, <1>8, <1>9 DEF Lists
<1> QED
  BY <1>1, <1>7, <1>10 DEF f

(* What the rows of some attempts come to. *)
UsageTyped == u_usage \in [Attempts -> NumRow]
Per(mu) == [a \in Attempts |-> mu[u_usage[a]]]

LEMMA RowsAre ==
  ASSUME Ledger!LedgerAssumption, UsageTyped, NEW as \in SUBSET Attempts
  PROVE  \E n \in Nat :
           /\ Lists(Ledger!SetToSeq(as), n, as) /\ AreRows(Ledger!RowsOf(as), n)
           /\ \A i \in 1..n : Ledger!RowsOf(as)[i] = u_usage[Ledger!SetToSeq(as)[i]]
           /\ \A mu : Along(mu, Ledger!RowsOf(as), n) = Along(Per(mu), Ledger!SetToSeq(as), n)
<1>1. IsFiniteSet(as)
  BY FS_Subset, FiniteIs DEF Ledger!LedgerAssumption
<1>2. PICK n \in Nat : DOMAIN Ledger!SetToSeq(as) = 1..n /\ Lists(Ledger!SetToSeq(as), n, as)
  BY <1>1, SeqLists
<1>3. \A i \in 1..n : Ledger!SetToSeq(as)[i] \in as /\ Ledger!SetToSeq(as)[i] \in Attempts
  BY <1>2 DEF Lists
<1>4. Ledger!RowsOf(as) = [i \in 1..n |-> u_usage[Ledger!SetToSeq(as)[i]]]
  BY <1>2 DEF Ledger!RowsOf
<1>5. AreRows(Ledger!RowsOf(as), n)
  BY <1>3, <1>4 DEF AreRows, UsageTyped
<1>6. \A i \in 1..n : Ledger!RowsOf(as)[i] = u_usage[Ledger!SetToSeq(as)[i]]
  BY <1>4
<1>7. ASSUME NEW mu PROVE Along(mu, Ledger!RowsOf(as), n) = Along(Per(mu), Ledger!SetToSeq(as), n)
  <2>1. \A i \in 1..n : mu[Ledger!RowsOf(as)[i]] = Per(mu)[Ledger!SetToSeq(as)[i]]
    BY <1>3, <1>6 DEF Per
  <2> QED
    BY <2>1 DEF Along
<1> QED
  BY <1>2, <1>5, <1>6, <1>7

LEMMA PerIs ==
  ASSUME UsageTyped, NEW mu, Additive(mu)
  PROVE  Per(mu) \in [Attempts -> Nat]
BY DEF UsageTyped, Additive, Per

LEMMA RowsMeasure ==
  ASSUME Ledger!LedgerAssumption, UsageTyped, NEW as \in SUBSET Attempts, NEW mu, Additive(mu)
  PROVE  /\ Ledger!SumUsage(Ledger!RowsOf(as)) \in NumRow
         /\ \E n \in Nat : \E f : /\ Lists(f, n, as)
                                  /\ mu[Ledger!SumUsage(Ledger!RowsOf(as))] = SumTo(Along(Per(mu), f, n), n)
<1>1. PICK n \in Nat :
        /\ Lists(Ledger!SetToSeq(as), n, as) /\ AreRows(Ledger!RowsOf(as), n)
        /\ Along(mu, Ledger!RowsOf(as), n) = Along(Per(mu), Ledger!SetToSeq(as), n)
  BY RowsAre
<1>2. /\ Ledger!SumUsage(Ledger!RowsOf(as)) \in NumRow
      /\ mu[Ledger!SumUsage(Ledger!RowsOf(as))] = SumTo(Along(mu, Ledger!RowsOf(as), n), n)
  BY <1>1, SumMeasures
<1> QED
  BY <1>1, <1>2

LEMMA RowsSpread ==
  ASSUME Ledger!LedgerAssumption, UsageTyped, NEW as \in SUBSET Attempts, NEW B, Spreads(B)
  PROVE  Ledger!SumUsage(Ledger!RowsOf(as)) \in B <=> \E a \in as : u_usage[a] \in B
<1>1. PICK n \in Nat :
        /\ Lists(Ledger!SetToSeq(as), n, as) /\ AreRows(Ledger!RowsOf(as), n)
        /\ \A i \in 1..n : Ledger!RowsOf(as)[i] = u_usage[Ledger!SetToSeq(as)[i]]
  BY RowsAre
<1>2. Ledger!SumUsage(Ledger!RowsOf(as)) \in B <=> \E i \in 1..n : Ledger!RowsOf(as)[i] \in B
  BY <1>1, SumSpreads
<1>3. \A i \in 1..n : Ledger!SetToSeq(as)[i] \in as /\ Ledger!RowsOf(as)[i] = u_usage[Ledger!SetToSeq(as)[i]]
  BY <1>1 DEF Lists
<1>4. \A a \in as : \E i \in 1..n : Ledger!SetToSeq(as)[i] = a
  BY <1>1 DEF Lists
<1>5. ASSUME NEW a \in as, u_usage[a] \in B PROVE \E i \in 1..n : Ledger!RowsOf(as)[i] \in B
  <2>1. PICK i \in 1..n : Ledger!SetToSeq(as)[i] = a
    BY <1>4
  <2>2. Ledger!RowsOf(as)[i] = u_usage[a]
    BY <1>3, <2>1
  <2> QED
    BY <1>5, <2>2
<1>6. ASSUME NEW i \in 1..n, Ledger!RowsOf(as)[i] \in B PROVE \E a \in as : u_usage[a] \in B
  BY <1>3, <1>6
<1> QED
  BY <1>2, <1>5, <1>6

(* Task by task, or all at once. *)
Of(t) == {a \in Attempts : TaskOf[a] = t}
Sums == [i \in DOMAIN Ledger!SetToSeq(LedgerTasks) |-> Ledger!TaskUsage(Ledger!SetToSeq(LedgerTasks)[i])]

LEMMA SumsAre ==
  ASSUME Ledger!LedgerAssumption, UsageTyped
  PROVE  \E n \in Nat :
           /\ Lists(Ledger!SetToSeq(LedgerTasks), n, LedgerTasks) /\ AreRows(Sums, n)
           /\ \A i \in 1..n : Sums[i] = Ledger!SumUsage(Ledger!RowsOf(Of(Ledger!SetToSeq(LedgerTasks)[i])))
<1>1. PICK n \in Nat : DOMAIN Ledger!SetToSeq(LedgerTasks) = 1..n /\ Lists(Ledger!SetToSeq(LedgerTasks), n, LedgerTasks)
  BY SeqLists, FiniteIs DEF Ledger!LedgerAssumption
<1>2. Sums = [i \in 1..n |-> Ledger!TaskUsage(Ledger!SetToSeq(LedgerTasks)[i])]
  BY <1>1 DEF Sums
<1>3. \A i \in 1..n : Sums[i] = Ledger!SumUsage(Ledger!RowsOf(Of(Ledger!SetToSeq(LedgerTasks)[i])))
  BY <1>2 DEF Ledger!TaskUsage, Of
<1> DEFINE zero == [u \in NumRow |-> 0]
<1>4. Additive(zero)
  <2>1. Ledger!Empty \in NumRow
    BY DEF Ledger!Empty, NumRow, Money
  <2>2. \A u, v \in NumRow : Ledger!Added(u, v) \in NumRow
    BY AddingIs
  <2> QED
    BY <2>1, <2>2 DEF Additive
<1>5. \A i \in 1..n : Ledger!SumUsage(Ledger!RowsOf(Of(Ledger!SetToSeq(LedgerTasks)[i]))) \in NumRow
  <2>1. \A t : Of(t) \in SUBSET Attempts
    BY DEF Of
  <2> HIDE DEF zero
  <2> QED
    BY <1>4, <2>1, RowsMeasure
<1>6. AreRows(Sums, n)
  BY <1>2, <1>3, <1>5 DEF AreRows
<1> QED
  BY <1>1, <1>3, <1>6

LEMMA NestedSpreads ==
  ASSUME Ledger!LedgerAssumption, UsageTyped, NEW B, Spreads(B)
  PROVE  Ledger!WorkflowUsage \in B <=> Ledger!FlatUsage \in B
<1>1. PICK n \in Nat :
        /\ Lists(Ledger!SetToSeq(LedgerTasks), n, LedgerTasks) /\ AreRows(Sums, n)
        /\ \A i \in 1..n : Sums[i] = Ledger!SumUsage(Ledger!RowsOf(Of(Ledger!SetToSeq(LedgerTasks)[i])))
  BY SumsAre
<1>2. Ledger!WorkflowUsage \in B <=> \E i \in 1..n : Sums[i] \in B
  BY <1>1, SumSpreads DEF Ledger!WorkflowUsage, Sums
<1>3. \A t : Ledger!SumUsage(Ledger!RowsOf(Of(t))) \in B <=> \E a \in Of(t) : u_usage[a] \in B
  <2>1. \A t : Of(t) \in SUBSET Attempts
    BY DEF Of
  <2> QED
    BY <2>1, RowsSpread
<1>4. Ledger!FlatUsage \in B <=> \E a \in Attempts : u_usage[a] \in B
  BY RowsSpread DEF Ledger!FlatUsage
<1>5. \A a \in Attempts : \E i \in 1..n : a \in Of(Ledger!SetToSeq(LedgerTasks)[i])
  BY <1>1 DEF Lists, Of, Ledger!LedgerAssumption
<1>6. \A t : \A a \in Of(t) : a \in Attempts
  BY DEF Of
<1> QED
  BY <1>1, <1>2, <1>3, <1>4, <1>5, <1>6

LEMMA NestedMeasures ==
  ASSUME Ledger!LedgerAssumption, UsageTyped, NEW mu, Additive(mu)
  PROVE  /\ Ledger!WorkflowUsage \in NumRow /\ Ledger!FlatUsage \in NumRow
         /\ mu[Ledger!WorkflowUsage] = mu[Ledger!FlatUsage]
<1>1. PICK n \in Nat :
        /\ Lists(Ledger!SetToSeq(LedgerTasks), n, LedgerTasks) /\ AreRows(Sums, n)
        /\ \A i \in 1..n : Sums[i] = Ledger!SumUsage(Ledger!RowsOf(Of(Ledger!SetToSeq(LedgerTasks)[i])))
  BY SumsAre
<1>2. /\ Ledger!WorkflowUsage \in NumRow
      /\ mu[Ledger!WorkflowUsage] = SumTo(Along(mu, Sums, n), n)
  BY <1>1, SumMeasures DEF Ledger!WorkflowUsage, Sums
<1>3. PICK m, f : /\ m \in Nat /\ Lists(f, m, Attempts)
                  /\ mu[Ledger!FlatUsage] = SumTo(Along(Per(mu), f, m), m)
  BY RowsMeasure DEF Ledger!FlatUsage
<1>4. Ledger!FlatUsage \in NumRow
  BY RowsMeasure DEF Ledger!FlatUsage
<1> DEFINE T == Ledger!SetToSeq(LedgerTasks)
           First(j) == {a \in Attempts : \E i \in 1..j : TaskOf[a] = T[i]}
           Sum(j, c, h) == /\ Lists(h, c, First(j))
                           /\ SumTo(Along(Per(mu), h, c), c) = SumTo(Along(mu, Sums, n), j)
           J == {j \in Nat : j <= n => \E c, h : c \in Nat /\ Sum(j, c, h)}
<1>5. Along(mu, Sums, n) \in Weights
  <2>1. mu \in [NumRow -> Nat] /\ \A i \in 1..n : Sums[i] \in NumRow
    BY <1>1 DEF Additive, AreRows
  <2> QED
    BY <2>1, AlongIs
<1>6. Per(mu) \in [Attempts -> Nat]
  BY PerIs
<1>7. 0 \in J
  <2>1. First(0) = {}
    OBVIOUS
  <2> DEFINE h == [i \in 1..0 |-> i]
  <2>2. Lists(h, 0, First(0))
    BY <2>1 DEF Lists
  <2>3. Along(Per(mu), h, 0) \in Weights
    BY <1>6, AlongIs
  <2>4. SumTo(Along(Per(mu), h, 0), 0) = 0 /\ SumTo(Along(mu, Sums, n), 0) = 0
    BY <1>5, <2>3, SumSteps
  <2> HIDE DEF h
  <2> QED
    BY <2>2, <2>4
<1>8. ASSUME NEW j \in Nat, j \in J PROVE j + 1 \in J
  <2>0. j + 1 \in Nat /\ (j + 1 <= n => j <= n /\ j + 1 \in 1..n)
    OBVIOUS
  <2> SUFFICES ASSUME j + 1 <= n PROVE \E c, h : c \in Nat /\ Sum(j + 1, c, h)
    BY <2>0
  <2>1. PICK c, h : c \in Nat /\ Sum(j, c, h)
    <3> HIDE DEF Sum
    <3> QED
      BY <1>8, <2>0
  <2> DEFINE t == T[j + 1]
  <2>2. Of(t) \in SUBSET Attempts /\ First(j) \in SUBSET Attempts
    BY DEF Of
  <2>3. PICK d, g : /\ d \in Nat /\ Lists(g, d, Of(t))
                    /\ mu[Ledger!SumUsage(Ledger!RowsOf(Of(t)))] = SumTo(Along(Per(mu), g, d), d)
    <3> HIDE DEF t
    <3> QED
      BY <2>2, RowsMeasure
  <2>4. First(j) \cap Of(t) = {}
    <3>1. \A i \in 1..j : i \in 1..n /\ i # j + 1
      OBVIOUS
    <3>2. \A i \in 1..j : T[i] # t
      BY <1>1, <2>0, <3>1 DEF Lists
    <3> QED
      BY <3>2 DEF Of
  <2>5. First(j) \cup Of(t) = First(j + 1)
    <3>1. \A i : i \in 1..(j + 1) <=> i \in 1..j \/ i = j + 1
      OBVIOUS
    <3> QED
      BY <3>1 DEF Of
  <2>6. PICK k : /\ Lists(k, c + d, First(j) \cup Of(t))
                 /\ SumTo(Along(Per(mu), k, c + d), c + d)
                    = SumTo(Along(Per(mu), h, c), c) + SumTo(Along(Per(mu), g, d), d)
    <3> DEFINE A == First(j)
               O == Of(t)
               v == Per(mu)
    <3>1. Lists(h, c, A) /\ Lists(g, d, O) /\ A \in SUBSET Attempts /\ O \in SUBSET Attempts
      BY <2>1, <2>2, <2>3
    <3>2. A \cap O = {} /\ v \in [Attempts -> Nat] /\ c \in Nat /\ d \in Nat
      BY <1>6, <2>1, <2>3, <2>4
    <3> HIDE DEF A, O, v
    <3>3. Joined(v, h, c, g, d, A \cup O)
      BY <3>1, <3>2, ListsJoin
    <3> QED
      BY <3>3 DEF A, O, v, Joined
  <2>7. SumTo(Along(mu, Sums, n), j + 1) = SumTo(Along(mu, Sums, n), j) + SumTo(Along(Per(mu), g, d), d)
    <3>1. Along(mu, Sums, n)[j + 1] = mu[Sums[j + 1]]
      BY <2>0 DEF Along
    <3>2. Sums[j + 1] = Ledger!SumUsage(Ledger!RowsOf(Of(t)))
      BY <1>1, <2>0
    <3> QED
      BY <1>5, <2>3, <3>1, <3>2, SumSteps
  <2>8. Sum(j + 1, c + d, k)
    <3>1. SumTo(Along(Per(mu), h, c), c) = SumTo(Along(mu, Sums, n), j)
      BY <2>1
    <3>2. Lists(k, c + d, First(j + 1))
      BY <2>5, <2>6
    <3> HIDE DEF First, t
    <3> QED
      BY <2>6, <2>7, <3>1, <3>2
  <2> HIDE DEF Sum
  <2>9. c + d \in Nat
    BY <2>1, <2>3
  <2> QED
    BY <2>8, <2>9
<1>9. PICK c, h : c \in Nat /\ Sum(n, c, h)
  <2> HIDE DEF J
  <2>1. n \in J
    BY <1>7, <1>8, NumbersReach
  <2> HIDE DEF Sum
  <2> QED
    BY <2>1 DEF J
<1>10. First(n) = Attempts
  BY <1>1 DEF Lists, Ledger!LedgerAssumption
<1>11. SumTo(Along(Per(mu), h, c), c) = SumTo(Along(Per(mu), f, m), m)
  <2>1. /\ Lists(h, c, Attempts) /\ Attempts \in SUBSET Attempts
        /\ c \in Nat /\ m \in Nat
    BY <1>3, <1>9, <1>10
  <2> QED
    BY <1>3, <1>6, <2>1, OrderIsFree
<1>12. SumTo(Along(Per(mu), h, c), c) = SumTo(Along(mu, Sums, n), n)
  BY <1>9
<1> QED
  BY <1>2, <1>3, <1>4, <1>11, <1>12
-----------------------------------------------------------------------------
(* A workflow's usage is that of its attempts. *)
LEMMA JoinHas ==
  ASSUME NEW s \in Seq(EntryRows), NEW t \in Seq(EntryRows), NEW P
  PROVE  (\E i \in DOMAIN (s \o t) : (s \o t)[i] \in P)
         <=> (\E i \in DOMAIN s : s[i] \in P) \/ (\E i \in DOMAIN t : t[i] \in P)
<1> DEFINE u == s \o t
<1>1. /\ DOMAIN u = 1..(Len(s) + Len(t)) /\ DOMAIN s = 1..Len(s) /\ DOMAIN t = 1..Len(t)
      /\ Len(s) \in Nat /\ Len(t) \in Nat
  OBVIOUS
<1>2. \A i \in 1..Len(s) : i \in DOMAIN u /\ u[i] = s[i]
  OBVIOUS
<1>3. \A j \in 1..Len(t) : Len(s) + j \in DOMAIN u /\ u[Len(s) + j] = t[j]
  OBVIOUS
<1> HIDE DEF u
<1>4. ASSUME NEW i \in DOMAIN u, u[i] \in P
      PROVE  (\E k \in DOMAIN s : s[k] \in P) \/ (\E j \in DOMAIN t : t[j] \in P)
  <2>1. CASE i <= Len(s)
    BY <1>1, <1>2, <1>4, <2>1
  <2>2. CASE ~ (i <= Len(s))
    <3>1. i - Len(s) \in 1..Len(t) /\ Len(s) + (i - Len(s)) = i
      BY <1>1, <2>2
    <3>2. t[i - Len(s)] \in P
      BY <1>3, <1>4, <3>1
    <3> QED
      BY <1>1, <3>1, <3>2
  <2> QED
    BY <2>1, <2>2
<1>5. ASSUME NEW k \in DOMAIN s, s[k] \in P PROVE \E i \in DOMAIN u : u[i] \in P
  BY <1>1, <1>2, <1>5
<1>6. ASSUME NEW j \in DOMAIN t, t[j] \in P PROVE \E i \in DOMAIN u : u[i] \in P
  <2>1. u[Len(s) + j] \in P /\ Len(s) + j \in DOMAIN u
    BY <1>1, <1>3, <1>6
  <2> QED
    BY <2>1
<1> QED
  BY <1>4, <1>5, <1>6 DEF u

(* The rows with an entry of a kind. *)
Having(P) == {u \in NumRow : \E i \in DOMAIN u.entries : u.entries[i] \in P}

LEMMA HavingSpreads ==
  ASSUME Ledger!LedgerAssumption, NEW P
  PROVE  Spreads(Having(P))
<1>1. Ledger!Empty \notin Having(P)
  BY DEF Having, Ledger!Empty
<1>2. ASSUME NEW u \in NumRow, NEW v \in NumRow
      PROVE  Ledger!Added(u, v) \in Having(P) <=> u \in Having(P) \/ v \in Having(P)
  <2>1. Ledger!Added(u, v) \in NumRow /\ Ledger!Added(u, v).entries = u.entries \o v.entries
    BY AddingIs
  <2>2. u.entries \in Seq(EntryRows) /\ v.entries \in Seq(EntryRows)
    BY DEF NumRow
  <2>3. (\E i \in DOMAIN (u.entries \o v.entries) : (u.entries \o v.entries)[i] \in P)
        <=> \/ \E i \in DOMAIN u.entries : u.entries[i] \in P
            \/ \E i \in DOMAIN v.entries : v.entries[i] \in P
    BY <2>2, JoinHas
  <2> QED
    BY <2>1, <2>3 DEF Having
<1> QED
  BY <1>1, <1>2 DEF Spreads

HasCost == {u \in NumRow : u.cost # Ledger!None}
TokensOf == [u \in NumRow |-> u.tokens]
CostOf == [u \in NumRow |-> Ledger!OrZero(u.cost)]
AmountsAt(r) == [u \in NumRow |-> AddedUp(u.entries, r)]

LEMMA TraitsSpread ==
  ASSUME Ledger!LedgerAssumption, NEW r \in Ledger!Rate
  PROVE  /\ Spreads(HasCost) /\ Additive(TokensOf) /\ Additive(CostOf)
         /\ Additive(AmountsAt(r))
<1>0. Ledger!Empty \in NumRow /\ Ledger!Empty.cost = Ledger!None /\ Ledger!Empty.tokens = 0
      /\ Ledger!Empty.entries = <<>>
  BY DEF Ledger!Empty, NumRow, Money
<1>1. Spreads(HasCost)
  BY <1>0, AddingIs DEF Spreads, HasCost
<1>2. Additive(TokensOf)
  <2>1. TokensOf \in [NumRow -> Nat]
    BY DEF TokensOf, NumRow
  <2> QED
    BY <1>0, <2>1, AddingIs DEF Additive, TokensOf
<1>3. Additive(CostOf)
  <2>1. CostOf \in [NumRow -> Nat]
    BY DEF CostOf, NumRow, Ledger!OrZero, Money, Ledger!None
  <2>2. CostOf[Ledger!Empty] = 0
    BY <1>0 DEF CostOf, Ledger!OrZero
  <2> QED
    BY <2>1, <2>2, AddingIs DEF Additive, CostOf
<1>4. Additive(AmountsAt(r))
  <2>1. \A u \in NumRow : u.entries \in Seq(EntryRows)
    BY DEF NumRow
  <2>2. (\A s \in Seq(EntryRows) : AddedUp(s, r) \in Nat) /\ AddedUp(<<>>, r) = 0
    <3> DEFINE e == [tokens |-> 0, amount |-> 0, source |-> "none"]
    <3>1. e \in EntryRows
      BY DEF EntryRows, Money
    <3>2. <<>> \in Seq(EntryRows)
      OBVIOUS
    <3> HIDE DEF e
    <3> QED
      BY <3>1, <3>2, AmountsOfMore
  <2>4. AmountsAt(r) \in [NumRow -> Nat]
    BY <2>1, <2>2 DEF AmountsAt
  <2>5. AmountsAt(r)[Ledger!Empty] = 0
    BY <1>0, <2>2 DEF AmountsAt
  <2>6. ASSUME NEW u \in NumRow, NEW v \in NumRow
        PROVE  AmountsAt(r)[Ledger!Added(u, v)] = AmountsAt(r)[u] + AmountsAt(r)[v]
    <3>1. Ledger!Added(u, v) \in NumRow /\ Ledger!Added(u, v).entries = u.entries \o v.entries
      BY AddingIs
    <3>2. AddedUp(u.entries \o v.entries, r) = AddedUp(u.entries, r) + AddedUp(v.entries, r)
      BY <2>1, AmountsJoin
    <3> QED
      BY <3>1, <3>2 DEF AmountsAt
  <2> QED
    BY <2>4, <2>5, <2>6 DEF Additive
<1> QED
  BY <1>1, <1>2, <1>3, <1>4

(* What a reader sees of a row. *)
LEMMA SameToReaders ==
  ASSUME Ledger!LedgerAssumption, NEW r \in Ledger!Rate, NEW u \in NumRow, NEW v \in NumRow,
         \A mu : Additive(mu) => mu[u] = mu[v],
         \A B : Spreads(B) => (u \in B <=> v \in B)
  PROVE  /\ u.tokens = v.tokens /\ u.cost = v.cost
         /\ Ledger!Amount(u, r) = Ledger!Amount(v, r) /\ Ledger!Coverage(u, r) = Ledger!Coverage(v, r)
<1>1. u.tokens = v.tokens /\ Ledger!OrZero(u.cost) = Ledger!OrZero(v.cost)
  <2>1. TokensOf[u] = TokensOf[v] /\ CostOf[u] = CostOf[v]
    BY TraitsSpread
  <2> QED
    BY <2>1 DEF TokensOf, CostOf
<1>2. u.cost # Ledger!None <=> v.cost # Ledger!None
  BY TraitsSpread DEF HasCost
<1>3. u.cost = v.cost
  BY <1>1, <1>2 DEF NumRow, Ledger!OrZero
<1>4. AddedUp(u.entries, r) = AddedUp(v.entries, r)
  <2>1. AmountsAt(r)[u] = AmountsAt(r)[v]
    BY TraitsSpread
  <2> QED
    BY <2>1 DEF AmountsAt
<1>5. \A P : (\E i \in DOMAIN u.entries : u.entries[i] \in P)
             <=> (\E i \in DOMAIN v.entries : v.entries[i] \in P)
  <2>1. \A P : u \in Having(P) <=> v \in Having(P)
    BY HavingSpreads
  <2> QED
    BY <2>1 DEF Having
<1>6. u.entries \in Seq(EntryRows) /\ v.entries \in Seq(EntryRows)
  BY DEF NumRow
<1>7. /\ \A i \in DOMAIN u.entries : u.entries[i] \in EntryRows
      /\ \A i \in DOMAIN v.entries : v.entries[i] \in EntryRows
  BY <1>6
<1>8. u.entries = <<>> <=> v.entries = <<>>
  <2>1. \A s \in Seq(EntryRows) : s = <<>> <=> ~ (\E i \in DOMAIN s : s[i] \in EntryRows)
    <3> SUFFICES ASSUME NEW s \in Seq(EntryRows), s # <<>> PROVE \E i \in DOMAIN s : s[i] \in EntryRows
      OBVIOUS
    <3>1. 1 \in DOMAIN s /\ s[1] \in EntryRows
      OBVIOUS
    <3> QED
      BY <3>1
  <2> QED
    BY <1>5, <1>6, <2>1
<1>9. (\E i \in DOMAIN u.entries : Ledger!AmountOf(u.entries[i], r) # Ledger!None)
      <=> (\E i \in DOMAIN v.entries : Ledger!AmountOf(v.entries[i], r) # Ledger!None)
  <2> DEFINE P == {e \in EntryRows : Ledger!AmountOf(e, r) # Ledger!None}
  <2>1. (\E i \in DOMAIN u.entries : u.entries[i] \in P)
        <=> (\E i \in DOMAIN v.entries : v.entries[i] \in P)
    <3> HIDE DEF P
    <3> QED
      BY <1>5
  <2>2. /\ \A i \in DOMAIN u.entries : u.entries[i] \in P <=> Ledger!AmountOf(u.entries[i], r) # Ledger!None
        /\ \A i \in DOMAIN v.entries : v.entries[i] \in P <=> Ledger!AmountOf(v.entries[i], r) # Ledger!None
    BY <1>7
  <2> HIDE DEF P
  <2> QED
    BY <2>1, <2>2
<1>10. (\E i \in DOMAIN u.entries : Ledger!Uncovered(u.entries[i], r))
       <=> (\E i \in DOMAIN v.entries : Ledger!Uncovered(v.entries[i], r))
  <2> DEFINE P == {e \in EntryRows : Ledger!Uncovered(e, r)}
  <2>1. (\E i \in DOMAIN u.entries : u.entries[i] \in P)
        <=> (\E i \in DOMAIN v.entries : v.entries[i] \in P)
    <3> HIDE DEF P
    <3> QED
      BY <1>5
  <2>2. /\ \A i \in DOMAIN u.entries : u.entries[i] \in P <=> Ledger!Uncovered(u.entries[i], r)
        /\ \A i \in DOMAIN v.entries : v.entries[i] \in P <=> Ledger!Uncovered(v.entries[i], r)
    BY <1>7
  <2> HIDE DEF P
  <2> QED
    BY <2>1, <2>2
<1>11. Ledger!Amount(u, r) = Ledger!Amount(v, r)
  <2>1. /\ Ledger!Amount(u, r) = (IF u.entries = <<>> THEN Ledger!OrZero(u.cost) ELSE AddedUp(u.entries, r))
        /\ Ledger!Amount(v, r) = (IF v.entries = <<>> THEN Ledger!OrZero(v.cost) ELSE AddedUp(v.entries, r))
    BY DEF Ledger!Amount, AddedUp
  <2> QED
    BY <1>3, <1>4, <1>8, <2>1
<1>12. Ledger!Costed(u, r) <=> Ledger!Costed(v, r)
  BY <1>3, <1>8, <1>9 DEF Ledger!Costed
<1>13. Ledger!Coverage(u, r) = Ledger!Coverage(v, r)
  BY <1>10, <1>12 DEF Ledger!Coverage
<1> QED
  BY <1>1, <1>3, <1>11, <1>13

LEMMA NestedHolds ==
  ASSUME Ledger!LedgerAssumption, UsageTyped
  PROVE  Ledger!NestedIsFlat
<1>1. Ledger!None \in Ledger!Rate
  BY DEF Ledger!Rate
<1>2. Ledger!WorkflowUsage \in NumRow /\ Ledger!FlatUsage \in NumRow
  BY <1>1, TraitsSpread, NestedMeasures
<1>3. /\ \A mu : Additive(mu) => mu[Ledger!WorkflowUsage] = mu[Ledger!FlatUsage]
      /\ \A B : Spreads(B) => (Ledger!WorkflowUsage \in B <=> Ledger!FlatUsage \in B)
  BY NestedMeasures, NestedSpreads
<1>4. \A r \in Ledger!Rate :
        /\ Ledger!WorkflowUsage.tokens = Ledger!FlatUsage.tokens /\ Ledger!WorkflowUsage.cost = Ledger!FlatUsage.cost
        /\ Ledger!Amount(Ledger!WorkflowUsage, r) = Ledger!Amount(Ledger!FlatUsage, r)
        /\ Ledger!Coverage(Ledger!WorkflowUsage, r) = Ledger!Coverage(Ledger!FlatUsage, r)
  BY <1>2, <1>3, SameToReaders
<1> QED
  BY <1>1, <1>4 DEF Ledger!NestedIsFlat
-----------------------------------------------------------------------------
(* What a row says of the calls it has recorded: its entries come to what  *)
(* is known of their prices and, by a later rate, to that of the tokens    *)
(* without one; and unless a caller has put a cost under no name, the      *)
(* callers' own total is what their entries say.                           *)
Own(s) == [i \in Nat |-> IF i \in 1..Len(s) /\ s[i].source = "caller"
                          THEN Ledger!OrZero(s[i].amount) ELSE 0]
Missing(e) == e.amount = Ledger!None /\ Ledger!OrZero(e.tokens) > 0

Accounts(s, known, tokens) ==
  /\ \A r \in Ledger!Rate : AddedUp(s, r) = known + Ledger!OrZero(Ledger!Priced(tokens, r))
  /\ s = <<>> => known = 0 /\ tokens = 0
  /\ tokens > 0 <=> \E i \in DOMAIN s : Missing(s[i])
Names(s, cost) ==
  /\ Ledger!OrZero(cost) = SumTo(Own(s), Len(s))
  /\ (\E i \in DOMAIN s : s[i].source = "caller") => cost # Ledger!None

LedgerTyped ==
  /\ u_table \in Ledger!Rate /\ u_cached \in [Processes -> Ledger!Rate]
  /\ UsageTyped /\ u_calls \in 0..MaxCalls
  /\ \A a \in Attempts : Len(u_usage[a].entries) <= u_calls
  /\ u_billed \in [Attempts -> Nat] /\ u_open \in [Attempts -> Nat]
  /\ u_unnamed \subseteq Attempts
AccountsInv == \A a \in Attempts : Accounts(u_usage[a].entries, u_billed[a], u_open[a])
NamesInv == \A a \in Attempts : a \notin u_unnamed => Names(u_usage[a].entries, u_usage[a].cost)
LedgerInv == LedgerTyped /\ AccountsInv /\ NamesInv

LEMMA EntryIs ==
  ASSUME Ledger!LedgerAssumption, NEW n \in Money, NEW cost \in Costs \cup {Ledger!None}, NEW q \in Ledger!Rate
  PROVE  /\ Ledger!Entry(n, cost, q) \in EntryRows
         /\ Ledger!Entry(n, cost, q).tokens = n
         /\ Ledger!Entry(n, cost, q).amount = (IF cost # Ledger!None THEN cost ELSE Ledger!Priced(n, q))
         /\ (Ledger!Entry(n, cost, q).source = "caller" <=> cost # Ledger!None)
         /\ cost \in Money /\ Ledger!Priced(n, q) \in Money
         /\ (Ledger!Priced(n, q) = Ledger!None <=> q = Ledger!None)
<1>1. cost \in Money
  BY DEF Ledger!LedgerAssumption, Money
<1>2. Ledger!Priced(n, q) \in Money
  BY MoneyIs, <1>1
<1>3. Ledger!Priced(n, q) = Ledger!None <=> q = Ledger!None
  <2>1. q # Ledger!None => q \in Nat
    BY DEF Ledger!Rate, Ledger!LedgerAssumption
  <2>2. Ledger!OrZero(n) \in Nat
    BY MoneyIs, <1>1
  <2>3. q # Ledger!None => Ledger!OrZero(n) * q \in Nat
    BY <2>1, <2>2
  <2> QED
    BY <2>3 DEF Ledger!Priced, Ledger!None
<1>4. Ledger!Entry(n, cost, q) = [tokens |-> n, amount |-> IF cost # Ledger!None THEN cost ELSE Ledger!Priced(n, q),
                           source |-> IF cost # Ledger!None THEN "caller"
                                      ELSE IF q = Ledger!None THEN "none" ELSE "resolver"]
  BY DEF Ledger!Entry
<1> QED
  BY <1>1, <1>2, <1>3, <1>4 DEF EntryRows

(* A call adds what was known of its price, or its tokens without one.     *)
Known(n, cost, q) == Ledger!OrZero(IF cost # Ledger!None THEN cost ELSE Ledger!Priced(n, q))
Unknown(n, cost, q) == IF cost = Ledger!None /\ q = Ledger!None THEN Ledger!OrZero(n) ELSE 0

LEMMA CallAccounts ==
  ASSUME Ledger!LedgerAssumption, NEW s \in Seq(EntryRows), NEW known \in Nat, NEW tokens \in Nat,
         NEW n \in Money, NEW cost \in Costs \cup {Ledger!None}, NEW q \in Ledger!Rate,
         Accounts(s, known, tokens)
  PROVE  Accounts(Append(s, Ledger!Entry(n, cost, q)),
                  known + Known(n, cost, q), tokens + Unknown(n, cost, q))
<1> DEFINE e == Ledger!Entry(n, cost, q)
           k == known + Known(n, cost, q)
           m == tokens + Unknown(n, cost, q)
           t == Append(s, e)
<1>1. /\ e \in EntryRows /\ e.tokens = n
      /\ e.amount = (IF cost # Ledger!None THEN cost ELSE Ledger!Priced(n, q))
      /\ cost \in Money /\ Ledger!Priced(n, q) \in Money /\ (Ledger!Priced(n, q) = Ledger!None <=> q = Ledger!None)
  BY EntryIs
<1>2. Ledger!OrZero(n) \in Nat /\ Ledger!OrZero(cost) \in Nat /\ Ledger!OrZero(Ledger!Priced(n, q)) \in Nat
  BY <1>1, MoneyIs
<1>3. t # <<>> /\ DOMAIN t = 1..(Len(s) + 1) /\ DOMAIN s = 1..Len(s) /\ Len(s) \in Nat
      /\ t[Len(s) + 1] = e /\ \A i \in 1..Len(s) : t[i] = s[i]
  OBVIOUS
<1>4. ASSUME NEW r \in Ledger!Rate PROVE AddedUp(t, r) = k + Ledger!OrZero(Ledger!Priced(m, r))
  <2> HIDE DEF e
  <2>1. AddedUp(t, r) = AddedUp(s, r) + Ledger!OrZero(Ledger!AmountOf(e, r))
    BY <1>1, AmountsOfMore
  <2>2. AddedUp(s, r) = known + Ledger!OrZero(Ledger!Priced(tokens, r))
    BY DEF Accounts
  <2>3. r = Ledger!None \/ r \in Nat
    BY DEF Ledger!Rate, Ledger!LedgerAssumption
  <2>4. Ledger!OrZero(Ledger!None) = 0 /\ \A x \in Nat : Ledger!OrZero(x) = x
    BY DEF Ledger!OrZero, Ledger!None
  <2>5. tokens \in Money
    BY DEF Money
  <2>6. Ledger!OrZero(Ledger!Priced(tokens, r)) \in Nat /\ Ledger!OrZero(Ledger!Priced(n, r)) \in Nat
    BY <1>1, <2>5, MoneyIs
  <2>7. CASE ~ (cost = Ledger!None /\ q = Ledger!None)
    <3>1. Ledger!AmountOf(e, r) = e.amount
      BY <1>1, <2>7 DEF Ledger!AmountOf
    <3>2. m = tokens
      BY <2>7 DEF Unknown
    <3>3. Ledger!OrZero(e.amount) \in Nat /\ k = known + Ledger!OrZero(e.amount)
      BY <1>1, <1>2 DEF Known
    <3> HIDE DEF m, k, t
    <3> QED
      BY <2>1, <2>2, <2>6, <3>1, <3>2, <3>3
  <2>8. CASE cost = Ledger!None /\ q = Ledger!None
    <3>1. Ledger!AmountOf(e, r) = Ledger!Priced(n, r)
      BY <1>1, <2>8 DEF Ledger!AmountOf
    <3>2. k = known
      BY <1>1, <2>4, <2>8 DEF Known
    <3>3. m = tokens + Ledger!OrZero(n)
      BY <2>8 DEF Unknown
    <3>4. Ledger!OrZero(Ledger!Priced(m, r)) = Ledger!OrZero(Ledger!Priced(tokens, r)) + Ledger!OrZero(Ledger!Priced(n, r))
      <4>1. CASE r = Ledger!None
        BY <2>4, <4>1 DEF Ledger!Priced
      <4>2. CASE r \in Nat
        <5>1. r # Ledger!None
          BY <4>2 DEF Ledger!None
        <5>2. m \in Nat
          BY <1>2, <3>3
        <5> HIDE DEF m
        <5>3. /\ Ledger!Priced(m, r) = m * r /\ Ledger!Priced(tokens, r) = tokens * r
              /\ Ledger!Priced(n, r) = Ledger!OrZero(n) * r
          BY <2>4, <5>1, <5>2 DEF Ledger!Priced
        <5>4. \A x, y, z \in Nat : (x + y) * z = x * z + y * z /\ x * z \in Nat
          OBVIOUS
        <5> QED
          BY <1>2, <2>4, <3>3, <4>2, <5>2, <5>3, <5>4
      <4> QED
        BY <2>3, <4>1, <4>2
    <3> HIDE DEF m, k, t
    <3> QED
      BY <2>1, <2>2, <2>6, <3>1, <3>2, <3>4
  <2> QED
    BY <2>7, <2>8
<1>5. m > 0 <=> \E i \in DOMAIN t : Missing(t[i])
  <2> HIDE DEF e
  <2>1. (\E i \in DOMAIN t : Missing(t[i])) <=> (\E i \in DOMAIN s : Missing(s[i])) \/ Missing(e)
    <3> HIDE DEF t
    <3>1. \A i : i \in 1..(Len(s) + 1) <=> i \in 1..Len(s) \/ i = Len(s) + 1
      BY <1>3
    <3> QED
      BY <1>3, <3>1
  <2>2. tokens > 0 <=> \E i \in DOMAIN s : Missing(s[i])
    BY DEF Accounts
  <2>3. Missing(e) <=> cost = Ledger!None /\ q = Ledger!None /\ Ledger!OrZero(n) > 0
    BY <1>1 DEF Missing
  <2> HIDE DEF t
  <2> QED
    BY <1>2, <2>1, <2>2, <2>3 DEF Unknown
<1> HIDE DEF e, k, m, t
<1>6. Accounts(t, k, m)
  BY <1>3, <1>4, <1>5 DEF Accounts
<1> QED
  BY <1>6 DEF e, k, m, t

(* And to the callers' own total what the caller knew.                     *)
LEMMA CallNames ==
  ASSUME Ledger!LedgerAssumption, NEW s \in Seq(EntryRows), NEW old \in Money,
         NEW n \in Money, NEW cost \in Costs \cup {Ledger!None}, NEW q \in Ledger!Rate, Names(s, old)
  PROVE  Names(Append(s, Ledger!Entry(n, cost, q)), Ledger!Total(old, cost))
<1> DEFINE e == Ledger!Entry(n, cost, q)
           t == Append(s, e)
<1>1. /\ e \in EntryRows /\ e.amount = (IF cost # Ledger!None THEN cost ELSE Ledger!Priced(n, q))
      /\ (e.source = "caller" <=> cost # Ledger!None) /\ cost \in Money
  BY EntryIs
<1>2. /\ Ledger!OrZero(Ledger!Total(old, cost)) = Ledger!OrZero(old) + Ledger!OrZero(cost)
      /\ (Ledger!Total(old, cost) = Ledger!None <=> old = Ledger!None /\ cost = Ledger!None)
  BY <1>1, MoneyIs
<1>3. /\ Len(t) = Len(s) + 1 /\ Len(s) \in Nat
      /\ DOMAIN t = 1..(Len(s) + 1) /\ DOMAIN s = 1..Len(s)
      /\ t[Len(s) + 1] = e /\ \A i \in 1..Len(s) : t[i] = s[i]
  OBVIOUS
<1>4. Own(s) \in Weights /\ Own(t) \in Weights
  <2>1. \A u \in Seq(EntryRows) : Own(u) \in Weights
    <3> TAKE u \in Seq(EntryRows)
    <3>1. \A i \in 1..Len(u) : u[i] \in EntryRows
      OBVIOUS
    <3>2. \A i \in 1..Len(u) : Ledger!OrZero(u[i].amount) \in Nat
      BY <3>1 DEF EntryRows, Money, Ledger!OrZero, Ledger!None
    <3> QED
      BY <3>2 DEF Own, Weights
  <2>2. t \in Seq(EntryRows)
    BY <1>1
  <2> HIDE DEF t
  <2> QED
    BY <2>1, <2>2
<1> HIDE DEF e, t
<1>5. Own(t)[Len(s) + 1] = Ledger!OrZero(cost)
  BY <1>1, <1>3 DEF Own, Ledger!OrZero
<1>6. \A i \in 1..Len(s) : Own(t)[i] = Own(s)[i]
  BY <1>3 DEF Own
<1>7. SumTo(Own(t), Len(s) + 1) = SumTo(Own(t), Len(s)) + Own(t)[Len(s) + 1]
  BY <1>3, <1>4, SumSteps
<1>8. SumTo(Own(t), Len(s)) = SumTo(Own(s), Len(s))
  BY <1>3, <1>4, <1>6, SumAgrees
<1>9. Ledger!OrZero(Ledger!Total(old, cost)) = SumTo(Own(t), Len(t))
  BY <1>2, <1>3, <1>5, <1>7, <1>8 DEF Names
<1>10. ASSUME NEW i \in DOMAIN t, t[i].source = "caller" PROVE Ledger!Total(old, cost) # Ledger!None
  <2>1. CASE i \in 1..Len(s)
    BY <1>2, <1>3, <1>10, <2>1 DEF Names
  <2>2. CASE i = Len(s) + 1
    BY <1>1, <1>2, <1>3, <1>10, <2>2
  <2> QED
    BY <1>3, <2>1, <2>2
<1>11. Names(t, Ledger!Total(old, cost))
  BY <1>9, <1>10 DEF Names
<1> QED
  BY <1>11 DEF e, t

LEMMA LedgerStarts ==
  ASSUME Ledger!LedgerAssumption, Ledger!Init
  PROVE  LedgerInv
<1>1. Ledger!Empty \in NumRow /\ Ledger!Empty.cost = Ledger!None /\ Ledger!Empty.entries = <<>> /\ Len(<<>>) = 0
  BY DEF Ledger!Empty, NumRow, Money
<1>2. LedgerTyped
  BY <1>1 DEF Ledger!Init, LedgerTyped, UsageTyped, Ledger!LedgerAssumption
<1>3. Accounts(<<>>, 0, 0)
  <2>1. 0 \in Nat /\ 0 \in Money
    BY DEF Money
  <2>2. ASSUME NEW r \in Ledger!Rate PROVE AddedUp(<<>>, r) = 0 + Ledger!OrZero(Ledger!Priced(0, r))
    <3> DEFINE e == [tokens |-> 0, amount |-> 0, source |-> "none"]
    <3>1. e \in EntryRows /\ <<>> \in Seq(EntryRows)
      BY DEF EntryRows, Money
    <3> HIDE DEF e
    <3>2. AddedUp(<<>>, r) = 0
      BY <3>1, AmountsOfMore
    <3>3. Ledger!OrZero(Ledger!Priced(0, r)) = 0
      BY DEF Ledger!Priced, Ledger!OrZero, Ledger!Rate, Ledger!LedgerAssumption, Ledger!None
    <3> QED
      BY <3>2, <3>3
  <2> QED
    BY <2>2 DEF Accounts
<1>4. Names(<<>>, Ledger!None)
  <2>1. Own(<<>>) \in Weights
    BY DEF Own, Weights
  <2>2. SumTo(Own(<<>>), 0) = 0
    BY <2>1, SumSteps
  <2> QED
    BY <1>1, <2>2 DEF Names, Ledger!OrZero
<1> QED
  BY <1>1, <1>2, <1>3, <1>4 DEF Ledger!Init, LedgerInv, AccountsInv, NamesInv

LEMMA RecordKeeps ==
  ASSUME Ledger!LedgerAssumption, Counts \subseteq Nat, LedgerInv,
         NEW a \in Attempts, NEW p \in Processes, NEW n \in Counts,
         NEW cost \in Costs \cup {Ledger!None}, Ledger!Record(a, p, n, cost)
  PROVE  LedgerInv'
<1> DEFINE q == u_cached[p]
           u == u_usage[a]
           e == Ledger!Entry(n, cost, q)
<1>1. q \in Ledger!Rate /\ n \in Nat /\ n \in Money
  BY DEF LedgerInv, LedgerTyped, Money
<1>2. /\ e \in EntryRows /\ cost \in Money
  BY <1>1, EntryIs
<1>3. /\ u \in NumRow /\ u.tokens \in Nat /\ u.cost \in Money /\ u.entries \in Seq(EntryRows)
  BY DEF LedgerInv, LedgerTyped, UsageTyped, NumRow
<1>4. /\ Ledger!Accumulated(u.tokens, n) \in Nat /\ Ledger!Total(u.cost, cost) \in Money
      /\ Append(u.entries, e) \in Seq(EntryRows) /\ Len(Append(u.entries, e)) = Len(u.entries) + 1
      /\ Len(u.entries) \in Nat
  <2>1. Ledger!Accumulated(u.tokens, n) \in Nat
    BY <1>1, <1>3 DEF Ledger!Accumulated, Ledger!None
  <2>2. Ledger!Total(u.cost, cost) \in Money
    BY <1>2, <1>3 DEF Ledger!Total, Money, Ledger!None
  <2> HIDE DEF e, u
  <2> QED
    BY <1>2, <1>3, <2>1, <2>2
<1> DEFINE row == [tokens |-> Ledger!Accumulated(u.tokens, n), cost |-> Ledger!Total(u.cost, cost),
                   entries |-> Append(u.entries, e)]
<1>5. row \in NumRow
  BY <1>4 DEF NumRow
<1>6. /\ u_usage' = [u_usage EXCEPT ![a] = row]
      /\ u_usage \in [Attempts -> NumRow] /\ u_billed \in [Attempts -> Nat] /\ u_open \in [Attempts -> Nat]
      /\ u_calls' = u_calls + 1 /\ u_calls < MaxCalls /\ UNCHANGED <<u_table, u_cached, u_unnamed>>
  BY DEF Ledger!Record, LedgerInv, LedgerTyped, UsageTyped
<1>7. /\ u_billed' = [u_billed EXCEPT ![a] =
           u_billed[a] + Ledger!OrZero(IF cost # Ledger!None THEN cost ELSE Ledger!Priced(n, q))]
      /\ u_open' = [u_open EXCEPT ![a] =
           u_open[a] + IF cost = Ledger!None /\ q = Ledger!None THEN Ledger!OrZero(n) ELSE 0]
  BY DEF Ledger!Record
<1>8. /\ Ledger!OrZero(IF cost # Ledger!None THEN cost ELSE Ledger!Priced(n, q)) \in Nat
      /\ (IF cost = Ledger!None /\ q = Ledger!None THEN Ledger!OrZero(n) ELSE 0) \in Nat
  BY <1>1, <1>2, MoneyIs
<1>9. /\ u_usage'[a] = row /\ \A b \in Attempts : b # a => u_usage'[b] = u_usage[b]
      /\ u_billed'[a] = u_billed[a] + Ledger!OrZero(IF cost # Ledger!None THEN cost ELSE Ledger!Priced(n, q))
      /\ u_open'[a] = u_open[a] + IF cost = Ledger!None /\ q = Ledger!None THEN Ledger!OrZero(n) ELSE 0
      /\ \A b \in Attempts : b # a => u_billed'[b] = u_billed[b] /\ u_open'[b] = u_open[b]
  <2> HIDE DEF row, q
  <2> QED
    BY <1>6, <1>7
<1>10. LedgerTyped'
  <2>1. UsageTyped'
    <3> HIDE DEF row
    <3> QED
      BY <1>5, <1>6 DEF UsageTyped
  <2>2. u_billed' \in [Attempts -> Nat] /\ u_open' \in [Attempts -> Nat]
    <3>1. \A x \in Nat, y \in Nat : x + y \in Nat
      OBVIOUS
    <3>2. u_billed[a] \in Nat /\ u_open[a] \in Nat
      BY <1>6
    <3> QED
      BY <1>6, <1>7, <1>8, <3>1, <3>2
  <2>3. u_calls' \in 0..MaxCalls
    BY <1>6 DEF LedgerInv, LedgerTyped, Ledger!LedgerAssumption
  <2>4. ASSUME NEW b \in Attempts PROVE Len(u_usage'[b].entries) <= u_calls'
    <3>1. Len(u_usage[b].entries) <= u_calls /\ Len(u.entries) <= u_calls /\ u_calls \in Nat
      BY DEF LedgerInv, LedgerTyped, Ledger!LedgerAssumption
    <3>2. row.entries = Append(u.entries, e)
      OBVIOUS
    <3>3. u_usage[b].entries \in Seq(EntryRows)
      BY <1>6 DEF NumRow
    <3>4. Len(u_usage[b].entries) \in Nat
      BY <3>3
    <3> HIDE DEF row, u, e
    <3>5. CASE b = a
      BY <1>4, <1>6, <1>9, <3>1, <3>2, <3>5
    <3>6. CASE b # a
      BY <1>6, <1>9, <3>1, <3>4, <3>6
    <3> QED
      BY <3>5, <3>6
  <2> QED
    BY <1>6, <2>1, <2>2, <2>3, <2>4 DEF LedgerInv, LedgerTyped
<1>11. AccountsInv'
  <2> SUFFICES ASSUME NEW b \in Attempts
               PROVE  Accounts(u_usage'[b].entries, u_billed'[b], u_open'[b])
    BY DEF AccountsInv
  <2>1. Accounts(u_usage[b].entries, u_billed[b], u_open[b])
    BY DEF LedgerInv, AccountsInv
  <2>2. CASE b # a
    BY <1>9, <2>1, <2>2
  <2>3. CASE b = a
    <3>1. row.entries = Append(u.entries, Ledger!Entry(n, cost, q))
      OBVIOUS
    <3>2. u_billed[a] \in Nat /\ u_open[a] \in Nat
      BY <1>6
    <3>3. Accounts(u.entries, u_billed[a], u_open[a])
      BY <2>1, <2>3
    <3> HIDE DEF row, u, q
    <3>4. u.entries \in Seq(EntryRows)
      BY <1>3
    <3>5. Accounts(Append(u.entries, Ledger!Entry(n, cost, q)), u_billed[a] + Known(n, cost, q),
                   u_open[a] + Unknown(n, cost, q))
      BY <1>1, <3>2, <3>3, <3>4, CallAccounts, Zenon
    <3> QED
      BY <1>9, <2>3, <3>1, <3>5 DEF Known, Unknown
  <2> QED
    BY <2>2, <2>3
<1>12. NamesInv'
  <2> SUFFICES ASSUME NEW b \in Attempts, b \notin u_unnamed'
               PROVE  Names(u_usage'[b].entries, u_usage'[b].cost)
    BY DEF NamesInv
  <2>1. Names(u_usage[b].entries, u_usage[b].cost)
    BY <1>6 DEF LedgerInv, NamesInv
  <2>2. CASE b # a
    BY <1>9, <2>1, <2>2
  <2>3. CASE b = a
    <3>1. row.entries = Append(u.entries, Ledger!Entry(n, cost, q)) /\ row.cost = Ledger!Total(u.cost, cost)
      OBVIOUS
    <3>2. Names(u.entries, u.cost)
      BY <2>1, <2>3
    <3> HIDE DEF row, u, q
    <3> QED
      BY <1>1, <1>3, <1>9, <2>3, <3>1, <3>2, CallNames
  <2> QED
    BY <2>2, <2>3
<1> QED
  BY <1>10, <1>11, <1>12 DEF LedgerInv

LEMMA UnnamedKeeps ==
  ASSUME Ledger!LedgerAssumption, LedgerInv, NEW a \in Attempts, NEW cost \in Costs,
         Ledger!RecordUnnamed(a, cost)
  PROVE  LedgerInv'
<1> DEFINE c == Ledger!Total(u_usage[a].cost, cost)
<1>1. u_usage \in [Attempts -> NumRow]
  BY DEF LedgerInv, LedgerTyped, UsageTyped
<1>2. c \in Money
  BY <1>1 DEF NumRow, Ledger!Total, Money, Ledger!None, Ledger!LedgerAssumption
<1>3. /\ u_usage' = [u_usage EXCEPT ![a] = [u_usage[a] EXCEPT !.cost = c]]
      /\ u_calls' = u_calls + 1 /\ u_calls < MaxCalls /\ u_unnamed' = u_unnamed \cup {a}
      /\ UNCHANGED <<u_table, u_cached, u_billed, u_open>>
  BY DEF Ledger!RecordUnnamed
<1> DEFINE row == [u_usage[a] EXCEPT !.cost = c]
<1>4. row \in NumRow /\ row.entries = u_usage[a].entries
  BY <1>1, <1>2 DEF NumRow
<1> HIDE DEF row
<1>5. u_usage' \in [Attempts -> NumRow] /\ \A b \in Attempts : u_usage'[b].entries = u_usage[b].entries
      /\ (b # a => u_usage'[b] = u_usage[b])
  BY <1>1, <1>3, <1>4 DEF row
<1>6. LedgerTyped'
  <2>1. u_calls' \in 0..MaxCalls
    BY <1>3 DEF LedgerInv, LedgerTyped, Ledger!LedgerAssumption
  <2>2. ASSUME NEW b \in Attempts PROVE Len(u_usage'[b].entries) <= u_calls'
    <3>1. u_usage[b].entries \in Seq(EntryRows)
      BY <1>1 DEF NumRow
    <3>2. Len(u_usage[b].entries) \in Nat /\ Len(u_usage[b].entries) <= u_calls /\ u_calls \in Nat
      BY <3>1 DEF LedgerInv, LedgerTyped, Ledger!LedgerAssumption
    <3> QED
      BY <1>3, <1>5, <3>2
  <2> QED
    BY <1>3, <1>5, <2>1, <2>2 DEF LedgerInv, LedgerTyped, UsageTyped
<1>7. AccountsInv'
  BY <1>3, <1>5 DEF LedgerInv, AccountsInv
<1>8. NamesInv'
  BY <1>3, <1>5 DEF LedgerInv, NamesInv
<1> QED
  BY <1>6, <1>7, <1>8 DEF LedgerInv

LEMMA LedgerKeeps ==
  ASSUME Ledger!LedgerAssumption, Counts \subseteq Nat, LedgerInv, [Ledger!Next]_(Ledger!vars)
  PROVE  LedgerInv'
<1>1. CASE UNCHANGED Ledger!vars
  BY <1>1 DEF Ledger!vars, LedgerInv, LedgerTyped, UsageTyped, AccountsInv, NamesInv
<1>2. CASE \E a \in Attempts, p \in Processes, n \in Counts, cost \in Costs \cup {Ledger!None} :
             Ledger!Record(a, p, n, cost)
  BY <1>2, RecordKeeps
<1>3. CASE \E a \in Attempts, cost \in Costs : Ledger!RecordUnnamed(a, cost)
  BY <1>3, UnnamedKeeps
<1>4. CASE \E rate \in Ledger!Rate : Ledger!Deploy(rate)
  BY <1>4 DEF Ledger!Deploy, LedgerInv, LedgerTyped, UsageTyped, AccountsInv, NamesInv
<1>5. CASE \E p \in Processes : Ledger!Restart(p)
  BY <1>5 DEF Ledger!Restart, LedgerInv, LedgerTyped, UsageTyped, AccountsInv, NamesInv
<1> QED
  BY <1>1, <1>2, <1>3, <1>4, <1>5 DEF Ledger!Next

(* What readers see follows from it. *)
LEMMA BilledHolds ==
  ASSUME Ledger!LedgerAssumption, LedgerInv
  PROVE  Ledger!BilledStands
<1> SUFFICES ASSUME NEW a \in Attempts, a \notin u_unnamed, NEW r \in Ledger!Rate
             PROVE  Ledger!Amount(u_usage[a], r) = u_billed[a] + Ledger!OrZero(Ledger!Priced(u_open[a], r))
  BY DEF Ledger!BilledStands
<1> DEFINE u == u_usage[a]
<1>1. u \in NumRow /\ u.entries \in Seq(EntryRows) /\ u.cost \in Money
  BY DEF LedgerInv, LedgerTyped, UsageTyped, NumRow
<1>2. Accounts(u.entries, u_billed[a], u_open[a]) /\ Names(u.entries, u.cost)
  BY DEF LedgerInv, AccountsInv, NamesInv
<1>3. CASE u.entries # <<>>
  <2>1. Ledger!Amount(u, r) = AddedUp(u.entries, r)
    BY <1>3 DEF Ledger!Amount, AddedUp
  <2> QED
    BY <1>2, <2>1 DEF Accounts
<1>4. CASE u.entries = <<>>
  <2>1. Ledger!Amount(u, r) = Ledger!OrZero(u.cost)
    BY <1>4 DEF Ledger!Amount
  <2>2. SumTo(Own(<<>>), 0) = 0
    <3>1. Own(<<>>) \in Weights
      BY DEF Own, Weights
    <3> QED
      BY <3>1, SumSteps
  <2>3. Ledger!OrZero(u.cost) = 0
    <3>1. Len(u.entries) = 0
      BY <1>4
    <3> HIDE DEF u
    <3> QED
      BY <1>2, <1>4, <2>2, <3>1 DEF Names
  <2>4. u_billed[a] = 0 /\ u_open[a] = 0
    BY <1>2, <1>4 DEF Accounts
  <2>5. Ledger!OrZero(Ledger!Priced(0, r)) = 0
    BY DEF Ledger!Priced, Ledger!OrZero, Ledger!Rate, Ledger!LedgerAssumption, Ledger!None
  <2> QED
    BY <2>1, <2>3, <2>4, <2>5
<1> QED
  BY <1>3, <1>4

LEMMA CoverageHolds ==
  ASSUME Ledger!LedgerAssumption, LedgerInv
  PROVE  Ledger!CoverageIsTrue
<1> SUFFICES ASSUME NEW a \in Attempts, NEW r \in Ledger!Rate
             PROVE  /\ Ledger!Coverage(u_usage[a], r) = "complete" => ~ (u_open[a] > 0 /\ r = Ledger!None)
                    /\ Ledger!Coverage(u_usage[a], r) = "partial" => u_open[a] > 0 /\ r = Ledger!None
  BY DEF Ledger!CoverageIsTrue
<1> DEFINE s == u_usage[a].entries
<1>1. s \in Seq(EntryRows) /\ Accounts(s, u_billed[a], u_open[a])
  BY DEF LedgerInv, LedgerTyped, UsageTyped, NumRow, AccountsInv
<1>2. \A i \in DOMAIN s : s[i] \in EntryRows
  BY <1>1
<1> HIDE DEF s
<1>3. ASSUME NEW i \in DOMAIN s PROVE Ledger!Uncovered(s[i], r) <=> Missing(s[i]) /\ r = Ledger!None
  <2>1. s[i].tokens \in Money /\ s[i].amount \in Money
    BY <1>2 DEF EntryRows
  <2>2. r # Ledger!None => Ledger!Priced(s[i].tokens, r) # Ledger!None
    <3>1. r # Ledger!None => r \in Nat
      BY DEF Ledger!Rate, Ledger!LedgerAssumption
    <3>2. Ledger!OrZero(s[i].tokens) \in Nat
      BY <2>1, MoneyIs
    <3>3. r # Ledger!None => Ledger!OrZero(s[i].tokens) * r \in Nat
      BY <3>1, <3>2
    <3> QED
      BY <3>3 DEF Ledger!Priced, Ledger!None
  <2>3. r = Ledger!None => Ledger!Priced(s[i].tokens, r) = Ledger!None
    BY DEF Ledger!Priced
  <2> QED
    BY <2>2, <2>3 DEF Ledger!Uncovered, Ledger!AmountOf, Missing
<1>4. u_open[a] > 0 <=> \E i \in DOMAIN s : Missing(s[i])
  BY <1>1 DEF Accounts
<1>5. (\E i \in DOMAIN s : Ledger!Uncovered(s[i], r)) <=> u_open[a] > 0 /\ r = Ledger!None
  BY <1>3, <1>4
<1> QED
  BY <1>5 DEF Ledger!Coverage, s

LEMMA UnestimatedHolds ==
  ASSUME Ledger!LedgerAssumption, LedgerInv
  PROVE  Ledger!UnestimatedIsBilled
<1> SUFFICES ASSUME NEW a \in Attempts, NEW r \in Ledger!Rate, ~ Ledger!Estimated(u_usage[a], r),
                    ~ (a \in u_unnamed /\ u_usage[a].entries # <<>>)
             PROVE  Ledger!Amount(u_usage[a], r) = u_usage[a].cost
  BY DEF Ledger!UnestimatedIsBilled
<1> DEFINE u == u_usage[a]
           s == u.entries
<1>1. u \in NumRow /\ s \in Seq(EntryRows) /\ u.cost \in Money
  BY DEF LedgerInv, LedgerTyped, UsageTyped, NumRow
<1>2. Ledger!Costed(u, r) /\ \A i \in DOMAIN s : Ledger!AmountOf(s[i], r) # Ledger!None => s[i].source = "caller"
  BY DEF Ledger!Estimated
<1>3. CASE s = <<>>
  BY <1>2, <1>3 DEF Ledger!Amount, Ledger!Costed, Ledger!OrZero
<1>4. CASE s # <<>>
  <2>1. Names(s, u.cost)
    BY <1>4 DEF LedgerInv, NamesInv
  <2>2. Ledger!Amount(u, r) = AddedUp(s, r)
    BY <1>4 DEF Ledger!Amount, AddedUp
  <2>3. \E i \in DOMAIN s : Ledger!AmountOf(s[i], r) # Ledger!None
    BY <1>2, <1>4 DEF Ledger!Costed
  <2>4. u.cost # Ledger!None
    BY <1>2, <2>1, <2>3 DEF Names
  <2>5. DOMAIN s = 1..Len(s) /\ Len(s) \in Nat /\ \A i \in DOMAIN s : s[i] \in EntryRows
    BY <1>1
  <2> HIDE DEF s
  <2>6. ASSUME NEW i \in 1..Len(s) PROVE Prices(s, r)[i] = Own(s)[i]
    <3>1. s[i].source = "caller" => s[i].amount # Ledger!None
      BY <2>5 DEF EntryRows
    <3>2. i \in Nat /\ i \in DOMAIN s
      BY <2>5
    <3>3. CASE s[i].source = "caller"
      <4>1. Ledger!AmountOf(s[i], r) = s[i].amount
        BY <3>1, <3>3 DEF Ledger!AmountOf
      <4> QED
        BY <3>2, <3>3, <4>1 DEF Prices, Own
    <3>4. CASE s[i].source # "caller"
      <4>1. Ledger!AmountOf(s[i], r) = Ledger!None
        BY <1>2, <3>2, <3>4
      <4> QED
        BY <3>2, <3>4, <4>1 DEF Prices, Own, Ledger!OrZero
    <3> QED
      BY <3>3, <3>4
  <2>7. Prices(s, r) \in Weights /\ Own(s) \in Weights
    <3>1. \A i \in 1..Len(s) : Ledger!OrZero(s[i].amount) \in Nat
      BY <2>5 DEF EntryRows, Money, Ledger!OrZero, Ledger!None
    <3> QED
      BY <1>1, <3>1, PricesAre DEF Own, Weights
  <2>8. SumTo(Prices(s, r), Len(s)) = SumTo(Own(s), Len(s))
    BY <2>5, <2>6, <2>7, SumAgrees
  <2>9. AddedUp(s, r) = SumTo(Prices(s, r), Len(s))
    BY <1>1, AmountsAddUp
  <2> QED
    BY <2>1, <2>2, <2>4, <2>8, <2>9 DEF Names, Ledger!OrZero
<1> QED
  BY <1>3, <1>4

LEMMA LedgerSays ==
  ASSUME Ledger!LedgerAssumption, LedgerInv
  PROVE  Ledger!TypeOK /\ Ledger!BilledStands /\ Ledger!CoverageIsTrue
         /\ Ledger!UnestimatedIsBilled /\ Ledger!NestedIsFlat
<1>1. Ledger!TypeOK
  <2>1. ASSUME NEW a \in Attempts
        PROVE  /\ u_usage[a].tokens \in Nat \cup {Ledger!None} /\ u_usage[a].cost \in Nat \cup {Ledger!None}
               /\ \A i \in DOMAIN u_usage[a].entries :
                    u_usage[a].entries[i].source \in {"caller", "resolver", "none"}
    <3>1. u_usage[a] \in NumRow
      BY DEF LedgerInv, LedgerTyped, UsageTyped
    <3>2. \A i \in DOMAIN u_usage[a].entries : u_usage[a].entries[i] \in EntryRows
      BY <3>1 DEF NumRow
    <3> QED
      BY <3>1, <3>2 DEF NumRow, Money, EntryRows
  <2> QED
    BY <2>1 DEF Ledger!TypeOK, LedgerInv, LedgerTyped
<1> QED
  BY <1>1, BilledHolds, CoverageHolds, UnestimatedHolds, NestedHolds DEF LedgerInv, LedgerTyped
-----------------------------------------------------------------------------
(***************************************************************************)
(* The suite.                                                              *)
(***************************************************************************)
PatientP == INSTANCE ChainWorkflowProofs WITH
  Operators <- Deciders, Gated <- Gates, Shared <- FALSE, Unhurried <- TRUE,
  status <- c_status, index <- c_index, settled <- c_settled,
  started <- c_started, bound <- c_bound, task <- c_task, rows <- c_rows,
  proc <- c_proc, gen <- c_gen, fired <- c_fired, approved <- c_approved,
  faults <- c_faults

RaceP == INSTANCE ChainWorkflowProofs WITH
  Operators <- Deciders, LastStep <- RaceStep, Gated <- {}, MaxTasks <- RaceTasks,
  Shared <- FALSE, Unhurried <- FALSE,
  status <- c_status, index <- c_index, settled <- c_settled,
  started <- c_started, bound <- c_bound, task <- c_task, rows <- c_rows,
  proc <- c_proc, gen <- c_gen, fired <- c_fired, approved <- c_approved,
  faults <- c_faults

JoinP == INSTANCE ExecutionGraphProofs WITH
  Operators <- Deciders, Gated <- GatedNodes, MaxRuns <- 1, MaxFaults <- 0,
  status <- g_status, gen <- g_gen, node <- g_node, task <- g_task,
  outbox <- g_outbox, hooks <- g_hooks, proc <- g_proc, approved <- g_approved,
  lost <- g_lost, faults <- g_faults

(* Two instances of one module with one substitution say the same; to the  *)
(* provers that is a matter of expanding both.                             *)
LEMMA PatientIs ==
  /\ Patient!ChainAssumption <=> PatientP!ChainAssumption
  /\ Patient!Init <=> PatientP!Init
  /\ Patient!Next <=> PatientP!Next
  /\ Patient!vars = PatientP!vars
<1>1. /\ Patient!ChainAssumption <=> PatientP!ChainAssumption
      /\ Patient!vars = PatientP!vars
  BY DEF Patient!Routers, Patient!Step, Patient!ChainAssumption,
         Patient!chain, Patient!history, Patient!vars, PatientP!Routers,
         PatientP!Step, PatientP!ChainAssumption, PatientP!chain,
         PatientP!history, PatientP!vars
<1>2. Patient!Init <=> PatientP!Init
  BY DEF Patient!Routers, Patient!Proc, Patient!Step, Patient!Task,
         Patient!Run, Patient!NoTask, Patient!Idle, Patient!Init,
         PatientP!Routers, PatientP!Proc, PatientP!Step, PatientP!Task,
         PatientP!Run, PatientP!NoTask, PatientP!Idle, PatientP!Init
<1>3. \A p : /\ Patient!Route(p) <=> PatientP!Route(p)
             /\ Patient!Handle(p) <=> PatientP!Handle(p)
             /\ Patient!Advance(p) <=> PatientP!Advance(p)
  BY DEF Patient!Task, Patient!Run, Patient!chain, Patient!history,
         Patient!Terminal, Patient!ValidTransitions, Patient!CanMove,
         Patient!NoTask, Patient!NewTask, Patient!Idle, Patient!Newest,
         Patient!Exists, Patient!Dead, Patient!Fresh, Patient!MoveTo,
         Patient!Release, Patient!Queue, Patient!NeedsApproval,
         Patient!Outcome, Patient!StepOf, Patient!IsBound, Patient!Route,
         Patient!IsExhausted, Patient!Succeeded, Patient!Handle,
         Patient!Settles, Patient!Settle, Patient!AtIndex, Patient!Proceeds,
         Patient!HasNext, Patient!Advance, PatientP!Task, PatientP!Run,
         PatientP!chain, PatientP!history, PatientP!Terminal,
         PatientP!ValidTransitions, PatientP!CanMove, PatientP!NoTask,
         PatientP!NewTask, PatientP!Idle, PatientP!Newest, PatientP!Exists,
         PatientP!Dead, PatientP!Fresh, PatientP!MoveTo, PatientP!Release,
         PatientP!Queue, PatientP!NeedsApproval, PatientP!Outcome,
         PatientP!StepOf, PatientP!IsBound, PatientP!Route,
         PatientP!IsExhausted, PatientP!Succeeded, PatientP!Handle,
         PatientP!Settles, PatientP!Settle, PatientP!AtIndex,
         PatientP!Proceeds, PatientP!HasNext, PatientP!Advance
<1>4. \A p : /\ Patient!FailChain(p) <=> PatientP!FailChain(p)
             /\ Patient!DispatchHook(p) <=> PatientP!DispatchHook(p)
             /\ Patient!MarkRouted(p) <=> PatientP!MarkRouted(p)
             /\ Patient!Crash(p) <=> PatientP!Crash(p)
  BY DEF Patient!chain, Patient!history, Patient!Terminal, Patient!Idle,
         Patient!MoveTo, Patient!Release, Patient!Outcome, Patient!Settles,
         Patient!Settle, Patient!Proceeds, Patient!FailChain, Patient!Fire,
         Patient!DispatchHook, Patient!MarkRouted, Patient!Crash,
         PatientP!chain, PatientP!history, PatientP!Terminal, PatientP!Idle,
         PatientP!MoveTo, PatientP!Release, PatientP!Outcome,
         PatientP!Settles, PatientP!Settle, PatientP!Proceeds,
         PatientP!FailChain, PatientP!Fire, PatientP!DispatchHook,
         PatientP!MarkRouted, PatientP!Crash
<1>5. \A o : /\ Patient!Look(o) <=> PatientP!Look(o)
             /\ Patient!Resume(o) <=> PatientP!Resume(o)
             /\ Patient!Approve(o) <=> PatientP!Approve(o)
  BY DEF Patient!Routers, Patient!Task, Patient!Run, Patient!chain,
         Patient!history, Patient!ValidTransitions, Patient!CanMove,
         Patient!NoTask, Patient!NewTask, Patient!Idle, Patient!Exists,
         Patient!Fresh, Patient!MoveTo, Patient!Release, Patient!Queue,
         Patient!Quiet, Patient!MayAct, Patient!Look,
         Patient!SettledOnceResumed, Patient!Resume, Patient!Approve,
         PatientP!Routers, PatientP!Task, PatientP!Run, PatientP!chain,
         PatientP!history, PatientP!ValidTransitions, PatientP!CanMove,
         PatientP!NoTask, PatientP!NewTask, PatientP!Idle, PatientP!Exists,
         PatientP!Fresh, PatientP!MoveTo, PatientP!Release, PatientP!Queue,
         PatientP!Quiet, PatientP!MayAct, PatientP!Look,
         PatientP!SettledOnceResumed, PatientP!Resume, PatientP!Approve
<1>6. \A o : /\ Patient!Reject(o) <=> PatientP!Reject(o)
             /\ Patient!Cancel(o) <=> PatientP!Cancel(o)
             /\ Patient!Requeue(o) <=> PatientP!Requeue(o)
  BY DEF Patient!Routers, Patient!Run, Patient!chain, Patient!history,
         Patient!Cancellable, Patient!ValidTransitions, Patient!CanMove,
         Patient!Idle, Patient!Newest, Patient!Exists, Patient!Dead,
         Patient!Release, Patient!Fire, Patient!Quiet, Patient!MayAct,
         Patient!Reject, Patient!Cancel, Patient!Requeue, PatientP!Routers,
         PatientP!Run, PatientP!chain, PatientP!history, PatientP!Cancellable,
         PatientP!ValidTransitions, PatientP!CanMove, PatientP!Idle,
         PatientP!Newest, PatientP!Exists, PatientP!Dead, PatientP!Release,
         PatientP!Fire, PatientP!Quiet, PatientP!MayAct, PatientP!Reject,
         PatientP!Cancel, PatientP!Requeue
<1>7. /\ Patient!RunChain <=> PatientP!RunChain
      /\ \A m, t, out : Patient!Resolve(m, t, out) <=> PatientP!Resolve(m, t, out)
      /\ \A r, t, n : Patient!Replay(r, t, n) <=> PatientP!Replay(r, t, n)
  BY DEF Patient!Task, Patient!Run, Patient!chain, Patient!history,
         Patient!NoTask, Patient!NewTask, Patient!Idle, Patient!Newest,
         Patient!Exists, Patient!Live, Patient!Fresh, Patient!Queue,
         Patient!NeedsApproval, Patient!RunChain, Patient!Resolve,
         Patient!Unrouted, Patient!Replay, PatientP!Task, PatientP!Run,
         PatientP!chain, PatientP!history, PatientP!NoTask, PatientP!NewTask,
         PatientP!Idle, PatientP!Newest, PatientP!Exists, PatientP!Live,
         PatientP!Fresh, PatientP!Queue, PatientP!NeedsApproval,
         PatientP!RunChain, PatientP!Resolve, PatientP!Unrouted,
         PatientP!Replay
<1>8. Patient!Next <=> PatientP!Next
  BY <1>3, <1>4, <1>5, <1>6, <1>7 DEF Patient!Next, Patient!RouterStep, Patient!Task, Patient!Run, Patient!Routers,
     PatientP!Next, PatientP!RouterStep, PatientP!Task, PatientP!Run, PatientP!Routers
<1> QED
  BY <1>1, <1>2, <1>8

LEMMA PatientSays ==
  /\ Patient!GateHolds <=> PatientP!GateHolds
  /\ Patient!SettledMeansOver <=> PatientP!SettledMeansOver
  /\ Patient!NothingStranded <=> PatientP!NothingStranded
BY DEF Patient!Task, Patient!Run, Patient!Terminal, Patient!Newest,
       Patient!Exists, Patient!Live, Patient!GateHolds,
       Patient!SettledMeansOver, Patient!NothingStranded, PatientP!Task,
       PatientP!Run, PatientP!Terminal, PatientP!Newest, PatientP!Exists,
       PatientP!Live, PatientP!GateHolds, PatientP!SettledMeansOver,
       PatientP!NothingStranded

LEMMA RaceIs ==
  /\ Race!ChainAssumption <=> RaceP!ChainAssumption
  /\ Race!Init <=> RaceP!Init
  /\ Race!Next <=> RaceP!Next
  /\ Race!vars = RaceP!vars
<1>1. /\ Race!ChainAssumption <=> RaceP!ChainAssumption
      /\ Race!vars = RaceP!vars
  BY DEF Race!Routers, Race!Step, Race!ChainAssumption, Race!chain,
         Race!history, Race!vars, RaceP!Routers, RaceP!Step,
         RaceP!ChainAssumption, RaceP!chain, RaceP!history, RaceP!vars
<1>2. Race!Init <=> RaceP!Init
  BY DEF Race!Routers, Race!Proc, Race!Step, Race!Task, Race!Run, Race!NoTask,
         Race!Idle, Race!Init, RaceP!Routers, RaceP!Proc, RaceP!Step,
         RaceP!Task, RaceP!Run, RaceP!NoTask, RaceP!Idle, RaceP!Init
<1>3. \A p : /\ Race!Route(p) <=> RaceP!Route(p)
             /\ Race!Handle(p) <=> RaceP!Handle(p)
             /\ Race!Advance(p) <=> RaceP!Advance(p)
  BY DEF Race!Task, Race!Run, Race!chain, Race!history, Race!Terminal,
         Race!ValidTransitions, Race!CanMove, Race!NoTask, Race!NewTask,
         Race!Idle, Race!Newest, Race!Exists, Race!Dead, Race!Fresh,
         Race!MoveTo, Race!Release, Race!Queue, Race!NeedsApproval,
         Race!Outcome, Race!StepOf, Race!IsBound, Race!Route,
         Race!IsExhausted, Race!Succeeded, Race!Handle, Race!Settles,
         Race!Settle, Race!AtIndex, Race!Proceeds, Race!HasNext, Race!Advance,
         RaceP!Task, RaceP!Run, RaceP!chain, RaceP!history, RaceP!Terminal,
         RaceP!ValidTransitions, RaceP!CanMove, RaceP!NoTask, RaceP!NewTask,
         RaceP!Idle, RaceP!Newest, RaceP!Exists, RaceP!Dead, RaceP!Fresh,
         RaceP!MoveTo, RaceP!Release, RaceP!Queue, RaceP!NeedsApproval,
         RaceP!Outcome, RaceP!StepOf, RaceP!IsBound, RaceP!Route,
         RaceP!IsExhausted, RaceP!Succeeded, RaceP!Handle, RaceP!Settles,
         RaceP!Settle, RaceP!AtIndex, RaceP!Proceeds, RaceP!HasNext,
         RaceP!Advance
<1>4. \A p : /\ Race!FailChain(p) <=> RaceP!FailChain(p)
             /\ Race!DispatchHook(p) <=> RaceP!DispatchHook(p)
             /\ Race!MarkRouted(p) <=> RaceP!MarkRouted(p)
             /\ Race!Crash(p) <=> RaceP!Crash(p)
  BY DEF Race!chain, Race!history, Race!Terminal, Race!Idle, Race!MoveTo,
         Race!Release, Race!Outcome, Race!Settles, Race!Settle, Race!Proceeds,
         Race!FailChain, Race!Fire, Race!DispatchHook, Race!MarkRouted,
         Race!Crash, RaceP!chain, RaceP!history, RaceP!Terminal, RaceP!Idle,
         RaceP!MoveTo, RaceP!Release, RaceP!Outcome, RaceP!Settles,
         RaceP!Settle, RaceP!Proceeds, RaceP!FailChain, RaceP!Fire,
         RaceP!DispatchHook, RaceP!MarkRouted, RaceP!Crash
<1>5. \A o : /\ Race!Look(o) <=> RaceP!Look(o)
             /\ Race!Resume(o) <=> RaceP!Resume(o)
             /\ Race!Approve(o) <=> RaceP!Approve(o)
  BY DEF Race!Routers, Race!Task, Race!Run, Race!chain, Race!history,
         Race!ValidTransitions, Race!CanMove, Race!NoTask, Race!NewTask,
         Race!Idle, Race!Exists, Race!Fresh, Race!MoveTo, Race!Release,
         Race!Queue, Race!Quiet, Race!MayAct, Race!Look,
         Race!SettledOnceResumed, Race!Resume, Race!Approve, RaceP!Routers,
         RaceP!Task, RaceP!Run, RaceP!chain, RaceP!history,
         RaceP!ValidTransitions, RaceP!CanMove, RaceP!NoTask, RaceP!NewTask,
         RaceP!Idle, RaceP!Exists, RaceP!Fresh, RaceP!MoveTo, RaceP!Release,
         RaceP!Queue, RaceP!Quiet, RaceP!MayAct, RaceP!Look,
         RaceP!SettledOnceResumed, RaceP!Resume, RaceP!Approve
<1>6. \A o : /\ Race!Reject(o) <=> RaceP!Reject(o)
             /\ Race!Cancel(o) <=> RaceP!Cancel(o)
             /\ Race!Requeue(o) <=> RaceP!Requeue(o)
  BY DEF Race!Routers, Race!Run, Race!chain, Race!history, Race!Cancellable,
         Race!ValidTransitions, Race!CanMove, Race!Idle, Race!Newest,
         Race!Exists, Race!Dead, Race!Release, Race!Fire, Race!Quiet,
         Race!MayAct, Race!Reject, Race!Cancel, Race!Requeue, RaceP!Routers,
         RaceP!Run, RaceP!chain, RaceP!history, RaceP!Cancellable,
         RaceP!ValidTransitions, RaceP!CanMove, RaceP!Idle, RaceP!Newest,
         RaceP!Exists, RaceP!Dead, RaceP!Release, RaceP!Fire, RaceP!Quiet,
         RaceP!MayAct, RaceP!Reject, RaceP!Cancel, RaceP!Requeue
<1>7. /\ Race!RunChain <=> RaceP!RunChain
      /\ \A m, t, out : Race!Resolve(m, t, out) <=> RaceP!Resolve(m, t, out)
      /\ \A r, t, n : Race!Replay(r, t, n) <=> RaceP!Replay(r, t, n)
  BY DEF Race!Task, Race!Run, Race!chain, Race!history, Race!NoTask,
         Race!NewTask, Race!Idle, Race!Newest, Race!Exists, Race!Live,
         Race!Fresh, Race!Queue, Race!NeedsApproval, Race!RunChain,
         Race!Resolve, Race!Unrouted, Race!Replay, RaceP!Task, RaceP!Run,
         RaceP!chain, RaceP!history, RaceP!NoTask, RaceP!NewTask, RaceP!Idle,
         RaceP!Newest, RaceP!Exists, RaceP!Live, RaceP!Fresh, RaceP!Queue,
         RaceP!NeedsApproval, RaceP!RunChain, RaceP!Resolve, RaceP!Unrouted,
         RaceP!Replay
<1>8. Race!Next <=> RaceP!Next
  BY <1>3, <1>4, <1>5, <1>6, <1>7 DEF Race!Next, Race!RouterStep, Race!Task, Race!Run, Race!Routers,
     RaceP!Next, RaceP!RouterStep, RaceP!Task, RaceP!Run, RaceP!Routers
<1> QED
  BY <1>1, <1>2, <1>8

LEMMA RaceSays ==
  /\ Race!TypeOK <=> RaceP!TypeOK
  /\ Race!StepsInOrder <=> RaceP!StepsInOrder
  /\ Race!QueuedOnce <=> RaceP!QueuedOnce
  /\ Race!OneHookPerGeneration <=> RaceP!OneHookPerGeneration
BY DEF Race!Routers, Race!Proc, Race!Step, Race!Task, Race!Run, Race!Status,
       Race!Hook, Race!TypeOK, Race!Exists, Race!StepsInOrder,
       Race!QueuedOnce, Race!OneHookPerGeneration, RaceP!Routers, RaceP!Proc,
       RaceP!Step, RaceP!Task, RaceP!Run, RaceP!Status, RaceP!Hook,
       RaceP!TypeOK, RaceP!Exists, RaceP!StepsInOrder, RaceP!QueuedOnce,
       RaceP!OneHookPerGeneration

LEMMA JoinIs ==
  /\ Join!GraphAssumption <=> JoinP!GraphAssumption
  /\ Join!Init <=> JoinP!Init
  /\ Join!Next <=> JoinP!Next
  /\ Join!vars = JoinP!vars
BY DEF Join!Node, Join!Gen, Join!Tid, Join!Run, Join!Routers, Join!Proc,
       Join!After, Join!HasCycle, Join!ValidPlan, Join!GraphAssumption,
       Join!graph, Join!vars, Join!Live, Join!Terminal, Join!Satisfied,
       Join!Unsettled, Join!NoTask, Join!Idle, Join!Made, Join!Fresh,
       Join!Newest, Join!TaskStatus, Join!Init, Join!Ready, Join!Released,
       Join!Dispatch, Join!Park, Join!Has, Join!Verdict, Join!Quiescent,
       Join!Record, Join!MaybeSettle, Join!Advance, Join!Start, Join!IsOpen,
       Join!Open, Join!With, Join!MayPublish, Join!Publish, Join!Take,
       Join!Resolve, Join!Reap, Join!Held, Join!Replay, Join!Release,
       Join!Goto, Join!IsBound, Join!Outcome, Join!HandleCompletion,
       Join!Queued, Join!DispatchHook, Join!MarkRouted, Join!Announcing,
       Join!Unannounced, Join!ReplaySettled, Join!Crash, Join!Requeue,
       Join!Settled, Join!Skip, Join!Cancel, Join!Approve, Join!Reject,
       Join!Downstream, Join!RerunClosure, Join!Renewed, Join!Reset,
       Join!Resumable, Join!Resume, Join!RouterStep, Join!Next, JoinP!Node,
       JoinP!Gen, JoinP!Tid, JoinP!Run, JoinP!Routers, JoinP!Proc,
       JoinP!After, JoinP!HasCycle, JoinP!ValidPlan, JoinP!GraphAssumption,
       JoinP!graph, JoinP!vars, JoinP!Live, JoinP!Terminal, JoinP!Satisfied,
       JoinP!Unsettled, JoinP!NoTask, JoinP!Idle, JoinP!Made, JoinP!Fresh,
       JoinP!Newest, JoinP!TaskStatus, JoinP!Init, JoinP!Ready,
       JoinP!Released, JoinP!Dispatch, JoinP!Park, JoinP!Has, JoinP!Verdict,
       JoinP!Quiescent, JoinP!Record, JoinP!MaybeSettle, JoinP!Advance,
       JoinP!Start, JoinP!IsOpen, JoinP!Open, JoinP!With, JoinP!MayPublish,
       JoinP!Publish, JoinP!Take, JoinP!Resolve, JoinP!Reap, JoinP!Held,
       JoinP!Replay, JoinP!Release, JoinP!Goto, JoinP!IsBound, JoinP!Outcome,
       JoinP!HandleCompletion, JoinP!Queued, JoinP!DispatchHook,
       JoinP!MarkRouted, JoinP!Announcing, JoinP!Unannounced,
       JoinP!ReplaySettled, JoinP!Crash, JoinP!Requeue, JoinP!Settled,
       JoinP!Skip, JoinP!Cancel, JoinP!Approve, JoinP!Reject,
       JoinP!Downstream, JoinP!RerunClosure, JoinP!Renewed, JoinP!Reset,
       JoinP!Resumable, JoinP!Resume, JoinP!RouterStep, JoinP!Next

LEMMA JoinSays ==
  /\ Join!RunsInOrder <=> JoinP!RunsInOrder
  /\ Join!OncePerGeneration <=> JoinP!OncePerGeneration
  /\ Join!GraphTellsTheTruth <=> JoinP!GraphTellsTheTruth
BY DEF Join!Node, Join!Gen, Join!Tid, Join!Run, Join!Routers, Join!Proc,
       Join!After, Join!Live, Join!Terminal, Join!Satisfied, Join!Unsettled,
       Join!NodeStatus, Join!TypeOK, Join!Made, Join!Newest, Join!TaskStatus,
       Join!BlockedBy, Join!Has, Join!IsOpen, Join!DependenciesHold,
       Join!OneTaskPerGeneration, Join!EffectOncePerGeneration,
       Join!ReceiptsAreCurrent, Join!NodesTellTheTruth, Join!GateHolds,
       Join!SettlementIsTrue, Join!OutboxIsComplete, Join!Owed,
       Join!NothingStranded, Join!RunsInOrder, Join!OncePerGeneration,
       Join!GraphTellsTheTruth, JoinP!Node, JoinP!Gen, JoinP!Tid, JoinP!Run,
       JoinP!Routers, JoinP!Proc, JoinP!After, JoinP!Live, JoinP!Terminal,
       JoinP!Satisfied, JoinP!Unsettled, JoinP!NodeStatus, JoinP!TypeOK,
       JoinP!Made, JoinP!Newest, JoinP!TaskStatus, JoinP!BlockedBy, JoinP!Has,
       JoinP!IsOpen, JoinP!DependenciesHold, JoinP!OneTaskPerGeneration,
       JoinP!EffectOncePerGeneration, JoinP!ReceiptsAreCurrent,
       JoinP!NodesTellTheTruth, JoinP!GateHolds, JoinP!SettlementIsTrue,
       JoinP!OutboxIsComplete, JoinP!Owed, JoinP!NothingStranded,
       JoinP!RunsInOrder, JoinP!OncePerGeneration, JoinP!GraphTellsTheTruth

(* A system that is not at work stays as it is; one that is takes the      *)
(* steps of its module.                                                    *)
LEMMA AtWorkOrStill ==
  ASSUME [SuiteNext]_suite
  PROVE  /\ which' = which
         /\ which = "gate" => Patient!Next \/ UNCHANGED c_vars
         /\ which = "race" => Race!Next \/ UNCHANGED c_vars
         /\ which = "join" => Join!Next \/ UNCHANGED g_vars
         /\ Keys!Next \/ Labels!Next \/ UNCHANGED s_vars
         /\ which = "delay" => Delay!Next \/ UNCHANGED d_vars
         /\ which \notin {"gate", "race"} => UNCHANGED c_vars
<1>1. CASE UNCHANGED suite
  BY <1>1 DEF suite
<1>2. CASE SuiteNext
  BY <1>2 DEF SuiteNext
<1> QED
  BY <1>1, <1>2

LEMMA Deciding ==
  /\ PatientP!ChainAssumption /\ RaceP!ChainAssumption /\ JoinP!GraphAssumption
  /\ PatientP!Careful /\ RaceP!OneOperator
BY RecordsAssumption, PatientIs, RaceIs, JoinIs
   DEF RecordsAssumption, PatientP!Careful, PatientP!OneOperator, RaceP!OneOperator

LEMMA GateRuns == SuiteSpec => (which = "gate" => PatientP!Spec)
<1>1. SuiteInit /\ which = "gate" => PatientP!Init
  BY PatientIs DEF SuiteInit
<1>2. which = "gate" /\ [SuiteNext]_suite =>
        (which = "gate")' /\ [PatientP!Next]_(PatientP!vars)
  <2> SUFFICES ASSUME which = "gate", [SuiteNext]_suite
               PROVE  (which = "gate")' /\ [PatientP!Next]_(PatientP!vars)
    OBVIOUS
  <2>1. which' = which /\ (Patient!Next \/ UNCHANGED c_vars)
    BY AtWorkOrStill
  <2>2. UNCHANGED c_vars => UNCHANGED PatientP!vars
    BY DEF c_vars, PatientP!vars, PatientP!chain, PatientP!history
  <2> QED
    BY <2>1, <2>2, PatientIs
<1> QED
  BY <1>1, <1>2, PTL DEF SuiteSpec, PatientP!Spec

LEMMA RaceRuns == SuiteSpec => (which = "race" => RaceP!Spec)
<1>1. SuiteInit /\ which = "race" => RaceP!Init
  BY RaceIs DEF SuiteInit
<1>2. which = "race" /\ [SuiteNext]_suite =>
        (which = "race")' /\ [RaceP!Next]_(RaceP!vars)
  <2> SUFFICES ASSUME which = "race", [SuiteNext]_suite
               PROVE  (which = "race")' /\ [RaceP!Next]_(RaceP!vars)
    OBVIOUS
  <2>1. which' = which /\ (Race!Next \/ UNCHANGED c_vars)
    BY AtWorkOrStill
  <2>2. UNCHANGED c_vars => UNCHANGED RaceP!vars
    BY DEF c_vars, RaceP!vars, RaceP!chain, RaceP!history
  <2> QED
    BY <2>1, <2>2, RaceIs
<1> QED
  BY <1>1, <1>2, PTL DEF SuiteSpec, RaceP!Spec

LEMMA JoinRuns == SuiteSpec => (which = "join" => JoinP!Spec)
<1>1. SuiteInit /\ which = "join" => JoinP!Init
  BY JoinIs DEF SuiteInit
<1>2. which = "join" /\ [SuiteNext]_suite =>
        (which = "join")' /\ [JoinP!Next]_(JoinP!vars)
  <2> SUFFICES ASSUME which = "join", [SuiteNext]_suite
               PROVE  (which = "join")' /\ [JoinP!Next]_(JoinP!vars)
    OBVIOUS
  <2>1. which' = which /\ (Join!Next \/ UNCHANGED g_vars)
    BY AtWorkOrStill
  <2>2. UNCHANGED g_vars => UNCHANGED JoinP!vars
    BY DEF g_vars, JoinP!vars, JoinP!graph
  <2> QED
    BY <2>1, <2>2, JoinIs
<1> QED
  BY <1>1, <1>2, PTL DEF SuiteSpec, JoinP!Spec

(* A chain runs its steps in order and each once a generation, passes a    *)
(* gate only with an approval, is over when it is settled and says so with *)
(* one hook, even if its operator acts in the middle of a completion, and  *)
(* a chain whose people wait never waits for nobody                        *)
(* (dispatchers.py, chain.py, base.py).                                    *)
THEOREM ChainsStayConsistent == SuiteSpec => []ChainStaysConsistent
<1>1. SuiteSpec => [](which = "gate" =>
        Patient!GateHolds /\ Patient!SettledMeansOver /\ Patient!NothingStranded)
  <2>1. PatientP!Spec => []PatientP!GateHolds
    BY Deciding, PatientP!GatesHold
  <2>2. PatientP!Spec => []PatientP!SettledMeansOver
    BY Deciding, PatientP!SettledIsOver
  <2>3. PatientP!Spec => []PatientP!NothingStranded
    BY Deciding, PatientP!NobodyIsStranded
  <2>4. PatientP!GateHolds /\ PatientP!SettledMeansOver /\ PatientP!NothingStranded =>
          Patient!GateHolds /\ Patient!SettledMeansOver /\ Patient!NothingStranded
    BY PatientSays
  <2>5. ~(which = "gate") /\ [SuiteNext]_suite => ~(which = "gate")'
    BY AtWorkOrStill
  <2> QED
    BY <2>1, <2>2, <2>3, <2>4, <2>5, GateRuns, PTL DEF SuiteSpec
<1>2. SuiteSpec => [](which = "race" =>
        Race!TypeOK /\ Race!StepsInOrder /\ Race!QueuedOnce /\ Race!OneHookPerGeneration)
  <2>1. RaceP!Spec => []RaceP!TypeOK
    BY Deciding, RaceP!TypesHold
  <2>2. RaceP!Spec => []RaceP!StepsInOrder
    BY Deciding, RaceP!StepsComeInOrder
  <2>3. RaceP!Spec => []RaceP!QueuedOnce
    BY Deciding, RaceP!StepsAreQueuedOnce
  <2>4. RaceP!Spec => []RaceP!OneHookPerGeneration
    BY Deciding, RaceP!HooksAreOnceInAnyHurry
  <2>5. RaceP!TypeOK /\ RaceP!StepsInOrder /\ RaceP!QueuedOnce /\ RaceP!OneHookPerGeneration =>
          Race!TypeOK /\ Race!StepsInOrder /\ Race!QueuedOnce /\ Race!OneHookPerGeneration
    BY RaceSays
  <2>6. ~(which = "race") /\ [SuiteNext]_suite => ~(which = "race")'
    BY AtWorkOrStill
  <2> QED
    BY <2>1, <2>2, <2>3, <2>4, <2>5, <2>6, RaceRuns, PTL DEF SuiteSpec
<1>3. /\ which = "gate" => Patient!GateHolds /\ Patient!SettledMeansOver /\ Patient!NothingStranded
      /\ which = "race" =>
           Race!TypeOK /\ Race!StepsInOrder /\ Race!QueuedOnce /\ Race!OneHookPerGeneration
      => ChainStaysConsistent
  BY DEF ChainStaysConsistent
<1> QED
  BY <1>1, <1>2, <1>3, PTL

(* Siblings that end in any order, a gate and a resume leave a graph with  *)
(* its order, its once-only effects and the truth of its rows (graphs.py). *)
THEOREM GraphsStayConsistent == SuiteSpec => []GraphStaysConsistent
<1>1. JoinP!Spec => []JoinP!RunsInOrder
  BY Deciding, JoinP!NodesRunInOrder
<1>2. JoinP!Spec => []JoinP!OncePerGeneration
  BY Deciding, JoinP!GenerationsCountOnce
<1>3. JoinP!Spec => []JoinP!GraphTellsTheTruth
  BY Deciding, JoinP!RowsTellTheTruth
<1>4. /\ which = "join" =>
           JoinP!RunsInOrder /\ JoinP!OncePerGeneration /\ JoinP!GraphTellsTheTruth
      => GraphStaysConsistent
  BY JoinSays DEF GraphStaysConsistent
<1>5. ~(which = "join") /\ [SuiteNext]_suite => ~(which = "join")'
  BY AtWorkOrStill
<1> QED
  BY <1>1, <1>2, <1>3, <1>4, <1>5, JoinRuns, PTL DEF SuiteSpec

(* The requests of one system are some of those of both. *)
LEMMA KeysAreCalls == Keys!Next => Any!Next
<1>1. \A c : Keys!Begin(c) => Any!Begin(c)
  BY DEF Keys!None, Keys!Idle, Keys!At, Keys!Begin, Any!None, Any!Idle,
         Any!At, Any!Begin
<1>2. \A c : /\ Keys!Return(c) <=> Any!Return(c)
             /\ Keys!Reclaim(c) <=> Any!Reclaim(c)
             /\ Keys!LookUp(c) <=> Any!LookUp(c)
             /\ Keys!Label(c) <=> Any!Label(c)
             /\ Keys!LabelLocked(c) <=> Any!LabelLocked(c)
             /\ Keys!Recover(c) <=> Any!Recover(c)
             /\ Keys!Schedule(c) <=> Any!Schedule(c)
             /\ Keys!LookUpGraph(c) <=> Any!LookUpGraph(c)
             /\ Keys!CreateGraph(c) <=> Any!CreateGraph(c)
             /\ Keys!Crash(c) <=> Any!Crash(c)
  BY DEF Keys!Ids, Keys!Keyed, Keys!Dead, Keys!None, Keys!Idle, Keys!Kind,
         Keys!At, Keys!To, Keys!Answers, Keys!Holders, Keys!Return,
         Keys!Reclaimable, Keys!Reclaim, Keys!Existing, Keys!LookUp,
         Keys!Label, Keys!LabelLocked, Keys!FallBack, Keys!Recover,
         Keys!Schedule, Keys!LookUpGraph, Keys!CreateGraph, Keys!Crash,
         Any!Ids, Any!Keyed, Any!Dead, Any!None, Any!Idle, Any!Kind, Any!At,
         Any!To, Any!Answers, Any!Holders, Any!Return, Any!Reclaimable,
         Any!Reclaim, Any!Existing, Any!LookUp, Any!Label, Any!LabelLocked,
         Any!FallBack, Any!Recover, Any!Schedule, Any!LookUpGraph,
         Any!CreateGraph, Any!Crash
<1>3. \A t : (Keys!End(t) <=> Any!End(t)) /\ (Keys!Requeue(t) <=> Any!Requeue(t))
  BY DEF Keys!Ids, Keys!Keyed, Keys!Dead, Keys!End, Keys!Requeue, Any!Ids,
         Any!Keyed, Any!Dead, Any!End, Any!Requeue
<1>4. (Keys!BindSubject <=> Any!BindSubject) /\ (Keys!Settle <=> Any!Settle) /\ Keys!Ids = Any!Ids
  BY DEF Keys!Ids, Keys!ToGraph, Keys!Relabelled, Keys!BindSubject,
         Keys!Settle, Any!Ids, Any!ToGraph, Any!Relabelled, Any!BindSubject,
         Any!Settle
<1>5. Keys!NewId = Any!NewId /\ \A row : Keys!Added(row) = Any!Added(row)
  BY DEF Keys!Cardinality, Any!Cardinality, Keys!Ids, Keys!NewId, Keys!Added, Any!Ids, Any!NewId, Any!Added
<1>6. \A c : Keys!Create(c) <=> Any!Create(c)
  BY <1>5 DEF Keys!Ids, Keys!Keyed, Keys!ToGraph, Keys!Kind, Keys!At, Keys!To,
         Keys!Answers, Keys!Holders, Keys!SubjectNow, Keys!Collides,
         Keys!Create, Any!Ids, Any!Keyed, Any!ToGraph, Any!Kind, Any!At,
         Any!To, Any!Answers, Any!Holders, Any!SubjectNow, Any!Collides,
         Any!Create
<1>7. \A c : Keys!Defer(c) <=> Any!Defer(c)
  BY <1>5 DEF Keys!Ids, Keys!Kind, Keys!At, Keys!Defer, Any!Ids, Any!Kind,
         Any!At, Any!Defer
<1> QED
  BY <1>1, <1>2, <1>3, <1>4, <1>6, <1>7 DEF Keys!Next, Any!Next, Keys!Call, Any!Call

LEMMA LabelsAreCalls == Labels!Next => Any!Next
<1>1. \A c : Labels!Begin(c) => Any!Begin(c)
  BY DEF Labels!None, Labels!Idle, Labels!At, Labels!Begin, Any!None,
         Any!Idle, Any!At, Any!Begin
<1>2. \A c : /\ Labels!Return(c) <=> Any!Return(c)
             /\ Labels!Reclaim(c) <=> Any!Reclaim(c)
             /\ Labels!LookUp(c) <=> Any!LookUp(c)
             /\ Labels!Label(c) <=> Any!Label(c)
             /\ Labels!LabelLocked(c) <=> Any!LabelLocked(c)
             /\ Labels!Recover(c) <=> Any!Recover(c)
             /\ Labels!Schedule(c) <=> Any!Schedule(c)
             /\ Labels!LookUpGraph(c) <=> Any!LookUpGraph(c)
             /\ Labels!CreateGraph(c) <=> Any!CreateGraph(c)
             /\ Labels!Crash(c) <=> Any!Crash(c)
  BY DEF Labels!Ids, Labels!Keyed, Labels!Dead, Labels!None, Labels!Idle,
         Labels!Kind, Labels!At, Labels!To, Labels!Answers, Labels!Holders,
         Labels!Return, Labels!Reclaimable, Labels!Reclaim, Labels!Existing,
         Labels!LookUp, Labels!Label, Labels!LabelLocked, Labels!FallBack,
         Labels!Recover, Labels!Schedule, Labels!LookUpGraph,
         Labels!CreateGraph, Labels!Crash, Any!Ids, Any!Keyed, Any!Dead,
         Any!None, Any!Idle, Any!Kind, Any!At, Any!To, Any!Answers,
         Any!Holders, Any!Return, Any!Reclaimable, Any!Reclaim, Any!Existing,
         Any!LookUp, Any!Label, Any!LabelLocked, Any!FallBack, Any!Recover,
         Any!Schedule, Any!LookUpGraph, Any!CreateGraph, Any!Crash
<1>3. \A t : (Labels!End(t) <=> Any!End(t)) /\ (Labels!Requeue(t) <=> Any!Requeue(t))
  BY DEF Labels!Ids, Labels!Keyed, Labels!Dead, Labels!End, Labels!Requeue,
         Any!Ids, Any!Keyed, Any!Dead, Any!End, Any!Requeue
<1>4. (Labels!BindSubject <=> Any!BindSubject) /\ (Labels!Settle <=> Any!Settle) /\ Labels!Ids = Any!Ids
  BY DEF Labels!Ids, Labels!ToGraph, Labels!Relabelled, Labels!BindSubject,
         Labels!Settle, Any!Ids, Any!ToGraph, Any!Relabelled, Any!BindSubject,
         Any!Settle
<1>5. Labels!NewId = Any!NewId /\ \A row : Labels!Added(row) = Any!Added(row)
  BY DEF Labels!Cardinality, Any!Cardinality, Labels!Ids, Labels!NewId, Labels!Added, Any!Ids, Any!NewId,
         Any!Added
<1>6. \A c : Labels!Create(c) <=> Any!Create(c)
  BY <1>5 DEF Labels!Ids, Labels!Keyed, Labels!ToGraph, Labels!Kind,
         Labels!At, Labels!To, Labels!Answers, Labels!Holders,
         Labels!SubjectNow, Labels!Collides, Labels!Create, Any!Ids,
         Any!Keyed, Any!ToGraph, Any!Kind, Any!At, Any!To, Any!Answers,
         Any!Holders, Any!SubjectNow, Any!Collides, Any!Create
<1>7. \A c : Labels!Defer(c) <=> Any!Defer(c)
  BY <1>5 DEF Labels!Ids, Labels!Kind, Labels!At, Labels!Defer, Any!Ids,
         Any!Kind, Any!At, Any!Defer
<1> QED
  BY <1>1, <1>2, <1>3, <1>4, <1>6, <1>7 DEF Labels!Next, Any!Next, Labels!Call, Any!Call

LEMMA CallsSay ==
  /\ Any!TypeOK => Keys!TypeOK
  /\ Any!OneLivePerKey => Keys!OneLivePerKey
  /\ Any!LosersAreAnswered => Keys!LosersAreAnswered
  /\ Any!SubjectsAgree => Keys!SubjectsAgree
  /\ Any!AnswersAreWhole => Keys!AnswersAreWhole
BY DEF Keys!Kinds, Keys!Ids, Keys!Keyed, Keys!ToGraph, Keys!Dead, Keys!None,
       Keys!Tasks, Keys!TypeOK, Keys!Kind, Keys!At, Keys!Live, Keys!Born,
       Keys!OneLivePerKey, Keys!LosersAreAnswered, Keys!SubjectsAgree,
       Keys!AnswersAreWhole, Any!Kinds, Any!Ids, Any!Keyed, Any!ToGraph,
       Any!Dead, Any!None, Any!Tasks, Any!TypeOK, Any!Kind, Any!At, Any!Live,
       Any!Born, Any!OneLivePerKey, Any!LosersAreAnswered, Any!SubjectsAgree,
       Any!AnswersAreWhole

(* Two callers with one idempotency key or one graph get one live task     *)
(* between them, a whole answer each, and rows that agree on their subject *)
(* (tasks.py, backend.py, graphs.py).                                      *)
THEOREM CallersGetOneTask == SuiteSpec => []CallersAgree
<1>1. Any!SubmissionAssumption
  BY RecordsAssumption DEF RecordsAssumption, Any!SubmissionAssumption, Any!Kinds,
     Keys!SubmissionAssumption, Keys!Kinds, Labels!SubmissionAssumption, Labels!Kinds
<1>2. SuiteInit => CallsInv
  <2> SUFFICES ASSUME SuiteInit PROVE CallsInv
    OBVIOUS
  <2>1. Any!Init
    BY DEF SuiteInit, Keys!Init, Any!Init, Keys!Idle, Any!Idle, Keys!None, Any!None
  <2> QED
    BY <1>1, <2>1, CallsStart
<1>3. CallsInv /\ [SuiteNext]_suite => CallsInv'
  <2> SUFFICES ASSUME CallsInv, [SuiteNext]_suite PROVE CallsInv'
    OBVIOUS
  <2>1. Any!Next \/ UNCHANGED s_vars
    BY AtWorkOrStill, KeysAreCalls, LabelsAreCalls
  <2>2. UNCHANGED s_vars => UNCHANGED Any!vars
    BY DEF s_vars, Any!vars
  <2> QED
    BY <1>1, <2>1, <2>2, CallsStep
<1>4. CallsInv => CallersAgree
  BY <1>1, CallsMean, CallsSay DEF CallersAgree
<1> QED
  BY <1>2, <1>3, <1>4, PTL DEF SuiteSpec

(* The delay before a retry keeps its cap, honours a whole hint, backs off *)
(* under rate limits, is never nothing, and the series ends where the      *)
(* policy's lists say (retry.py).                                          *)
THEOREM DelaysAreSound == SuiteSpec => []DelayIsSound
<1>1. Delay!PolicyAssumption
  BY RecordsAssumption DEF RecordsAssumption
<1>2. SuiteInit => DelayInv
  BY <1>1, StartDelay DEF SuiteInit
<1>3. DelayInv /\ [SuiteNext]_suite => DelayInv'
  <2> SUFFICES ASSUME DelayInv, [SuiteNext]_suite PROVE DelayInv'
    OBVIOUS
  <2>1. Delay!Next \/ UNCHANGED d_vars
    BY DEF SuiteNext, suite
  <2>2. UNCHANGED d_vars => UNCHANGED Delay!vars
    BY DEF d_vars, Delay!vars
  <2> QED
    BY <1>1, <2>1, <2>2, StepDelays
<1>4. DelayInv => DelayIsSound
  BY <1>1, DelaysMean DEF DelayIsSound
<1> QED
  BY <1>2, <1>3, <1>4, PTL DEF SuiteSpec

(* What was billed or priced is never priced again, what has no price      *)
(* shows, what is not called an estimate is what callers billed, and a     *)
(* workflow's usage adds up its attempts (context.py, pricing.py).  The    *)
(* sums are those of numbers: a count that is none raises a TypeError.     *)
THEOREM LedgersAreSound ==
  ASSUME Counts \subseteq Nat
  PROVE  SuiteSpec => []LedgerIsSound
<1>1. Ledger!LedgerAssumption
  BY RecordsAssumption DEF RecordsAssumption
<1>2. SuiteInit => LedgerInv
  BY <1>1, LedgerStarts DEF SuiteInit
<1>3. LedgerInv /\ [SuiteNext]_suite => LedgerInv'
  <2> SUFFICES ASSUME LedgerInv, [SuiteNext]_suite PROVE LedgerInv'
    OBVIOUS
  <2>1. Ledger!Next \/ UNCHANGED u_vars
    BY DEF SuiteNext, suite
  <2>2. UNCHANGED u_vars => UNCHANGED Ledger!vars
    BY DEF u_vars, Ledger!vars
  <2> QED
    BY <1>1, <2>1, <2>2, LedgerKeeps
<1>4. LedgerInv => LedgerIsSound
  BY <1>1, LedgerSays DEF LedgerIsSound
<1> QED
  BY <1>2, <1>3, <1>4, PTL DEF SuiteSpec


(* A completion of a task the chain is no longer bound to fails nothing,   *)
(* and what was cancelled stays so, whoever decides in the middle of a     *)
(* completion (dispatchers.py, base.cancel).                               *)
THEOREM ChainsDecisionsStand == SuiteSpec => ChainDecisionsStand
<1>1. PatientP!Spec => PatientP!SupersededIsDropped
  BY Deciding, PatientP!SupersededAreDropped
<1>2. PatientP!Spec => PatientP!CancelledIsFinal
  BY Deciding, PatientP!CancelStands
<1>3. RaceP!Spec => RaceP!CancelledIsFinal
  BY Deciding, RaceP!CancelStands
<1>4. [\A p \in PatientP!Routers : PatientP!FailsChain(p) =>
          c_bound[PatientP!StepOf(p)] = c_proc[p].task]_(PatientP!vars)
      => [which = "gate" => \A p \in Patient!Routers :
            Patient!FailsChain(p) => c_bound[Patient!StepOf(p)] = c_proc[p].task]_c_vars
  BY DEF PatientP!Routers, PatientP!FailsChain, PatientP!StepOf, PatientP!vars, PatientP!chain,
         PatientP!history, Patient!Routers, Patient!FailsChain, Patient!StepOf, c_vars
<1>5. ~(which = "gate")
      => [which = "gate" => \A p \in Patient!Routers :
            Patient!FailsChain(p) => c_bound[Patient!StepOf(p)] = c_proc[p].task]_c_vars
  OBVIOUS
<1>6. [c_status = "CANCELLED" => c_status' = "CANCELLED" /\ c_bound' = c_bound]_(PatientP!vars)
      => [c_status = "CANCELLED" => c_status' = "CANCELLED" /\ c_bound' = c_bound]_(Race!vars)
  BY DEF PatientP!vars, PatientP!chain, PatientP!history, Race!vars, Race!chain, Race!history
<1>7. [c_status = "CANCELLED" => c_status' = "CANCELLED" /\ c_bound' = c_bound]_(RaceP!vars)
      => [c_status = "CANCELLED" => c_status' = "CANCELLED" /\ c_bound' = c_bound]_(Race!vars)
  BY DEF RaceP!vars, RaceP!chain, RaceP!history, Race!vars, Race!chain, Race!history
<1>8. ~(which = "gate") /\ ~(which = "race") /\ [SuiteNext]_suite
      => [c_status = "CANCELLED" => c_status' = "CANCELLED" /\ c_bound' = c_bound]_(Race!vars)
  <2> SUFFICES ASSUME ~(which = "gate"), ~(which = "race"), [SuiteNext]_suite
               PROVE  UNCHANGED Race!vars
    OBVIOUS
  <2>1. UNCHANGED c_vars
    BY AtWorkOrStill
  <2> QED
    BY <2>1 DEF c_vars, Race!vars, Race!chain, Race!history
<1>9. /\ ~(which = "gate") /\ [SuiteNext]_suite => ~(which = "gate")'
      /\ ~(which = "race") /\ [SuiteNext]_suite => ~(which = "race")'
  BY AtWorkOrStill
<1>10. SuiteSpec => [][which = "gate" => \A p \in Patient!Routers :
            Patient!FailsChain(p) => c_bound[Patient!StepOf(p)] = c_proc[p].task]_c_vars
  BY <1>1, <1>4, <1>5, <1>9, GateRuns, PTL DEF SuiteSpec, PatientP!SupersededIsDropped
<1>11. SuiteSpec => Race!CancelledIsFinal
  BY <1>2, <1>3, <1>6, <1>7, <1>8, <1>9, GateRuns, RaceRuns, PTL
     DEF SuiteSpec, PatientP!CancelledIsFinal, RaceP!CancelledIsFinal, Race!CancelledIsFinal
<1> QED
  BY <1>10, <1>11 DEF ChainDecisionsStand

(* The same of the console among the other systems.                        *)
THEOREM PressesStand == SuiteSpec => DecisionsStand
<1>1. SuiteInit => Init
  BY DEF SuiteInit
<1>2. [SuiteNext]_suite => [Next]_vars
  BY DEF SuiteNext, suite
<1>3. Spec => DecisionsStand
  BY DecisionsAreKept, RecordsAssumption DEF RecordsAssumption
<1> QED
  BY <1>1, <1>2, <1>3, PTL DEF SuiteSpec, Spec
=============================================================================
