--------------------------- MODULE ExecutionGraph ---------------------------
(***************************************************************************)
(* One QraftGraph: the plan, the dispatch of ready nodes, the completions  *)
(* of their tasks, publication receipts, gates, skip, cancel, resume, the  *)
(* quiescent settlement and the outbox its hook is replayed from.          *)
(*                                                                         *)
(* Every operation on the graph takes the row lock of the graph first      *)
(* (graphs._locked), so a transaction is one action.  What a router read   *)
(* before it - the outcome of a task, the settlement to announce - is kept *)
(* in proc from an earlier action.  A task is a series of attempts, as in  *)
(* TaskLifecycle: only the last attempt of a retry series is seen, and a   *)
(* requeue starts another run of the same task.                            *)
(***************************************************************************)
EXTENDS Integers, FiniteSets

CONSTANTS
  Size,       \* nodes are 1..Size
  Edges,      \* <<a, b>>: b runs after a
  Gated,      \* nodes with requires_approval
  Monitors,   \* monitor processes: resolve attempts and route them
  Reapers,    \* reaper threads: reap, and replay what was not routed
  Operators,  \* people and views
  MaxGen,     \* bound: generations of the graph (1 + resumes)
  MaxRuns,    \* bound: runs of one task (1 + requeues)
  MaxFaults   \* bound: attempts lost, processes dying or stalling

Node == 1..Size
Gen == 1..MaxGen
Tid == 1..MaxGen
Run == 1..MaxRuns
Routers == Monitors \cup Reapers
Proc == Routers \cup Operators

After(n) == {d \in Node : <<d, n>> \in Edges}

(* A cycle: a set of nodes each of which waits for another of the set. *)
HasCycle(E) ==
  \E S \in SUBSET Node : S # {} /\ \A n \in S : \E d \in S : <<d, n>> \in E

(* _validate_topology, which start() refuses a plan without. *)
ValidPlan == Edges \subseteq Node \X Node /\ ~HasCycle(Edges)

GraphAssumption ==
  /\ Size \in Nat \ {0} /\ ValidPlan /\ Gated \subseteq Node
  /\ MaxGen \in Nat \ {0} /\ MaxRuns \in Nat \ {0} /\ MaxFaults \in Nat
  /\ Monitors \cap Reapers = {} /\ Routers \cap Operators = {}

VARIABLES
  status,    \* QraftGraph.status; "absent" before start()
  gen,       \* QraftGraph.generation
  node,      \* QraftGraphNode rows
  task,      \* the tasks dispatched for each node
  outbox,    \* QraftGraphSettlement rows
  hooks,     \* hooks queued for each generation (WorkflowHookDispatch)
  proc,      \* what each monitor, reaper and operator is doing
  approved,  \* history: gates opened, with the node's generation
  lost,      \* history: nodes whose completion died before its on_commit
  faults     \* faults so far

graph == <<status, gen, node, task, outbox>>
vars == <<graph, hooks, proc, approved, lost, faults>>

(* Terminal statuses have settled_at set and the others have it null: both *)
(* are always written together, for the graph and for its nodes.           *)
Live == {"RUNNING", "WAITING_APPROVAL"}
Terminal == {"SUCCEEDED", "FAILED", "CANCELLED"}
Satisfied == {"SUCCEEDED", "SKIPPED"}
Unsettled == {"PENDING", "RUNNING", "WAITING_APPROVAL"}
NodeStatus == Satisfied \cup Unsettled \cup {"FAILED", "CANCELLED"}

NoTask == [gen |-> 0, out |-> [r \in Run |-> "none"],
           routed |-> {}, alive |-> {}, published |-> [r \in Run |-> 0]]
Idle == [pc |-> "idle", node |-> 0, task |-> 0, run |-> 0, out |-> "none", gen |-> 0]

TypeOK ==
  /\ status \in Live \cup Terminal \cup {"absent"} /\ gen \in Gen
  /\ node \in [Node -> [status : NodeStatus, gen : Gen,
                        task : Tid \cup {0}, receipt : Tid \cup {0}]]
  /\ task \in [Node -> [Tid -> [gen : Gen \cup {0},
                                out : [Run -> {"none", "open", "ok", "fail"}],
                                routed : SUBSET Run, alive : SUBSET Run,
                                published : [Run -> 0..2]]]]
  /\ outbox \subseteq [gen : Gen, outcome : Terminal]
  /\ hooks \in [Gen -> Nat]
  /\ proc \in [Proc -> [pc : {"idle", "handle", "committed", "hook", "mark"},
                        node : Node \cup {0}, task : Tid \cup {0}, run : Run \cup {0},
                        out : {"none", "ok", "fail"}, gen : Gen \cup {0}]]
  /\ approved \subseteq Node \X Gen
  /\ lost \subseteq Node
  /\ faults \in 0..MaxFaults

Made(n) == {k \in Tid : task[n][k].gen # 0}
Fresh(n) == CHOOSE k \in Tid : k \notin Made(n) /\ \A j \in Tid : j < k => j \in Made(n)
Newest(t) == CHOOSE r \in Run :
               t.out[r] # "none" /\ (r + 1 \in Run => t.out[r + 1] = "none")
TaskStatus(t) == t.out[Newest(t)]

Init ==
  /\ status = "absent" /\ gen = 1
  /\ node = [n \in Node |-> [status |-> "PENDING", gen |-> 1, task |-> 0, receipt |-> 0]]
  /\ task = [n \in Node |-> [k \in Tid |-> NoTask]]
  /\ outbox = {} /\ hooks = [g \in Gen |-> 0]
  /\ proc = [p \in Proc |-> Idle]
  /\ approved = {} /\ lost = {} /\ faults = 0
-----------------------------------------------------------------------------
(* Dispatch and settlement.                                                *)

(* _ready_nodes. *)
Ready(ns) ==
  {n \in Node : /\ ns[n].status = "PENDING"
                /\ \A d \in After(n) : ns[d].status \in Satisfied}

(* _blocked_by: what a snapshot shows a pending node to wait for. *)
BlockedBy(n) == {d \in After(n) : node[d].status \notin Satisfied}

(* Mutant: the frontier does not look at gates. *)
ReleasedUngated(ns) == Ready(ns)

(* The nodes the frontier dispatches: a gate stops its own node only. *)
Released(ns) == Ready(ns) \ Gated

(* _dispatch_node: a task and its first attempt for each node of S, bound  *)
(* to it in the caller's transaction.                                      *)
Dispatch(ns, S) ==
  /\ \A n \in S : Made(n) # Tid
  /\ task' = [n \in Node |->
                IF n \in S
                THEN [task[n] EXCEPT ![Fresh(n)] =
                        [NoTask EXCEPT !.gen = ns[n].gen, !.out[1] = "open", !.alive = {1}]]
                ELSE task[n]]
  /\ node' = [n \in Node |->
                IF n \in S THEN [ns[n] EXCEPT !.status = "RUNNING", !.task = Fresh(n)]
                ELSE ns[n]]

(* A ready node with a gate is parked. *)
Park(ns) ==
  [n \in Node |-> IF n \in Ready(ns) \ Released(ns)
                  THEN [ns[n] EXCEPT !.status = "WAITING_APPROVAL"] ELSE ns[n]]

Has(ns, s) == \E n \in Node : ns[n].status = s

(* The outcome of a graph none of whose nodes can move, worst first. *)
Verdict(ns) ==
  IF Has(ns, "FAILED") THEN "FAILED"
  ELSE IF Has(ns, "CANCELLED") THEN "CANCELLED"
  ELSE IF Has(ns, "WAITING_APPROVAL") THEN "WAITING_APPROVAL"
  ELSE IF \A n \in Node : ns[n].status \in Satisfied THEN "SUCCEEDED"
  ELSE "RUNNING"

(* Mutant: the graph settles on the first failure. *)
QuiescentOnFailure(ns) == Has(ns, "FAILED") \/ (~Has(ns, "RUNNING") /\ Ready(ns) = {})

(* Mutant: a node that can never start keeps the graph running. *)
QuiescentOnceAllOver(ns) == ~Has(ns, "RUNNING") /\ ~Has(ns, "PENDING")

(* _maybe_settle: nothing runs and nothing can start. *)
Quiescent(ns) == ~Has(ns, "RUNNING") /\ Ready(ns) = {}

(* _record_settlement: one row for each generation. *)
Record(g, st) ==
  IF st \in Terminal /\ \A e \in outbox : e.gen # g
  THEN outbox \cup {[gen |-> g, outcome |-> st]} ELSE outbox

(* _settle, when the graph is quiescent. *)
MaybeSettle(g) ==
  /\ status' = IF Quiescent(node') THEN Verdict(node') ELSE "RUNNING"
  /\ outbox' = Record(g, status')

(* _dispatch_frontier, then _maybe_settle, on the rows ns of generation g. *)
Advance(ns, g) ==
  /\ Dispatch(Park(ns), Released(ns))
  /\ MaybeSettle(g)

(* Graph.start: rows, roots and an all-gated graph's status in one         *)
(* transaction.                                                            *)
Start ==
  /\ status = "absent"
  /\ Advance(node, gen)
  /\ UNCHANGED <<gen, hooks, proc, approved, lost, faults>>
-----------------------------------------------------------------------------
(* Tasks and their completions.                                            *)

IsOpen(n, k) == k \in Made(n) /\ TaskStatus(task[n][k]) = "open"
Open(n, k) == Newest(task[n][k])
With(n, k, t) == task' = [task EXCEPT ![n][k] = t]

(* Mutant: a second attempt may publish again. *)
MayPublishAgain(n, k) == node[n].task = k

(* Publication authority: the task the node is bound to, and only once. *)
MayPublish(n, k) == node[n].task = k /\ node[n].receipt = 0

(* graphs.publish by a body still running, whatever became of its run: its *)
(* effect, the receipt and output_committed_at commit together, under the  *)
(* node's row lock.  A later attempt of the same run may come here again.  *)
Publish(n, k, r) ==
  /\ r \in task[n][k].alive
  /\ task[n][k].published[r] < 2
  /\ MayPublish(n, k)
  /\ node' = [node EXCEPT ![n].receipt = k]
  /\ With(n, k, [task[n][k] EXCEPT !.published[r] = @ + 1])
  /\ UNCHANGED <<status, gen, outbox, hooks, proc, approved, lost, faults>>

Take(p, pc, n, k, r, out) ==
  proc' = [proc EXCEPT ![p] = [pc |-> pc, node |-> n, task |-> k, run |-> r,
                               out |-> out, gen |-> 0]]

(* qraft_hook_handler: the body ended and its result was saved. *)
Resolve(m, n, k, out) ==
  /\ proc[m].pc = "idle"
  /\ IsOpen(n, k)
  /\ With(n, k, [task[n][k] EXCEPT !.out[Open(n, k)] = out,
                                   !.alive = @ \ {Open(n, k)}])
  /\ Take(m, "handle", n, k, Open(n, k), out)
  /\ UNCHANGED <<status, gen, node, outbox, hooks, approved, lost, faults>>

(* _reap_one: a silent attempt, whose body may yet be running, fails; one  *)
(* that has published itself succeeds (_resolve_committed), is marked      *)
(* routed and its completion handled after the commit.                     *)
Reap(p, n, k, paused, committed) ==
  /\ proc[p].pc = "idle"
  /\ faults < MaxFaults
  /\ faults' = faults + 1
  /\ IsOpen(n, k)
  /\ LET r == Open(n, k)
         out == IF committed THEN "ok" ELSE "fail"
     IN /\ committed => task[n][k].published[r] > 0
        /\ With(n, k, [task[n][k] EXCEPT
                         !.out[r] = out,
                         !.alive = IF paused THEN @ ELSE @ \ {r},
                         !.routed = IF committed THEN @ \cup {r} ELSE @])
        /\ Take(p, IF committed THEN "committed" ELSE "handle", n, k, r, out)
  /\ UNCHANGED <<status, gen, node, outbox, hooks, approved, lost>>

Held(n, k, r) ==
  \E p \in Routers : proc[p].node = n /\ proc[p].task = k /\ proc[p].run = r

(* replay_unrouted takes an attempt whose routing never finished, with the *)
(* status its task has by then.  It waits for a grace first, which a       *)
(* router that is still at work outlasts only by a fault.                  *)
Replay(p, n, k, r) ==
  /\ proc[p].pc = "idle"
  /\ task[n][k].out[r] \in {"ok", "fail"}
  /\ r \notin task[n][k].routed
  /\ faults' = IF Held(n, k, r) THEN faults + 1 ELSE faults
  /\ faults' <= MaxFaults
  /\ LET s == TaskStatus(task[n][k]) IN
     Take(p, "handle", n, k, r, IF s = "open" THEN "none" ELSE s)
  /\ UNCHANGED <<graph, hooks, approved, lost>>

Release(p) == proc' = [proc EXCEPT ![p] = Idle]
Goto(p, pc) == proc' = [proc EXCEPT ![p].pc = pc, ![p].gen = IF pc = "hook" THEN gen ELSE 0]

(* Mutant: any task of the node speaks for it. *)
IsBoundToAny(n, k) == k \in Made(n)

(* The binding is re-read: a resume unbinds the tasks of the generation it *)
(* replaces.                                                               *)
IsBound(n, k) == node[n].task = k

(* Mutant: the node takes the status of its task as it is. *)
OutcomeAsIs(out) == IF out = "ok" THEN "SUCCEEDED" ELSE "EXHAUSTED"

(* _TASK_OUTCOMES: a failed or exhausted task fails its node. *)
Outcome(out) == IF out = "ok" THEN "SUCCEEDED" ELSE "FAILED"

(* handle_node_completion: a compare-and-set on the node's settled_at, the *)
(* frontier and the settlement, under the graph's lock.                    *)
HandleCompletion(p) ==
  /\ proc[p].pc \in {"handle", "committed"}
  /\ LET n == proc[p].node
         records == /\ proc[p].out # "none"
                    /\ IsBound(n, proc[p].task)
                    /\ node[n].status \in Unsettled
         ns == [node EXCEPT ![n].status = Outcome(proc[p].out)]
     IN \/ /\ records /\ status = "RUNNING"
           /\ Advance(ns, gen)
           /\ Goto(p, IF status' \in Terminal THEN "hook" ELSE "mark")
        \/ /\ records /\ status # "RUNNING"
           /\ node' = ns
           /\ Goto(p, "mark")
           /\ UNCHANGED <<status, task, outbox>>
        \/ /\ ~records
           /\ Goto(p, "mark")
           /\ UNCHANGED <<status, node, task, outbox>>
  /\ UNCHANGED <<gen, hooks, approved, lost, faults>>

(* Mutant: the dispatch row is not looked at. *)
QueuedAgain(g) == hooks[g] + 1

(* dispatch_hook_once with the generation in its unique key. *)
Queued(g) == IF hooks[g] = 0 THEN 1 ELSE hooks[g]

(* _dispatch_settled_hook, from the outbox row of the settled generation. *)
DispatchHook(p) ==
  /\ proc[p].pc = "hook"
  /\ hooks' = [hooks EXCEPT ![proc[p].gen] = Queued(proc[p].gen)]
  /\ IF proc[p].node = 0 THEN Release(p) ELSE Goto(p, "mark")
  /\ UNCHANGED <<graph, approved, lost, faults>>

(* The attempt's routed flag, once all of it is done. *)
MarkRouted(p) ==
  /\ proc[p].pc = "mark"
  /\ With(proc[p].node, proc[p].task,
          [task[proc[p].node][proc[p].task] EXCEPT !.routed = @ \cup {proc[p].run}])
  /\ Release(p)
  /\ UNCHANGED <<status, gen, node, outbox, hooks, approved, lost, faults>>

Announcing(g) == \E p \in Proc : proc[p].pc = "hook" /\ proc[p].gen = g

(* Mutant: only the current generation is looked at. *)
UnannouncedNow == {e \in outbox : hooks[e.gen] = 0 /\ e.gen = gen}

(* The settlements without a WorkflowHookDispatch row. *)
Unannounced == {e \in outbox : hooks[e.gen] = 0}

(* replay_settled_hooks: a settlement no hook was queued for, after the    *)
(* same grace.                                                             *)
ReplaySettled(p) ==
  /\ proc[p].pc = "idle"
  /\ \E e \in Unannounced :
       /\ faults' = IF Announcing(e.gen) THEN faults + 1 ELSE faults
       /\ proc' = [proc EXCEPT ![p] = [Idle EXCEPT !.pc = "hook", !.gen = e.gen]]
  /\ faults' <= MaxFaults
  /\ UNCHANGED <<graph, hooks, approved, lost>>

(* A process dies between two of its transactions.  The completion of an   *)
(* attempt that was resolved as committed dies with it: that attempt is    *)
(* already marked routed.                                                  *)
Crash(p) ==
  /\ faults < MaxFaults
  /\ proc[p].pc # "idle"
  /\ faults' = faults + 1
  /\ lost' = IF proc[p].pc = "committed" THEN lost \cup {proc[p].node} ELSE lost
  /\ Release(p)
  /\ UNCHANGED <<graph, hooks, approved>>

(* dlq.requeue of a dead node task: the next run of the same task. *)
Requeue(n, k) ==
  /\ k \in Made(n)
  /\ TaskStatus(task[n][k]) = "fail"
  /\ Open(n, k) + 1 \in Run
  /\ With(n, k, [task[n][k] EXCEPT !.out[Open(n, k) + 1] = "open",
                                   !.alive = @ \cup {Open(n, k) + 1}])
  /\ UNCHANGED <<status, gen, node, outbox, hooks, proc, approved, lost, faults>>
-----------------------------------------------------------------------------
(* Operators.  Each call is one transaction under the graph's lock, the    *)
(* hook of a settlement is dispatched after it.                            *)

Settled(o) ==
  IF status' \in Terminal
  THEN proc' = [proc EXCEPT ![o] = [Idle EXCEPT !.pc = "hook", !.gen = gen]]
  ELSE UNCHANGED proc

Skip(o, n) ==
  /\ proc[o].pc = "idle"
  /\ status = "RUNNING"
  /\ node[n].status = "PENDING"
  /\ Advance([node EXCEPT ![n].status = "SKIPPED"], gen)
  /\ Settled(o)
  /\ UNCHANGED <<gen, hooks, approved, lost, faults>>

(* graphs.cancel: _settle at once; what is in flight is not revoked. *)
Cancel(o) ==
  /\ proc[o].pc = "idle"
  /\ status \in Live
  /\ status' = "CANCELLED"
  /\ outbox' = Record(gen, "CANCELLED")
  /\ Settled(o)
  /\ UNCHANGED <<gen, node, task, hooks, approved, lost, faults>>

(* graphs.approve: the parked node is dispatched under the same lock. *)
Approve(o, n) ==
  /\ proc[o].pc = "idle"
  /\ status \in Live
  /\ node[n].status = "WAITING_APPROVAL"
  /\ Dispatch(node, {n})
  /\ status' = "RUNNING"
  /\ approved' = approved \cup {<<n, node[n].gen>>}
  /\ UNCHANGED <<gen, outbox, hooks, proc, lost, faults>>

(* graphs.reject: the node is cancelled and the graph may be over. *)
Reject(o, n) ==
  /\ proc[o].pc = "idle"
  /\ status \in Live
  /\ node[n].status = "WAITING_APPROVAL"
  /\ node' = [node EXCEPT ![n].status = "CANCELLED"]
  /\ MaybeSettle(gen)
  /\ Settled(o)
  /\ UNCHANGED <<gen, task, hooks, approved, lost, faults>>

(* Everything downstream of the nodes in S, S included: the least set that *)
(* holds S and every dependent of its members.                             *)
Downstream(S) ==
  {n \in Node : \A T \in SUBSET Node :
     S \subseteq T /\ (\A e \in Edges : e[1] \in T => e[2] \in T) => n \in T}

(* Mutant: only the named nodes. *)
RerunNamed(S) == {n \in S : node[n].status # "PENDING"}

(* _rerun_closure: those of them that ever ran. *)
RerunClosure(S) == {n \in Downstream(S) : node[n].status # "PENDING"}

Renewed(nd) == [status |-> "PENDING", gen |-> nd.gen + 1, task |-> 0, receipt |-> 0]

(* Mutant: the receipt survives the resume. *)
ResetKeepingReceipt(ns, S) ==
  [n \in Node |-> IF n \in S THEN [Renewed(ns[n]) EXCEPT !.receipt = ns[n].receipt]
                  ELSE ns[n]]

(* Mutant: the node stays in its generation. *)
ResetInPlace(ns, S) ==
  [n \in Node |-> IF n \in S THEN [Renewed(ns[n]) EXCEPT !.gen = ns[n].gen]
                  ELSE ns[n]]

(* The rerun nodes go back to PENDING, unbound, in their next generation. *)
Reset(ns, S) == [n \in Node |-> IF n \in S THEN Renewed(ns[n]) ELSE ns[n]]

(* Mutant: a cancelled graph may be resumed. *)
ResumableAnyway(S) == status \in Terminal

(* A failed graph, or a succeeded one when the nodes are named. *)
Resumable(S) == status = "FAILED" \/ (status = "SUCCEEDED" /\ S # {})

(* graphs.resume; a settlement it makes itself is left to the outbox.      *)
Resume(o, S) ==
  /\ proc[o].pc = "idle"
  /\ Resumable(S)
  /\ gen < MaxGen
  /\ gen' = gen + 1
  /\ LET named == IF S = {} THEN {n \in Node : node[n].status = "FAILED"} ELSE S
         rerun == RerunClosure(named)
     IN /\ rerun # {}
        /\ Advance(Reset(node, rerun), gen')
  /\ UNCHANGED <<hooks, proc, approved, lost, faults>>
-----------------------------------------------------------------------------
RouterStep(p) == HandleCompletion(p) \/ DispatchHook(p) \/ MarkRouted(p)

Next ==
  \/ Start
  \/ \E n \in Node, k \in Tid, r \in Run : Publish(n, k, r)
  \/ \E m \in Monitors, n \in Node, k \in Tid, out \in {"ok", "fail"} : Resolve(m, n, k, out)
  \/ \E p \in Reapers, n \in Node, k \in Tid :
       \E paused, committed \in BOOLEAN : Reap(p, n, k, paused, committed)
  \/ \E p \in Reapers, n \in Node, k \in Tid, r \in Run : Replay(p, n, k, r)
  \/ \E p \in Reapers : ReplaySettled(p)
  \/ \E p \in Routers : RouterStep(p) \/ Crash(p)
  \/ \E o \in Operators : DispatchHook(o) \/ Crash(o) \/ Cancel(o)
  \/ \E o \in Operators, n \in Node : Skip(o, n) \/ Approve(o, n) \/ Reject(o, n)
  \/ \E o \in Operators, S \in SUBSET Node : Resume(o, S)
  \/ \E n \in Node, k \in Tid : Requeue(n, k)

Spec == Init /\ [][Next]_vars

(* Targets end or are reaped, monitors resolve and route, reapers replay.  *)
(* A call on a graph goes on to its hook; operators need not make one.     *)
Fairness ==
  /\ WF_vars(Start)
  /\ \A m \in Monitors, n \in Node, k \in Tid :
       WF_vars(\E out \in {"ok", "fail"} : Resolve(m, n, k, out))
  /\ \A p \in Reapers :
       WF_vars((\E n \in Node, k \in Tid, r \in Run : Replay(p, n, k, r))
               \/ ReplaySettled(p))
  /\ \A p \in Proc : WF_vars(RouterStep(p))

FairSpec == Spec /\ Fairness
-----------------------------------------------------------------------------
(* Properties.                                                             *)

(* A node with a task is never ahead of its dependencies: they have        *)
(* succeeded or been skipped, and a resume that takes one of them back     *)
(* takes its dependents back too (_rerun_closure).                         *)
DependenciesHold ==
  \A n \in Node : node[n].task # 0 => BlockedBy(n) = {}

(* One generation of a node has one task, however often its completions    *)
(* and its dependencies' are delivered or replayed.                        *)
OneTaskPerGeneration ==
  \A n \in Node : \A j, k \in Made(n) : task[n][j].gen = task[n][k].gen => j = k

(* One generation of a node takes effect once: of all the runs of its      *)
(* tasks, retries, stragglers and requeues included, one at most publishes. *)
EffectOncePerGeneration ==
  \A n \in Node, j, k \in Tid, q, r \in Run :
    /\ task[n][k].published[r] <= 1
    /\ /\ task[n][j].gen = task[n][k].gen
       /\ task[n][j].published[q] > 0 /\ task[n][k].published[r] > 0
       => j = k /\ q = r

(* A receipt is the work of the task the node is bound to, so a resume     *)
(* never keeps one of the generation it replaced.                          *)
ReceiptsAreCurrent == \A n \in Node : node[n].receipt \in {0, node[n].task}

(* A node tells what its own task did, never what a superseded one did. *)
NodesTellTheTruth ==
  \A n \in Node :
    /\ node[n].status = "SUCCEEDED" =>
         \E r \in Run : task[n][node[n].task].out[r] = "ok"
    /\ node[n].status = "FAILED" =>
         \E r \in Run : task[n][node[n].task].out[r] = "fail"

(* A gated node runs only in a generation somebody has approved it in. *)
GateHolds ==
  \A n \in Gated : \A k \in Made(n) : <<n, task[n][k].gen>> \in approved

(* The graph is over only when it is quiescent, with the outcome its nodes *)
(* add up to (docs/workflows.md:229).                                      *)
SettlementIsTrue ==
  status \in {"SUCCEEDED", "FAILED", "WAITING_APPROVAL"} =>
    /\ ~Has(node, "RUNNING")
    /\ \A n \in Node : node[n].status = "PENDING" => BlockedBy(n) # {}
    /\ status = "FAILED" <=> Has(node, "FAILED")
    /\ status = "SUCCEEDED" => \A n \in Node : node[n].status \in Satisfied

(* Every generation but a live one has its outcome in the outbox, once,    *)
(* and a hook is queued only from there and only once, so a crash after    *)
(* the settlement or a resume in between loses and repeats nothing         *)
(* (QraftGraphSettlement).                                                 *)
OutboxIsComplete ==
  /\ \A e, f \in outbox : e.gen = f.gen => e = f
  /\ \A g \in Gen :
       (\E e \in outbox : e.gen = g) <=> (g < gen \/ (g = gen /\ status \in Terminal))
  /\ \A g \in Gen : hooks[g] > 0 => hooks[g] = 1 /\ \E e \in outbox : e.gen = g

(* A running graph always has somebody to wait for: a node whose task is   *)
(* open, or whose completion will be handled or replayed, unless a reaper  *)
(* died between a committed resolution and its on_commit                   *)
(* (docs/architecture.md:223).                                             *)
Owed(n) ==
  /\ node[n].status = "RUNNING"
  /\ \/ IsOpen(n, node[n].task)
     \/ \E r \in Run : /\ task[n][node[n].task].out[r] \in {"ok", "fail"}
                       /\ r \notin task[n][node[n].task].routed
     \/ \E p \in Routers : /\ proc[p].pc = "committed"
                           /\ proc[p].node = n /\ proc[p].task = node[n].task
     \/ n \in lost

NothingStranded == status = "RUNNING" => \E n \in Node : Owed(n)

(* What runs has been allowed to, by its dependencies and by its gate. *)
RunsInOrder == TypeOK /\ DependenciesHold /\ GateHolds

(* Whatever is delivered twice, retried, requeued or left over from an     *)
(* earlier generation counts once.                                         *)
OncePerGeneration == OneTaskPerGeneration /\ EffectOncePerGeneration /\ ReceiptsAreCurrent

(* What the graph's rows say is what happened, and what has still to be    *)
(* said is written down.                                                   *)
GraphTellsTheTruth ==
  NodesTellTheTruth /\ SettlementIsTrue /\ OutboxIsComplete /\ NothingStranded

(* A running graph settles or parks at a gate, whatever crashes, with that *)
(* exception.                                                              *)
GraphMoves == status = "RUNNING" ~> (status # "RUNNING" \/ lost # {})

(* Every settlement is announced in the end, the ones a resume makes and   *)
(* the ones a process died after included (replay_settled_hooks).          *)
SettlementsAnnounced ==
  \A g \in Gen : (\E e \in outbox : e.gen = g) ~> hooks[g] > 0

Contract == INSTANCE GraphContract
              WITH phase <- IF status \in Live THEN "live" ELSE status,
                   outcomes <- outbox,
                   announced <- {g \in Gen : hooks[g] > 0}

(* The graph implements its contract. *)
KeepsContract == Contract!Spec

(* There is no race between a resume and a straggler (docs/workflows.md:   *)
(* 258): when a settled graph is resumed, none of its nodes' tasks is      *)
(* still at work.                                                          *)
ResumeFindsQuiet ==
  [][gen' > gen => \A n \in Node : \A k \in Made(n) : ~IsOpen(n, k)]_vars
=============================================================================
