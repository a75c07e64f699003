------------------------------ MODULE Retention ------------------------------
(***************************************************************************)
(* The retention sweep (retention.py) beside everything that revives a     *)
(* settled row while it runs: requeue, resume of a chain or of a graph.    *)
(*                                                                         *)
(* There is one graph; a workflow or task may belong to it, and a task to  *)
(* a workflow.  A row is LIVE, NEW (settled within the window), OLD        *)
(* (settled before the cutoff of the sweep) or GONE.  A pass selects ids   *)
(* in one statement and deletes in another; the lists of open graphs and   *)
(* live workflows are read before and used later.                          *)
(***************************************************************************)
EXTENDS Integers, FiniteSets

CONSTANTS
  Tasks, Workflows,   \* rows
  Chains,             \* workflows that can be resumed
  Owner,              \* task -> its workflow, or "none"
  InGraph,            \* tasks and workflows that belong to the graph
  MaxGeneration,      \* bound: generations of the graph
  MaxUpsets           \* bound: requeues, resumes of a chain, deaths of the sweeper

RetentionAssumption ==
  /\ Chains \subseteq Workflows
  /\ Owner \in [Tasks -> Workflows \cup {"none"}]
  /\ InGraph \subseteq Tasks \cup Workflows
  /\ MaxGeneration \in Nat \ {0} /\ MaxUpsets \in Nat

VARIABLES
  task,         \* QraftTask rows
  workflow,     \* chain, iter and batch rows
  graph,        \* the graph's row ...
  generation,   \* ... and its generation
  settlements,  \* generations with a QraftGraphSettlement row
  dispatch,     \* generation -> the WorkflowHookDispatch row of its settled hook
  sweep,        \* how far the sweep is, and what it has read
  fired,        \* history: generation -> times its hook was queued
  reopened,     \* history: what was resumed since the sweep began
  lost,         \* history: rows deleted while they were live, ...
  bereft,       \* ... members deleted while their workflow or graph was open ...
  unheard,      \* ... and generations deleted before their hook was queued
  upsets

vars == <<task, workflow, graph, generation, settlements, dispatch, sweep,
          fired, reopened, lost, bereft, unheard, upsets>>
rows == <<task, workflow, graph, generation, settlements, dispatch>>
history == <<fired, reopened, lost, bereft, unheard, upsets>>

Row == {"LIVE", "NEW", "OLD", "GONE"}
Generations == 1..MaxGeneration
Phases == <<"off", "workflows", "live", "tasks", "graph", "hooks">>

TypeOK ==
  /\ task \in [Tasks -> Row] /\ workflow \in [Workflows -> Row] /\ graph \in Row
  /\ generation \in Generations /\ settlements \subseteq Generations
  /\ dispatch \in [Generations -> {"NONE"} \cup Row]
  /\ sweep \in [at: {Phases[i] : i \in DOMAIN Phases}, open: BOOLEAN,
                live: SUBSET Workflows,
                picked: SUBSET (Tasks \cup Workflows \cup {"graph"})]
  /\ fired \in [Generations -> Nat]
  /\ reopened \subseteq Workflows \cup {"graph"}
  /\ lost \subseteq Tasks \cup {"graph"} /\ bereft \subseteq Tasks
  /\ unheard \subseteq Generations
  /\ upsets \in 0..MaxUpsets

Init ==
  /\ task = [t \in Tasks |-> "LIVE"] /\ workflow = [w \in Workflows |-> "LIVE"]
  /\ graph = "LIVE" /\ generation = 1 /\ settlements = {}
  /\ dispatch = [g \in Generations |-> "NONE"]
  /\ sweep = [at |-> "off", open |-> FALSE, live |-> {}, picked |-> {}]
  /\ fired = [g \in Generations |-> 0]
  /\ reopened = {} /\ lost = {} /\ bereft = {} /\ unheard = {} /\ upsets = 0
-----------------------------------------------------------------------------
Members(w) == {t \in Tasks : Owner[t] = w}
Settled(r) == r \in {"NEW", "OLD"}
Delivered(g) == dispatch[g] \notin {"NONE", "GONE"}

(* Tasks and workflows end ...                                             *)
Finish(t) ==
  /\ task[t] = "LIVE"
  /\ task' = [task EXCEPT ![t] = "NEW"]
  /\ UNCHANGED <<workflow, graph, generation, settlements, dispatch, sweep, history>>

(* ... a workflow perhaps before its members, when it fails or is          *)
(* cancelled.                                                              *)
EndWorkflow(w) ==
  /\ workflow[w] = "LIVE"
  /\ workflow' = [workflow EXCEPT ![w] = "NEW"]
  /\ UNCHANGED <<task, graph, generation, settlements, dispatch, sweep, history>>

(* The graph settles with its settlement in the outbox; cancel() does not  *)
(* wait for its members.                                                   *)
EndGraph ==
  /\ graph = "LIVE"
  /\ graph' = "NEW" /\ settlements' = settlements \cup {generation}
  /\ UNCHANGED <<task, workflow, generation, dispatch, sweep, history>>

(* The settled hook of a generation is queued behind its dispatch row, at  *)
(* once or by replay_settled_hooks.                                        *)
Dispatch(g) ==
  /\ g \in settlements /\ ~Delivered(g)
  /\ dispatch' = [dispatch EXCEPT ![g] = "NEW"]
  /\ fired' = [fired EXCEPT ![g] = @ + 1]
  /\ UNCHANGED <<task, workflow, graph, generation, settlements, sweep,
                 reopened, lost, bereft, unheard, upsets>>

(* requeue revives a dead task ...                                         *)
Requeue(t) ==
  /\ Settled(task[t]) /\ upsets < MaxUpsets
  /\ task' = [task EXCEPT ![t] = "LIVE"]
  /\ upsets' = upsets + 1
  /\ UNCHANGED <<workflow, graph, generation, settlements, dispatch, sweep,
                 fired, reopened, lost, bereft, unheard>>

(* ... resume a chain, whose earlier steps keep their tasks ...            *)
ResumeChain(w) ==
  /\ w \in Chains /\ Settled(workflow[w]) /\ upsets < MaxUpsets
  /\ workflow' = [workflow EXCEPT ![w] = "LIVE"]
  /\ reopened' = reopened \cup {w} /\ upsets' = upsets + 1
  /\ UNCHANGED <<task, graph, generation, settlements, dispatch, sweep,
                 fired, lost, bereft, unheard>>

(* ... and graphs.resume a graph, which keeps the nodes it does not rerun. *)
ResumeGraph ==
  /\ Settled(graph) /\ generation < MaxGeneration
  /\ graph' = "LIVE" /\ generation' = generation + 1
  /\ settlements' = settlements \cup {generation}
  /\ reopened' = reopened \cup {"graph"}
  /\ UNCHANGED <<task, workflow, dispatch, sweep, fired, lost, bereft, unheard, upsets>>

Aged(r) == IF r = "NEW" THEN "OLD" ELSE r

(* Time passes between two sweeps: the cutoff moves past settled rows.     *)
Age ==
  /\ sweep.at = "off"
  /\ task' = [t \in Tasks |-> Aged(task[t])]
  /\ workflow' = [w \in Workflows |-> Aged(workflow[w])]
  /\ graph' = Aged(graph)
  /\ dispatch' = [g \in Generations |-> Aged(dispatch[g])]
  /\ UNCHANGED <<generation, settlements, sweep, history>>
  /\ rows' # rows
-----------------------------------------------------------------------------
(* The sweep.                                                              *)

At(phase) == sweep.at = phase
To(phase) == [sweep EXCEPT !.at = phase, !.picked = {}]

(* It begins by reading which graphs are open.                             *)
Sweep ==
  /\ At("off")
  /\ sweep' = [at |-> "workflows", open |-> graph = "LIVE", live |-> {}, picked |-> {}]
  /\ reopened' = {}
  /\ UNCHANGED <<rows, fired, lost, bereft, unheard, upsets>>

(* Mutant: a workflow does not wait for its members.                       *)
PrunableWorkflowAny(w) == workflow[w] = "OLD" /\ ~(w \in InGraph /\ sweep.open)
(* Mutant: membership of the graph is left to the task pass.               *)
PrunableWorkflowAlone(w) ==
  workflow[w] = "OLD" /\ \A t \in Members(w) : task[t] # "LIVE"

(* An old settled workflow may go when no member is live, unless it is in  *)
(* a graph that was open.                                                  *)
PrunableWorkflow(w) ==
  /\ workflow[w] = "OLD"
  /\ \A t \in Members(w) : task[t] # "LIVE"
  /\ ~(w \in InGraph /\ sweep.open)

(* Mutant: a task goes although its workflow is live.                      *)
PrunableTaskAny(t) == task[t] = "OLD" /\ ~(t \in InGraph /\ sweep.open)

(* An old settled task may go, unless its workflow was live or its graph   *)
(* was open.                                                               *)
PrunableTask(t) ==
  /\ task[t] = "OLD"
  /\ Owner[t] \notin sweep.live
  /\ ~(t \in InGraph /\ sweep.open)

(* Mutant: a graph goes although a settlement is pending.                  *)
PrunableGraphAny == graph = "OLD" /\ \A t \in InGraph \cap Tasks : task[t] # "LIVE"
(* Mutant: a settlement counts as delivered only with the current          *)
(* generation.                                                             *)
PrunableGraphCurrent ==
  /\ PrunableGraphAny
  /\ \A g \in settlements : g = generation /\ Delivered(g)

(* The old settled graph may go when no member is live and the hook of     *)
(* every settlement has been queued.                                       *)
PrunableGraph ==
  /\ graph = "OLD"
  /\ \A t \in InGraph \cap Tasks : task[t] # "LIVE"
  /\ \A g \in settlements : Delivered(g)

(* Mutant: dispatch rows of graphs go with the others.                     *)
PrunableDispatchAny(g) == dispatch[g] = "OLD"

(* A dispatch row stays for as long as its graph does.                     *)
PrunableDispatch(g) == dispatch[g] = "OLD" /\ graph = "GONE"

Prunable ==
  CASE At("workflows") -> {w \in Workflows : PrunableWorkflow(w)}
    [] At("tasks") -> {t \in Tasks : PrunableTask(t)}
    [] At("graph") -> IF PrunableGraph THEN {"graph"} ELSE {}
    [] OTHER -> {}

(* _delete_in_batches: a batch of ids is selected ...                      *)
Select ==
  /\ sweep.picked = {}
  /\ \E ids \in SUBSET Prunable \ {{}} : sweep' = [sweep EXCEPT !.picked = ids]
  /\ UNCHANGED <<rows, history>>

(* Mutant: the delete goes by the ids alone. *)
DeletedPicked == sweep.picked

(* ... and deleted through the same filter. *)
Deleted == sweep.picked \cap Prunable

DeletedTasks ==
  CASE At("workflows") -> {t \in Tasks : Owner[t] \in Deleted \ Chains /\ task[t] # "GONE"}
    [] At("tasks") -> Deleted
    [] OTHER -> {}

(* The members of an iter or batch, and the settlements of a graph, go     *)
(* with it; a chain's tasks stay.                                          *)
Delete ==
  /\ sweep.picked # {}
  /\ task' = [t \in Tasks |-> IF t \in DeletedTasks THEN "GONE" ELSE task[t]]
  /\ workflow' = [w \in Workflows |->
       IF At("workflows") /\ w \in Deleted THEN "GONE" ELSE workflow[w]]
  /\ LET graphGoes == At("graph") /\ Deleted # {} IN
       /\ graph' = IF graphGoes THEN "GONE" ELSE graph
       /\ settlements' = IF graphGoes THEN {} ELSE settlements
       /\ unheard' = IF graphGoes THEN unheard \cup {g \in settlements : fired[g] = 0}
                     ELSE unheard
       /\ lost' = lost \cup {t \in DeletedTasks : task[t] = "LIVE"}
                       \cup (IF graphGoes /\ graph = "LIVE" THEN {"graph"} ELSE {})
  /\ bereft' = bereft \cup
       {t \in DeletedTasks :
          \/ Owner[t] \in Workflows /\ workflow[Owner[t]] = "LIVE" /\ Owner[t] \notin reopened
          \/ t \in InGraph /\ graph = "LIVE" /\ "graph" \notin reopened}
  /\ sweep' = [sweep EXCEPT !.picked = {}]
  /\ UNCHANGED <<generation, dispatch, fired, reopened, upsets>>

(* The next pass, when nothing is left to select; before the task pass the *)
(* live workflows are read.                                                *)
Advance ==
  /\ ~At("off") /\ ~At("hooks") /\ sweep.picked = {} /\ Prunable = {}
  /\ sweep' = CASE At("workflows") -> To("live")
                [] At("live") -> [To("tasks") EXCEPT
                                    !.live = {w \in Workflows : workflow[w] = "LIVE"}]
                [] At("tasks") -> To("graph")
                [] At("graph") -> To("hooks")
  /\ UNCHANGED <<rows, history>>

(* The last pass: dispatch rows, which nothing can revive.                 *)
PruneDispatches ==
  /\ At("hooks")
  /\ dispatch' = [g \in Generations |-> IF PrunableDispatch(g) THEN "GONE" ELSE dispatch[g]]
  /\ sweep' = To("off")
  /\ UNCHANGED <<task, workflow, graph, generation, settlements, history>>

(* The thread that sweeps dies with its process. *)
Stop ==
  /\ ~At("off") /\ upsets < MaxUpsets
  /\ sweep' = To("off") /\ upsets' = upsets + 1
  /\ UNCHANGED <<rows, fired, reopened, lost, bereft, unheard>>
-----------------------------------------------------------------------------
Sweeper == Sweep \/ Select \/ Delete \/ Advance \/ PruneDispatches

Next ==
  \/ \E t \in Tasks : Finish(t) \/ Requeue(t)
  \/ \E w \in Workflows : EndWorkflow(w) \/ ResumeChain(w)
  \/ EndGraph \/ ResumeGraph \/ (\E g \in Generations : Dispatch(g))
  \/ Age \/ Sweeper \/ Stop

Spec == Init /\ [][Next]_vars

(* Tasks end, time passes between sweeps, sweeps are repeated and carried  *)
(* through, and replay_settled_hooks is called.                            *)
Fairness ==
  /\ \A t \in Tasks : WF_vars(Finish(t))
  /\ \A g \in Generations : WF_vars(Dispatch(g))
  /\ SF_vars(Age) /\ WF_vars(Sweeper)

FairSpec == Spec /\ Fairness
-----------------------------------------------------------------------------
(* Properties.                                                             *)

(* Only settled rows are deleted: no requeue and no resume that comes      *)
(* while a sweep is under way loses live work (_delete_in_batches).        *)
NoLiveWorkDeleted == lost = {}

(* A member is kept while its workflow is live or its graph open, unless   *)
(* that was reopened after the sweep had begun (sweep_retention,           *)
(* _live_workflow_ids, _open_graph_ids).                                   *)
MembersAreKept == bereft = {}

(* No graph is deleted before the settled hook of each of its generations  *)
(* has been queued, and none of them is queued twice, however long its     *)
(* dispatch row would have been kept (pending_settlements, delivered).     *)
SettlementsOutlive == unheard = {} /\ \A g \in Generations : fired[g] <= 1

(* What a sweep deletes beside everything that revives it is dead, needed  *)
(* by nobody and announced.                                                *)
SweepIsSafe == NoLiveWorkDeleted /\ MembersAreKept /\ SettlementsOutlive

(* A graph that stays settled, its members too, is pruned in the end, and  *)
(* so are the dispatch rows of its hooks (sweep_retention).                *)
PrunedInTheEnd ==
  /\ []<>~Settled(graph)
  /\ <>[](graph = "GONE") => <>(\A g \in Generations : dispatch[g] \in {"NONE", "GONE"})
=============================================================================
