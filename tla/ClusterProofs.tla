---------------------------- MODULE ClusterProofs ----------------------------
(***************************************************************************)
(* Theorems about the lanes and the sweep of Cluster, for any messages,    *)
(* clusters, callers, pushers and rows, and any bounds.                    *)
(***************************************************************************)
EXTENDS Cluster, Sequences, FiniteSetTheorems, TLAPS

(***************************************************************************)
(* The sweep is safe for any rows, any number of resumes, requeues and     *)
(* deaths of the sweeper, as long as the members of an iteration or batch  *)
(* that is in the graph are in it too (tasks.workflow_member_labels).      *)
(*                                                                         *)
(* The delete looks at each row again through the filter of the select, so *)
(* the row itself is settled when it goes.  What the delete does not look  *)
(* at again are the two lists read earlier: that their staleness only      *)
(* concerns what was resumed meanwhile takes an invariant, and so does     *)
(* that a dispatch row outlives the settlements it stands for.             *)
(***************************************************************************)
MembersShareTheGraph ==
  \A t \in Tasks :
    t \in InGraph /\ Owner[t] \in Workflows \ Chains => Owner[t] \in InGraph

(* The lists are out of date only about what was reopened.                 *)
ListsInv ==
  /\ sweep.at # "off" /\ graph = "LIVE" /\ "graph" \notin reopened => sweep.open
  /\ sweep.at = "tasks" =>
       \A w \in Workflows : workflow[w] = "LIVE" /\ w \notin reopened => w \in sweep.live

(* A dispatch row stands for one hook, and goes after the graph, which     *)
(* takes its settlements along.                                            *)
HooksInv ==
  /\ \A g \in Generations : fired[g] = IF dispatch[g] = "NONE" THEN 0 ELSE 1
  /\ \A g \in Generations : dispatch[g] = "GONE" => graph = "GONE"
  /\ graph = "GONE" => settlements = {}

RowsTyped == TypeOK /\ lost = {} /\ bereft = {} /\ unheard = {}

SweepInv == RowsTyped /\ ListsInv /\ HooksInv
-----------------------------------------------------------------------------
LEMMA PhasesAre ==
  {Phases[i] : i \in DOMAIN Phases} = {"off", "workflows", "live", "tasks", "graph",
                                       "hooks"}
<1>1. DOMAIN Phases = 1..6
  BY DEF Phases
<1> QED
  BY <1>1 DEF Phases

LEMMA UpsetsGrow ==
  ASSUME RetentionAssumption, upsets \in 0..MaxUpsets, upsets < MaxUpsets
  PROVE  upsets + 1 \in 0..MaxUpsets
BY DEF RetentionAssumption

LEMMA SweepStarts ==
  ASSUME RetentionAssumption, Init
  PROVE  SweepInv
<1>1. 1 \in Generations
  BY DEF Generations, RetentionAssumption
<1>2. RowsTyped
  <2>1. sweep \in [at: {Phases[i] : i \in DOMAIN Phases}, open: BOOLEAN,
                 live: SUBSET Workflows,
                 picked: SUBSET (Tasks \cup Workflows \cup {"graph"})]
    BY PhasesAre DEF Init
  <2>2. upsets \in 0..MaxUpsets
    BY DEF Init, RetentionAssumption
  <2> QED
    BY <1>1, <2>1, <2>2 DEF Init, RowsTyped, TypeOK, Row
<1>3. ListsInv /\ HooksInv
  BY DEF Init, ListsInv, HooksInv
<1> QED
  BY <1>2, <1>3 DEF SweepInv

(* What goes beside the sweep. *)
LEMMA OthersKeep ==
  ASSUME RetentionAssumption, SweepInv,
         \/ \E t \in Tasks : Finish(t) \/ Requeue(t)
         \/ \E w \in Workflows : EndWorkflow(w) \/ ResumeChain(w)
         \/ EndGraph \/ ResumeGraph
  PROVE  SweepInv'
<1> USE DEF SweepInv, history
<1>1. CASE \E t \in Tasks : Finish(t) \/ Requeue(t)
  BY <1>1, UpsetsGrow DEF Finish, Requeue, RowsTyped, TypeOK, Row, ListsInv, HooksInv
<1>2. CASE \E w \in Workflows : EndWorkflow(w)
  BY <1>2 DEF EndWorkflow, RowsTyped, TypeOK, Row, ListsInv, HooksInv
<1>3. CASE \E w \in Workflows : ResumeChain(w)
  <2>1. upsets' \in 0..MaxUpsets
    BY <1>3, UpsetsGrow DEF ResumeChain, RowsTyped, TypeOK
  <2>2. RowsTyped'
    BY <1>3, <2>1 DEF ResumeChain, RowsTyped, TypeOK, Row
  <2>3. ListsInv' /\ HooksInv'
    BY <1>3 DEF ResumeChain, RowsTyped, TypeOK, ListsInv, HooksInv
  <2> QED
    BY <2>2, <2>3
<1>4. CASE EndGraph
  BY <1>4 DEF EndGraph, RowsTyped, TypeOK, Row, ListsInv, HooksInv
<1>5. CASE ResumeGraph
  <2>1. graph # "GONE" /\ graph' = "LIVE" /\ "graph" \in reopened'
    BY <1>5 DEF ResumeGraph, Settled
  <2>2. generation' \in Generations /\ settlements' \subseteq Generations
    BY <1>5 DEF ResumeGraph, RowsTyped, TypeOK, Generations, RetentionAssumption
  <2>3. RowsTyped'
    BY <1>5, <2>1, <2>2 DEF ResumeGraph, RowsTyped, TypeOK, Row
  <2>4. ListsInv' /\ HooksInv'
    BY <1>5, <2>1 DEF ResumeGraph, ListsInv, HooksInv
  <2> QED
    BY <2>3, <2>4
<1> QED
  BY <1>1, <1>2, <1>3, <1>4, <1>5

(* A settlement is dispatched once: its row is not gone while it is there. *)
LEMMA DispatchKeeps ==
  ASSUME SweepInv, NEW g \in Generations, Dispatch(g)
  PROVE  SweepInv'
<1> USE DEF SweepInv
<1>1. graph # "GONE" /\ dispatch[g] = "NONE"
  BY DEF Dispatch, Delivered, HooksInv, RowsTyped, TypeOK, Row
<1>2. fired[g] = 0
  BY <1>1 DEF HooksInv
<1>3. RowsTyped'
  BY DEF Dispatch, RowsTyped, TypeOK, Row
<1>4. HooksInv'
  BY <1>1, <1>2 DEF Dispatch, HooksInv, RowsTyped, TypeOK
<1>5. ListsInv'
  BY DEF Dispatch, ListsInv
<1> QED
  BY <1>3, <1>4, <1>5

LEMMA AgeingKeeps ==
  ASSUME SweepInv, Age
  PROVE  SweepInv'
<1> USE DEF SweepInv, history
<1>1. RowsTyped'
  BY DEF Age, Aged, RowsTyped, TypeOK, Row
<1>2. ListsInv'
  BY DEF Age, ListsInv
<1>3. HooksInv'
  BY DEF Age, Aged, HooksInv, RowsTyped, TypeOK, Row
<1> QED
  BY <1>1, <1>2, <1>3
-----------------------------------------------------------------------------
(* What the delete takes passes the filter when it goes. *)
LEMMA DeletedIsPrunable ==
  /\ sweep.at = "workflows" => \A w \in Deleted : w \in Workflows /\ PrunableWorkflow(w)
  /\ sweep.at = "tasks" => \A t \in Deleted : t \in Tasks /\ PrunableTask(t)
  /\ sweep.at = "graph" /\ Deleted # {} => PrunableGraph
<1>1. ASSUME sweep.at = "workflows" PROVE Prunable = {w \in Workflows : PrunableWorkflow(w)}
  BY <1>1 DEF Prunable, At
<1>2. ASSUME sweep.at = "tasks" PROVE Prunable = {t \in Tasks : PrunableTask(t)}
  BY <1>2 DEF Prunable, At
<1>3. ASSUME sweep.at = "graph" PROVE Prunable = IF PrunableGraph THEN {"graph"} ELSE {}
  BY <1>3 DEF Prunable, At
<1> QED
  BY <1>1, <1>2, <1>3 DEF Deleted

LEMMA DeletedTasksAre ==
  /\ DeletedTasks \subseteq Tasks
  /\ \A t \in DeletedTasks :
       \/ sweep.at = "workflows" /\ Owner[t] \in Deleted \ Chains
       \/ sweep.at = "tasks" /\ t \in Deleted
<1>1. ASSUME sweep.at = "workflows"
      PROVE  DeletedTasks = {t \in Tasks : Owner[t] \in Deleted \ Chains
                             /\ task[t] # "GONE"}
  BY <1>1 DEF DeletedTasks, At
<1>2. ASSUME sweep.at = "tasks" PROVE DeletedTasks = Deleted
  BY <1>2 DEF DeletedTasks, At
<1>3. ASSUME sweep.at \notin {"workflows", "tasks"} PROVE DeletedTasks = {}
  BY <1>3 DEF DeletedTasks, At
<1> QED
  BY <1>1, <1>2, <1>3, DeletedIsPrunable

LEMMA DeleteKeeps ==
  ASSUME RetentionAssumption, MembersShareTheGraph, SweepInv, Delete
  PROVE  SweepInv'
<1> USE DEF SweepInv
<1>1. \A t \in DeletedTasks : task[t] # "LIVE"
  BY DeletedTasksAre, DeletedIsPrunable DEF PrunableWorkflow, PrunableTask, Members
<1>2. \A t \in DeletedTasks :
        /\ ~(Owner[t] \in Workflows /\ workflow[Owner[t]] = "LIVE"
             /\ Owner[t] \notin reopened)
        /\ ~(t \in InGraph /\ graph = "LIVE" /\ "graph" \notin reopened)
  <2> SUFFICES ASSUME NEW t \in DeletedTasks
      PROVE  /\ ~(Owner[t] \in Workflows /\ workflow[Owner[t]] = "LIVE"
                  /\ Owner[t] \notin reopened)
             /\ ~(t \in InGraph /\ graph = "LIVE" /\ "graph" \notin reopened)
    OBVIOUS
  <2>1. CASE sweep.at = "workflows"
    <3>1. Owner[t] \in Deleted \ Chains /\ PrunableWorkflow(Owner[t])
          /\ Owner[t] \in Workflows
      BY <2>1, DeletedTasksAre, DeletedIsPrunable
    <3>2. t \in InGraph => Owner[t] \in InGraph
      BY <3>1, DeletedTasksAre DEF MembersShareTheGraph
    <3> QED
      BY <2>1, <3>1, <3>2 DEF PrunableWorkflow, ListsInv
  <2>2. CASE sweep.at = "tasks"
    <3>1. PrunableTask(t)
      BY <2>2, DeletedTasksAre, DeletedIsPrunable
    <3> QED
      BY <2>2, <3>1 DEF PrunableTask, ListsInv
  <2> QED
    BY <2>1, <2>2, DeletedTasksAre
<1>3. At("graph") /\ Deleted # {} =>
        graph = "OLD" /\ \A g \in settlements : fired[g] # 0
  <2> SUFFICES ASSUME At("graph") /\ Deleted # {}
      PROVE  graph = "OLD" /\ \A g \in settlements : fired[g] # 0
    OBVIOUS
  <2>1. PrunableGraph
    BY DeletedIsPrunable DEF At
  <2> QED
    BY <2>1 DEF PrunableGraph, Delivered, HooksInv, RowsTyped, TypeOK
<1>4. /\ graph' = IF At("graph") /\ Deleted # {} THEN "GONE" ELSE graph
      /\ settlements' = IF At("graph") /\ Deleted # {} THEN {} ELSE settlements
      /\ lost' = {} /\ bereft' = {} /\ unheard' = {}
  BY <1>1, <1>2, <1>3 DEF Delete, RowsTyped, TypeOK
<1>5. /\ task' \in [Tasks -> Row] /\ workflow' \in [Workflows -> Row]
      /\ \A w \in Workflows : workflow'[w] = "LIVE" => workflow[w] = "LIVE"
  BY DEF Delete, RowsTyped, TypeOK, Row
<1>6. /\ generation' = generation /\ dispatch' = dispatch /\ fired' = fired
      /\ reopened' = reopened /\ sweep' = [sweep EXCEPT !.picked = {}] /\ upsets' = upsets
  BY DEF Delete
<1>7. RowsTyped'
  BY <1>4, <1>5, <1>6 DEF RowsTyped, TypeOK, Row
<1>8. ListsInv'
  BY <1>3, <1>4, <1>5, <1>6 DEF ListsInv, RowsTyped, TypeOK
<1>9. HooksInv'
  BY <1>4, <1>6 DEF HooksInv
<1> QED
  BY <1>7, <1>8, <1>9
-----------------------------------------------------------------------------
(* The other steps of the sweeper change no row but dispatch rows.         *)
LEMMA ReadingKeeps ==
  ASSUME RetentionAssumption, SweepInv, Sweep \/ Select \/ Stop
  PROVE  SweepInv'
<1> USE DEF SweepInv, rows, history
<1>1. CASE Sweep
  <2>1. sweep' \in [at: {Phases[i] : i \in DOMAIN Phases}, open: BOOLEAN,
                  live: SUBSET Workflows,
                  picked: SUBSET (Tasks \cup Workflows \cup {"graph"})]
    BY <1>1, PhasesAre DEF Sweep
  <2>2. RowsTyped'
    BY <1>1, <2>1 DEF Sweep, RowsTyped, TypeOK
  <2>3. ListsInv' /\ HooksInv'
    BY <1>1 DEF Sweep, ListsInv, HooksInv
  <2> QED
    BY <2>2, <2>3
<1>2. CASE Select
  <2>1. PICK ids \in SUBSET Prunable \ {{}} : sweep' = [sweep EXCEPT !.picked = ids]
    BY <1>2 DEF Select
  <2>2. Prunable \subseteq Tasks \cup Workflows \cup {"graph"}
    BY DEF Prunable
  <2>3. RowsTyped'
    BY <1>2, <2>1, <2>2 DEF Select, RowsTyped, TypeOK
  <2>4. ListsInv' /\ HooksInv'
    BY <1>2, <2>1 DEF Select, ListsInv, HooksInv, RowsTyped, TypeOK
  <2> QED
    BY <2>3, <2>4
<1>3. CASE Stop
  <2>1. sweep' \in [at: {Phases[i] : i \in DOMAIN Phases}, open: BOOLEAN,
                  live: SUBSET Workflows,
                  picked: SUBSET (Tasks \cup Workflows \cup {"graph"})]
    BY <1>3, PhasesAre DEF Stop, To, RowsTyped, TypeOK
  <2>2. upsets' \in 0..MaxUpsets
    BY <1>3, UpsetsGrow DEF Stop, RowsTyped, TypeOK
  <2>3. RowsTyped'
    BY <1>3, <2>1, <2>2 DEF Stop, RowsTyped, TypeOK
  <2>4. ListsInv' /\ HooksInv'
    BY <1>3 DEF Stop, To, ListsInv, HooksInv, RowsTyped, TypeOK
  <2> QED
    BY <2>3, <2>4
<1> QED
  BY <1>1, <1>2, <1>3

(* The live workflows are read as the task pass begins.                    *)
LEMMA AdvanceKeeps ==
  ASSUME RetentionAssumption, SweepInv, Advance
  PROVE  SweepInv'
<1> USE DEF SweepInv, rows, history
<1> DEFINE live == {w \in Workflows : workflow[w] = "LIVE"}
<1>1. \/ sweep.at = "workflows" /\ sweep' = [sweep EXCEPT !.at = "live", !.picked = {}]
      \/ sweep.at = "live"
         /\ sweep' = [sweep EXCEPT !.at = "tasks", !.picked = {}, !.live = live]
      \/ sweep.at = "tasks" /\ sweep' = [sweep EXCEPT !.at = "graph", !.picked = {}]
      \/ sweep.at = "graph" /\ sweep' = [sweep EXCEPT !.at = "hooks", !.picked = {}]
  <2>1. sweep.at \in {"workflows", "live", "tasks", "graph"}
    BY DEF Advance, At, RowsTyped, TypeOK, Phases
  <2> QED
    BY <2>1 DEF Advance, At, To, RowsTyped, TypeOK
<1>2. UNCHANGED <<task, workflow, graph, generation, settlements, dispatch, fired,
                  reopened, lost, bereft, unheard, upsets>>
  BY DEF Advance
<1>3. RowsTyped'
  <2>1. sweep' \in [at: {Phases[i] : i \in DOMAIN Phases}, open: BOOLEAN,
                  live: SUBSET Workflows,
                  picked: SUBSET (Tasks \cup Workflows \cup {"graph"})]
    <3>1. live \in SUBSET Workflows
      OBVIOUS
    <3> HIDE DEF live
    <3> QED
      BY <1>1, <3>1, PhasesAre DEF RowsTyped, TypeOK
  <2> QED
    BY <1>2, <2>1 DEF RowsTyped, TypeOK
<1>4. HooksInv'
  BY <1>2 DEF HooksInv
<1>5. /\ sweep.at # "off" /\ sweep'.open = sweep.open
      /\ sweep'.at = "tasks" => sweep'.live = live
  <2> HIDE DEF live
  <2> QED
    BY <1>1 DEF RowsTyped, TypeOK
<1>6. ListsInv'
  BY <1>2, <1>5 DEF ListsInv
<1> QED
  BY <1>3, <1>4, <1>6

LEMMA PruneKeeps ==
  ASSUME SweepInv, PruneDispatches
  PROVE  SweepInv'
<1> USE DEF SweepInv, history
<1>1. sweep' = [sweep EXCEPT !.at = "off", !.picked = {}]
  BY DEF PruneDispatches, To
<1>2. dispatch' = [g \in Generations |-> IF PrunableDispatch(g) THEN "GONE" ELSE dispatch[g]]
  BY DEF PruneDispatches
<1>3. UNCHANGED <<task, workflow, graph, generation, settlements, fired, reopened,
                  lost, bereft, unheard, upsets>>
  BY DEF PruneDispatches
<1>4. RowsTyped'
  BY <1>1, <1>2, <1>3, PhasesAre DEF RowsTyped, TypeOK, Row
<1>5. ListsInv'
  BY <1>1, <1>3 DEF ListsInv, RowsTyped, TypeOK
<1>6. HooksInv'
  BY <1>2, <1>3 DEF HooksInv, PrunableDispatch
<1> QED
  BY <1>4, <1>5, <1>6

LEMMA SweepStepKeeps ==
  ASSUME RetentionAssumption, MembersShareTheGraph, SweepInv, [Next]_vars
  PROVE  SweepInv'
<1>1. CASE UNCHANGED vars
  BY <1>1 DEF vars, SweepInv, RowsTyped, TypeOK, ListsInv, HooksInv
<1>2. CASE Next
  BY <1>2, OthersKeep, DispatchKeeps, AgeingKeeps, ReadingKeeps, DeleteKeeps, AdvanceKeeps,
     PruneKeeps
     DEF Next, Sweeper
<1> QED
  BY <1>1, <1>2

(* No retention sweep deletes live work, a member of what is open, or a    *)
(* settlement nobody has been told of, and no settlement is told twice.    *)
THEOREM SweepsAreSafe ==
  ASSUME RetentionAssumption, MembersShareTheGraph
  PROVE  Spec => []SweepIsSafe
<1>1. Init => SweepInv
  BY SweepStarts
<1>2. SweepInv /\ [Next]_vars => SweepInv'
  BY SweepStepKeeps
<1>3. SweepInv => SweepIsSafe
  BY DEF SweepInv, RowsTyped, HooksInv, SweepIsSafe, NoLiveWorkDeleted, MembersAreKept,
         SettlementsOutlive
<1> QED
  BY <1>1, <1>2, <1>3, PTL DEF Spec
-----------------------------------------------------------------------------
(***************************************************************************)
(* The lanes, seen from the pushers.                                       *)
(*                                                                         *)
(* A message is where no pusher looks only if it was routed under another  *)
(* cluster's Conf; that is so because Conf is the process's own whenever   *)
(* no broker is being built.  A pusher leases the lock it read, and a lock *)
(* that has not changed since has run out; and the lanes a scan is past    *)
(* held nothing of what was ready when it began, unless it lost a race.    *)
(* How many rows a look takes does not matter, nor which requests come.    *)
(***************************************************************************)
Versions == Nat \cup {Poll!Gone}
RowIs(m) ==
  /\ l_row[m] = [cluster |-> l_row[m].cluster, lane |-> l_row[m].lane,
               version |-> l_row[m].version, ready |-> l_row[m].ready]
  /\ l_row[m].cluster \in Clusters /\ l_row[m].lane \in Poll!Priorities
  /\ l_row[m].version \in 0..MaxLeases /\ l_row[m].ready \in BOOLEAN
  /\ l_row[m].ready => l_row[m].version < MaxLeases
ScanIs(p) ==
  /\ l_scan[p] = [lane |-> l_scan[p].lane, batch |-> l_scan[p].batch, got |-> l_scan[p].got,
                lost |-> l_scan[p].lost]
  /\ l_scan[p].lane \in 0..Len(Poll!Lanes(Home[p]))
  /\ \E S \in SUBSET Messages : l_scan[p].batch \in [S -> Versions]
  /\ l_scan[p].got \subseteq Messages /\ l_scan[p].lost \in BOOLEAN
CallIs(t) ==
  \/ l_call[t] = Poll!Idle
  \/ /\ l_call[t] = [at |-> l_call[t].at, message |-> l_call[t].message,
                   cluster |-> l_call[t].cluster, lane |-> l_call[t].lane]
     /\ l_call[t].at \in {"routed", "building"}
     /\ l_call[t].message \in Messages \ Poll!Queued
     /\ l_call[t].cluster \in Clusters /\ l_call[t].lane \in Poll!Priorities

(* A message is on its way once, and its row has no second copy. *)
RowsInv ==
  /\ IsFiniteSet(Poll!Queued) /\ Poll!Queued \subseteq Messages
  /\ l_row = [m \in Poll!Queued |-> l_row[m]] /\ \A m \in Poll!Queued : RowIs(m)
  /\ l_conf \in Clusters /\ l_cache \subseteq Clusters \X Poll!Priorities
     /\ l_astray \subseteq Messages
CallsInv ==
  /\ DOMAIN l_call = Callers /\ \A t \in Callers : CallIs(t)
  /\ \A t, u \in Callers : l_call[t] # Poll!Idle /\ l_call[u] # Poll!Idle
     /\ l_call[t].message = l_call[u].message
       => t = u
ScansInv ==
  /\ DOMAIN l_scan = Pushers /\ \A p \in Pushers : ScanIs(p)
  /\ l_early \in [Pushers -> SUBSET Messages]

(* Conf is the process's own but while a broker is built, and what is      *)
(* routed then by cluster=None is astray.                                  *)
Drained(cluster, lane) == lane = "default" \/ cluster \in Draining
RoutesInv ==
  /\ Poll!Patched \/ l_conf = Own
  /\ \A t \in Callers : l_call[t] # Poll!Idle /\ l_call[t].message \notin l_astray =>
       Drained(l_call[t].cluster, l_call[t].lane)
  /\ \A m \in Poll!Queued \ l_astray : Drained(l_row[m].cluster, l_row[m].lane)

(* What a pusher has read of a row is true until the lock changes.         *)
Read(p, m, v) ==
  \/ v = Poll!Gone
  \/ /\ m \in Poll!Queued /\ v \in Nat /\ v <= l_row[m].version
     /\ l_row[m].cluster = Home[p] /\ l_row[m].lane = Poll!LaneAt(p, l_scan[p].lane)
     /\ v = l_row[m].version => l_row[m].ready
BatchInv ==
  \A p \in Pushers : \A m \in DOMAIN l_scan[p].batch :
    l_scan[p].lane > 0 /\ Read(p, m, l_scan[p].batch[m])

(* What was ready when a scan began and has not been leased is ready, and  *)
(* the lanes the scan is past held none of it, unless a race was lost.     *)
EarlyInv ==
  \A p \in Pushers : \A n \in l_early[p] :
    /\ Poll!Ready(n)
    /\ ~l_scan[p].lost /\ l_row[n].cluster = Home[p] =>
         \A j \in 1..(l_scan[p].lane - 1) : l_row[n].lane # Poll!LaneAt(p, j)

LanesInv == RowsInv /\ CallsInv /\ ScansInv /\ RoutesInv /\ BatchInv /\ EarlyInv

LEMMA LanesAre ==
  ASSUME NEW c
  PROVE  /\ Len(Poll!Lanes(c)) \in 1..3 /\ DOMAIN Poll!Lanes(c) = 1..Len(Poll!Lanes(c))
         /\ \A i \in 1..Len(Poll!Lanes(c)) : Poll!Lanes(c)[i] \in Poll!Priorities
         /\ \A i, j \in 1..Len(Poll!Lanes(c)) :
              Poll!Rank(Poll!Lanes(c)[i]) < Poll!Rank(Poll!Lanes(c)[j]) => i < j
<1>1. CASE c \in Draining
  BY <1>1 DEF Poll!Lanes, Poll!Priorities, Poll!Rank
<1>2. CASE c \notin Draining
  BY <1>2 DEF Poll!Lanes, Poll!Priorities, Poll!Rank
<1> QED
  BY <1>1, <1>2

LEMMA NextIs ==
  ASSUME NEW p \in Pushers, NEW i \in 1..Len(Poll!Lanes(Home[p]))
  PROVE  Poll!NextLane(p, i) \in 0..Len(Poll!Lanes(Home[p]))
         /\ Poll!NextLane(p, i) \in {0, i + 1}
BY LanesAre DEF Poll!NextLane

LEMMA MovedIs ==
  ASSUME NEW p \in Pushers, ScanIs(p), NEW i \in 0..Len(Poll!Lanes(Home[p]))
  PROVE  /\ i = 0 => Poll!Moved(p, i) = Poll!Asleep
         /\ i > 0 => Poll!Moved(p, i) = [lane |-> i, batch |-> <<>>, got |-> l_scan[p].got,
                                    lost |-> l_scan[p].lost]
<1>1. i \in Nat
  BY LanesAre
<1>2. PICK l, b, g, x : l_scan[p] = [lane |-> l, batch |-> b, got |-> g, lost |-> x]
  BY DEF ScanIs
<1>3. CASE i = 0
  BY <1>3 DEF Poll!Moved
<1>4. CASE i > 0
  <2>1. Poll!Moved(p, i) = [l_scan[p] EXCEPT !.lane = i, !.batch = <<>>]
    BY <1>1, <1>4 DEF Poll!Moved
  <2>2. [l_scan[p] EXCEPT !.lane = i] = [lane |-> i, batch |-> b, got |-> g, lost |-> x]
    BY <1>2
  <2>3. PICK e : e = <<>>
    OBVIOUS
  <2>4. [[lane |-> i, batch |-> b, got |-> g, lost |-> x] EXCEPT !.batch = e]
          = [lane |-> i, batch |-> e, got |-> g, lost |-> x]
    OBVIOUS
  <2>5. Poll!Moved(p, i) = [lane |-> i, batch |-> e, got |-> g, lost |-> x]
    BY <2>1, <2>2, <2>3, <2>4
  <2> QED
    BY <1>2, <1>4, <2>3, <2>5
<1> QED
  BY <1>1, <1>3, <1>4

(* Where a pusher is after a row of its batch: still at it, done, or at    *)
(* the next lane because it lost.                                          *)
LEMMA AfterIs ==
  ASSUME NEW p \in Pushers, ScanIs(p), l_scan[p].lane > 0, NEW rest, NEW got, NEW beaten
  PROVE  \/ Poll!After(p, rest, got, beaten) =
              [lane |-> l_scan[p].lane, batch |-> rest, got |-> got, lost |-> beaten]
         \/ Poll!After(p, rest, got, beaten) = Poll!Asleep
         \/ /\ l_scan[p].lane + 1 \in 1..Len(Poll!Lanes(Home[p]))
            /\ Poll!After(p, rest, got, beaten) =
                 [lane |-> l_scan[p].lane + 1, batch |-> <<>>, got |-> l_scan[p].got,
                  lost |-> TRUE]
<1> DEFINE i == l_scan[p].lane
           next == Poll!NextLane(p, i)
<1>1. i \in 1..Len(Poll!Lanes(Home[p])) /\ i \in Nat
  BY LanesAre DEF ScanIs
<1>2. next \in 0..Len(Poll!Lanes(Home[p])) /\ next \in {0, i + 1}
  BY <1>1, NextIs
<1>3. CASE rest # <<>>
  <2>1. PICK l, b, g, x : l_scan[p] = [lane |-> l, batch |-> b, got |-> g, lost |-> x]
    BY DEF ScanIs
  <2>2. Poll!After(p, rest, got, beaten) = [l_scan[p] EXCEPT !.batch = rest, !.got = got,
                                            !.lost = beaten]
    BY <1>3 DEF Poll!After
  <2>3. [l_scan[p] EXCEPT !.batch = rest] = [lane |-> l, batch |-> rest, got |-> g,
                                             lost |-> x]
    BY <2>1
  <2>4. [[lane |-> l, batch |-> rest, got |-> g, lost |-> x] EXCEPT !.got = got]
          = [lane |-> l, batch |-> rest, got |-> got, lost |-> x]
    OBVIOUS
  <2>5. [[lane |-> l, batch |-> rest, got |-> got, lost |-> x] EXCEPT !.lost = beaten]
          = [lane |-> l, batch |-> rest, got |-> got, lost |-> beaten]
    OBVIOUS
  <2> QED
    BY <2>1, <2>2, <2>3, <2>4, <2>5
<1>4. CASE rest = <<>> /\ got # {}
  BY <1>4 DEF Poll!After
<1>5. CASE rest = <<>> /\ got = {} /\ next = 0
  <2>1. Poll!Moved(p, next) = Poll!Asleep
    BY <1>5, <1>2, MovedIs
  <2>2. Poll!After(p, rest, got, beaten) = [Poll!Asleep EXCEPT !.lost = FALSE]
    BY <1>5, <2>1 DEF Poll!After
  <2> QED
    BY <2>2 DEF Poll!Asleep
<1>6. CASE rest = <<>> /\ got = {} /\ next = i + 1
  <2>1. i + 1 > 0 /\ i + 1 # 0 /\ i + 1 \in 1..Len(Poll!Lanes(Home[p]))
    BY <1>1, <1>2, <1>6, LanesAre
  <2>2. Poll!Moved(p, next) = [lane |-> i + 1, batch |-> <<>>, got |-> l_scan[p].got,
                               lost |-> l_scan[p].lost]
    BY <2>1, <1>2, <1>6, MovedIs
  <2>3. Poll!After(p, rest, got, beaten) = [Poll!Moved(p, next) EXCEPT !.lost = TRUE]
    BY <1>6, <2>1 DEF Poll!After
  <2>4. PICK l, e, g, x, y : l = i + 1 /\ e = <<>> /\ g = l_scan[p].got
                             /\ x = l_scan[p].lost /\ y = TRUE
    OBVIOUS
  <2>5. [[lane |-> l, batch |-> e, got |-> g, lost |-> x] EXCEPT !.lost = y]
          = [lane |-> l, batch |-> e, got |-> g, lost |-> y]
    OBVIOUS
  <2> QED
    BY <2>1, <2>2, <2>3, <2>4, <2>5
<1> QED
  BY <1>2, <1>3, <1>4, <1>5, <1>6

LEMMA AsleepIs ==
  Poll!Asleep = [lane |-> 0, batch |-> <<>>, got |-> {}, lost |-> FALSE] /\ DOMAIN <<>> = {}
  /\ \A S : <<>> \in [{} -> S]
BY DEF Poll!Asleep

LEMMA StartLanes == ASSUME Poll!LanesAssumption, Poll!Init PROVE LanesInv
<1>1. Poll!Queued = {}
  BY DEF Poll!Init, Poll!Queued
<1>2. RowsInv
  <2>1. IsFiniteSet(Poll!Queued)
    BY <1>1, FS_EmptySet
  <2>2. l_row = [m \in Poll!Queued |-> l_row[m]]
    BY <1>1 DEF Poll!Init
  <2> QED
    BY <1>1, <2>1, <2>2 DEF RowsInv, Poll!Init, Poll!LanesAssumption
<1>3. CallsInv
  BY DEF CallsInv, CallIs, Poll!Init
<1>4. ScansInv
  <2> SUFFICES ASSUME NEW p \in Pushers PROVE ScanIs(p)
    BY DEF ScansInv, Poll!Init
  <2>1. l_scan[p] = Poll!Asleep
    BY DEF Poll!Init
  <2>2. 0 \in 0..Len(Poll!Lanes(Home[p]))
    BY LanesAre
  <2>3. <<>> \in [{} -> Versions]
    BY AsleepIs
  <2> QED
    BY <2>1, <2>2, <2>3, AsleepIs DEF ScanIs
<1>5. RoutesInv
  BY <1>1 DEF RoutesInv, Poll!Init
<1>6. BatchInv /\ EarlyInv
  BY AsleepIs DEF BatchInv, EarlyInv, Poll!Init
<1> QED
  BY <1>2, <1>3, <1>4, <1>5, <1>6 DEF LanesInv

-----------------------------------------------------------------------------
LEMMA AtIdle ==
  ASSUME CallsInv, NEW t \in Callers
  PROVE  l_call[t] = Poll!Idle <=> l_call[t].at = "idle"
BY DEF CallsInv, CallIs, Poll!Idle

(* What does not depend on the calls.                                      *)
LEMMA RowsStay ==
  ASSUME RowsInv, UNCHANGED l_row, l_conf' \in Clusters,
         l_cache' \subseteq Clusters \X Poll!Priorities,
         l_astray' \subseteq Messages
  PROVE  RowsInv' /\ Poll!Queued' = Poll!Queued
BY DEF RowsInv, RowIs, Poll!Queued

LEMMA ScansStay ==
  ASSUME ScansInv, BatchInv, EarlyInv, UNCHANGED <<l_row, l_scan, l_early>>
  PROVE  ScansInv' /\ BatchInv' /\ EarlyInv'
<1>1. ScansInv'
  BY DEF ScansInv, ScanIs
<1>2. BatchInv'
  BY DEF BatchInv, Read, Poll!Queued, Poll!LaneAt
<1>3. EarlyInv'
  BY DEF EarlyInv, Poll!Ready, Poll!Queued, Poll!LaneAt
<1> QED
  BY <1>1, <1>2, <1>3

LEMMA RouteKeeps ==
  ASSUME Poll!LanesAssumption, LanesInv, NEW t \in Callers, NEW m \in Messages,
         NEW c \in Clusters,
         NEW n \in BOOLEAN, NEW pr \in Poll!Priorities, Poll!Route(t, m, c, n, pr)
  PROVE  LanesInv'
<1> USE DEF LanesInv
<1>1. PICK lane \in Poll!Priorities : lane = Poll!LaneFor(c, n, pr)
  BY DEF Poll!LaneFor, Poll!Priorities
<1>2. PICK new : new = [at |-> "routed", message |-> m, cluster |-> c, lane |-> lane]
  OBVIOUS
<1>3. /\ l_call[t] = Poll!Idle /\ Poll!Free(m) /\ (n \/ c = Own)
      /\ l_call' = [l_call EXCEPT ![t] = new]
      /\ l_astray' = IF ~n /\ Poll!Patched THEN l_astray \cup {m} ELSE l_astray \ {m}
      /\ UNCHANGED <<l_row, l_conf, l_cache, l_scan, l_early>>
  BY <1>1, <1>2 DEF Poll!Route
<1>4. RowsInv' /\ Poll!Queued' = Poll!Queued
  <2>1. l_conf' \in Clusters /\ l_cache' \subseteq Clusters \X Poll!Priorities
        /\ l_astray' \subseteq Messages
    BY <1>3 DEF RowsInv
  <2> QED
    BY <1>3, <2>1, RowsStay
<1>5. ScansInv' /\ BatchInv' /\ EarlyInv'
  BY <1>3, ScansStay
<1>6. /\ DOMAIN l_call' = Callers /\ l_call'[t] = new
      /\ \A u \in Callers : u # t => l_call'[u] = l_call[u]
      /\ \A u \in Callers : u # t /\ l_call[u] # Poll!Idle => l_call[u].message # m
      /\ m \notin Poll!Queued
  BY <1>3, AtIdle DEF CallsInv, Poll!Free
<1>7. new # Poll!Idle /\ new.message = m /\ new.cluster = c /\ new.lane = lane
      /\ new.at = "routed"
  <2>1. Poll!Idle.at = "idle"
    BY DEF Poll!Idle
  <2> QED
    BY <1>2, <2>1
<1>8. CallsInv'
  <2>1. CallIs(t)'
    BY <1>2, <1>4, <1>6, <1>7 DEF CallIs
  <2>2. ASSUME NEW u \in Callers, u # t PROVE CallIs(u)'
    BY <1>4, <1>6, <2>2 DEF CallIs, CallsInv
  <2>3. ASSUME NEW u \in Callers, NEW v \in Callers, l_call'[u] # Poll!Idle,
               l_call'[v] # Poll!Idle,
               l_call'[u].message = l_call'[v].message
        PROVE  u = v
    BY <1>6, <1>7, <2>3 DEF CallsInv
  <2> QED
    BY <1>6, <2>1, <2>2, <2>3 DEF CallsInv
<1>9. RoutesInv'
  <2>1. \A x : x # m => (x \in l_astray' <=> x \in l_astray)
    BY <1>3
  <2>2. Poll!Patched' <=> Poll!Patched
    BY <1>3, <1>6, <1>7 DEF Poll!Patched, Poll!Idle
  <2>3. ASSUME m \notin l_astray' PROVE Drained(c, lane)
    <3>1. n \/ ~Poll!Patched
      BY <1>3, <2>3
    <3> QED
      BY <1>1, <1>3, <3>1 DEF Drained, Poll!LaneFor, Poll!Drains, RoutesInv
  <2>4. ASSUME NEW u \in Callers, l_call'[u] # Poll!Idle,
               l_call'[u].message \notin l_astray'
        PROVE  Drained(l_call'[u].cluster, l_call'[u].lane)
    BY <1>6, <1>7, <2>1, <2>3, <2>4 DEF RoutesInv
  <2>5. ASSUME NEW x \in Poll!Queued', x \notin l_astray'
        PROVE  Drained(l_row'[x].cluster, l_row'[x].lane)
    BY <1>3, <1>4, <1>6, <2>1, <2>5 DEF RoutesInv
  <2> QED
    BY <1>3, <2>2, <2>4, <2>5 DEF RoutesInv, Drained
<1> QED
  BY <1>4, <1>5, <1>8, <1>9

LEMMA BuildKeeps ==
  ASSUME Poll!LanesAssumption, LanesInv, NEW t \in Callers, Poll!Build(t) \/ Poll!Built(t)
  PROVE  LanesInv'
<1> USE DEF LanesInv
<1>1. PICK c, m, k, l : /\ l_call[t] = [at |-> c, message |-> m, cluster |-> k, lane |-> l]
                        /\ c \in {"routed", "building"} /\ m \in Messages \ Poll!Queued
                        /\ k \in Clusters /\ l \in Poll!Priorities
  BY AtIdle DEF Poll!Build, Poll!Built, CallsInv, CallIs, Poll!Idle
<1>2. PICK a \in {"routed", "building"} :
        /\ l_call' = [l_call EXCEPT ![t].at = a]
           /\ UNCHANGED <<l_row, l_scan, l_astray, l_early>>
        /\ \/ a = "building" /\ l_conf' = l_call[t].cluster /\ l_cache' = l_cache
           \/ l_conf' = Own /\ l_cache' = l_cache \cup {Poll!BrokerOf(t)}
  <2>1. ASSUME Poll!Build(t)
        PROVE  /\ l_call' = [l_call EXCEPT ![t].at = "building"]
                  /\ UNCHANGED <<l_row, l_scan, l_astray, l_early>>
               /\ l_conf' = l_call[t].cluster /\ l_cache' = l_cache
    BY <2>1 DEF Poll!Build
  <2>2. ASSUME Poll!Built(t)
        PROVE  /\ l_call' = [l_call EXCEPT ![t].at = "routed"]
                  /\ UNCHANGED <<l_row, l_scan, l_astray, l_early>>
               /\ l_conf' = Own /\ l_cache' = l_cache \cup {Poll!BrokerOf(t)}
    BY <2>2 DEF Poll!Built, Poll!Restored
  <2> QED
    BY <2>1, <2>2
<1>3. /\ UNCHANGED <<l_row, l_scan, l_astray, l_early>>
      /\ \/ a = "building" /\ l_conf' = k /\ l_cache' = l_cache
         \/ l_conf' = Own /\ l_cache' = l_cache \cup {<<k, l>>}
  <2>1. l_call[t].cluster = k /\ Poll!BrokerOf(t) = <<k, l>>
    BY <1>1 DEF Poll!BrokerOf
  <2> QED
    BY <1>2, <2>1
<1>4. RowsInv' /\ Poll!Queued' = Poll!Queued
  <2>1. l_conf' \in Clusters /\ l_cache' \subseteq Clusters \X Poll!Priorities
        /\ l_astray' \subseteq Messages
    BY <1>1, <1>3 DEF RowsInv, Poll!LanesAssumption
  <2> QED
    BY <1>3, <2>1, RowsStay
<1>5. ScansInv' /\ BatchInv' /\ EarlyInv'
  BY <1>3, ScansStay
<1>6. /\ DOMAIN l_call' = Callers
      /\ l_call'[t] = [at |-> a, message |-> m, cluster |-> k, lane |-> l]
      /\ \A u \in Callers : u # t => l_call'[u] = l_call[u]
  <2>1. l_call'[t] = [l_call[t] EXCEPT !.at = a] /\ DOMAIN l_call' = Callers
    BY <1>2 DEF CallsInv
  <2>2. [[at |-> c, message |-> m, cluster |-> k, lane |-> l] EXCEPT !.at = a]
          = [at |-> a, message |-> m, cluster |-> k, lane |-> l]
    OBVIOUS
  <2> QED
    BY <1>1, <1>2, <2>1, <2>2 DEF CallsInv
<1>7. /\ l_call[t] # Poll!Idle /\ l_call[t].message = m /\ l_call'[t].message = m
         /\ l_call'[t].at = a
      /\ l_call[t].cluster = k /\ l_call'[t].cluster = k /\ l_call[t].lane = l
         /\ l_call'[t].lane = l
      /\ l_call[t].at = c
  <2>1. Poll!Idle.at = "idle"
    BY DEF Poll!Idle
  <2> QED
    BY <1>1, <1>6, <2>1
<1>8. CallsInv'
  <2>1. CallIs(t)'
    BY <1>1, <1>2, <1>4, <1>6, <1>7 DEF CallIs
  <2>2. ASSUME NEW u \in Callers, u # t PROVE CallIs(u)'
    BY <1>4, <1>6, <2>2 DEF CallIs, CallsInv
  <2>3. ASSUME NEW u \in Callers, NEW v \in Callers, l_call'[u] # Poll!Idle,
               l_call'[v] # Poll!Idle,
               l_call'[u].message = l_call'[v].message
        PROVE  u = v
    BY <1>6, <1>7, <2>3 DEF CallsInv
  <2> QED
    BY <1>6, <2>1, <2>2, <2>3 DEF CallsInv
<1>9. RoutesInv'
  <2>1. Poll!Patched' \/ l_conf' = Own
    BY <1>3, <1>7 DEF Poll!Patched
  <2>2. ASSUME NEW u \in Callers, l_call'[u] # Poll!Idle,
               l_call'[u].message \notin l_astray'
        PROVE  Drained(l_call'[u].cluster, l_call'[u].lane)
    BY <1>3, <1>6, <1>7, <2>2 DEF RoutesInv
  <2>3. ASSUME NEW x \in Poll!Queued', x \notin l_astray'
        PROVE  Drained(l_row'[x].cluster, l_row'[x].lane)
    BY <1>3, <1>4, <2>3 DEF RoutesInv
  <2> QED
    BY <2>1, <2>2, <2>3 DEF RoutesInv, Drained
<1> QED
  BY <1>4, <1>5, <1>8, <1>9

LEMMA ResetKeeps ==
  ASSUME LanesInv, Poll!ResetCache
  PROVE  LanesInv'
<1> USE DEF LanesInv
<1>1. UNCHANGED <<l_row, l_conf, l_call, l_scan, l_astray, l_early>> /\ l_cache' = {}
  BY DEF Poll!ResetCache
<1>2. RowsInv' /\ Poll!Queued' = Poll!Queued
  BY <1>1, RowsStay DEF RowsInv
<1>3. CallsInv'
  BY <1>1, <1>2 DEF CallsInv, CallIs
<1>4. RoutesInv'
  BY <1>1, <1>2 DEF RoutesInv, Poll!Patched, Drained
<1> QED
  BY <1>1, <1>2, <1>3, <1>4, ScansStay

LEMMA PutKeeps ==
  ASSUME Poll!LanesAssumption, LanesInv, NEW t \in Callers, Poll!Put(t)
  PROVE  LanesInv'
<1> USE DEF LanesInv
<1>1. PICK c, m, k, l : /\ l_call[t] = [at |-> c, message |-> m, cluster |-> k, lane |-> l]
                        /\ m \in Messages \ Poll!Queued /\ k \in Clusters
                           /\ l \in Poll!Priorities
  BY AtIdle DEF Poll!Put, CallsInv, CallIs, Poll!Idle
<1>2. PICK new : new = [cluster |-> k, lane |-> l, version |-> 0, ready |-> TRUE]
  OBVIOUS
<1>3. /\ l_row' = [n \in Poll!Queued \cup {m} |-> IF n = m THEN new ELSE l_row[n]]
      /\ l_call' = [l_call EXCEPT ![t] = Poll!Idle]
      /\ UNCHANGED <<l_conf, l_cache, l_scan, l_astray, l_early>>
  BY <1>1, <1>2 DEF Poll!Put
<1>4. /\ l_call[t] # Poll!Idle /\ l_call[t].message = m /\ l_call[t].cluster = k
         /\ l_call[t].lane = l
      /\ l_call[t].at = "routed"
  BY <1>1 DEF Poll!Put, Poll!Idle
<1>5. /\ Poll!Queued' = Poll!Queued \cup {m} /\ l_row'[m] = new /\ m \notin Poll!Queued
      /\ \A n \in Poll!Queued : l_row'[n] = l_row[n]
  BY <1>1, <1>3 DEF Poll!Queued
<1>6. /\ new.cluster = k /\ new.lane = l /\ new.version = 0 /\ new.ready = TRUE
  BY <1>2
<1>7. RowsInv'
  <2>1. IsFiniteSet(Poll!Queued')
    BY <1>5, FS_AddElement DEF RowsInv
  <2>2. RowIs(m)'
    BY <1>1, <1>2, <1>5, <1>6 DEF RowIs, Poll!LanesAssumption
  <2>3. ASSUME NEW n \in Poll!Queued PROVE RowIs(n)'
    BY <1>5 DEF RowIs, RowsInv
  <2>4. l_row' = [n \in Poll!Queued' |-> l_row'[n]]
    BY <1>3, <1>5
  <2> QED
    BY <1>1, <1>3, <1>5, <2>1, <2>2, <2>3, <2>4 DEF RowsInv
<1>8. CallsInv'
  <2>1. DOMAIN l_call' = Callers /\ l_call'[t] = Poll!Idle /\ \A u \in Callers : u # t
          => l_call'[u] = l_call[u]
    BY <1>3 DEF CallsInv
  <2>2. ASSUME NEW u \in Callers PROVE CallIs(u)'
    <3>1. CASE u = t
      BY <2>1, <3>1 DEF CallIs
    <3>2. CASE u # t /\ l_call[u] = Poll!Idle
      BY <2>1, <3>2 DEF CallIs
    <3>3. CASE u # t /\ l_call[u] # Poll!Idle
      <4>1. l_call[u].message # m
        BY <1>4, <3>3 DEF CallsInv
      <4> QED
        BY <1>5, <2>1, <3>3, <4>1 DEF CallIs, CallsInv
    <3> QED
      BY <3>1, <3>2, <3>3
  <2> QED
    BY <2>1, <2>2 DEF CallsInv
<1>9. ScansInv'
  BY <1>3 DEF ScansInv, ScanIs
<1>10. RoutesInv'
  <2>1. ASSUME Poll!Patched PROVE Poll!Patched'
    <3>1. PICK u \in Callers : l_call[u].at = "building"
      BY <2>1 DEF Poll!Patched
    <3>2. u # t /\ l_call'[u] = l_call[u]
      BY <1>3, <1>4, <3>1 DEF CallsInv
    <3> QED
      BY <3>1, <3>2 DEF Poll!Patched
  <2>2. ASSUME NEW u \in Callers, l_call'[u] # Poll!Idle,
               l_call'[u].message \notin l_astray'
        PROVE  Drained(l_call'[u].cluster, l_call'[u].lane)
    BY <1>3, <2>2 DEF RoutesInv, CallsInv
  <2>3. ASSUME NEW x \in Poll!Queued', x \notin l_astray'
        PROVE  Drained(l_row'[x].cluster, l_row'[x].lane)
    BY <1>3, <1>4, <1>5, <1>6, <2>3 DEF RoutesInv
  <2> QED
    BY <1>3, <2>1, <2>2, <2>3 DEF RoutesInv, Drained
<1>11. BatchInv'
  <2> SUFFICES ASSUME NEW p \in Pushers, NEW n \in DOMAIN l_scan[p].batch
               PROVE  l_scan[p].lane > 0 /\ Read(p, n, l_scan[p].batch[n])'
    BY <1>3 DEF BatchInv
  <2>1. l_scan[p].lane > 0 /\ Read(p, n, l_scan[p].batch[n])
    BY DEF BatchInv
  <2> QED
    BY <1>3, <1>5, <2>1 DEF Read, Poll!LaneAt
<1>12. EarlyInv'
  BY <1>3, <1>5 DEF EarlyInv, Poll!Ready, Poll!LaneAt
<1> QED
  BY <1>7, <1>8, <1>9, <1>10, <1>11, <1>12

(* What a change of one row leaves alone.                                  *)
LEMMA CallsStay ==
  ASSUME CallsInv, Poll!Queued' \subseteq Poll!Queued, UNCHANGED l_call
  PROVE  CallsInv'
BY DEF CallsInv, CallIs

LEMMA RoutesStay ==
  ASSUME RoutesInv, Poll!Queued' \subseteq Poll!Queued,
         UNCHANGED <<l_conf, l_call, l_astray>>,
         \A m \in Poll!Queued' : l_row'[m].cluster = l_row[m].cluster
         /\ l_row'[m].lane = l_row[m].lane
  PROVE  RoutesInv'
BY DEF RoutesInv, Poll!Patched, Drained

LEMMA LapseKeeps ==
  ASSUME LanesInv, NEW m \in Messages, Poll!Lapse(m)
  PROVE  LanesInv'
<1> USE DEF LanesInv
<1>1. /\ m \in Poll!Queued /\ ~l_row[m].ready /\ l_row[m].version < MaxLeases
      /\ l_row' = [l_row EXCEPT ![m].ready = TRUE]
      /\ UNCHANGED <<l_conf, l_cache, l_call, l_scan, l_astray, l_early>>
  BY DEF Poll!Lapse
<1>2. PICK c, l, v, b : l_row[m] = [cluster |-> c, lane |-> l, version |-> v, ready |-> b]
  BY <1>1 DEF RowsInv, RowIs
<1>3. PICK y : y = TRUE
  OBVIOUS
<1>4. l_row'[m] = [cluster |-> c, lane |-> l, version |-> v, ready |-> y]
  <2>1. l_row'[m] = [l_row[m] EXCEPT !.ready = y]
    BY <1>1, <1>3 DEF Poll!Queued
  <2> QED
    BY <1>2, <2>1
<1>5. Poll!Queued' = Poll!Queued /\ \A n \in Poll!Queued : n # m => l_row'[n] = l_row[n]
  BY <1>1 DEF Poll!Queued, RowsInv
<1>6. /\ l_row'[m].cluster = l_row[m].cluster /\ l_row'[m].lane = l_row[m].lane
      /\ l_row'[m].version = l_row[m].version /\ l_row'[m].ready = TRUE
  BY <1>2, <1>3, <1>4
<1>7. RowsInv'
  <2>1. RowIs(m)'
    BY <1>1, <1>4, <1>6 DEF RowsInv, RowIs
  <2>2. ASSUME NEW n \in Poll!Queued, n # m PROVE RowIs(n)'
    BY <1>5, <2>2 DEF RowIs, RowsInv
  <2>3. l_row' = [n \in Poll!Queued' |-> l_row'[n]]
    BY <1>1, <1>5 DEF RowsInv
  <2> QED
    BY <1>1, <1>5, <2>1, <2>2, <2>3 DEF RowsInv
<1>8. CallsInv' /\ RoutesInv'
  <2>1. \A n \in Poll!Queued' : l_row'[n].cluster = l_row[n].cluster
        /\ l_row'[n].lane = l_row[n].lane
    BY <1>5, <1>6
  <2> QED
    BY <1>1, <1>5, <2>1, CallsStay, RoutesStay
<1>9. ScansInv'
  BY <1>1 DEF ScansInv, ScanIs
<1>10. BatchInv'
  <2> SUFFICES ASSUME NEW p \in Pushers, NEW n \in DOMAIN l_scan[p].batch
               PROVE  l_scan[p].lane > 0 /\ Read(p, n, l_scan[p].batch[n])'
    BY <1>1 DEF BatchInv
  <2>1. l_scan[p].lane > 0 /\ Read(p, n, l_scan[p].batch[n])
    BY DEF BatchInv
  <2> QED
    BY <1>1, <1>5, <1>6, <2>1 DEF Read, Poll!LaneAt
<1>11. EarlyInv'
  <2> SUFFICES ASSUME NEW p \in Pushers, NEW n \in l_early[p]
               PROVE  /\ Poll!Ready(n)'
                      /\ ~l_scan[p].lost /\ l_row'[n].cluster = Home[p] =>
                           \A j \in 1..(l_scan[p].lane - 1) : l_row'[n].lane # Poll!LaneAt(p, j)
    BY <1>1 DEF EarlyInv, Poll!LaneAt
  <2>1. Poll!Ready(n) /\ n # m
    BY <1>1 DEF EarlyInv, Poll!Ready
  <2> QED
    BY <1>5, <2>1 DEF EarlyInv, Poll!Ready
<1> QED
  BY <1>7, <1>8, <1>9, <1>10, <1>11

LEMMA AcknowledgeKeeps ==
  ASSUME LanesInv, NEW m \in Messages, Poll!Acknowledge(m)
  PROVE  LanesInv'
<1> USE DEF LanesInv
<1>1. /\ m \in Poll!Queued
      /\ l_row' = [n \in Poll!Queued \ {m} |-> l_row[n]]
      /\ l_early' = [q \in Pushers |-> l_early[q] \ {m}]
      /\ l_scan' = [q \in Pushers |->
                    [l_scan[q] EXCEPT !.batch = [n \in DOMAIN @ |-> IF n = m THEN Poll!Gone ELSE @[n]]]]
      /\ UNCHANGED <<l_conf, l_cache, l_call, l_astray>>
  BY DEF Poll!Acknowledge
<1>2. Poll!Queued' = Poll!Queued \ {m} /\ \A n \in Poll!Queued' : l_row'[n] = l_row[n]
  BY <1>1 DEF Poll!Queued
<1>3. RowsInv'
  <2>1. IsFiniteSet(Poll!Queued')
    BY <1>2, FS_Subset DEF RowsInv
  <2>2. \A n \in Poll!Queued' : RowIs(n)'
    BY <1>2 DEF RowIs, RowsInv
  <2>3. l_row' = [n \in Poll!Queued' |-> l_row'[n]]
    BY <1>1, <1>2
  <2> QED
    BY <1>1, <1>2, <2>1, <2>2, <2>3 DEF RowsInv
<1>4. CallsInv' /\ RoutesInv'
  <2>1. \A n \in Poll!Queued' : l_row'[n].cluster = l_row[n].cluster
        /\ l_row'[n].lane = l_row[n].lane
    BY <1>2
  <2> QED
    BY <1>1, <1>2, <2>1, CallsStay, RoutesStay
<1>5. ASSUME NEW p \in Pushers
      PROVE  /\ ScanIs(p)' /\ l_scan'[p].lane = l_scan[p].lane
                /\ l_scan'[p].lost = l_scan[p].lost
             /\ DOMAIN l_scan'[p].batch = DOMAIN l_scan[p].batch
             /\ \A n \in DOMAIN l_scan[p].batch :
                  l_scan'[p].batch[n] = IF n = m THEN Poll!Gone ELSE l_scan[p].batch[n]
  <2>1. PICK l, b, g, x, S : /\ l_scan[p] = [lane |-> l, batch |-> b, got |-> g, lost |-> x]
                             /\ S \in SUBSET Messages /\ b \in [S -> Versions]
    BY DEF ScansInv, ScanIs
  <2>2. PICK c : c = [n \in S |-> IF n = m THEN Poll!Gone ELSE b[n]]
    OBVIOUS
  <2>3. c \in [S -> Versions]
    BY <2>1, <2>2 DEF Versions
  <2>4. l_scan'[p] = [[lane |-> l, batch |-> b, got |-> g, lost |-> x] EXCEPT !.batch = c]
    BY <1>1, <2>1, <2>2
  <2>5. [[lane |-> l, batch |-> b, got |-> g, lost |-> x] EXCEPT !.batch = c]
          = [lane |-> l, batch |-> c, got |-> g, lost |-> x]
    OBVIOUS
  <2>6. l_scan'[p] = [lane |-> l, batch |-> c, got |-> g, lost |-> x]
    BY <2>4, <2>5
  <2>7. ScanIs(p)'
    BY <2>1, <2>3, <2>6 DEF ScansInv, ScanIs
  <2> QED
    BY <2>1, <2>2, <2>6, <2>7
<1>6. ScansInv'
  BY <1>1, <1>5 DEF ScansInv
<1>7. BatchInv'
  <2> SUFFICES ASSUME NEW p \in Pushers, NEW n \in DOMAIN l_scan'[p].batch
               PROVE  l_scan'[p].lane > 0 /\ Read(p, n, l_scan[p].batch[n])'
    BY DEF BatchInv
  <2>1. n \in DOMAIN l_scan[p].batch /\ l_scan'[p].lane = l_scan[p].lane
        /\ l_scan'[p].batch[n] = IF n = m THEN Poll!Gone ELSE l_scan[p].batch[n]
    BY <1>5
  <2>2. l_scan[p].lane > 0 /\ Read(p, n, l_scan[p].batch[n])
    BY <2>1 DEF BatchInv
  <2>3. CASE n = m
    BY <2>1, <2>2, <2>3 DEF Read
  <2>4. CASE n # m
    BY <1>2, <2>1, <2>2, <2>4 DEF Read, Poll!LaneAt
  <2> QED
    BY <2>3, <2>4
<1>8. EarlyInv'
  <2> SUFFICES ASSUME NEW p \in Pushers, NEW n \in l_early'[p]
               PROVE  /\ Poll!Ready(n)'
                      /\ ~l_scan'[p].lost /\ l_row'[n].cluster = Home[p] =>
                           \A j \in 1..(l_scan'[p].lane - 1) : l_row'[n].lane # Poll!LaneAt(p, j)
    BY DEF EarlyInv, Poll!LaneAt
  <2>1. n \in l_early[p] /\ n # m
    BY <1>1
  <2>2. Poll!Ready(n) /\ n \in Poll!Queued' /\ l_row'[n] = l_row[n]
    BY <1>2, <2>1 DEF EarlyInv, Poll!Ready
  <2> QED
    BY <1>5, <2>1, <2>2 DEF EarlyInv, Poll!Ready
<1> QED
  BY <1>3, <1>4, <1>6, <1>7, <1>8
LEMMA LeaseKeeps ==
  ASSUME Poll!LanesAssumption, LanesInv, NEW p \in Pushers, NEW m \in Messages,
         Poll!Lease(p, m)
  PROVE  LanesInv'
<1> USE DEF LanesInv
<1>1. PICK l, b, g, x, S :
        /\ l_scan[p] = [lane |-> l, batch |-> b, got |-> g, lost |-> x]
        /\ S \in SUBSET Messages /\ b \in [S -> Versions]
        /\ g \subseteq Messages /\ x \in BOOLEAN /\ l \in 0..Len(Poll!Lanes(Home[p]))
  BY DEF ScansInv, ScanIs
<1>2. /\ l_scan[p].lane = l /\ l_scan[p].batch = b /\ l_scan[p].got = g
         /\ l_scan[p].lost = x
      /\ m \in S /\ DOMAIN b = S /\ l > 0
      /\ \A n \in S : Read(p, n, b[n])
  BY <1>1 DEF Poll!Lease, BatchInv
<1>3. PICK rest : rest = [n \in S \ {m} |-> b[n]]
  OBVIOUS
<1>4. PICK got, beaten, new :
        /\ got \subseteq Messages /\ beaten \in BOOLEAN
           /\ new = Poll!After(p, rest, got, beaten)
        /\ l_scan' = [l_scan EXCEPT ![p] = new]
        /\ \/ /\ beaten = x /\ m \in Poll!Queued /\ l_row[m].version = b[m]
              /\ l_row' = [l_row EXCEPT ![m].version = @ + 1, ![m].ready = FALSE]
              /\ l_early' = [q \in Pushers |-> IF l_scan'[q].lane = 0 THEN {} ELSE l_early[q] \ {m}]
           \/ /\ beaten = TRUE /\ l_row' = l_row
              /\ l_early' = [l_early EXCEPT ![p] = IF l_scan'[p].lane = 0 THEN {} ELSE @]
        /\ UNCHANGED <<l_conf, l_cache, l_call, l_astray>>
  <2>1. rest = [n \in DOMAIN l_scan[p].batch \ {m} |-> l_scan[p].batch[n]]
    BY <1>2, <1>3
  <2>2. CASE Poll!SameLock(p, m)
    <3>1. /\ g \cup {m} \subseteq Messages
          /\ l_scan' = [l_scan EXCEPT ![p] = Poll!After(p, rest, g \cup {m}, x)]
          /\ m \in Poll!Queued /\ l_row[m].version = b[m]
          /\ l_row' = [l_row EXCEPT ![m].version = @ + 1, ![m].ready = FALSE]
          /\ l_early' = [q \in Pushers |-> IF l_scan'[q].lane = 0 THEN {} ELSE l_early[q] \ {m}]
          /\ UNCHANGED <<l_conf, l_cache, l_call, l_astray>>
      BY <1>1, <1>2, <2>1, <2>2 DEF Poll!Lease, Poll!SameLock
    <3> QED
      BY <1>1, <3>1
  <2>3. CASE ~Poll!SameLock(p, m)
    <3>1. /\ l_scan' = [l_scan EXCEPT ![p] = Poll!After(p, rest, g, TRUE)] /\ l_row' = l_row
          /\ l_early' = [l_early EXCEPT ![p] = IF l_scan'[p].lane = 0 THEN {} ELSE @]
          /\ UNCHANGED <<l_conf, l_cache, l_call, l_astray>>
      BY <1>1, <1>2, <2>1, <2>3 DEF Poll!Lease
    <3> QED
      BY <1>1, <3>1
  <2> QED
    BY <2>2, <2>3
<1>5. \/ new = [lane |-> l, batch |-> rest, got |-> got, lost |-> beaten]
      \/ new = Poll!Asleep
      \/ /\ l + 1 \in 1..Len(Poll!Lanes(Home[p]))
         /\ new = [lane |-> l + 1, batch |-> <<>>, got |-> g, lost |-> TRUE]
  <2>1. ScanIs(p) /\ l_scan[p].lane > 0
    BY <1>2 DEF ScansInv
  <2> QED
    BY <1>2, <1>4, <2>1, AfterIs
<1>6. /\ DOMAIN l_scan' = Pushers /\ l_scan'[p] = new
      /\ \A q \in Pushers : q # p => l_scan'[q] = l_scan[q]
  BY <1>4 DEF ScansInv
<1>7. rest \in [S \ {m} -> Versions] /\ \A n \in S \ {m} : rest[n] = b[n]
  BY <1>1, <1>3
<1>8. /\ new = [lane |-> new.lane, batch |-> new.batch, got |-> new.got, lost |-> new.lost]
      /\ new.lane \in 0..Len(Poll!Lanes(Home[p])) /\ new.got \subseteq Messages
         /\ new.lost \in BOOLEAN
      /\ \E R \in SUBSET Messages : new.batch \in [R -> Versions]
      /\ \A n \in DOMAIN new.batch : n \in S /\ new.batch[n] = b[n] /\ new.lane = l
      /\ \/ new.lane = l /\ new.lost = beaten
         \/ new.lane = 0
         \/ new.lost = TRUE
  <2>1. CASE new = [lane |-> l, batch |-> rest, got |-> got, lost |-> beaten]
    <3>1. new.lane = l /\ new.batch = rest /\ new.got = got /\ new.lost = beaten
      BY <2>1
    <3>2. DOMAIN rest = S \ {m} /\ S \ {m} \in SUBSET Messages
      BY <1>1, <1>7
    <3>3. l \in 0..Len(Poll!Lanes(Home[p])) /\ got \subseteq Messages /\ beaten \in BOOLEAN
      BY <1>1, <1>4
    <3> QED
      BY <1>7, <2>1, <3>1, <3>2, <3>3
  <2>2. CASE new = Poll!Asleep
    <3>1. 0 \in 0..Len(Poll!Lanes(Home[p]))
      BY LanesAre
    <3>2. new.batch = <<>> /\ new.got = {} /\ new.lost = FALSE /\ new.lane = 0
      BY <2>2, AsleepIs
    <3> QED
      BY <2>2, <3>1, <3>2, AsleepIs
  <2>3. CASE /\ l + 1 \in 1..Len(Poll!Lanes(Home[p]))
             /\ new = [lane |-> l + 1, batch |-> <<>>, got |-> g, lost |-> TRUE]
    <3>1. l + 1 \in 0..Len(Poll!Lanes(Home[p]))
      BY <2>3, LanesAre
    <3>2. PICK e : e = <<>>
      OBVIOUS
    <3>3. DOMAIN e = {} /\ e \in [{} -> Versions]
      BY <3>2, AsleepIs
    <3>4. new = [lane |-> l + 1, batch |-> e, got |-> g, lost |-> TRUE]
      BY <2>3, <3>2
    <3> QED
      BY <1>1, <3>1, <3>3, <3>4
  <2> QED
    BY <1>5, <2>1, <2>2, <2>3
<1>9. ScansInv'
  <2>1. ScanIs(p)'
    BY <1>6, <1>8 DEF ScanIs
  <2>2. ASSUME NEW q \in Pushers, q # p PROVE ScanIs(q)'
    BY <1>6, <2>2 DEF ScansInv, ScanIs
  <2>3. l_early' \in [Pushers -> SUBSET Messages]
    BY <1>4 DEF ScansInv
  <2> QED
    BY <1>6, <2>1, <2>2, <2>3 DEF ScansInv
<1>10. CASE l_row' = l_row /\ beaten = TRUE
            /\ l_early' = [l_early EXCEPT ![p] = IF l_scan'[p].lane = 0 THEN {} ELSE @]
  <2>1. RowsInv' /\ Poll!Queued' = Poll!Queued
    BY <1>4, <1>10, RowsStay DEF RowsInv
  <2>2. CallsInv' /\ RoutesInv'
    <3>1. \A n \in Poll!Queued' : l_row'[n].cluster = l_row[n].cluster
          /\ l_row'[n].lane = l_row[n].lane
      BY <1>10
    <3> QED
      BY <1>4, <2>1, <3>1, CallsStay, RoutesStay
  <2>3. BatchInv'
    <3> SUFFICES ASSUME NEW q \in Pushers, NEW n \in DOMAIN l_scan'[q].batch
                 PROVE  l_scan'[q].lane > 0 /\ Read(q, n, l_scan[q].batch[n])'
      BY DEF BatchInv
    <3>1. CASE q = p
      <4>1. n \in S /\ l_scan'[p].batch[n] = b[n] /\ l_scan'[p].lane = l
        BY <1>6, <1>8, <3>1
      <4>2. Read(p, n, b[n])
        BY <1>2, <4>1
      <4> QED
        BY <1>2, <1>10, <2>1, <3>1, <4>1, <4>2 DEF Read, Poll!LaneAt
    <3>2. CASE q # p
      <4>1. l_scan'[q] = l_scan[q]
        BY <1>6, <3>2
      <4> QED
        BY <1>10, <2>1, <4>1 DEF BatchInv, Read, Poll!LaneAt
    <3> QED
      BY <3>1, <3>2
  <2>4. EarlyInv'
    <3> SUFFICES ASSUME NEW q \in Pushers, NEW n \in l_early'[q]
                 PROVE  /\ Poll!Ready(n)'
                        /\ ~l_scan'[q].lost /\ l_row'[n].cluster = Home[q] =>
                             \A j \in 1..(l_scan'[q].lane - 1) : l_row'[n].lane # Poll!LaneAt(q, j)
      BY DEF EarlyInv, Poll!LaneAt
    <3>1. n \in l_early[q] /\ Poll!Ready(n)
      BY <1>10 DEF ScansInv, EarlyInv
    <3>2. Poll!Ready(n)'
      BY <1>10, <2>1, <3>1 DEF Poll!Ready
    <3>3. CASE q = p
      <4>1. l_scan'[p].lane # 0
        BY <1>10, <3>3 DEF ScansInv
      <4>2. l_scan'[p].lost = TRUE
        BY <1>6, <1>8, <1>10, <4>1
      <4> QED
        BY <3>2, <3>3, <4>2
    <3>4. CASE q # p
      BY <1>6, <1>10, <3>1, <3>2, <3>4 DEF EarlyInv
    <3> QED
      BY <3>3, <3>4
  <2> QED
    BY <1>9, <2>1, <2>2, <2>3, <2>4
<1>11. CASE /\ beaten = x /\ m \in Poll!Queued /\ l_row[m].version = b[m]
            /\ l_row' = [l_row EXCEPT ![m].version = @ + 1, ![m].ready = FALSE]
            /\ l_early' = [q \in Pushers |-> IF l_scan'[q].lane = 0 THEN {} ELSE l_early[q] \ {m}]
  <2>1. PICK c, k, v, y : /\ l_row[m] = [cluster |-> c, lane |-> k, version |-> v,
                                         ready |-> y]
                          /\ v \in 0..MaxLeases /\ c \in Clusters /\ k \in Poll!Priorities
    BY <1>11 DEF RowsInv, RowIs
  <2>2. v < MaxLeases /\ v \in Nat
    <3>1. l_row[m].version = b[m] /\ m \in Poll!Queued
      BY <1>11
    <3>2. l_row[m].version = v /\ v \in Nat /\ v # Poll!Gone
      BY <2>1 DEF Poll!Gone, Poll!LanesAssumption
    <3>3. l_row[m].ready
      BY <1>2, <3>1, <3>2 DEF Read
    <3> QED
      BY <3>1, <3>2, <3>3 DEF RowsInv, RowIs
  <2>3. PICK w, f : w = v + 1 /\ f = FALSE
    OBVIOUS
  <2>4. l_row'[m] = [cluster |-> c, lane |-> k, version |-> w, ready |-> f]
    <3>1. l_row[m].version = v
      BY <2>1
    <3>2. l_row' = [l_row EXCEPT ![m].version = v + 1, ![m].ready = FALSE]
      BY <1>11, <3>1, Zenon
    <3>3. l_row' = [l_row EXCEPT ![m].version = w, ![m].ready = f]
      BY <2>3, <3>2, Zenon
    <3>4. [l_row[m] EXCEPT !.version = w] = [cluster |-> c, lane |-> k, version |-> w,
                                             ready |-> y]
      BY <2>1
    <3>5. PICK z : z = [cluster |-> c, lane |-> k, version |-> w, ready |-> y]
      OBVIOUS
    <3>6. l_row' = [[l_row EXCEPT ![m] = z] EXCEPT ![m].ready = f]
      BY <3>3, <3>4, <3>5, Zenon
    <3>7. PICK z2 : z2 = [z EXCEPT !.ready = f]
      OBVIOUS
    <3>8. m \in DOMAIN l_row
      BY <1>11 DEF Poll!Queued
    <3>9. l_row'[m] = z2
      BY <3>6, <3>7, <3>8
    <3>10. [[cluster |-> c, lane |-> k, version |-> w, ready |-> y] EXCEPT !.ready = f]
            = [cluster |-> c, lane |-> k, version |-> w, ready |-> f]
      OBVIOUS
    <3> QED
      BY <3>5, <3>7, <3>9, <3>10
  <2>5. Poll!Queued' = Poll!Queued /\ \A n \in Poll!Queued : n # m => l_row'[n] = l_row[n]
    BY <1>11 DEF Poll!Queued, RowsInv
  <2>6. /\ l_row'[m].cluster = c /\ l_row'[m].lane = k /\ l_row'[m].version = v + 1
        /\ l_row'[m].ready = FALSE /\ l_row[m].version = v /\ l_row[m].cluster = c
           /\ l_row[m].lane = k
    BY <2>1, <2>3, <2>4
  <2>7. RowsInv'
    <3>1. RowIs(m)'
      <4>1. w \in 0..MaxLeases
        BY <2>2, <2>3 DEF Poll!LanesAssumption
      <4> QED
        BY <2>1, <2>3, <2>4, <2>6, <4>1 DEF RowIs
    <3>2. ASSUME NEW n \in Poll!Queued, n # m PROVE RowIs(n)'
      BY <2>5, <3>2 DEF RowIs, RowsInv
    <3>3. l_row' = [n \in Poll!Queued' |-> l_row'[n]]
      BY <1>11, <2>5 DEF RowsInv
    <3> QED
      BY <1>4, <2>5, <3>1, <3>2, <3>3 DEF RowsInv
  <2>8. CallsInv' /\ RoutesInv'
    <3>1. \A n \in Poll!Queued' : l_row'[n].cluster = l_row[n].cluster
          /\ l_row'[n].lane = l_row[n].lane
      BY <2>5, <2>6
    <3> QED
      BY <1>4, <2>5, <3>1, CallsStay, RoutesStay
  <2>9. ASSUME NEW q \in Pushers, NEW n, NEW u, Read(q, n, u),
               l_scan'[q].lane = l_scan[q].lane
        PROVE  Read(q, n, u)'
    <3>1. CASE n = m
      BY <2>2, <2>5, <2>6, <2>9, <3>1 DEF Read, Poll!LaneAt
    <3>2. CASE n # m
      BY <2>5, <2>9, <3>2 DEF Read, Poll!LaneAt
    <3> QED
      BY <3>1, <3>2
  <2>10. BatchInv'
    <3> SUFFICES ASSUME NEW q \in Pushers, NEW n \in DOMAIN l_scan'[q].batch
                 PROVE  l_scan'[q].lane > 0 /\ Read(q, n, l_scan[q].batch[n])'
      BY DEF BatchInv
    <3>1. CASE q = p
      <4>1. n \in S /\ l_scan'[p].batch[n] = b[n] /\ l_scan'[p].lane = l
        BY <1>6, <1>8, <3>1
      <4>2. Read(p, n, b[n])
        BY <1>2, <4>1
      <4>3. PICK u : u = b[n]
        OBVIOUS
      <4>4. Read(p, n, u)'
        BY <1>2, <2>9, <4>1, <4>2, <4>3
      <4> QED
        BY <1>2, <3>1, <4>1, <4>3, <4>4 DEF Read
    <3>2. CASE q # p
      <4>1. l_scan'[q] = l_scan[q]
        BY <1>6, <3>2
      <4>2. PICK u : u = l_scan[q].batch[n]
        OBVIOUS
      <4>3. Read(q, n, u) /\ l_scan[q].lane > 0
        BY <4>1, <4>2 DEF BatchInv
      <4>4. Read(q, n, u)'
        BY <2>9, <4>1, <4>3
      <4> QED
        BY <4>1, <4>2, <4>3, <4>4 DEF Read
    <3> QED
      BY <3>1, <3>2
  <2>11. EarlyInv'
    <3> SUFFICES ASSUME NEW q \in Pushers, NEW n \in l_early'[q]
                 PROVE  /\ Poll!Ready(n)'
                        /\ ~l_scan'[q].lost /\ l_row'[n].cluster = Home[q] =>
                             \A j \in 1..(l_scan'[q].lane - 1) : l_row'[n].lane # Poll!LaneAt(q, j)
      BY DEF EarlyInv, Poll!LaneAt
    <3>1. n \in l_early[q] /\ n # m /\ l_scan'[q].lane # 0
      BY <1>11
    <3>2. Poll!Ready(n) /\ l_row'[n] = l_row[n] /\ n \in Poll!Queued'
      BY <2>5, <3>1 DEF EarlyInv, Poll!Ready
    <3>3. l_scan'[q].lost
          \/ (l_scan'[q].lane = l_scan[q].lane /\ l_scan'[q].lost = l_scan[q].lost)
      BY <1>2, <1>6, <1>8, <1>11, <3>1
    <3> QED
      BY <3>1, <3>2, <3>3 DEF EarlyInv, Poll!Ready
  <2> QED
    BY <1>9, <2>7, <2>8, <2>10, <2>11
<1> QED
  BY <1>4, <1>10, <1>11
(* A look that takes some of the ready rows of a lane, none only if there  *)
(* are none: how many is Bulk's business.                                  *)
Some(p, i) ==
  {S \in SUBSET Poll!ReadyIn(Home[p], Poll!LaneAt(p, i)) : S = {}
   <=> Poll!ReadyIn(Home[p], Poll!LaneAt(p, i)) = {}}
LooseLook(p, i) ==
  /\ i = IF l_scan[p].lane = 0 THEN 1 ELSE l_scan[p].lane
  /\ l_scan[p].batch = <<>>
  /\ \E S \in Some(p, i) :
       l_scan' = [l_scan EXCEPT ![p] =
                  IF S = {} THEN Poll!Moved(p, Poll!NextLane(p, i))
                  ELSE [@ EXCEPT !.lane = i, !.batch = [m \in S |-> l_row[m].version]]]
  /\ l_early' = [l_early EXCEPT ![p] = IF l_scan'[p].lane = 0 THEN {}
                                   ELSE IF l_scan[p].lane = 0 THEN {m \in Poll!Queued : Poll!Ready(m)}
                                   ELSE @]
  /\ UNCHANGED <<l_row, l_conf, l_cache, l_call, l_astray>>

LEMMA SomeOfThem ==
  ASSUME NEW R, IsFiniteSet(R), NEW S \in SUBSET R, NEW bulk \in Nat \ {0},
         Cardinality(S) = IF Cardinality(R) < bulk THEN Cardinality(R) ELSE bulk
  PROVE  S = {} <=> R = {}
<1>1. Cardinality(R) \in Nat /\ (Cardinality(R) = 0 <=> R = {})
  BY FS_CardinalityType, FS_EmptySet
<1>2. IsFiniteSet(S)
  BY FS_Subset
<1>3. Cardinality(S) = 0 <=> S = {}
  BY <1>2, FS_EmptySet
<1> QED
  BY <1>1, <1>3

LEMMA BatchesAreSome ==
  ASSUME Poll!LanesAssumption, IsFiniteSet(Poll!Queued), NEW p \in Pushers, NEW i
  PROVE  Poll!Batches(p, i) \subseteq Some(p, i)
<1> DEFINE R == Poll!ReadyIn(Home[p], Poll!LaneAt(p, i))
<1>1. R \subseteq Poll!Queued
  BY DEF Poll!ReadyIn, Poll!InLane
<1>2. IsFiniteSet(R)
  BY <1>1, FS_Subset
<1>3. SUFFICES ASSUME NEW S \in Poll!Batches(p, i)
               PROVE  S \subseteq R /\ (S = {} <=> R = {})
  BY DEF Poll!Batches, Some
<1>4. /\ S \subseteq R
      /\ Cardinality(S) = IF Cardinality(R) < PollBulk THEN Cardinality(R) ELSE PollBulk
  BY DEF Poll!Batches, Poll!Cardinality, Cardinality
<1>5. PollBulk \in Nat \ {0}
  BY DEF Poll!LanesAssumption
<1> HIDE DEF R
<1> QED
  BY <1>2, <1>4, <1>5, SomeOfThem

LEMMA LookIsLoose ==
  ASSUME Poll!LanesAssumption, IsFiniteSet(Poll!Queued), NEW p \in Pushers, NEW i,
         Poll!Look(p, i)
  PROVE  LooseLook(p, i)
BY BatchesAreSome DEF Poll!Look, LooseLook

LEMMA LookKeeps ==
  ASSUME LanesInv, NEW p \in Pushers, NEW i, LooseLook(p, i)
  PROVE  LanesInv'
<1> USE DEF LanesInv
<1>1. PICK l, b, g, x : /\ l_scan[p] = [lane |-> l, batch |-> b, got |-> g, lost |-> x]
                        /\ l \in 0..Len(Poll!Lanes(Home[p])) /\ g \subseteq Messages
                           /\ x \in BOOLEAN
  BY DEF ScansInv, ScanIs
<1>2. l_scan[p].lane = l /\ l_scan[p].batch = b /\ l_scan[p].got = g /\ l_scan[p].lost = x
  BY <1>1
<1>3. /\ i = IF l = 0 THEN 1 ELSE l
      /\ i \in 1..Len(Poll!Lanes(Home[p])) /\ i \in Nat
  <2>1. i = IF l_scan[p].lane = 0 THEN 1 ELSE l_scan[p].lane
    BY DEF LooseLook
  <2>2. PICK k : k = Len(Poll!Lanes(Home[p])) /\ k \in 1..3
    BY LanesAre
  <2>3. l \in 0..k /\ i = IF l = 0 THEN 1 ELSE l
    BY <1>1, <1>2, <2>1, <2>2
  <2>4. i \in 1..k /\ i \in Nat
    BY <2>2, <2>3
  <2> QED
    BY <2>2, <2>3, <2>4
<1>4. PICK S, new :
        /\ S \in Some(p, i) /\ l_scan' = [l_scan EXCEPT ![p] = new]
        /\ new = IF S = {} THEN Poll!Moved(p, Poll!NextLane(p, i))
                 ELSE [l_scan[p] EXCEPT !.lane = i,
                       !.batch = [m \in S |-> l_row[m].version]]
  BY DEF LooseLook
<1>5. /\ l_early' = [l_early EXCEPT ![p] = IF l_scan'[p].lane = 0 THEN {}
                                       ELSE IF l = 0 THEN {m \in Poll!Queued : Poll!Ready(m)} ELSE @]
      /\ UNCHANGED <<l_row, l_conf, l_cache, l_call, l_astray>>
  BY <1>2 DEF LooseLook
<1>6. /\ S \subseteq Poll!Queued
      /\ \A m \in S : l_row[m].ready /\ l_row[m].cluster = Home[p]
         /\ l_row[m].lane = Poll!LaneAt(p, i)
  BY <1>4 DEF Some, Poll!ReadyIn, Poll!InLane
<1>7. S = {} => \A m \in Poll!Queued : l_row[m].ready /\ l_row[m].cluster = Home[p] =>
                                l_row[m].lane # Poll!LaneAt(p, i)
  BY <1>4 DEF Some, Poll!ReadyIn, Poll!InLane
<1>8. PICK v : v = [m \in S |-> l_row[m].version]
  OBVIOUS
<1>9. v \in [S -> Versions] /\ DOMAIN v = S /\ \A m \in S : v[m] = l_row[m].version
      /\ v[m] \in Nat
  BY <1>6, <1>8 DEF RowsInv, RowIs, Versions
<1>10. \/ S # {} /\ new = [lane |-> i, batch |-> v, got |-> g, lost |-> x]
       \/ new = Poll!Asleep
       \/ /\ S = {} /\ i + 1 \in 1..Len(Poll!Lanes(Home[p]))
          /\ new = [lane |-> i + 1, batch |-> <<>>, got |-> g, lost |-> x]
  <2>1. CASE S # {}
    <3>1. new = [l_scan[p] EXCEPT !.lane = i, !.batch = v]
      BY <1>4, <1>8, <2>1
    <3>2. [l_scan[p] EXCEPT !.lane = i] = [lane |-> i, batch |-> b, got |-> g, lost |-> x]
      BY <1>1
    <3>3. [[lane |-> i, batch |-> b, got |-> g, lost |-> x] EXCEPT !.batch = v]
            = [lane |-> i, batch |-> v, got |-> g, lost |-> x]
      OBVIOUS
    <3> QED
      BY <2>1, <3>1, <3>2, <3>3
  <2>2. CASE S = {}
    <3>1. PICK next : next = Poll!NextLane(p, i)
      OBVIOUS
    <3>2. next \in 0..Len(Poll!Lanes(Home[p])) /\ next \in {0, i + 1}
      BY <1>3, <3>1, NextIs
    <3>3. ScanIs(p) /\ new = Poll!Moved(p, next)
      BY <1>4, <2>2, <3>1 DEF ScansInv
    <3>4. CASE next = 0
      BY <3>2, <3>3, <3>4, MovedIs
    <3>5. CASE next = i + 1
      <4>1. next > 0 /\ next \in 1..Len(Poll!Lanes(Home[p]))
        BY <1>3, <3>2, <3>5, LanesAre
      <4>2. new = [lane |-> next, batch |-> <<>>, got |-> g, lost |-> x]
        BY <1>2, <3>2, <3>3, <4>1, MovedIs
      <4> QED
        BY <2>2, <3>5, <4>1, <4>2
    <3> QED
      BY <3>2, <3>4, <3>5
  <2> QED
    BY <2>1, <2>2
<1>11. /\ new = [lane |-> new.lane, batch |-> new.batch, got |-> new.got, lost |-> new.lost]
       /\ new.lane \in 0..Len(Poll!Lanes(Home[p])) /\ new.got \subseteq Messages
          /\ new.lost \in BOOLEAN
       /\ \E R \in SUBSET Messages : new.batch \in [R -> Versions]
       /\ \A m \in DOMAIN new.batch : m \in S /\ new.batch[m] = l_row[m].version
          /\ new.lane = i
       /\ \/ new.lane = 0
          \/ new.lane = i /\ new.lost = x
          \/ new.lane = i + 1 /\ new.lost = x /\ S = {}
  <2>1. CASE S # {} /\ new = [lane |-> i, batch |-> v, got |-> g, lost |-> x]
    <3>1. new.lane = i /\ new.batch = v /\ new.got = g /\ new.lost = x
      BY <2>1
    <3>2. i \in 0..Len(Poll!Lanes(Home[p])) /\ S \in SUBSET Messages
      BY <1>3, <1>6, LanesAre DEF RowsInv
    <3> QED
      BY <1>1, <1>9, <2>1, <3>1, <3>2
  <2>2. CASE new = Poll!Asleep
    <3>1. 0 \in 0..Len(Poll!Lanes(Home[p]))
      BY LanesAre
    <3>2. new.batch = <<>> /\ new.got = {} /\ new.lost = FALSE /\ new.lane = 0
      BY <2>2, AsleepIs
    <3> QED
      BY <2>2, <3>1, <3>2, AsleepIs
  <2>3. CASE /\ S = {} /\ i + 1 \in 1..Len(Poll!Lanes(Home[p]))
             /\ new = [lane |-> i + 1, batch |-> <<>>, got |-> g, lost |-> x]
    <3>1. i + 1 \in 0..Len(Poll!Lanes(Home[p]))
      BY <2>3, LanesAre
    <3>2. PICK e : e = <<>>
      OBVIOUS
    <3>3. DOMAIN e = {} /\ e \in [{} -> Versions]
      BY <3>2, AsleepIs
    <3>4. new = [lane |-> i + 1, batch |-> e, got |-> g, lost |-> x]
      BY <2>3, <3>2
    <3>5. new.lane = i + 1 /\ new.batch = e /\ new.got = g /\ new.lost = x
      BY <3>4
    <3> QED
      BY <1>1, <2>3, <3>1, <3>3, <3>4, <3>5
  <2> QED
    BY <1>10, <2>1, <2>2, <2>3
<1>12. /\ DOMAIN l_scan' = Pushers /\ l_scan'[p] = new
       /\ \A q \in Pushers : q # p => l_scan'[q] = l_scan[q]
  BY <1>4 DEF ScansInv
<1>13. RowsInv' /\ Poll!Queued' = Poll!Queued
  BY <1>5, RowsStay DEF RowsInv
<1>14. CallsInv' /\ RoutesInv'
  <2>1. \A n \in Poll!Queued' : l_row'[n].cluster = l_row[n].cluster
        /\ l_row'[n].lane = l_row[n].lane
    BY <1>5
  <2> QED
    BY <1>5, <1>13, <2>1, CallsStay, RoutesStay
<1>15. ScansInv'
  <2>1. ScanIs(p)'
    BY <1>11, <1>12 DEF ScanIs
  <2>2. ASSUME NEW q \in Pushers, q # p PROVE ScanIs(q)'
    BY <1>12, <2>2 DEF ScansInv, ScanIs
  <2>3. {m \in Poll!Queued : Poll!Ready(m)} \subseteq Messages
    BY DEF RowsInv
  <2>4. l_early' \in [Pushers -> SUBSET Messages]
    BY <1>5, <2>3 DEF ScansInv
  <2> QED
    BY <1>12, <2>1, <2>2, <2>4 DEF ScansInv
<1>16. BatchInv'
  <2> SUFFICES ASSUME NEW q \in Pushers, NEW n \in DOMAIN l_scan'[q].batch
               PROVE  l_scan'[q].lane > 0 /\ Read(q, n, l_scan[q].batch[n])'
    BY DEF BatchInv
  <2>1. CASE q = p
    <3>1. n \in S /\ l_scan'[p].batch[n] = l_row[n].version /\ l_scan'[p].lane = i
      BY <1>11, <1>12, <2>1
    <3>2. /\ n \in Poll!Queued /\ l_row[n].version \in Nat /\ l_row[n].ready
             /\ l_row[n].cluster = Home[p]
          /\ l_row[n].lane = Poll!LaneAt(p, i)
      BY <1>6, <1>9, <3>1
    <3> QED
      BY <1>3, <1>5, <1>13, <2>1, <3>1, <3>2 DEF Read, Poll!LaneAt
  <2>2. CASE q # p
    <3>1. l_scan'[q] = l_scan[q]
      BY <1>12, <2>2
    <3> QED
      BY <1>5, <1>13, <3>1 DEF BatchInv, Read, Poll!LaneAt
  <2> QED
    BY <2>1, <2>2
<1>17. EarlyInv'
  <2> SUFFICES ASSUME NEW q \in Pushers, NEW n \in l_early'[q]
               PROVE  /\ Poll!Ready(n)'
                      /\ ~l_scan'[q].lost /\ l_row'[n].cluster = Home[q] =>
                           \A j \in 1..(l_scan'[q].lane - 1) : l_row'[n].lane # Poll!LaneAt(q, j)
    BY DEF EarlyInv, Poll!LaneAt
  <2>1. Poll!Ready(n) /\ l_row' = l_row
    BY <1>5 DEF ScansInv, EarlyInv
  <2>2. Poll!Ready(n)'
    BY <1>13, <2>1 DEF Poll!Ready
  <2>3. CASE q # p
    <3>1. l_scan'[q] = l_scan[q] /\ n \in l_early[q]
      BY <1>5, <1>12, <2>3 DEF ScansInv
    <3> QED
      BY <2>1, <2>2, <3>1 DEF EarlyInv
  <2>4. CASE q = p
    <3>1. /\ l_scan'[p].lane # 0
          /\ l = 0 \/ n \in l_early[p]
      BY <1>5, <2>4 DEF ScansInv
    <3>2. CASE new.lane = i /\ new.lost = x
      BY <1>2, <1>3, <1>12, <2>1, <2>2, <2>4, <3>1, <3>2 DEF EarlyInv
    <3>3. CASE new.lane = i + 1 /\ new.lost = x /\ S = {}
      <4>1. l_row[n].cluster = Home[p] => l_row[n].lane # Poll!LaneAt(p, i)
        BY <1>7, <2>1, <3>3 DEF Poll!Ready
      <4>2. l # 0 /\ ~x /\ l_row[n].cluster = Home[p] =>
              \A j \in 1..(l - 1) : l_row[n].lane # Poll!LaneAt(p, j)
        BY <1>2, <3>1 DEF EarlyInv
      <4>3. \A j \in 1..(l_scan'[p].lane - 1) : j = i \/ (l # 0 /\ j \in 1..(l - 1))
        BY <1>1, <1>3, <1>12, <3>3
      <4> QED
        BY <1>12, <2>1, <2>2, <2>4, <3>3, <4>1, <4>2, <4>3
    <3> QED
      BY <1>11, <1>12, <3>1, <3>2, <3>3
  <2> QED
    BY <2>3, <2>4
<1> QED
  BY <1>13, <1>14, <1>15, <1>16, <1>17
LoosePusher(p) == (\E i \in 1..3 : LooseLook(p, i))
\/ (\E m \in Messages : Poll!Lease(p, m))
LooseCaller(t) ==
  \/ \E m \in Messages, c \in Clusters, n \in BOOLEAN,
     pr \in Poll!Priorities : Poll!Route(t, m, c, n, pr)
  \/ Poll!Build(t) \/ Poll!Built(t) \/ Poll!Put(t)
LooseStep ==
  \/ \E t \in Callers : LooseCaller(t)
  \/ \E p \in Pushers : LoosePusher(p)
  \/ \E m \in Messages : Poll!Acknowledge(m) \/ Poll!Lapse(m)
  \/ Poll!ResetCache

LEMMA NextIsLoose ==
  ASSUME Poll!LanesAssumption, LanesInv, Poll!Next
  PROVE  LooseStep
<1>1. IsFiniteSet(Poll!Queued)
  BY DEF LanesInv, RowsInv
<1>2. ASSUME NEW p \in Pushers, Poll!Pusher(p) PROVE LoosePusher(p)
  BY <1>1, <1>2, LookIsLoose DEF Poll!Pusher, LoosePusher
<1>3. ASSUME NEW t \in Callers, Poll!Caller(t) PROVE LooseCaller(t)
  <2>1. ASSUME NEW m \in Messages, NEW q \in PollRequests,
               Poll!Route(t, m, q[1], q[2], q[3])
        PROVE  LooseCaller(t)
    <3>1. q[1] \in Clusters /\ q[2] \in BOOLEAN /\ q[3] \in Poll!Priorities
      BY DEF Poll!LanesAssumption, Poll!Priorities
    <3> QED
      BY <2>1, <3>1 DEF LooseCaller
  <2> QED
    BY <1>3, <2>1 DEF Poll!Caller, LooseCaller
<1> QED
  BY <1>2, <1>3 DEF Poll!Next, LooseStep

LEMMA IdleLanes == ASSUME LanesInv, UNCHANGED Poll!vars PROVE LanesInv'
<1> USE DEF LanesInv
<1>1. UNCHANGED <<l_row, l_conf, l_cache, l_call, l_scan, l_astray, l_early>>
  BY DEF Poll!vars
<1>2. RowsInv' /\ Poll!Queued' = Poll!Queued
  BY <1>1, RowsStay DEF RowsInv
<1>3. CallsInv'
  BY <1>1, <1>2, CallsStay
<1>4. RoutesInv'
  BY <1>1, <1>2, RoutesStay
<1> QED
  BY <1>1, <1>2, <1>3, <1>4, ScansStay

LEMMA StepLanes ==
  ASSUME Poll!LanesAssumption, LanesInv, LooseStep
  PROVE  LanesInv'
<1>1. ASSUME NEW t \in Callers, LooseCaller(t) PROVE LanesInv'
  BY <1>1, RouteKeeps, BuildKeeps, PutKeeps DEF LooseCaller
<1>2. ASSUME NEW p \in Pushers, LoosePusher(p) PROVE LanesInv'
  BY <1>2, LookKeeps, LeaseKeeps DEF LoosePusher
<1>3. ASSUME NEW m \in Messages, Poll!Acknowledge(m) \/ Poll!Lapse(m) PROVE LanesInv'
  BY <1>3, AcknowledgeKeeps, LapseKeeps
<1> QED
  BY <1>1, <1>2, <1>3, ResetKeeps DEF LooseStep

LEMMA LanesMean == ASSUME LanesInv PROVE Poll!EveryLaneIsDrained
BY DEF LanesInv, RoutesInv, Poll!EveryLaneIsDrained, Drained

(* A row leased now has the lock its pusher read in the lane the pusher is *)
(* at, and every row that was there first and is ready is in no lane the   *)
(* scan is past.                                                           *)
LEMMA ServesInOrder ==
  ASSUME LanesInv, NEW p \in Pushers, NEW m \in Messages, LooseStep, Poll!LeasesNow(p, m),
         ~l_scan[p].lost
  PROVE  Poll!Passed(p, m) = {}
<1> USE DEF LanesInv
<1>1. m \in DOMAIN l_scan[p].batch /\ m \in Poll!Queued /\ l_row' # l_row
      /\ l_scan' # l_scan /\ l_scan'[p] # l_scan[p]
      /\ m \in DOMAIN l_row' /\ l_row'[m].version # l_row[m].version
  BY DEF Poll!LeasesNow
<1>2. Poll!Lease(p, m) /\ Poll!SameLock(p, m)
  <2>1. ASSUME NEW t \in Callers PROVE ~LooseCaller(t)
    BY <1>1 DEF LooseCaller, Poll!Route, Poll!Build, Poll!Built, Poll!Put
  <2>2. ~Poll!ResetCache
    BY <1>1 DEF Poll!ResetCache
  <2>3. ASSUME NEW n \in Messages, Poll!Acknowledge(n) \/ Poll!Lapse(n) PROVE FALSE
    <3>1. ~Poll!Lapse(n)
      BY <1>1 DEF Poll!Lapse
    <3>2. ASSUME Poll!Acknowledge(n) PROVE FALSE
      <4>1. l_row' = [k \in Poll!Queued \ {n} |-> l_row[k]]
        BY <3>2 DEF Poll!Acknowledge
      <4> QED
        BY <1>1, <4>1
    <3> QED
      BY <2>3, <3>1, <3>2
  <2>4. ASSUME NEW q \in Pushers, NEW i, LooseLook(q, i) PROVE FALSE
    BY <1>1, <2>4 DEF LooseLook
  <2>5. PICK q \in Pushers, n \in Messages : Poll!Lease(q, n)
    BY <2>1, <2>2, <2>3, <2>4 DEF LooseStep, LoosePusher
  <2>6. Poll!SameLock(q, n)
    BY <1>1, <2>5 DEF Poll!Lease
  <2>7. q = p
    <3>1. PICK new : l_scan' = [l_scan EXCEPT ![q] = new]
      BY <2>5, <2>6 DEF Poll!Lease
    <3> QED
      BY <1>1, <3>1 DEF ScansInv
  <2>8. n = m
    <3>1. PICK new : l_row' = [l_row EXCEPT ![n] = new]
      BY <2>5, <2>6 DEF Poll!Lease
    <3> QED
      BY <1>1, <3>1 DEF RowsInv
  <2> QED
    BY <2>5, <2>6, <2>7, <2>8
<1>3. l_row[m].lane = Poll!LaneAt(p, l_scan[p].lane)
      /\ l_scan[p].lane \in 1..Len(Poll!Lanes(Home[p]))
  <2>1. PICK v : v = l_scan[p].batch[m]
    OBVIOUS
  <2>2. v = l_row[m].version /\ Read(p, m, v) /\ l_scan[p].lane > 0
    BY <1>1, <1>2, <2>1 DEF Poll!SameLock, BatchInv
  <2>3. v # Poll!Gone
    BY <1>1, <2>2 DEF RowsInv, RowIs, Poll!Gone
  <2> QED
    BY <2>2, <2>3, LanesAre DEF Read, ScansInv, ScanIs
<1> SUFFICES ASSUME NEW n \in Poll!Passed(p, m) PROVE FALSE
  OBVIOUS
<1>4. /\ n \in l_early[p] /\ l_row[n].cluster = Home[p]
      /\ Poll!Rank(l_row[n].lane) < Poll!Rank(l_row[m].lane)
  BY DEF Poll!Passed
<1>5. PICK i \in 1..Len(Poll!Lanes(Home[p])) : Poll!LaneAt(p, i) = l_row[n].lane
  BY LanesAre DEF Poll!Passed, Poll!Polls
<1>6. i < l_scan[p].lane
  BY <1>3, <1>4, <1>5, LanesAre DEF Poll!LaneAt
<1>7. i \in 1..(l_scan[p].lane - 1)
  BY <1>3, <1>5, <1>6, LanesAre
<1> QED
  BY <1>4, <1>5, <1>7 DEF EarlyInv

LEMMA StepServesInOrder ==
  ASSUME LanesInv, LooseStep
  PROVE  Poll!ServedInOrder
BY ServesInOrder DEF Poll!ServedInOrder, LanesInv, ScansInv, ScanIs

LEMMA LanesTyped == ASSUME Poll!LanesAssumption, LanesInv PROVE Poll!TypeOK
<1>1. ASSUME NEW m \in Poll!Queued
      PROVE  l_row[m] \in [cluster: Clusters, lane: Poll!Priorities, version: 0..MaxLeases,
                           ready: BOOLEAN]
  BY DEF LanesInv, RowsInv, RowIs, Poll!Priorities
<1>2. ASSUME NEW t \in Callers PROVE l_call[t].at \in {"idle", "routed", "building"}
  <2>1. Poll!Idle.at = "idle"
    BY DEF Poll!Idle
  <2> QED
    BY <2>1 DEF LanesInv, CallsInv, CallIs
<1>3. ASSUME NEW p \in Pushers
      PROVE  /\ l_scan[p].lane \in 0..Len(Poll!Lanes(Home[p]))
             /\ l_scan[p].got \subseteq Messages /\ l_scan[p].lost \in BOOLEAN
  BY DEF LanesInv, ScansInv, ScanIs
<1>4. /\ Poll!Queued \subseteq Messages /\ l_conf \in Clusters
         /\ l_cache \subseteq Clusters \X Poll!Priorities
      /\ l_astray \subseteq Messages /\ l_early \in [Pushers -> SUBSET Messages]
  BY DEF LanesInv, RowsInv, ScansInv, Poll!Priorities
<1> QED
  BY <1>1, <1>2, <1>3, <1>4 DEF Poll!TypeOK

(* A row is leased by a pusher that read the lock it still has, and it was *)
(* ready then.                                                             *)
LEMMA LeasesWhenReady ==
  ASSUME Poll!LanesAssumption, LanesInv, LooseStep, NEW m \in Poll!Queued,
         m \in DOMAIN l_row',
         l_row'[m].version # l_row[m].version
  PROVE  l_row[m].ready /\ l_row'[m].version = l_row[m].version + 1
<1> USE DEF LanesInv
<1>1. ASSUME NEW t \in Callers, LooseCaller(t) PROVE FALSE
  <2>1. \A x, c, n, pr : ~Poll!Route(t, x, c, n, pr)
    BY DEF Poll!Route
  <2>2. ~Poll!Build(t) /\ ~Poll!Built(t)
    BY DEF Poll!Build, Poll!Built
  <2>3. Poll!Put(t)
    BY <1>1, <2>1, <2>2 DEF LooseCaller
  <2>4. l_call[t] # Poll!Idle
    BY <2>3 DEF Poll!Put, Poll!Idle
  <2>5. l_call[t].message # m
    BY <2>4 DEF CallsInv, CallIs
  <2> QED
    BY <2>3, <2>5 DEF Poll!Put
<1>2. ~Poll!ResetCache
  BY DEF Poll!ResetCache
<1>3. ASSUME NEW q \in Pushers, NEW i, LooseLook(q, i) PROVE FALSE
  BY <1>3 DEF LooseLook
<1>4. ASSUME NEW n \in Messages, Poll!Acknowledge(n) PROVE FALSE
  BY <1>4 DEF Poll!Acknowledge, Poll!Queued
<1>5. ASSUME NEW n \in Messages, Poll!Lapse(n) PROVE FALSE
  <2>1. n \in Poll!Queued /\ l_row' = [l_row EXCEPT ![n].ready = TRUE]
    BY <1>5 DEF Poll!Lapse
  <2>2. PICK c, l, v, b : l_row[n] = [cluster |-> c, lane |-> l, version |-> v, ready |-> b]
    BY <2>1 DEF RowsInv, RowIs
  <2>3. PICK y : y = TRUE
    OBVIOUS
  <2>4. l_row'[n] = [l_row[n] EXCEPT !.ready = y]
    BY <2>1, <2>3 DEF Poll!Queued
  <2>5. l_row'[n] = [cluster |-> c, lane |-> l, version |-> v, ready |-> y]
    BY <2>2, <2>4
  <2>6. l_row'[n].version = l_row[n].version
    BY <2>2, <2>5
  <2>7. n # m => l_row'[m] = l_row[m]
    BY <2>1 DEF Poll!Queued
  <2> QED
    BY <2>6, <2>7
<1>6. PICK p \in Pushers, n \in Messages : Poll!Lease(p, n)
  BY <1>1, <1>2, <1>3, <1>4, <1>5 DEF LooseStep, LoosePusher
<1>7. /\ n \in DOMAIN l_scan[p].batch /\ Poll!SameLock(p, n)
      /\ l_row' = [l_row EXCEPT ![n].version = @ + 1, ![n].ready = FALSE]
  BY <1>6 DEF Poll!Lease
<1>8. PICK z : l_row' = [l_row EXCEPT ![n] = z]
  BY <1>7
<1>9. n = m
  BY <1>8 DEF Poll!Queued
<1>10. l_row[m].ready
  <2>1. PICK v : v = l_scan[p].batch[m]
    OBVIOUS
  <2>2. v = l_row[m].version /\ Read(p, m, v)
    BY <1>7, <1>9, <2>1 DEF Poll!SameLock, BatchInv
  <2>3. v # Poll!Gone
    BY <2>2 DEF RowsInv, RowIs, Poll!Gone, Poll!LanesAssumption
  <2> QED
    BY <2>2, <2>3 DEF Read
<1>11. l_row'[m].version = l_row[m].version + 1
  <2>1. PICK c, k, v, y : l_row[m] = [cluster |-> c, lane |-> k, version |-> v, ready |-> y]
    BY DEF RowsInv, RowIs
  <2>2. l_row[m].version = v
    BY <2>1
  <2>3. PICK w, f : w = v + 1 /\ f = FALSE
    OBVIOUS
  <2>4. l_row' = [l_row EXCEPT ![m].version = v + 1, ![m].ready = FALSE]
    BY <1>7, <1>9, <2>2, Zenon
  <2>5. l_row' = [l_row EXCEPT ![m].version = w, ![m].ready = f]
    BY <2>3, <2>4, Zenon
  <2>6. [l_row[m] EXCEPT !.version = w] = [cluster |-> c, lane |-> k, version |-> w,
                                           ready |-> y]
    BY <2>1
  <2>7. PICK z1 : z1 = [cluster |-> c, lane |-> k, version |-> w, ready |-> y]
    OBVIOUS
  <2>8. l_row' = [[l_row EXCEPT ![m] = z1] EXCEPT ![m].ready = f]
    BY <2>5, <2>6, <2>7, Zenon
  <2>9. PICK z2 : z2 = [z1 EXCEPT !.ready = f]
    OBVIOUS
  <2>10. l_row'[m] = z2
    BY <2>8, <2>9 DEF Poll!Queued
  <2>11. z2 = [cluster |-> c, lane |-> k, version |-> w, ready |-> f]
    <3>1. [[cluster |-> c, lane |-> k, version |-> w, ready |-> y] EXCEPT !.ready = f]
            = [cluster |-> c, lane |-> k, version |-> w, ready |-> f]
      OBVIOUS
    <3> QED
      BY <2>7, <2>9, <3>1
  <2> QED
    BY <2>2, <2>3, <2>10, <2>11
<1> QED
  BY <1>10, <1>11

-----------------------------------------------------------------------------
(* The enqueuing process takes the same steps, but for its requests and    *)
(* the size of its batches.                                                *)
LEMMA SameCallers ==
  ASSUME NEW t, Send!LanesAssumption, Send!Caller(t)
  PROVE  LooseCaller(t)
<1>1. \A m, c, n, pr : Send!Route(t, m, c, n, pr) <=> Poll!Route(t, m, c, n, pr)
  BY DEF Send!Idle, Send!Queued, Send!Drains, Send!LaneFor, Send!Free,
         Send!Patched, Send!Route, Poll!Idle, Poll!Queued, Poll!Drains,
         Poll!LaneFor, Poll!Free, Poll!Patched, Poll!Route
<1>2. /\ Send!Build(t) <=> Poll!Build(t)
      /\ Send!Built(t) <=> Poll!Built(t)
      /\ Send!Put(t) <=> Poll!Put(t)
  BY DEF Send!Idle, Send!Queued, Send!Patched, Send!BrokerOf, Send!Build,
         Send!Restored, Send!Built, Send!Put, Poll!Idle, Poll!Queued,
         Poll!Patched, Poll!BrokerOf, Poll!Build, Poll!Restored, Poll!Built,
         Poll!Put
<1>3. ASSUME NEW m \in Messages, NEW q \in SendRequests, Send!Route(t, m, q[1], q[2], q[3])
      PROVE  LooseCaller(t)
  <2>1. q[1] \in Clusters /\ q[2] \in BOOLEAN /\ q[3] \in Poll!Priorities
    BY DEF Send!LanesAssumption, Poll!Priorities
  <2>2. Poll!Route(t, m, q[1], q[2], q[3])
    BY <1>1, <1>3
  <2> QED
    BY <2>1, <2>2 DEF LooseCaller
<1> QED
  BY <1>2, <1>3 DEF Send!Caller, LooseCaller

LEMMA SamePushers ==
  ASSUME NEW p \in Pushers, Send!LanesAssumption, IsFiniteSet(Poll!Queued), Send!Pusher(p)
  PROVE  LoosePusher(p)
<1>1. \A m : Send!Lease(p, m) <=> Poll!Lease(p, m)
  BY DEF Send!Asleep, Send!Queued, Send!Lanes, Send!NextLane, Send!Moved,
         Send!SameLock, Send!After, Send!Lease, Poll!Asleep, Poll!Queued,
         Poll!Lanes, Poll!NextLane, Poll!Moved, Poll!SameLock, Poll!After,
         Poll!Lease
<1>2. ASSUME NEW i PROVE Send!Batches(p, i) \subseteq Some(p, i)
  <2> DEFINE R == Poll!ReadyIn(Home[p], Poll!LaneAt(p, i))
  <2>1. R \subseteq Poll!Queued
    BY DEF Poll!ReadyIn, Poll!InLane
  <2>2. IsFiniteSet(R)
    BY <2>1, FS_Subset
  <2>3. R = Send!ReadyIn(Home[p], Send!LaneAt(p, i))
    BY DEF Send!Queued, Send!Lanes, Send!InLane, Send!ReadyIn, Send!LaneAt,
           Poll!Queued, Poll!Lanes, Poll!InLane, Poll!ReadyIn, Poll!LaneAt
  <2>4. SUFFICES ASSUME NEW S \in Send!Batches(p, i)
               PROVE  S \subseteq R /\ (S = {} <=> R = {})
    BY DEF Some
  <2>5. /\ S \subseteq R
        /\ Cardinality(S) = IF Cardinality(R) < SendBulk THEN Cardinality(R) ELSE SendBulk
    BY <2>3 DEF Send!Batches, Send!Cardinality, Cardinality
  <2>6. SendBulk \in Nat \ {0}
    BY DEF Send!LanesAssumption
  <2> HIDE DEF R
  <2> QED
    BY <2>2, <2>5, <2>6, SomeOfThem
<1>3. ASSUME NEW i, Send!Look(p, i) PROVE LooseLook(p, i)
  <2>1. /\ Send!Queued = Poll!Queued
        /\ \A m : Send!Ready(m) <=> Poll!Ready(m)
        /\ Send!NextLane(p, i) = Poll!NextLane(p, i)
        /\ \A j : Send!Moved(p, j) = Poll!Moved(p, j)
    BY DEF Send!Asleep, Send!Queued, Send!Ready, Send!Lanes, Send!NextLane,
           Send!Moved, Poll!Asleep, Poll!Queued, Poll!Ready, Poll!Lanes,
           Poll!NextLane, Poll!Moved
  <2> QED
    BY <1>2, <1>3, <2>1 DEF Send!Look, LooseLook
<1> QED
  BY <1>1, <1>3 DEF Send!Pusher, LoosePusher

LEMMA SendIsLoose ==
  ASSUME ClusterAssumption, LanesInv, Send!Next
  PROVE  LooseStep
<1>1. Send!LanesAssumption /\ IsFiniteSet(Poll!Queued)
  BY DEF ClusterAssumption, LanesInv, RowsInv
<1>2. \A m : /\ Send!Acknowledge(m) <=> Poll!Acknowledge(m)
             /\ Send!Lapse(m) <=> Poll!Lapse(m)
  BY DEF Send!Gone, Send!Queued, Send!Acknowledge, Send!Lapse, Poll!Gone,
         Poll!Queued, Poll!Acknowledge, Poll!Lapse
<1>3. Send!ResetCache <=> Poll!ResetCache
  BY DEF Send!ResetCache, Poll!ResetCache
<1> QED
  BY <1>1, <1>2, <1>3, SameCallers, SamePushers DEF Send!Next, LooseStep

LEMMA LanesSay ==
  /\ Poll!TypeOK => Send!TypeOK
  /\ Poll!EveryLaneIsDrained => Send!EveryLaneIsDrained
BY DEF Send!Priorities, Send!Queued, Send!Lanes, Send!TypeOK,
       Send!EveryLaneIsDrained, Poll!Priorities, Poll!Queued, Poll!Lanes,
       Poll!TypeOK, Poll!EveryLaneIsDrained

LEMMA LanesRun == ClusterAssumption /\ LanesInv /\ [SuiteNext]_suite
  => LooseStep \/ UNCHANGED l_vars
BY SendIsLoose, NextIsLoose DEF SuiteNext, suite, ClusterAssumption

LEMMA SuiteStarts == ClusterAssumption /\ SuiteInit => LanesInv
<1>1. Send!Init => Poll!Init
  BY DEF Send!Idle, Send!Asleep, Send!Init, Poll!Idle, Poll!Asleep, Poll!Init
<1> QED
  BY <1>1, StartLanes DEF SuiteInit, ClusterAssumption

LEMMA SuiteKeeps == ClusterAssumption /\ LanesInv /\ [SuiteNext]_suite => LanesInv'
<1>1. UNCHANGED l_vars => UNCHANGED Poll!vars
  BY DEF l_vars, Poll!vars
<1> QED
  BY <1>1, LanesRun, StepLanes, IdleLanes DEF ClusterAssumption

(* Whatever is patched while brokers are built, a message lands in a lane  *)
(* that some pusher drains (brokers.py).                                   *)
THEOREM LanesAreDrained == SuiteSpec => []EveryLaneIsDrained
<1>1. SuiteInit => LanesInv
  BY SuiteStarts, ClusterAssumption
<1>2. LanesInv /\ [SuiteNext]_suite => LanesInv'
  BY SuiteKeeps, ClusterAssumption
<1>3. LanesInv => EveryLaneIsDrained
  BY ClusterAssumption, LanesMean, LanesTyped, LanesSay DEF ClusterAssumption,
                                                            EveryLaneIsDrained
<1> QED
  BY <1>1, <1>2, <1>3, PTL DEF SuiteSpec

(* A row is leased only when its lock has run out, and past a row of a     *)
(* higher lane only by a poller that lost a race for that lane (brokers).  *)
THEOREM LanesAreInOrder == SuiteSpec => LanesInOrder
<1>1. SuiteInit => LanesInv
  BY SuiteStarts, ClusterAssumption
<1>2. LanesInv /\ [SuiteNext]_suite => LanesInv'
  BY SuiteKeeps, ClusterAssumption
<1>3. LanesInv /\ [SuiteNext]_suite
      => [\A m \in Poll!Queued : m \in DOMAIN l_row' /\ l_row'[m].version # l_row[m].version
            => l_row[m].ready /\ l_row'[m].version = l_row[m].version + 1]_(Poll!vars)
  <2> SUFFICES ASSUME LanesInv, [SuiteNext]_suite, ~UNCHANGED Poll!vars,
                      NEW m \in Poll!Queued, m \in DOMAIN l_row',
                      l_row'[m].version # l_row[m].version
               PROVE  l_row[m].ready /\ l_row'[m].version = l_row[m].version + 1
    OBVIOUS
  <2>1. ~UNCHANGED l_vars
    BY DEF l_vars, Poll!vars
  <2> QED
    BY <2>1, LanesRun, LeasesWhenReady, ClusterAssumption DEF ClusterAssumption
<1>4. LanesInv /\ [SuiteNext]_suite => [Poll!ServedInOrder]_(Poll!vars)
  <2> SUFFICES ASSUME LanesInv, [SuiteNext]_suite,
                      ~UNCHANGED Poll!vars PROVE Poll!ServedInOrder
    OBVIOUS
  <2>1. ~UNCHANGED l_vars
    BY DEF l_vars, Poll!vars
  <2> QED
    BY <2>1, LanesRun, StepServesInOrder, ClusterAssumption DEF ClusterAssumption
<1>5. SuiteSpec => Poll!LeasedWhenReady
  BY <1>1, <1>2, <1>3, PTL DEF SuiteSpec, Poll!LeasedWhenReady
<1>6. SuiteSpec => Poll!LanesInOrder
  BY <1>1, <1>2, <1>4, PTL DEF SuiteSpec, Poll!LanesInOrder
<1> QED
  BY <1>5, <1>6 DEF LanesInOrder
=============================================================================
