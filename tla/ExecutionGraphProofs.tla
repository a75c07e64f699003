------------------------ MODULE ExecutionGraphProofs ------------------------
(***************************************************************************)
(* Theorems about ExecutionGraph, for every plan without a cycle, any      *)
(* gates, monitors, reapers and operators, and any number of resumes,      *)
(* requeues and faults.                                                    *)
(*                                                                         *)
(* The properties of a node are those of its row beside the tasks made for *)
(* it, and most steps touch one node or put new rows in place of several,  *)
(* so the invariant of a node is an operator on a row and on tasks         *)
(* (RowOK), applied to the rows of the state and to the ones a step hands  *)
(* to Advance.                                                             *)
(***************************************************************************)
EXTENDS ExecutionGraph, TLAPS

NodeRow == [status : NodeStatus, gen : Gen, task : Tid \cup {0}, receipt : Tid \cup {0}]
TaskRow == [gen : Gen \cup {0}, out : [Run -> {"none", "open", "ok", "fail"}],
            routed : SUBSET Run, alive : SUBSET Run, published : [Run -> 0..2]]
ProcRow == [pc : {"idle", "handle", "committed", "hook", "mark"},
            node : Node \cup {0}, task : Tid \cup {0}, run : Run \cup {0},
            out : {"none", "ok", "fail"}, gen : Gen \cup {0}]

(* Run r is the last of the runs of t.                                     *)
Last(t, r) == \A q \in Run : t.out[q] # "none" <=> q <= r

(* Another run of t has come after q.                                      *)
Superseded(t, q) == q + 1 \in Run /\ t.out[q + 1] # "none"

Ended(t, q) == t.out[q] \in {"ok", "fail"}

(* A task: its runs are numbered from 1, routed when they have ended, and  *)
(* one of them at most has published, once.                                *)
TaskOK(t) ==
  /\ \E r \in Run : Last(t, r)
  /\ \A q \in t.routed : Ended(t, q)
  /\ \A q \in Run : t.published[q] <= 1
  /\ \A q, r \in Run : t.published[q] > 0 /\ t.published[r] > 0 => q = r

(* The tasks of a node: numbered from 1, one for each generation.          *)
TasksOK(tk) ==
  /\ \E m \in 0..MaxGen : \A k \in Tid : tk[k].gen # 0 <=> k <= m
  /\ \A k \in Tid : tk[k].gen # 0 => TaskOK(tk[k])
  /\ \A k \in Tid : tk[k].gen = 0 => tk[k] = NoTask
  /\ \A j, k \in Tid : tk[j].gen # 0 /\ tk[j].gen = tk[k].gen => j = k

(* A row of generation g of the graph beside the node's tasks tk: it is    *)
(* bound while it runs and after it ran, to the task of its own            *)
(* generation, which has not published unless the receipt says so, and     *)
(* tells how that task ended.                                              *)
RowOK(nd, tk, g) ==
  /\ nd.gen <= g
  /\ nd.task # 0 <=> nd.status \in {"RUNNING", "SUCCEEDED", "FAILED"}
  /\ nd.task # 0 => tk[nd.task].gen = nd.gen
  /\ \A k \in Tid : tk[k].gen <= nd.gen /\ (tk[k].gen = nd.gen => k = nd.task)
  /\ nd.receipt \in {0, nd.task}
  /\ nd.task # 0 /\ nd.receipt = 0 => \A r \in Run : tk[nd.task].published[r] = 0
  /\ nd.status = "SUCCEEDED" => \E r \in Run : tk[nd.task].out[r] = "ok"
  /\ nd.status = "FAILED" => \E r \in Run : tk[nd.task].out[r] = "fail"

RowsOK(ns, g) == \A n \in Node : RowOK(ns[n], task[n], g)

(* Whoever is not waiting for its turn, or skipped, has all it depends on. *)
InOrder(ns) ==
  \A n \in Node : ns[n].status \notin {"PENDING", "SKIPPED"} =>
    \A d \in After(n) : ns[d].status \in Satisfied

(* A live graph has dispatched or parked whatever is ready, and a running  *)
(* one has a node that runs.                                               *)
Drained ==
  /\ status \in Live => Ready(node) = {}
  /\ status = "RUNNING" => Has(node, "RUNNING")

Recorded(g) == \E e \in outbox : e.gen = g

(* What a router or an operator holds: a run that has ended, an outcome    *)
(* its task has had, no outcome only if the task has been run again, and   *)
(* the generation of a settlement that is in the outbox.  Past the node's  *)
(* transaction, the node it is bound to no longer waits for that run.      *)
ProcOK(p) ==
  LET n == proc[p].node
      t == task[n][proc[p].task]
  IN
  /\ proc[p].pc \in {"handle", "committed", "mark"} => n # 0
  /\ proc[p].pc # "idle" /\ n # 0 =>
       /\ proc[p].task # 0 /\ proc[p].run # 0 /\ t.gen # 0
       /\ Ended(t, proc[p].run)
  /\ proc[p].pc = "committed" => proc[p].out = "ok"
  /\ proc[p].pc \in {"handle", "committed"} /\ proc[p].out # "none" =>
       \E r \in Run : t.out[r] = proc[p].out
  /\ proc[p].pc = "handle" /\ proc[p].out = "none" => Superseded(t, proc[p].run)
  /\ proc[p].pc \in {"hook", "mark"} /\ n # 0 =>
       \/ node[n].task # proc[p].task
       \/ node[n].status # "RUNNING"
       \/ Superseded(t, proc[p].run)
  /\ proc[p].pc = "hook" => proc[p].gen # 0 /\ Recorded(proc[p].gen)

ProcsOK == \A p \in Proc : ProcOK(p)

Committing(n, k) ==
  \E p \in Routers : proc[p].pc = "committed" /\ proc[p].node = n /\ proc[p].task = k

(* A running node waits for the last run of its task.                      *)
Awaited(n) ==
  LET k == node[n].task
      t == task[n][k]
  IN
  \/ \E r \in Run : Last(t, r) /\ (t.out[r] = "open" \/ r \notin t.routed)
  \/ Committing(n, k)
  \/ n \in lost

IInv ==
  /\ TypeOK
  /\ \A n \in Node : TasksOK(task[n])
  /\ RowsOK(node, gen) /\ InOrder(node) /\ GateHolds
  /\ Drained /\ SettlementIsTrue /\ OutboxIsComplete
  /\ ProcsOK
  /\ \A n \in Node : node[n].status = "RUNNING" => Awaited(n)
-----------------------------------------------------------------------------
(* Runs and tasks are numbered without a gap, so the operators that choose *)
(* the last run and the next task have the value one expects.              *)

LEMMA RowTypes ==
  TypeOK =>
    /\ node \in [Node -> NodeRow] /\ task \in [Node -> [Tid -> TaskRow]]
    /\ proc \in [Proc -> ProcRow]
BY DEF TypeOK, NodeRow, TaskRow, ProcRow

LEMMA NewestIs ==
  ASSUME GraphAssumption, NEW t \in TaskRow, NEW r \in Run, Last(t, r)
  PROVE  Newest(t) = r
<1>1. \A q \in Run : t.out[q] # "none" /\ (q + 1 \in Run => t.out[q + 1] = "none")
                       => q = r
  BY DEF Last, Run, GraphAssumption
<1>2. t.out[r] # "none" /\ (r + 1 \in Run => t.out[r + 1] = "none")
  BY DEF Last, Run, GraphAssumption
<1> QED
  BY <1>1, <1>2 DEF Newest

LEMMA NewestRuns ==
  ASSUME GraphAssumption, NEW t \in TaskRow, TaskOK(t)
  PROVE  /\ Newest(t) \in Run /\ Last(t, Newest(t))
         /\ t.out[Newest(t)] \in {"open", "ok", "fail"}
<1>1. PICK r \in Run : Last(t, r)
  BY DEF TaskOK
<1>2. Newest(t) = r
  BY <1>1, NewestIs
<1>3. t.out \in [Run -> {"none", "open", "ok", "fail"}]
  BY DEF TaskRow
<1>4. t.out[r] # "none"
  BY <1>1 DEF Last, Run
<1> QED
  BY <1>1, <1>2, <1>3, <1>4

LEMMA FreshIs ==
  ASSUME GraphAssumption, NEW n \in Node, NEW m \in 0..MaxGen, Made(n) # Tid,
         \A k \in Tid : task[n][k].gen # 0 <=> k <= m
  PROVE  m + 1 \in Tid /\ Fresh(n) = m + 1
<1>1. Made(n) = {k \in Tid : k <= m}
  BY DEF Made
<1>2. m + 1 \in Tid
  BY <1>1 DEF Tid, GraphAssumption
<1>3. \A k \in Tid : k \notin Made(n) /\ (\A j \in Tid : j < k => j \in Made(n))
                       => k = m + 1
  BY <1>1, <1>2 DEF Tid, GraphAssumption
<1>4. m + 1 \notin Made(n) /\ \A j \in Tid : j < m + 1 => j \in Made(n)
  BY <1>1 DEF Tid, GraphAssumption
<1> QED
  BY <1>2, <1>3, <1>4 DEF Fresh
-----------------------------------------------------------------------------
(* Dispatch: what it does to one node, whatever rows it is handed.         *)

Started(g) == [NoTask EXCEPT !.gen = g, !.out[1] = "open", !.alive = {1}]

LEMMA StartedOK ==
  ASSUME GraphAssumption, NEW g \in Gen
  PROVE  /\ Started(g) \in TaskRow /\ TaskOK(Started(g)) /\ Started(g).gen = g
         /\ Last(Started(g), 1) /\ Started(g).out[1] = "open"
         /\ \A r \in Run : Started(g).published[r] = 0
<1>1. 1 \in Run
  BY DEF Run, GraphAssumption
<1>2. NoTask \in TaskRow
  BY DEF NoTask, TaskRow
<1>3. /\ Started(g).gen = g /\ Started(g).routed = {} /\ Started(g).alive = {1}
      /\ Started(g).out = [r \in Run |-> IF r = 1 THEN "open" ELSE "none"]
      /\ Started(g).published = [r \in Run |-> 0]
  BY <1>1 DEF Started, NoTask
<1>4. Started(g) \in TaskRow
  <2> DEFINE out == [NoTask.out EXCEPT ![1] = "open"]
  <2>1. out \in [Run -> {"none", "open", "ok", "fail"}]
    BY <1>1 DEF NoTask
  <2>2. Started(g) = [NoTask EXCEPT !.gen = g, !.out = out, !.alive = {1}]
    BY DEF Started
  <2> HIDE DEF out
  <2>3. Started(g) = [gen |-> g, out |-> out, routed |-> {}, alive |-> {1},
                      published |-> [r \in Run |-> 0]]
    BY <2>2 DEF NoTask
  <2> QED
    BY <1>1, <2>1, <2>3 DEF TaskRow
<1>5. Last(Started(g), 1)
  BY <1>1, <1>3 DEF Last, Run, GraphAssumption
<1>6. TaskOK(Started(g))
  BY <1>1, <1>3, <1>5 DEF TaskOK
<1> QED
  BY <1>1, <1>3, <1>4, <1>5, <1>6

LEMMA DispatchOne ==
  ASSUME GraphAssumption, TypeOK, NEW ns \in [Node -> NodeRow], NEW S \in SUBSET Node,
         Dispatch(ns, S), NEW n \in S, NEW g \in Gen,
         TasksOK(task[n]), RowOK(ns[n], task[n], g),
         ns[n].task = 0
  PROVE  \E k \in Tid :
           /\ task[n][k].gen = 0
           /\ task'[n] = [task[n] EXCEPT ![k] = Started(ns[n].gen)]
           /\ node'[n] = [ns[n] EXCEPT !.status = "RUNNING", !.task = k]
           /\ TasksOK(task'[n])
<1>1. PICK m \in 0..MaxGen : \A k \in Tid : task[n][k].gen # 0 <=> k <= m
  BY DEF TasksOK
<1>2. m + 1 \in Tid /\ Fresh(n) = m + 1
  BY <1>1, FreshIs DEF Dispatch
<1> DEFINE k == m + 1
<1>3. /\ task'[n] = [task[n] EXCEPT ![k] = Started(ns[n].gen)]
      /\ node'[n] = [ns[n] EXCEPT !.status = "RUNNING", !.task = k]
  BY <1>2 DEF Dispatch, Started
<1>4. task[n][k].gen = 0
  BY <1>1, <1>2, RowTypes DEF TaskRow, Tid
<1>5. task[n] \in [Tid -> TaskRow] /\ ns[n].gen \in Gen
  BY RowTypes DEF NodeRow
<1> HIDE DEF k
<1>6. /\ task'[n][k] = Started(ns[n].gen)
      /\ \A j \in Tid : j # k => task'[n][j] = task[n][j]
  BY <1>2, <1>3, <1>5 DEF k
<1>7. Started(ns[n].gen).gen = ns[n].gen /\ ns[n].gen # 0 /\ TaskOK(Started(ns[n].gen))
  BY <1>5, StartedOK DEF Gen
<1>8. TasksOK(task'[n])
  <2>1. m + 1 \in 0..MaxGen /\ \A j \in Tid : task'[n][j].gen # 0 <=> j <= m + 1
    BY <1>1, <1>2, <1>6, <1>7 DEF k, Tid, GraphAssumption
  <2>2. \A j \in Tid : task'[n][j].gen # 0 => TaskOK(task'[n][j])
    BY <1>6, <1>7 DEF TasksOK
  <2>3. \A j \in Tid : task'[n][j].gen = 0 => task'[n][j] = NoTask
    BY <1>6, <1>7 DEF TasksOK
  <2>4. \A j \in Tid : task[n][j].gen # ns[n].gen
    BY DEF RowOK, Tid
  <2>5. \A i, j \in Tid : task'[n][j].gen # 0 /\ task'[n][j].gen = task'[n][i].gen => i = j
    BY <1>6, <1>7, <2>4 DEF TasksOK
  <2> QED
    BY <2>1, <2>2, <2>3, <2>5 DEF TasksOK
<1> QED
  BY <1>2, <1>3, <1>4, <1>8 DEF k

(* A node keeps its row and its tasks, or its row gets a new task.         *)
LEMMA DispatchNode ==
  ASSUME GraphAssumption, TypeOK, NEW g \in Gen,
         NEW ns \in [Node -> NodeRow], NEW S \in SUBSET Node,
         Dispatch(ns, S), NEW n \in Node,
         TasksOK(task[n]), RowOK(ns[n], task[n], g), n \in S => ns[n].task = 0
  PROVE  /\ node'[n] \in NodeRow /\ task'[n] \in [Tid -> TaskRow]
         /\ TasksOK(task'[n]) /\ RowOK(node'[n], task'[n], g)
<1>1. CASE n \notin S
  BY <1>1, RowTypes DEF Dispatch
<1>2. CASE n \in S
  <2>1. PICK k \in Tid :
           /\ task[n][k].gen = 0
           /\ task'[n] = [task[n] EXCEPT ![k] = Started(ns[n].gen)]
           /\ node'[n] = [ns[n] EXCEPT !.status = "RUNNING", !.task = k]
           /\ TasksOK(task'[n])
    BY <1>2, DispatchOne
  <2>2. task[n] \in [Tid -> TaskRow] /\ ns[n] \in NodeRow /\ ns[n].gen \in Gen
    BY RowTypes DEF NodeRow
  <2>3. node'[n] \in NodeRow
    BY <2>1, <2>2 DEF NodeRow, NodeStatus, Unsettled
  <2>4. task'[n] \in [Tid -> TaskRow]
    BY <2>1, <2>2, StartedOK
  <2>5. /\ task'[n][k] = Started(ns[n].gen) /\ task'[n][k].gen = ns[n].gen
        /\ \A r \in Run : task'[n][k].published[r] = 0
        /\ \A j \in Tid : j # k => task'[n][j] = task[n][j]
    BY <2>1, <2>2, StartedOK
  <2>6. /\ node'[n].gen = ns[n].gen /\ node'[n].task = k /\ node'[n].status = "RUNNING"
        /\ node'[n].receipt = ns[n].receipt
    BY <2>1, <2>2 DEF NodeRow
  <2>7. \A j \in Tid : task[n][j].gen <= ns[n].gen /\ task[n][j].gen # ns[n].gen
    BY <1>2 DEF RowOK, Tid
  <2>8. RowOK(node'[n], task'[n], g)
    BY <1>2, <2>2, <2>5, <2>6, <2>7 DEF RowOK, Tid, Gen
  <2> QED
    BY <2>1, <2>3, <2>4, <2>8
<1> QED
  BY <1>1, <1>2
-----------------------------------------------------------------------------
(* Settlement.  A plan without a cycle is what rules out a graph in which  *)
(* nothing runs, nothing can start and nothing has gone wrong.             *)

LEMMA NeverStuck ==
  ASSUME GraphAssumption, NEW ns \in [Node -> NodeRow], Quiescent(ns)
  PROVE  Verdict(ns) # "RUNNING"
<1> SUFFICES ASSUME Verdict(ns) = "RUNNING" PROVE FALSE
  OBVIOUS
<1> DEFINE W == {n \in Node : ns[n].status = "PENDING"}
<1>1. \A n \in Node : ns[n].status \notin {"FAILED", "CANCELLED", "WAITING_APPROVAL", "RUNNING"}
  BY DEF Quiescent, Verdict, Has
<1>2. \A n \in Node : ns[n].status \in Satisfied \/ n \in W
  BY <1>1 DEF NodeRow, NodeStatus, Unsettled
<1>3. W # {}
  BY <1>1, <1>2 DEF Verdict, Has
<1>4. \A n \in W : \E d \in W : <<d, n>> \in Edges
  BY <1>2 DEF Quiescent, Ready, After
<1>5. HasCycle(Edges)
  BY <1>3, <1>4 DEF HasCycle
<1> QED
  BY <1>5 DEF GraphAssumption, ValidPlan

LEMMA SettleKeeps ==
  ASSUME GraphAssumption, node' \in [Node -> NodeRow], NEW g, MaybeSettle(g),
         Ready(node') = {}
  PROVE  status' \in Live \cup Terminal /\ SettlementIsTrue' /\ Drained'
<1>1. CASE Has(node', "RUNNING")
  BY <1>1 DEF MaybeSettle, Quiescent, Live, SettlementIsTrue, Drained
<1>2. CASE ~Has(node', "RUNNING")
  <2>1. status' = Verdict(node') /\ status' # "RUNNING"
    BY <1>2, NeverStuck DEF MaybeSettle, Quiescent
  <2>2. \A n \in Node : node'[n].status = "PENDING" => BlockedBy(n)' # {}
    BY DEF Ready, BlockedBy
  <2>3. SettlementIsTrue'
    BY <1>2, <2>1, <2>2 DEF Verdict, SettlementIsTrue, Has, Satisfied
  <2> QED
    BY <2>1, <2>3 DEF Verdict, Live, Terminal, Drained
<1> QED
  BY <1>1, <1>2
-----------------------------------------------------------------------------
(* Advance: the ready nodes are parked or dispatched, and the graph may    *)
(* settle.                                                                 *)

LEMMA ParkRows ==
  ASSUME NEW ns \in [Node -> NodeRow]
  PROVE  /\ Park(ns) \in [Node -> NodeRow]
         /\ \A n \in Node : n \notin Ready(ns) \ Released(ns) => Park(ns)[n] = ns[n]
         /\ \A n \in Ready(ns) \ Released(ns) :
              Park(ns)[n] = [ns[n] EXCEPT !.status = "WAITING_APPROVAL"]
<1>1. \A n \in Node : [ns[n] EXCEPT !.status = "WAITING_APPROVAL"] \in NodeRow
  BY DEF NodeRow, NodeStatus, Unsettled
<1>2. Ready(ns) \subseteq Node
  BY DEF Ready
<1> QED
  BY <1>1, <1>2 DEF Park

(* Node n keeps the task it had in the rows ns, or gets a new one.         *)
KeepsTask(ns, n) ==
  /\ task'[n] = task[n] /\ node'[n].task = ns[n].task
  /\ node'[n].status = "RUNNING" => ns[n].status = "RUNNING"
GetsTask(ns, n) ==
  \E k \in Tid :
    /\ task[n][k].gen = 0 /\ task'[n] = [task[n] EXCEPT ![k] = Started(ns[n].gen)]
    /\ node'[n].task = k

LEMMA AdvanceKeeps ==
  ASSUME GraphAssumption, TypeOK, NEW g \in Gen, NEW ns \in [Node -> NodeRow],
         Advance(ns, g), RowsOK(ns, g), \A n \in Node : TasksOK(task[n]),
         InOrder(ns), GateHolds, approved' = approved
  PROVE  /\ node' \in [Node -> NodeRow] /\ task' \in [Node -> [Tid -> TaskRow]]
         /\ \A n \in Node : TasksOK(task'[n]) /\ RowOK(node'[n], task'[n], g)
         /\ \A n \in Node : KeepsTask(ns, n) \/ GetsTask(ns, n)
         /\ \A n \in Node :
              node'[n].status \in {ns[n].status, "RUNNING", "WAITING_APPROVAL"}
         /\ InOrder(node') /\ GateHolds'
         /\ status' \in Live \cup Terminal /\ SettlementIsTrue' /\ Drained'
         /\ outbox' = Record(g, status')
<1> DEFINE ps == Park(ns)
           S == Released(ns)
<1>1. /\ ps \in [Node -> NodeRow]
      /\ \A n \in Node : n \notin Ready(ns) \ S => ps[n] = ns[n]
      /\ \A n \in Ready(ns) \ S : ps[n] = [ns[n] EXCEPT !.status = "WAITING_APPROVAL"]
  BY ParkRows
<1>2. S \in SUBSET Node /\ S \subseteq Ready(ns) /\ Ready(ns) \subseteq Node
  BY DEF Released, Ready
<1>3. Dispatch(ps, S) /\ MaybeSettle(g)
  BY DEF Advance
<1>4. \A n \in Ready(ns) : ns[n].status = "PENDING" /\ ns[n].task = 0
  BY DEF Ready, RowsOK, RowOK
<1>5. \A n \in Node : /\ ps[n].gen = ns[n].gen /\ ps[n].task = ns[n].task
                      /\ ps[n].receipt = ns[n].receipt
                      /\ ps[n].status = IF n \in Ready(ns) \ S THEN "WAITING_APPROVAL"
                                        ELSE ns[n].status
  <2> HIDE DEF ps, S
  <2> SUFFICES ASSUME NEW n \in Node
               PROVE  /\ ps[n].gen = ns[n].gen /\ ps[n].task = ns[n].task
                      /\ ps[n].receipt = ns[n].receipt
                      /\ ps[n].status = IF n \in Ready(ns) \ S THEN "WAITING_APPROVAL"
                                        ELSE ns[n].status
    OBVIOUS
  <2>1. CASE n \in Ready(ns) \ S
    <3>1. ps[n] = [ns[n] EXCEPT !.status = "WAITING_APPROVAL"] /\ ns[n] \in NodeRow
      BY <1>1, <2>1
    <3> QED
      BY <2>1, <3>1 DEF NodeRow
  <2>2. CASE n \notin Ready(ns) \ S
    BY <1>1, <2>2
  <2> QED
    BY <2>1, <2>2
<1> HIDE DEF ps, S
<1>6. \A n \in Node : RowOK(ps[n], task[n], g)
  <2> SUFFICES ASSUME NEW n \in Node PROVE RowOK(ps[n], task[n], g)
    OBVIOUS
  <2>1. RowOK(ns[n], task[n], g)
    BY DEF RowsOK
  <2>2. CASE n \notin Ready(ns) \ S
    BY <1>1, <2>1, <2>2
  <2>3. CASE n \in Ready(ns) \ S
    <3>1. /\ ps[n].gen = ns[n].gen /\ ps[n].task = 0 /\ ps[n].receipt = ns[n].receipt
          /\ ps[n].status = "WAITING_APPROVAL" /\ ns[n].task = 0
      BY <1>4, <1>5, <2>3
    <3> QED
      BY <2>1, <3>1 DEF RowOK
  <2> QED
    BY <2>2, <2>3
<1>7. \A n \in S : ps[n].task = 0
  BY <1>2, <1>4, <1>5
<1>8. \A n \in Node : /\ node'[n] \in NodeRow /\ task'[n] \in [Tid -> TaskRow]
                      /\ TasksOK(task'[n]) /\ RowOK(node'[n], task'[n], g)
  BY <1>1, <1>2, <1>3, <1>6, <1>7, DispatchNode
<1>9. node' \in [Node -> NodeRow] /\ task' \in [Node -> [Tid -> TaskRow]]
  BY <1>3, <1>8 DEF Dispatch
<1>10. \A n \in Node \ S : node'[n] = ps[n] /\ task'[n] = task[n]
  BY <1>3 DEF Dispatch
<1>11. \A n \in S : /\ node'[n].status = "RUNNING" /\ GetsTask(ns, n)
                    /\ n \notin Gated
  <2> SUFFICES ASSUME NEW n \in S
               PROVE  node'[n].status = "RUNNING" /\ GetsTask(ns, n) /\ n \notin Gated
    OBVIOUS
  <2>1. n \in Node /\ ps[n] \in NodeRow
    BY <1>1, <1>2
  <2>2. PICK k \in Tid :
           /\ task[n][k].gen = 0
           /\ task'[n] = [task[n] EXCEPT ![k] = Started(ps[n].gen)]
           /\ node'[n] = [ps[n] EXCEPT !.status = "RUNNING", !.task = k]
           /\ TasksOK(task'[n])
    <3>1. /\ TasksOK(task[n]) /\ RowOK(ps[n], task[n], g) /\ ps[n].task = 0
          /\ S \in SUBSET Node /\ Dispatch(ps, S) /\ ps \in [Node -> NodeRow]
      BY <1>1, <1>2, <1>3, <1>6, <1>7, <2>1
    <3> QED
      BY <3>1, DispatchOne
  <2>3. node'[n].status = "RUNNING" /\ node'[n].task = k
    BY <2>1, <2>2 DEF NodeRow
  <2>4. GetsTask(ns, n)
    BY <1>5, <2>1, <2>2, <2>3 DEF GetsTask
  <2>5. n \notin Gated
    BY DEF S, Released
  <2> QED
    BY <2>3, <2>4, <2>5
<1>12. \A n \in Node : KeepsTask(ns, n) \/ GetsTask(ns, n)
  BY <1>5, <1>10, <1>11 DEF KeepsTask
<1>13. \A n \in Node : \/ node'[n].status = ns[n].status
                       \/ n \in Ready(ns) /\ node'[n].status \in {"RUNNING", "WAITING_APPROVAL"}
  BY <1>2, <1>5, <1>10, <1>11
<1>14. \A n \in Node : node'[n].status \in Satisfied <=> ns[n].status \in Satisfied
  BY <1>4, <1>13 DEF Satisfied
<1>15. InOrder(node')
  BY <1>13, <1>14 DEF InOrder, Ready, After
<1>16. Ready(node') = {}
  <2> SUFFICES ASSUME NEW n \in Node, node'[n].status = "PENDING",
                      \A d \in After(n) : node'[d].status \in Satisfied
               PROVE  FALSE
    BY DEF Ready
  <2>1. n \in Ready(ns)
    BY <1>4, <1>13, <1>14 DEF Ready, After
  <2> QED
    BY <1>5, <1>10, <1>11, <2>1
<1>17. GateHolds'
  <2>1. Gated \subseteq Node \ S
    BY <1>11 DEF GraphAssumption
  <2> QED
    BY <1>10, <2>1 DEF GateHolds, Made
<1> QED
  BY <1>3, <1>8, <1>9, <1>12, <1>13, <1>15, <1>16, <1>17, SettleKeeps DEF MaybeSettle
-----------------------------------------------------------------------------
(* What a process holds stays true while others move: runs that have ended *)
(* stay as they are, tasks only get more runs, and a node comes to wait    *)
(* for a new task only.                                                    *)

Grows(t, u) ==
  /\ u.gen = t.gen
  /\ \A r \in Run : /\ t.out[r] # "none" => u.out[r] # "none"
                    /\ Ended(t, r) => u.out[r] = t.out[r]

Waits(n, k) == node[n].task = k /\ node[n].status = "RUNNING"

Steady ==
  /\ \A n \in Node, k \in Tid : task[n][k].gen # 0 =>
       /\ Grows(task[n][k], task'[n][k])
       /\ Waits(n, k)' => Waits(n, k)
  /\ outbox \subseteq outbox'

LEMMA ProcKept ==
  ASSUME GraphAssumption, TypeOK, Steady, NEW p \in Proc, ProcOK(p), proc'[p] = proc[p]
  PROVE  ProcOK(p)'
<1> DEFINE n == proc[p].node
           k == proc[p].task
           q == proc[p].run
<1>1. proc[p] \in ProcRow
  BY RowTypes
<1>2. CASE proc[p].pc # "idle" /\ n # 0
  <2>1. n \in Node /\ k \in Tid /\ q \in Run /\ task[n][k].gen # 0 /\ Ended(task[n][k], q)
    BY <1>1, <1>2 DEF ProcOK, ProcRow
  <2>2. Grows(task[n][k], task'[n][k]) /\ (Waits(n, k)' => Waits(n, k))
    BY <2>1 DEF Steady
  <2>3. task'[n][k].gen # 0 /\ Ended(task'[n][k], q)
    BY <2>1, <2>2 DEF Grows, Ended
  <2>4. Superseded(task[n][k], q) => Superseded(task'[n][k], q)
    BY <2>1, <2>2 DEF Grows, Superseded
  <2>5. \A r \in Run : task[n][k].out[r] = proc[p].out /\ proc[p].out # "none"
                         => task'[n][k].out[r] = proc[p].out
    BY <1>1, <2>2 DEF Grows, Ended, ProcRow
  <2>6. \A g : Recorded(g) => Recorded(g)'
    BY DEF Steady, Recorded
  <2> QED
    BY <1>2, <2>1, <2>2, <2>3, <2>4, <2>5, <2>6 DEF ProcOK, Waits
<1>3. CASE proc[p].pc = "idle" \/ n = 0
  <2>1. \A g : Recorded(g) => Recorded(g)'
    BY DEF Steady, Recorded
  <2> QED
    BY <1>3, <2>1 DEF ProcOK
<1> QED
  BY <1>2, <1>3

LEMMA ProcFree ==
  ASSUME NEW p \in Proc, proc'[p] = Idle
  PROVE  ProcOK(p)'
BY DEF ProcOK, Idle

(* A step that changes neither rows, tasks nor outbox is steady.           *)
LEMMA GraphStill ==
  ASSUME UNCHANGED <<node, task, outbox>>
  PROVE  Steady
BY DEF Steady, Grows, Waits, Ended

LEMMA RecordKeeps ==
  ASSUME GraphAssumption, TypeOK, OutboxIsComplete, outbox' = Record(gen', status'),
         hooks' = hooks, status' \in Live \cup Terminal, gen' \in Gen,
         \/ gen' = gen /\ status \notin Terminal
         \/ gen' = gen + 1 /\ status \in Terminal
  PROVE  /\ OutboxIsComplete' /\ outbox \subseteq outbox'
         /\ outbox' \subseteq [gen : Gen, outcome : Terminal]
         /\ status' \in Terminal => Recorded(gen)'
<1>1. \A e \in outbox : e.gen # gen'
  BY DEF OutboxIsComplete, TypeOK, Gen
<1> DEFINE new == [gen |-> gen', outcome |-> status']
<1>2. outbox' = IF status' \in Terminal THEN outbox \cup {new} ELSE outbox
  BY <1>1 DEF Record
<1>3. new.gen = gen' /\ (status' \in Terminal => new \in [gen : Gen, outcome : Terminal])
  OBVIOUS
<1> HIDE DEF new
<1>4. \A e, f \in outbox' : e.gen = f.gen => e = f
  BY <1>1, <1>2, <1>3 DEF OutboxIsComplete
<1>5. \A g \in Gen : Recorded(g)' <=> Recorded(g) \/ (g = gen' /\ status' \in Terminal)
  BY <1>2, <1>3 DEF Recorded
<1>6. \A g \in Gen : Recorded(g) <=> (g < gen \/ (g = gen /\ status \in Terminal))
  BY DEF OutboxIsComplete, Recorded
<1>7. \A g \in Gen : Recorded(g)' <=> (g < gen' \/ (g = gen' /\ status' \in Terminal))
  BY <1>5, <1>6 DEF TypeOK, Gen, Live, Terminal
<1>8. \A g \in Gen : hooks'[g] > 0 => hooks'[g] = 1 /\ Recorded(g)'
  BY <1>5 DEF OutboxIsComplete, Recorded
<1>9. OutboxIsComplete'
  BY <1>4, <1>7, <1>8 DEF OutboxIsComplete, Recorded
<1>10. outbox' \subseteq [gen : Gen, outcome : Terminal]
  <2> DEFINE Rows == [gen : Gen, outcome : Terminal]
  <2>1. outbox \subseteq Rows /\ (status' \in Terminal => new \in Rows)
    BY <1>3 DEF TypeOK
  <2> HIDE DEF Rows
  <2>2. outbox' \subseteq Rows
    BY <1>2, <2>1
  <2> QED
    BY <2>2 DEF Rows
<1>11. outbox \subseteq outbox' /\ (status' \in Terminal => Recorded(gen)')
  BY <1>2, <1>3 DEF Recorded
<1> QED
  BY <1>9, <1>10, <1>11

(* What is to show of a step: all of the invariant but what the processes  *)
(* hold.                                                                   *)
GraphKept ==
  /\ status' \in Live \cup Terminal \cup {"absent"}
  /\ node' \in [Node -> NodeRow] /\ task' \in [Node -> [Tid -> TaskRow]]
  /\ outbox' \subseteq [gen : Gen, outcome : Terminal]
  /\ \A n \in Node : TasksOK(task'[n])
  /\ RowsOK(node, gen)' /\ InOrder(node)' /\ GateHolds'
  /\ Drained' /\ SettlementIsTrue' /\ OutboxIsComplete'
  /\ \A n \in Node : node'[n].status = "RUNNING" => Awaited(n)'
  /\ Steady /\ (status' \in Terminal => Recorded(gen)')

(* The rows ns wait for what the rows of the state wait for.               *)
WaitsOn(ns) ==
  \A n \in Node : ns[n].status = "RUNNING" =>
    /\ node[n].status = "RUNNING" /\ ns[n].task = node[n].task
    /\ \A k \in Tid \cup {0} : Committing(n, k) => Committing(n, k)'

LEMMA AdvanceInv ==
  ASSUME GraphAssumption, IInv, NEW ns \in [Node -> NodeRow], NEW g \in Gen, gen' = g,
         Advance(ns, g), RowsOK(ns, g), InOrder(ns), WaitsOn(ns),
         UNCHANGED <<hooks, approved, lost>>,
         \/ g = gen /\ status \notin Terminal
         \/ g = gen + 1 /\ status \in Terminal
  PROVE  /\ GraphKept /\ \A n \in Node : KeepsTask(ns, n) \/ GetsTask(ns, n)
         /\ \A n \in Node :
              node'[n].status \in {ns[n].status, "RUNNING", "WAITING_APPROVAL"}
<1>1. TypeOK /\ GateHolds /\ OutboxIsComplete /\ \A n \in Node : TasksOK(task[n])
  BY DEF IInv
<1>2. /\ node' \in [Node -> NodeRow] /\ task' \in [Node -> [Tid -> TaskRow]]
      /\ \A n \in Node : TasksOK(task'[n]) /\ RowOK(node'[n], task'[n], g)
      /\ \A n \in Node : KeepsTask(ns, n) \/ GetsTask(ns, n)
      /\ \A n \in Node :
           node'[n].status \in {ns[n].status, "RUNNING", "WAITING_APPROVAL"}
      /\ InOrder(node') /\ GateHolds'
      /\ status' \in Live \cup Terminal /\ SettlementIsTrue' /\ Drained'
      /\ outbox' = Record(g, status')
  BY <1>1, AdvanceKeeps
<1>3. /\ OutboxIsComplete' /\ outbox \subseteq outbox'
      /\ outbox' \subseteq [gen : Gen, outcome : Terminal]
      /\ status' \in Terminal => Recorded(gen)'
  BY <1>1, <1>2, RecordKeeps
<1>4. task \in [Node -> [Tid -> TaskRow]]
  BY <1>1, RowTypes
<1>5. \A n \in Node : \A k \in Tid : task[n][k].gen # 0 => task'[n][k] = task[n][k]
  BY <1>2, <1>4 DEF KeepsTask, GetsTask
<1>6. \A n \in Node, k \in Tid : task[n][k].gen # 0 /\ Waits(n, k)' => Waits(n, k)
  BY <1>2 DEF KeepsTask, GetsTask, Waits, WaitsOn
<1>7. Steady
  BY <1>3, <1>5, <1>6 DEF Steady, Grows, Ended
<1>8. ASSUME NEW n \in Node, node'[n].status = "RUNNING" PROVE Awaited(n)'
  <2>1. CASE KeepsTask(ns, n)
    <3>1. /\ task'[n] = task[n] /\ node'[n].task = node[n].task
          /\ node[n].status = "RUNNING"
          /\ \A k \in Tid \cup {0} : Committing(n, k) => Committing(n, k)'
      BY <1>8, <2>1 DEF KeepsTask, WaitsOn
    <3>2. node[n].task \in Tid \cup {0}
      BY <1>1, RowTypes DEF NodeRow
    <3>3. Awaited(n)
      BY <3>1 DEF IInv
    <3> QED
      BY <3>1, <3>2, <3>3 DEF Awaited
  <2>2. CASE GetsTask(ns, n)
    <3>1. PICK k \in Tid : /\ task'[n] = [task[n] EXCEPT ![k] = Started(ns[n].gen)]
                           /\ node'[n].task = k
      BY <2>2 DEF GetsTask
    <3>2. task'[n][k] = Started(ns[n].gen) /\ ns[n].gen \in Gen
      BY <1>4, <3>1 DEF NodeRow
    <3>3. Last(task'[n][k], 1) /\ task'[n][k].out[1] = "open" /\ 1 \in Run
      BY <3>2, StartedOK DEF Run, GraphAssumption
    <3> QED
      BY <3>1, <3>3 DEF Awaited
  <2> QED
    BY <1>2, <2>1, <2>2
<1> QED
  BY <1>2, <1>3, <1>7, <1>8 DEF RowsOK, GraphKept
-----------------------------------------------------------------------------
(* One lemma for each action.                                              *)

LEMMA Assembled ==
  ASSUME IInv, GraphKept, proc' \in [Proc -> ProcRow], ProcsOK', gen' \in Gen,
         hooks' \in [Gen -> Nat], approved' \subseteq Node \X Gen, lost' \subseteq Node,
         faults' \in 0..MaxFaults
  PROVE  IInv'
<1>1. TypeOK'
  BY DEF TypeOK, NodeRow, TaskRow, ProcRow, IInv, GraphKept
<1> QED
  BY <1>1 DEF IInv, GraphKept

(* What a step leaves alone stays typed.                                   *)
LEMMA Rest ==
  IInv => /\ gen \in Gen /\ hooks \in [Gen -> Nat] /\ approved \subseteq Node \X Gen
          /\ lost \subseteq Node /\ faults \in 0..MaxFaults
          /\ node \in [Node -> NodeRow] /\ task \in [Node -> [Tid -> TaskRow]]
          /\ proc \in [Proc -> ProcRow] /\ TypeOK /\ ProcsOK
BY RowTypes DEF IInv, TypeOK

(* Process o moves to the row w.                                           *)
LEMMA ProcStep ==
  ASSUME GraphAssumption, TypeOK, Steady, ProcsOK,
         NEW o \in Proc, NEW w \in ProcRow, proc' = [proc EXCEPT ![o] = w],
         proc'[o] = w => ProcOK(o)'
  PROVE  proc' \in [Proc -> ProcRow] /\ ProcsOK'
<1>1. proc \in [Proc -> ProcRow]
  BY RowTypes
<1>2. proc' \in [Proc -> ProcRow] /\ proc'[o] = w /\ \A p \in Proc : p # o => proc'[p] = proc[p]
  BY <1>1
<1>3. \A p \in Proc : p # o => ProcOK(p)'
  BY <1>2, ProcKept DEF ProcsOK
<1> QED
  BY <1>2, <1>3 DEF ProcsOK

(* Whoever was between a committed resolution and its completion still is. *)
LEMMA CommittingKept ==
  ASSUME TypeOK, NEW o \in Proc, NEW w \in ProcRow, proc' = [proc EXCEPT ![o] = w],
         proc[o].pc # "committed", NEW n, NEW k, Committing(n, k)
  PROVE  Committing(n, k)'
<1>1. proc \in [Proc -> ProcRow] /\ Routers \subseteq Proc
  BY RowTypes DEF Proc
<1>2. PICK p \in Routers : proc[p].pc = "committed" /\ proc[p].node = n /\ proc[p].task = k
  BY DEF Committing
<1>3. proc'[p] = proc[p]
  BY <1>1, <1>2
<1> QED
  BY <1>2, <1>3 DEF Committing

LEMMA IdleRow == Idle \in ProcRow
BY DEF Idle, ProcRow

(* An operator's transaction is followed by the hook it settled for.       *)
LEMMA SettledWaits ==
  ASSUME TypeOK, NEW o \in Proc, proc[o].pc = "idle", Settled(o),
         NEW n, NEW k, Committing(n, k)
  PROVE  Committing(n, k)'
<1> DEFINE w == [Idle EXCEPT !.pc = "hook", !.gen = gen]
<1>1. w \in ProcRow
  BY DEF Idle, ProcRow, TypeOK
<1>2. proc' = [proc EXCEPT ![o] = w] \/ proc' = proc
  BY DEF Settled
<1> HIDE DEF w
<1>3. CASE proc' = [proc EXCEPT ![o] = w]
  BY <1>1, <1>3, CommittingKept
<1>4. CASE proc' = proc
  BY <1>4 DEF Committing
<1> QED
  BY <1>2, <1>3, <1>4

LEMMA SettledKeeps ==
  ASSUME GraphAssumption, TypeOK, Steady, ProcsOK,
         NEW o \in Proc, proc[o].pc = "idle", Settled(o), gen' = gen,
         status' \in Terminal => Recorded(gen)'
  PROVE  proc' \in [Proc -> ProcRow] /\ ProcsOK'
<1>1. CASE status' \in Terminal
  <2> DEFINE w == [Idle EXCEPT !.pc = "hook", !.gen = gen]
  <2>1. proc' = [proc EXCEPT ![o] = w] /\ w \in ProcRow
    BY <1>1 DEF Settled, Idle, ProcRow, TypeOK
  <2>2. w.pc = "hook" /\ w.node = 0 /\ w.gen = gen /\ gen # 0
    BY DEF Idle, TypeOK, Gen
  <2> HIDE DEF w
  <2>3. proc'[o] = w => ProcOK(o)'
    BY <1>1, <2>2 DEF ProcOK, Recorded
  <2> QED
    BY <2>1, <2>3, ProcStep
<1>2. CASE status' \notin Terminal
  <2>1. proc' = proc /\ proc \in [Proc -> ProcRow]
    BY <1>2, RowTypes DEF Settled
  <2>2. ProcsOK'
    BY <2>1, ProcKept DEF ProcsOK
  <2> QED
    BY <2>1, <2>2
<1> QED
  BY <1>1, <1>2

LEMMA StartKeeps ==
  ASSUME GraphAssumption, IInv, Start
  PROVE  IInv'
<1>1. TypeOK /\ RowsOK(node, gen) /\ InOrder(node) /\ ProcsOK
  BY DEF IInv
<1>2. /\ gen' = gen /\ gen \in Gen /\ Advance(node, gen) /\ status \notin Terminal
      /\ UNCHANGED <<hooks, approved, lost, proc, faults>>
  BY <1>1 DEF Start, Terminal, TypeOK
<1>3. WaitsOn(node)
  BY <1>2 DEF WaitsOn, Committing
<1>4. node \in [Node -> NodeRow] /\ proc \in [Proc -> ProcRow] /\ faults \in 0..MaxFaults
  BY <1>1, RowTypes DEF TypeOK
<1>5. GraphKept
  BY <1>1, <1>2, <1>3, <1>4, AdvanceInv
<1>6. ProcsOK'
  <2>1. Steady
    BY <1>5 DEF GraphKept
  <2>2. ASSUME NEW p \in Proc PROVE ProcOK(p)'
    BY <1>1, <1>2, <2>1, ProcKept DEF ProcsOK
  <2> QED
    BY <2>2 DEF ProcsOK
<1> QED
  BY <1>2, <1>4, <1>5, <1>6, Rest, Assembled

LEMMA SkipKeeps ==
  ASSUME GraphAssumption, IInv, NEW o \in Operators, NEW n \in Node, Skip(o, n)
  PROVE  IInv'
<1> DEFINE ns == [node EXCEPT ![n].status = "SKIPPED"]
<1>1. TypeOK /\ RowsOK(node, gen) /\ InOrder(node) /\ ProcsOK
  BY DEF IInv
<1>2. /\ proc[o].pc = "idle" /\ status = "RUNNING" /\ node[n].status = "PENDING"
      /\ gen' = gen /\ gen \in Gen /\ Advance(ns, gen) /\ Settled(o)
      /\ UNCHANGED <<hooks, approved, lost, faults>>
  BY <1>1 DEF Skip, TypeOK
<1>3. /\ node \in [Node -> NodeRow] /\ proc \in [Proc -> ProcRow]
      /\ faults \in 0..MaxFaults /\ o \in Proc
  BY <1>1, RowTypes DEF TypeOK, Proc
<1>4. /\ ns \in [Node -> NodeRow]
      /\ \A m \in Node : m # n => ns[m] = node[m]
      /\ ns[n].status = "SKIPPED" /\ ns[n].gen = node[n].gen /\ ns[n].task = node[n].task
      /\ ns[n].receipt = node[n].receipt
  BY <1>3 DEF NodeRow, NodeStatus, Satisfied
<1> HIDE DEF ns
<1>5. RowsOK(ns, gen)
  <2>1. RowOK(ns[n], task[n], gen)
    BY <1>1, <1>2, <1>4 DEF RowsOK, RowOK
  <2> QED
    BY <1>1, <1>4, <2>1 DEF RowsOK
<1>6. InOrder(ns)
  BY <1>1, <1>2, <1>4 DEF InOrder, Satisfied, After
<1>7. WaitsOn(ns)
  <2>1. \A m \in Node, k \in Tid \cup {0} : Committing(m, k) => Committing(m, k)'
    BY <1>1, <1>2, <1>3, SettledWaits
  <2> QED
    BY <1>2, <1>4, <2>1 DEF WaitsOn
<1>8. GraphKept
  BY <1>2, <1>4, <1>5, <1>6, <1>7, AdvanceInv DEF Terminal
<1>9. proc' \in [Proc -> ProcRow] /\ ProcsOK'
  <2>1. Steady /\ (status' \in Terminal => Recorded(gen)')
    BY <1>8 DEF GraphKept
  <2> QED
    BY <1>1, <1>2, <1>3, <2>1, SettledKeeps
<1> QED
  BY <1>2, <1>3, <1>8, <1>9, Rest, Assembled

(* A step on the graph's status alone.                                     *)
LEMMA CancelKeeps ==
  ASSUME GraphAssumption, IInv, NEW o \in Operators, Cancel(o)
  PROVE  IInv'
<1>1. /\ proc[o].pc = "idle" /\ status \in Live /\ status' = "CANCELLED"
      /\ outbox' = Record(gen, status') /\ Settled(o) /\ gen' = gen
      /\ UNCHANGED <<node, task, hooks, approved, lost, faults>>
  BY DEF Cancel
<1>2. TypeOK /\ ProcsOK /\ OutboxIsComplete /\ o \in Proc /\ gen \in Gen
  BY Rest DEF IInv, Proc
<1>3. /\ OutboxIsComplete' /\ outbox \subseteq outbox'
      /\ outbox' \subseteq [gen : Gen, outcome : Terminal]
      /\ status' \in Terminal => Recorded(gen)'
  BY <1>1, <1>2, RecordKeeps DEF Live, Terminal
<1>4. Steady
  BY <1>1, <1>3 DEF Steady, Grows, Waits, Ended
<1>5. proc' \in [Proc -> ProcRow] /\ ProcsOK'
  BY <1>1, <1>2, <1>3, <1>4, SettledKeeps
<1>6. ASSUME NEW n \in Node, node'[n].status = "RUNNING" PROVE Awaited(n)'
  <2>1. \A k : Committing(n, k) => Committing(n, k)'
    BY <1>1, <1>2, SettledWaits
  <2>2. Awaited(n)
    BY <1>1, <1>6 DEF IInv
  <2> QED
    BY <1>1, <2>1, <2>2 DEF Awaited
<1>7. /\ \A n \in Node : TasksOK(task'[n])
      /\ RowsOK(node, gen)' /\ InOrder(node)' /\ GateHolds'
  BY <1>1 DEF IInv, RowsOK, InOrder, GateHolds, Made
<1>8. SettlementIsTrue' /\ Drained'
  BY <1>1 DEF SettlementIsTrue, Drained, Live
<1>9. /\ status' \in Live \cup Terminal \cup {"absent"}
      /\ node' \in [Node -> NodeRow] /\ task' \in [Node -> [Tid -> TaskRow]]
  BY <1>1, Rest DEF Terminal
<1>10. GraphKept
  BY <1>3, <1>4, <1>6, <1>7, <1>8, <1>9 DEF GraphKept
<1> QED
  BY <1>1, <1>5, <1>10, Rest, Assembled

LEMMA RejectKeeps ==
  ASSUME GraphAssumption, IInv, NEW o \in Operators, NEW n \in Node, Reject(o, n)
  PROVE  IInv'
<1>1. /\ proc[o].pc = "idle" /\ status \in Live /\ node[n].status = "WAITING_APPROVAL"
      /\ node' = [node EXCEPT ![n].status = "CANCELLED"]
      /\ MaybeSettle(gen) /\ Settled(o) /\ gen' = gen
      /\ UNCHANGED <<task, hooks, approved, lost, faults>>
  BY DEF Reject
<1>2. /\ TypeOK /\ ProcsOK /\ OutboxIsComplete /\ o \in Proc /\ gen \in Gen
      /\ RowsOK(node, gen) /\ InOrder(node) /\ Ready(node) = {}
  BY <1>1, Rest DEF IInv, Proc, Drained
<1>3. /\ node' \in [Node -> NodeRow]
      /\ \A m \in Node : m # n => node'[m] = node[m]
      /\ node'[n].status = "CANCELLED" /\ node'[n].gen = node[n].gen
      /\ node'[n].task = node[n].task /\ node'[n].receipt = node[n].receipt
  BY <1>1, Rest DEF NodeRow, NodeStatus
<1>4. RowsOK(node, gen)'
  <2>1. RowOK(node'[n], task[n], gen)
    BY <1>1, <1>2, <1>3 DEF RowsOK, RowOK
  <2> QED
    BY <1>1, <1>2, <1>3, <2>1 DEF RowsOK
<1>5. \A m \in Node : /\ node'[m].status \in Satisfied <=> node[m].status \in Satisfied
                      /\ node'[m].status = "PENDING" => node[m].status = "PENDING"
  BY <1>1, <1>3 DEF Satisfied
<1>6. InOrder(node)'
  BY <1>1, <1>2, <1>3, <1>5 DEF InOrder, After
<1>7. Ready(node') = {}
  BY <1>2, <1>5 DEF Ready, After
<1>8. status' \in Live \cup Terminal /\ SettlementIsTrue' /\ Drained'
  BY <1>1, <1>2, <1>3, <1>7, SettleKeeps
<1>9. outbox' = Record(gen, status')
  BY <1>1 DEF MaybeSettle
<1>10. /\ OutboxIsComplete' /\ outbox \subseteq outbox'
       /\ outbox' \subseteq [gen : Gen, outcome : Terminal]
       /\ status' \in Terminal => Recorded(gen)'
  BY <1>1, <1>2, <1>8, <1>9, RecordKeeps DEF Live, Terminal
<1>11. Steady
  BY <1>1, <1>3, <1>10 DEF Steady, Grows, Waits, Ended
<1>12. proc' \in [Proc -> ProcRow] /\ ProcsOK'
  BY <1>1, <1>2, <1>10, <1>11, SettledKeeps
<1>13. ASSUME NEW m \in Node, node'[m].status = "RUNNING" PROVE Awaited(m)'
  <2>1. \A k : Committing(m, k) => Committing(m, k)'
    BY <1>1, <1>2, SettledWaits
  <2>2. node'[m] = node[m] /\ Awaited(m)
    BY <1>3, <1>13 DEF IInv
  <2> QED
    BY <1>1, <2>1, <2>2 DEF Awaited
<1>14. GateHolds' /\ \A m \in Node : TasksOK(task'[m])
  BY <1>1 DEF IInv, GateHolds, Made
<1>15. task' \in [Node -> [Tid -> TaskRow]]
  BY <1>1, Rest
<1>16. GraphKept
  BY <1>3, <1>4, <1>6, <1>8, <1>10, <1>11, <1>13, <1>14, <1>15 DEF GraphKept
<1> QED
  BY <1>1, <1>12, <1>16, Rest, Assembled

LEMMA ApproveKeeps ==
  ASSUME GraphAssumption, IInv, NEW o \in Operators, NEW n \in Node, Approve(o, n)
  PROVE  IInv'
<1>1. /\ status \in Live /\ node[n].status = "WAITING_APPROVAL"
      /\ Dispatch(node, {n}) /\ status' = "RUNNING" /\ gen' = gen
      /\ approved' = approved \cup {<<n, node[n].gen>>}
      /\ UNCHANGED <<outbox, hooks, proc, lost, faults>>
  BY DEF Approve
<1>2. /\ TypeOK /\ ProcsOK /\ OutboxIsComplete /\ gen \in Gen /\ GateHolds
      /\ RowsOK(node, gen) /\ InOrder(node) /\ Ready(node) = {}
      /\ \A m \in Node : TasksOK(task[m])
      /\ node \in [Node -> NodeRow] /\ task \in [Node -> [Tid -> TaskRow]]
  BY <1>1, Rest DEF IInv, Drained
<1>3. \A m \in Node : RowOK(node[m], task[m], gen)
  BY <1>2 DEF RowsOK
<1>4. node[n].task = 0
  BY <1>1, <1>3 DEF RowOK
<1>5. PICK k \in Tid : /\ task[n][k].gen = 0
                       /\ task'[n] = [task[n] EXCEPT ![k] = Started(node[n].gen)]
                       /\ node'[n] = [node[n] EXCEPT !.status = "RUNNING", !.task = k]
                       /\ TasksOK(task'[n])
  <2>1. /\ TasksOK(task[n]) /\ RowOK(node[n], task[n], gen) /\ {n} \in SUBSET Node
        /\ n \in {n}
    BY <1>2, <1>3
  <2> QED
    BY <1>1, <1>2, <1>4, <2>1, DispatchOne
<1>6. \A m \in Node : /\ node'[m] \in NodeRow /\ task'[m] \in [Tid -> TaskRow]
                      /\ TasksOK(task'[m]) /\ RowOK(node'[m], task'[m], gen)
  <2>1. {n} \in SUBSET Node /\ \A m \in {n} : node[m].task = 0
    BY <1>4
  <2> QED
    BY <1>1, <1>2, <1>3, <2>1, DispatchNode
<1>7. node' \in [Node -> NodeRow] /\ task' \in [Node -> [Tid -> TaskRow]]
  BY <1>1, <1>6 DEF Dispatch
<1>8. \A m \in Node : m # n => node'[m] = node[m] /\ task'[m] = task[m]
  BY <1>1 DEF Dispatch
<1>9. /\ node'[n].status = "RUNNING" /\ node'[n].task = k /\ node[n].gen \in Gen
      /\ task'[n][k] = Started(node[n].gen)
      /\ \A j \in Tid : j # k => task'[n][j] = task[n][j]
  BY <1>2, <1>5 DEF NodeRow
<1>10. \A m \in Node : /\ node'[m].status \in Satisfied <=> node[m].status \in Satisfied
                       /\ node'[m].status = "PENDING" => node[m].status = "PENDING"
  BY <1>1, <1>8, <1>9 DEF Satisfied
<1>11. InOrder(node)'
  BY <1>1, <1>2, <1>8, <1>10 DEF InOrder, After
<1>12. Drained' /\ SettlementIsTrue' /\ status' \in Live
  <2>1. Ready(node') = {}
    BY <1>2, <1>10 DEF Ready, After
  <2> QED
    BY <1>1, <1>9, <2>1 DEF Drained, Has, SettlementIsTrue, Live
<1>13. GateHolds'
  <2>1. Started(node[n].gen).gen = node[n].gen
    BY <1>9, StartedOK
  <2>2. ASSUME NEW m \in Gated, NEW j \in Tid, task'[m][j].gen # 0
        PROVE  <<m, task'[m][j].gen>> \in approved'
    <3>1. m \in Node
      BY DEF GraphAssumption
    <3>2. CASE m = n /\ j = k
      BY <1>1, <1>9, <2>1, <3>2
    <3>3. CASE ~(m = n /\ j = k)
      <4>1. task'[m][j] = task[m][j]
        BY <1>8, <1>9, <3>1, <3>3
      <4> QED
        BY <1>1, <1>2, <2>2, <4>1 DEF GateHolds, Made
    <3> QED
      BY <3>2, <3>3
  <2> QED
    BY <2>2 DEF GateHolds, Made
<1>14. OutboxIsComplete' /\ (status' \in Terminal => Recorded(gen)')
  <2>1. status \notin Terminal /\ status' \notin Terminal
    BY <1>1 DEF Live, Terminal
  <2> QED
    BY <1>1, <1>2, <2>1 DEF OutboxIsComplete
<1>15. Steady
  <2>1. \A m \in Node, j \in Tid : task[m][j].gen # 0 => task'[m][j] = task[m][j]
    BY <1>5, <1>8, <1>9
  <2>2. \A m \in Node, j \in Tid : task[m][j].gen # 0 /\ Waits(m, j)' => Waits(m, j)
    BY <1>5, <1>8, <1>9 DEF Waits
  <2> QED
    BY <1>1, <2>1, <2>2 DEF Steady, Grows, Ended
<1>16. ProcsOK'
  <2>1. ASSUME NEW p \in Proc PROVE ProcOK(p)'
    BY <1>1, <1>2, <1>15, ProcKept DEF ProcsOK
  <2> QED
    BY <2>1 DEF ProcsOK
<1>17. ASSUME NEW m \in Node, node'[m].status = "RUNNING" PROVE Awaited(m)'
  <2>1. CASE m = n
    <3>1. Last(task'[n][k], 1) /\ task'[n][k].out[1] = "open" /\ 1 \in Run
      BY <1>9, StartedOK DEF Run, GraphAssumption
    <3> QED
      BY <1>9, <2>1, <3>1 DEF Awaited
  <2>2. CASE m # n
    <3>1. node'[m] = node[m] /\ task'[m] = task[m] /\ Awaited(m)
      BY <1>8, <1>17, <2>2 DEF IInv
    <3> QED
      BY <1>1, <3>1 DEF Awaited, Committing
  <2> QED
    BY <2>1, <2>2
<1>18. outbox' \subseteq [gen : Gen, outcome : Terminal]
  BY <1>1, <1>2 DEF TypeOK
<1>19. RowsOK(node, gen)'
  BY <1>1, <1>6 DEF RowsOK
<1>20. GraphKept
  BY <1>6, <1>7, <1>11, <1>12, <1>13, <1>14, <1>15, <1>17, <1>18, <1>19 DEF GraphKept
<1>21. approved' \subseteq Node \X Gen
  BY <1>1, <1>9, Rest
<1> QED
  BY <1>1, <1>16, <1>20, <1>21, Rest, Assembled
-----------------------------------------------------------------------------
(* Steps on one task.                                                      *)

(* A row keeps its truth while its task goes on without publishing.        *)
LEMMA RowStays ==
  ASSUME NEW nd \in NodeRow, NEW tk \in [Tid -> TaskRow], NEW uk \in [Tid -> TaskRow],
         NEW g \in Gen, RowOK(nd, tk, g),
         \A k \in Tid : /\ Grows(tk[k], uk[k]) /\ uk[k].published = tk[k].published
  PROVE  RowOK(nd, uk, g)
<1>1. \A k \in Tid : uk[k].gen = tk[k].gen /\ uk[k].published = tk[k].published
  BY DEF Grows
<1>2. \A k \in Tid, r \in Run : Ended(tk[k], r) => uk[k].out[r] = tk[k].out[r]
  BY DEF Grows
<1>3. nd.task # 0 => nd.task \in Tid
  BY DEF NodeRow
<1>4. nd.status = "SUCCEEDED" => \E r \in Run : uk[nd.task].out[r] = "ok"
  BY <1>2, <1>3 DEF RowOK, Ended
<1>5. nd.status = "FAILED" => \E r \in Run : uk[nd.task].out[r] = "fail"
  BY <1>2, <1>3 DEF RowOK, Ended
<1> QED
  BY <1>1, <1>3, <1>4, <1>5 DEF RowOK

LEMMA GrowsSame == ASSUME NEW t PROVE Grows(t, t)
BY DEF Grows

(* Task k of n becomes u.                                                  *)
LEMMA TaskStep ==
  ASSUME GraphAssumption, IInv, NEW n \in Node, NEW k \in Tid, NEW u \in TaskRow,
         task[n][k].gen # 0, Grows(task[n][k], u), TaskOK(u), With(n, k, u),
         approved' = approved
  PROVE  /\ task' \in [Node -> [Tid -> TaskRow]]
         /\ task'[n][k] = u
         /\ \A m \in Node, j \in Tid : m # n \/ j # k => task'[m][j] = task[m][j]
         /\ \A m \in Node, j \in Tid : Grows(task[m][j], task'[m][j])
         /\ \A m \in Node : TasksOK(task'[m])
         /\ GateHolds'
<1>1. task \in [Node -> [Tid -> TaskRow]] /\ \A m \in Node : TasksOK(task[m])
  BY Rest DEF IInv
<1>2. /\ task' \in [Node -> [Tid -> TaskRow]]
      /\ task'[n][k] = u
      /\ \A m \in Node, j \in Tid : m # n \/ j # k => task'[m][j] = task[m][j]
  BY <1>1 DEF With
<1>3. \A m \in Node, j \in Tid : Grows(task[m][j], task'[m][j])
  BY <1>2, GrowsSame
<1>4. \A m \in Node, j \in Tid : task'[m][j].gen = task[m][j].gen
  BY <1>3 DEF Grows
<1>5. ASSUME NEW m \in Node PROVE TasksOK(task'[m])
  <2>1. \E x \in 0..MaxGen : \A j \in Tid : task'[m][j].gen # 0 <=> j <= x
    <3>1. PICK x \in 0..MaxGen : \A j \in Tid : task[m][j].gen # 0 <=> j <= x
      BY <1>1 DEF TasksOK
    <3>2. \A j \in Tid : task'[m][j].gen # 0 <=> j <= x
      BY <1>4, <3>1
    <3> QED
      BY <3>2
  <2>2. \A j \in Tid : \/ task'[m][j] = task[m][j]
                       \/ task'[m][j].gen # 0 /\ TaskOK(task'[m][j])
    <3>1. u.gen # 0
      BY DEF Grows
    <3> QED
      BY <1>2, <3>1
  <2>3. \A j \in Tid : /\ task'[m][j].gen # 0 => TaskOK(task'[m][j])
                       /\ task'[m][j].gen = 0 => task'[m][j] = NoTask
    BY <1>1, <2>2 DEF TasksOK
  <2>4. \A i, j \in Tid : task'[m][j].gen # 0 /\ task'[m][j].gen = task'[m][i].gen => i = j
    BY <1>1, <1>4 DEF TasksOK
  <2> QED
    BY <2>1, <2>3, <2>4 DEF TasksOK
<1>6. GateHolds'
  BY <1>4 DEF IInv, GateHolds, Made, GraphAssumption
<1> QED
  BY <1>2, <1>3, <1>5, <1>6

(* The graph and its rows stay as they are, tasks go on without publishing.*)
LEMMA TasksMove ==
  ASSUME GraphAssumption, IInv, task' \in [Node -> [Tid -> TaskRow]],
         \A m \in Node, j \in Tid : /\ Grows(task[m][j], task'[m][j])
                                    /\ task'[m][j].published = task[m][j].published,
         \A m \in Node : TasksOK(task'[m]), GateHolds',
         \A m \in Node : node[m].status = "RUNNING" => Awaited(m)',
         OutboxIsComplete', UNCHANGED <<status, gen, node, outbox>>
  PROVE  GraphKept
<1>1. RowsOK(node, gen)'
  <2>1. ASSUME NEW m \in Node PROVE RowOK(node'[m], task'[m], gen')
    <3>1. RowOK(node[m], task[m], gen) /\ node[m] \in NodeRow /\ task[m] \in [Tid -> TaskRow]
          /\ task'[m] \in [Tid -> TaskRow] /\ gen \in Gen
      BY Rest DEF IInv, RowsOK
    <3>2. RowOK(node[m], task'[m], gen)
      BY <3>1, RowStays
    <3> QED
      BY <3>2
  <2> QED
    BY <2>1 DEF RowsOK
<1>2. InOrder(node)' /\ Drained' /\ SettlementIsTrue'
  BY DEF IInv, InOrder, Drained, SettlementIsTrue, BlockedBy
<1>3. Steady
  BY DEF Steady, Waits
<1>4. status' \in Terminal => Recorded(gen)'
  BY Rest DEF IInv, OutboxIsComplete, Recorded
<1>5. /\ status' \in Live \cup Terminal \cup {"absent"} /\ node' \in [Node -> NodeRow]
      /\ outbox' \subseteq [gen : Gen, outcome : Terminal]
  BY Rest DEF TypeOK
<1> QED
  BY <1>1, <1>2, <1>3, <1>4, <1>5 DEF GraphKept

(* A process that is not committing moves and the tasks stay as they are.  *)
LEMMA RowsStand ==
  ASSUME GraphAssumption, IInv, UNCHANGED <<graph, approved>>, OutboxIsComplete',
         \A m \in Node : node[m].status = "RUNNING" => Awaited(m)'
  PROVE  GraphKept /\ Steady
<1>1. UNCHANGED <<status, gen, node, task, outbox, approved>>
  BY DEF graph
<1>2. task' \in [Node -> [Tid -> TaskRow]] /\ \A m \in Node : TasksOK(task'[m])
  BY <1>1, Rest DEF IInv
<1>3. GateHolds'
  BY <1>1 DEF IInv, GateHolds, Made
<1>4. \A m \in Node, j \in Tid : /\ Grows(task[m][j], task'[m][j])
                                 /\ task'[m][j].published = task[m][j].published
  BY <1>1, GrowsSame
<1>5. GraphKept
  BY <1>1, <1>2, <1>3, <1>4, TasksMove
<1> QED
  BY <1>5 DEF GraphKept

(* What a row of a process is made of.                                     *)
LEMMA TakenRow ==
  ASSUME NEW pc \in {"handle", "committed"}, NEW n \in Node, NEW k \in Tid, NEW r \in Run,
         NEW out \in {"none", "ok", "fail"}
  PROVE  [pc |-> pc, node |-> n, task |-> k, run |-> r, out |-> out, gen |-> 0] \in ProcRow
BY DEF ProcRow

(* A router takes a run that has ended.                                    *)
LEMMA TakeKeeps ==
  ASSUME GraphAssumption, TypeOK, Steady, ProcsOK,
         NEW p \in Proc, NEW pc \in {"handle", "committed"},
         NEW n \in Node, NEW k \in Tid, NEW r \in Run, NEW out \in {"none", "ok", "fail"},
         Take(p, pc, n, k, r, out),
         task'[n][k].gen # 0, Ended(task'[n][k], r),
         pc = "committed" => out = "ok",
         out # "none" => \E q \in Run : task'[n][k].out[q] = out,
         out = "none" => Superseded(task'[n][k], r)
  PROVE  /\ proc' \in [Proc -> ProcRow] /\ ProcsOK'
         /\ proc'[p].pc = pc /\ proc'[p].node = n /\ proc'[p].task = k
<1> DEFINE w == [pc |-> pc, node |-> n, task |-> k, run |-> r, out |-> out, gen |-> 0]
<1>1. w \in ProcRow
  BY TakenRow
<1>2. proc' = [proc EXCEPT ![p] = w]
  BY DEF Take
<1>3. /\ w.pc = pc /\ w.node = n /\ w.task = k /\ w.run = r /\ w.out = out
      /\ n # 0 /\ k # 0 /\ r # 0
  BY DEF Node, Tid, Run
<1> HIDE DEF w
<1>4. proc'[p] = w => ProcOK(p)'
  BY <1>3 DEF ProcOK
<1>5. proc' \in [Proc -> ProcRow] /\ ProcsOK'
  BY <1>1, <1>2, <1>4, ProcStep
<1>6. proc'[p] = w
  BY <1>2, RowTypes
<1> QED
  BY <1>3, <1>5, <1>6

(* The open run of a task ends.                                            *)
Closed(t, out, alive, routed) ==
  [t EXCEPT !.out[Newest(t)] = out, !.alive = alive, !.routed = routed]

LEMMA EndRun ==
  ASSUME GraphAssumption, NEW t \in TaskRow, TaskOK(t), TaskStatus(t) = "open",
         NEW out \in {"ok", "fail"}, NEW alive \in SUBSET Run, NEW routed \in SUBSET Run,
         routed \subseteq t.routed \cup {Newest(t)},
         NEW u, u = Closed(t, out, alive, routed)
  PROVE  /\ u \in TaskRow /\ TaskOK(u) /\ Grows(t, u) /\ u.published = t.published
         /\ Newest(t) \in Run /\ u.out[Newest(t)] = out /\ Last(u, Newest(t))
         /\ Newest(t) \notin t.routed /\ u.routed = routed
<1> DEFINE r == Newest(t)
           o == [t.out EXCEPT ![r] = out]
<1>1. r \in Run /\ Last(t, r) /\ t.out[r] = "open"
  BY NewestRuns DEF TaskStatus
<1> HIDE DEF r
<1>2. t.out \in [Run -> {"none", "open", "ok", "fail"}]
  BY DEF TaskRow
<1>3. u = [t EXCEPT !.out = o, !.alive = alive, !.routed = routed]
  BY DEF r, Closed
<1>4. /\ o \in [Run -> {"none", "open", "ok", "fail"}]
      /\ o[r] = out /\ \A q \in Run : q # r => o[q] = t.out[q]
  BY <1>1, <1>2
<1> HIDE DEF o
<1>5. /\ u \in TaskRow /\ u.out = o /\ u.gen = t.gen /\ u.published = t.published
      /\ u.alive = alive /\ u.routed = routed
  BY <1>3, <1>4 DEF TaskRow
<1>6. Last(u, r)
  BY <1>1, <1>4, <1>5 DEF Last
<1>7. r \notin t.routed
  BY <1>1 DEF TaskOK, Ended
<1>8. \A q \in u.routed : Ended(u, q)
  BY <1>1, <1>4, <1>5 DEF TaskOK, Ended, r
<1>9. TaskOK(u)
  <2>1. \A q \in Run : u.published[q] <= 1
    BY <1>5 DEF TaskOK
  <2>2. \A i, j \in Run : u.published[i] > 0 /\ u.published[j] > 0 => i = j
    BY <1>5 DEF TaskOK
  <2> QED
    BY <1>1, <1>6, <1>8, <2>1, <2>2 DEF TaskOK
<1>10. Grows(t, u)
  BY <1>1, <1>4, <1>5 DEF Grows, Ended
<1> QED
  BY <1>1, <1>4, <1>5, <1>6, <1>7, <1>9, <1>10 DEF r

(* The last step of the actions on one task: u has the node's wait in hand.*)
LEMMA TaskDone ==
  ASSUME GraphAssumption, IInv, NEW n \in Node, NEW k \in Tid, NEW u \in TaskRow,
         task[n][k].gen # 0, Grows(task[n][k], u), TaskOK(u), With(n, k, u),
         u.published = task[n][k].published,
         UNCHANGED <<status, gen, node, outbox, hooks, approved, lost>>,
         \A m \in Node : \A j \in Tid \cup {0} :
           (m # n \/ j # k) /\ Committing(m, j) => Committing(m, j)',
         Waits(n, k) => Awaited(n)'
  PROVE  /\ GraphKept /\ Steady /\ task'[n][k] = u
<1>1. /\ task' \in [Node -> [Tid -> TaskRow]]
      /\ task'[n][k] = u
      /\ \A m \in Node, j \in Tid : m # n \/ j # k => task'[m][j] = task[m][j]
      /\ \A m \in Node, j \in Tid : Grows(task[m][j], task'[m][j])
      /\ \A m \in Node : TasksOK(task'[m])
      /\ GateHolds'
  BY TaskStep
<1>2. \A m \in Node, j \in Tid : task'[m][j].published = task[m][j].published
  BY <1>1
<1>3. ASSUME NEW m \in Node, node[m].status = "RUNNING" PROVE Awaited(m)'
  <2>1. node[m].task \in Tid /\ Awaited(m)
    <3>1. node[m].task # 0 /\ node[m] \in NodeRow
      BY <1>3, Rest DEF IInv, RowsOK, RowOK
    <3> QED
      BY <1>3, <3>1 DEF NodeRow, IInv
  <2>2. CASE Waits(n, k) /\ m = n
    BY <2>2
  <2>3. CASE ~(Waits(n, k) /\ m = n)
    <3>1. m # n \/ node[m].task # k
      BY <1>3, <2>3 DEF Waits
    <3>2. task'[m][node[m].task] = task[m][node[m].task]
      BY <1>1, <2>1, <3>1
    <3>3. Committing(m, node[m].task) => Committing(m, node[m].task)'
      BY <2>1, <3>1
    <3> QED
      BY <2>1, <3>2, <3>3 DEF Awaited
  <2> QED
    BY <2>2, <2>3
<1>4. OutboxIsComplete'
  BY DEF IInv, OutboxIsComplete
<1>5. GraphKept
  BY <1>1, <1>2, <1>3, <1>4, TasksMove
<1> QED
  BY <1>1, <1>5 DEF GraphKept

LEMMA ResolveKeeps ==
  ASSUME GraphAssumption, IInv, NEW m \in Monitors, NEW n \in Node, NEW k \in Tid,
         NEW out \in {"ok", "fail"}, Resolve(m, n, k, out)
  PROVE  IInv'
<1> DEFINE t == task[n][k]
           r == Newest(t)
           alive == t.alive \ {r}
           u == Closed(t, out, alive, t.routed)
<1>1. /\ proc[m].pc = "idle" /\ t.gen # 0 /\ TaskStatus(t) = "open"
      /\ With(n, k, [t EXCEPT !.out[r] = out, !.alive = alive])
      /\ Take(m, "handle", n, k, r, out)
      /\ UNCHANGED <<status, gen, node, outbox, hooks, approved, lost, faults>>
  BY DEF Resolve, IsOpen, Made, Open
<1>2. /\ t \in TaskRow /\ TypeOK /\ ProcsOK /\ m \in Proc /\ alive \in SUBSET Run
      /\ t.routed \in SUBSET Run
  BY Rest DEF Proc, Routers, TaskRow
<1>3. TaskOK(t)
  BY <1>1 DEF IInv, TasksOK
<1>4. [t EXCEPT !.out[r] = out, !.alive = alive] = u
  BY <1>2 DEF TaskRow, Closed
<1>5. With(n, k, u)
  BY <1>1, <1>4
<1> HIDE DEF t, u, r, alive
<1>6. /\ u \in TaskRow /\ TaskOK(u) /\ Grows(t, u) /\ u.published = t.published
      /\ r \in Run /\ u.out[r] = out /\ Last(u, r)
      /\ r \notin t.routed /\ u.routed = t.routed
  <2>1. t.routed \subseteq t.routed \cup {Newest(t)}
    OBVIOUS
  <2> QED
    BY <1>1, <1>2, <1>3, <2>1, EndRun DEF r, u
<1>7. \A i \in Node : \A j \in Tid \cup {0} : Committing(i, j) => Committing(i, j)'
  <2> DEFINE w == [pc |-> "handle", node |-> n, task |-> k, run |-> r, out |-> out, gen |-> 0]
  <2>1. w \in ProcRow /\ proc' = [proc EXCEPT ![m] = w]
    BY <1>1, <1>6, TakenRow DEF Take
  <2> HIDE DEF w
  <2> QED
    BY <1>1, <1>2, <2>1, CommittingKept
<1>8. Waits(n, k) => (Last(task'[n][k], r) /\ r \notin task'[n][k].routed => Awaited(n)')
  BY <1>1, <1>6 DEF Awaited, Waits
<1>9. task'[n][k] = u
  BY <1>5, <1>2, Rest DEF With
<1>10. GraphKept /\ Steady
  BY <1>1, <1>5, <1>6, <1>7, <1>8, <1>9, TaskDone DEF t
<1>11. proc' \in [Proc -> ProcRow] /\ ProcsOK'
  <2>1. u.gen # 0 /\ Ended(u, r)
    BY <1>1, <1>6 DEF Grows, Ended
  <2> QED
    BY <1>1, <1>2, <1>6, <1>9, <1>10, <2>1, TakeKeeps
<1> QED
  BY <1>1, <1>10, <1>11, Rest, Assembled

LEMMA ReapKeeps ==
  ASSUME GraphAssumption, IInv, NEW p \in Reapers, NEW n \in Node, NEW k \in Tid,
         NEW paused \in BOOLEAN, NEW committed \in BOOLEAN, Reap(p, n, k, paused, committed)
  PROVE  IInv'
<1> DEFINE t == task[n][k]
           r == Newest(t)
           out == IF committed THEN "ok" ELSE "fail"
           pc == IF committed THEN "committed" ELSE "handle"
           alive == IF paused THEN t.alive ELSE t.alive \ {r}
           routed == IF committed THEN t.routed \cup {r} ELSE t.routed
           u == Closed(t, out, alive, routed)
<1>1. /\ proc[p].pc = "idle" /\ t.gen # 0 /\ TaskStatus(t) = "open"
      /\ With(n, k, [t EXCEPT !.out[r] = out, !.alive = alive, !.routed = routed])
      /\ Take(p, pc, n, k, r, out)
      /\ UNCHANGED <<status, gen, node, outbox, hooks, approved, lost>>
      /\ faults < MaxFaults /\ faults' = faults + 1
  BY Rest DEF Reap, IsOpen, Made, Open, TaskRow
<1>2. /\ t \in TaskRow /\ TypeOK /\ ProcsOK /\ p \in Proc /\ p \in Routers
      /\ t.routed \in SUBSET Run /\ t.alive \in SUBSET Run
  BY Rest DEF Proc, Routers, TaskRow
<1>3. TaskOK(t)
  BY <1>1 DEF IInv, TasksOK
<1>4. With(n, k, u)
  BY <1>1 DEF Closed
<1>5. r \in Run
  BY <1>2, <1>3, NewestRuns
<1>6. /\ alive \in SUBSET Run /\ routed \in SUBSET Run /\ out \in {"ok", "fail"}
      /\ routed \subseteq t.routed \cup {Newest(t)} /\ pc \in {"handle", "committed"}
      /\ pc = "committed" => out = "ok"
      /\ pc = "handle" => routed = t.routed
  BY <1>2, <1>5
<1> HIDE DEF t, u, r, alive, routed, out, pc
<1>7. /\ u \in TaskRow /\ TaskOK(u) /\ Grows(t, u) /\ u.published = t.published
      /\ u.out[r] = out /\ Last(u, r)
      /\ r \notin t.routed /\ u.routed = routed
  BY <1>1, <1>2, <1>3, <1>6, EndRun DEF r, u
<1>8. task'[n][k] = u
  BY <1>4, Rest DEF With
<1> DEFINE w == [pc |-> pc, node |-> n, task |-> k, run |-> r, out |-> out, gen |-> 0]
<1>9. w \in ProcRow /\ proc' = [proc EXCEPT ![p] = w]
  BY <1>1, <1>5, <1>6, TakenRow DEF Take
<1>10. proc'[p].pc = pc /\ proc'[p].node = n /\ proc'[p].task = k
  BY <1>2, <1>9, Rest
<1> HIDE DEF w
<1>11. \A i \in Node : \A j \in Tid \cup {0} : Committing(i, j) => Committing(i, j)'
  BY <1>1, <1>2, <1>9, CommittingKept
<1>12. ASSUME Waits(n, k) PROVE Awaited(n)'
  <2>1. node'[n].task = k
    BY <1>1, <1>12 DEF Waits
  <2>2. CASE pc = "handle"
    BY <1>5, <1>6, <1>7, <1>8, <2>1, <2>2 DEF Awaited
  <2>3. CASE pc = "committed"
    BY <1>2, <1>10, <2>1, <2>3 DEF Awaited, Committing
  <2> QED
    BY <1>6, <2>2, <2>3
<1>13. GraphKept /\ Steady
  BY <1>1, <1>4, <1>7, <1>11, <1>12, TaskDone DEF t
<1>14. proc' \in [Proc -> ProcRow] /\ ProcsOK'
  <2>1. u.gen # 0 /\ Ended(u, r) /\ out # "none"
    BY <1>1, <1>6, <1>7 DEF Grows, Ended
  <2>2. out \in {"none", "ok", "fail"}
    BY <1>6
  <2> QED
    BY <1>1, <1>2, <1>5, <1>6, <1>7, <1>8, <1>13, <2>1, <2>2, TakeKeeps
<1>15. faults' \in 0..MaxFaults
  BY <1>1, Rest DEF GraphAssumption
<1> QED
  BY <1>1, <1>13, <1>14, <1>15, Rest, Assembled

LEMMA RequeueKeeps ==
  ASSUME GraphAssumption, IInv, NEW n \in Node, NEW k \in Tid, Requeue(n, k)
  PROVE  IInv'
<1> DEFINE t == task[n][k]
           r == Newest(t)
           o == [t.out EXCEPT ![r + 1] = "open"]
           alive == t.alive \cup {r + 1}
           u == [t EXCEPT !.out = o, !.alive = alive]
<1>1. /\ t.gen # 0 /\ TaskStatus(t) = "fail" /\ r + 1 \in Run
      /\ With(n, k, u)
      /\ UNCHANGED <<status, gen, node, outbox, hooks, proc, approved, lost, faults>>
  BY DEF Requeue, Made, Open
<1>2. t \in TaskRow /\ TaskOK(t) /\ t.out \in [Run -> {"none", "open", "ok", "fail"}]
  BY <1>1, Rest DEF IInv, TasksOK, TaskRow
<1>3. r \in Run /\ Last(t, r) /\ t.out[r] = "fail"
  BY <1>1, <1>2, NewestRuns DEF TaskStatus
<1> HIDE DEF r
<1>4. /\ o \in [Run -> {"none", "open", "ok", "fail"}] /\ o[r + 1] = "open"
      /\ \A q \in Run : q # r + 1 => o[q] = t.out[q]
  BY <1>1, <1>2
<1>5. alive \in SUBSET Run
  BY <1>1, <1>2 DEF TaskRow
<1> HIDE DEF o, alive
<1>6. /\ u \in TaskRow /\ u.out = o /\ u.gen = t.gen /\ u.published = t.published
      /\ u.routed = t.routed
  BY <1>2, <1>4, <1>5 DEF TaskRow
<1> HIDE DEF t, u
<1>7. t.out[r + 1] = "none"
  BY <1>1, <1>2, <1>3 DEF Last, Run
<1>8. Last(u, r + 1)
  BY <1>1, <1>3, <1>4, <1>6 DEF Last, Run
<1>9. Grows(t, u)
  BY <1>4, <1>6, <1>7 DEF Grows, Ended
<1>10. TaskOK(u)
  <2>1. \A q \in u.routed : Ended(u, q)
    BY <1>2, <1>4, <1>6, <1>7 DEF TaskOK, Ended, TaskRow
  <2>2. \A q \in Run : u.published[q] <= 1
    BY <1>2, <1>6 DEF TaskOK
  <2>3. \A i, j \in Run : u.published[i] > 0 /\ u.published[j] > 0 => i = j
    BY <1>2, <1>6 DEF TaskOK
  <2> QED
    BY <1>1, <1>8, <2>1, <2>2, <2>3 DEF TaskOK
<1>11. task'[n][k] = u
  BY <1>1, Rest DEF With
<1>12. Waits(n, k) => Awaited(n)'
  BY <1>1, <1>4, <1>6, <1>8, <1>11 DEF Awaited, Waits
<1>13. GraphKept /\ Steady
  <2>1. \A i \in Node : \A j \in Tid \cup {0} : Committing(i, j) => Committing(i, j)'
    BY <1>1 DEF Committing
  <2> QED
    BY <1>1, <1>6, <1>9, <1>10, <1>12, <2>1, TaskDone DEF t
<1>14. ProcsOK'
  <2>1. ASSUME NEW p \in Proc PROVE ProcOK(p)'
    BY <1>1, <1>13, Rest, ProcKept DEF ProcsOK
  <2> QED
    BY <2>1 DEF ProcsOK
<1> QED
  BY <1>1, <1>13, <1>14, Rest, Assembled

LEMMA MarkRoutedKeeps ==
  ASSUME GraphAssumption, IInv, NEW p \in Proc, MarkRouted(p)
  PROVE  IInv'
<1>1. /\ proc[p].pc = "mark" /\ proc' = [proc EXCEPT ![p] = Idle]
      /\ UNCHANGED <<status, gen, node, outbox, hooks, approved, lost, faults>>
  BY DEF MarkRouted, Release
<1>2. ProcOK(p) /\ proc[p] \in ProcRow
  BY Rest DEF ProcsOK
<1>3. PICK n \in Node, k \in Tid, q \in Run :
        /\ n = proc[p].node /\ k = proc[p].task /\ q = proc[p].run
        /\ task[n][k].gen # 0 /\ Ended(task[n][k], q)
  BY <1>1, <1>2 DEF ProcOK, ProcRow
<1> DEFINE t == task[n][k]
           u == [t EXCEPT !.routed = t.routed \cup {q}]
<1>4. With(n, k, u) /\ (Waits(n, k) => Superseded(t, q))
  BY <1>1, <1>2, <1>3 DEF ProcOK, Waits, MarkRouted
<1>5. t \in TaskRow /\ TaskOK(t)
  BY <1>3, Rest DEF IInv, TasksOK
<1> HIDE DEF t
<1>6. /\ u \in TaskRow /\ u.out = t.out /\ u.gen = t.gen /\ u.published = t.published
      /\ u.routed = t.routed \cup {q}
  BY <1>3, <1>5 DEF TaskRow
<1> HIDE DEF u
<1>7. Grows(t, u) /\ TaskOK(u)
  BY <1>3, <1>5, <1>6 DEF Grows, TaskOK, Ended, Last, t
<1>8. task'[n][k] = u
  BY <1>4, Rest DEF With
<1>9. \A i \in Node : \A j \in Tid \cup {0} : Committing(i, j) => Committing(i, j)'
  BY <1>1, Rest, IdleRow, CommittingKept
<1>10. ASSUME Waits(n, k) PROVE Awaited(n)'
  <2>1. Awaited(n) /\ node[n].task = k /\ t = task[n][k]
    BY <1>10 DEF Waits, IInv, t
  <2>2. CASE \E r \in Run : Last(t, r) /\ (t.out[r] = "open" \/ r \notin t.routed)
    <3>1. PICK r \in Run : Last(t, r) /\ (t.out[r] = "open" \/ r \notin t.routed)
      BY <2>2
    <3>2. r # q
      BY <1>4, <1>10, <3>1 DEF Superseded, Last, Run
    <3>3. Last(u, r) /\ (u.out[r] = "open" \/ r \notin u.routed)
      BY <1>6, <3>1, <3>2 DEF Last
    <3> QED
      BY <1>1, <1>8, <2>1, <3>3 DEF Awaited
  <2>3. CASE ~\E r \in Run : Last(t, r) /\ (t.out[r] = "open" \/ r \notin t.routed)
    <3>1. Committing(n, k) \/ n \in lost
      BY <2>1, <2>3 DEF Awaited
    <3> QED
      BY <1>1, <1>3, <1>9, <2>1, <3>1 DEF Awaited
  <2> QED
    BY <2>2, <2>3
<1>11. GraphKept /\ Steady
  BY <1>1, <1>3, <1>4, <1>6, <1>7, <1>9, <1>10, TaskDone DEF t
<1>12. proc' \in [Proc -> ProcRow] /\ ProcsOK'
  BY <1>1, <1>11, Rest, IdleRow, ProcFree, ProcStep
<1> QED
  BY <1>1, <1>11, <1>12, Rest, Assembled
-----------------------------------------------------------------------------
(* Steps of a process that leave the graph as it is.                       *)

LEMMA AwaitStands ==
  ASSUME IInv, UNCHANGED graph, lost \subseteq lost',
         \A m \in Node, k \in Tid \cup {0} :
           Committing(m, k) => Committing(m, k)' \/ m \in lost'
  PROVE  \A m \in Node : node[m].status = "RUNNING" => Awaited(m)'
<1> SUFFICES ASSUME NEW m \in Node, node[m].status = "RUNNING" PROVE Awaited(m)'
  OBVIOUS
<1>1. Awaited(m) /\ node[m].task \in Tid \cup {0}
  BY Rest DEF IInv, NodeRow
<1>2. node' = node /\ task' = task
  BY DEF graph
<1>3. Committing(m, node[m].task) => Committing(m, node[m].task)' \/ m \in lost'
  BY <1>1, <1>2
<1> QED
  BY <1>1, <1>2, <1>3 DEF Awaited

(* A process that holds no committed resolution moves to the row w.        *)
LEMMA HandMoves ==
  ASSUME GraphAssumption, IInv, NEW p \in Proc, proc[p].pc # "committed",
         NEW w \in ProcRow, proc' = [proc EXCEPT ![p] = w], proc'[p] = w => ProcOK(p)',
         UNCHANGED <<graph, hooks, approved, lost>>, faults' \in 0..MaxFaults
  PROVE  IInv'
<1>1. \A m \in Node, k \in Tid \cup {0} : Committing(m, k) => Committing(m, k)'
  BY Rest, CommittingKept
<1>2. OutboxIsComplete'
  BY DEF IInv, OutboxIsComplete, graph
<1>3. GraphKept /\ Steady
  BY <1>1, <1>2, AwaitStands, RowsStand
<1>4. proc' \in [Proc -> ProcRow] /\ ProcsOK'
  BY <1>3, Rest, ProcStep
<1>5. gen' = gen
  BY DEF graph
<1> QED
  BY <1>3, <1>4, <1>5, Rest, Assembled

LEMMA ReplayKeeps ==
  ASSUME GraphAssumption, IInv, NEW p \in Reapers, NEW n \in Node, NEW k \in Tid,
         NEW r \in Run, Replay(p, n, k, r)
  PROVE  IInv'
<1> DEFINE t == task[n][k]
           s == TaskStatus(t)
           out == IF s = "open" THEN "none" ELSE s
           w == [pc |-> "handle", node |-> n, task |-> k, run |-> r, out |-> out, gen |-> 0]
<1>1. /\ proc[p].pc = "idle" /\ Ended(t, r) /\ proc' = [proc EXCEPT ![p] = w]
      /\ UNCHANGED <<graph, hooks, approved, lost>>
      /\ faults' \in {faults, faults + 1} /\ faults' <= MaxFaults
  BY DEF Replay, Take, Ended
<1>2. t \in TaskRow /\ p \in Proc /\ task' = task /\ faults \in Nat
  BY <1>1, Rest DEF Proc, Routers, graph
<1>3. t.gen # 0 /\ TaskOK(t)
  BY <1>1 DEF IInv, TasksOK, Ended, NoTask
<1>4. Newest(t) \in Run /\ Last(t, Newest(t)) /\ s \in {"open", "ok", "fail"}
  BY <1>2, <1>3, NewestRuns DEF TaskStatus
<1>5. s = "open" => Superseded(t, r)
  BY <1>1, <1>4 DEF Superseded, Ended, Last, Run, GraphAssumption, TaskStatus
<1>6. /\ out \in {"none", "ok", "fail"}
      /\ out # "none" => \E q \in Run : t.out[q] = out
      /\ out = "none" => Superseded(t, r)
  BY <1>4, <1>5 DEF TaskStatus
<1> HIDE DEF out
<1>7. /\ w \in ProcRow
      /\ w.pc = "handle" /\ w.node = n /\ w.task = k /\ w.run = r /\ w.out = out
      /\ n # 0 /\ k # 0 /\ r # 0
  <2>1. out \in {"none", "ok", "fail"}
    BY <1>6
  <2>2. w \in ProcRow
    BY <2>1, TakenRow
  <2> QED
    BY <2>2 DEF Node, Tid, Run
<1> HIDE DEF w, s, t
<1>8. proc'[p] = w => ProcOK(p)'
  BY <1>1, <1>2, <1>3, <1>6, <1>7 DEF ProcOK, t
<1>9. proc[p].pc # "committed" /\ faults' \in 0..MaxFaults
  BY <1>1, <1>2
<1> QED
  BY <1>1, <1>2, <1>7, <1>8, <1>9, HandMoves

LEMMA ReplaySettledKeeps ==
  ASSUME GraphAssumption, IInv, NEW p \in Reapers, ReplaySettled(p)
  PROVE  IInv'
<1>1. PICK e \in outbox :
        /\ proc[p].pc = "idle"
        /\ proc' = [proc EXCEPT ![p] = [Idle EXCEPT !.pc = "hook", !.gen = e.gen]]
        /\ faults' \in {faults, faults + 1} /\ faults' <= MaxFaults
        /\ UNCHANGED <<graph, hooks, approved, lost>>
  BY DEF ReplaySettled, Unannounced
<1> DEFINE w == [Idle EXCEPT !.pc = "hook", !.gen = e.gen]
<1>2. e.gen \in Gen /\ e.gen # 0
  BY Rest DEF TypeOK, Gen
<1>3. w \in ProcRow /\ w.pc = "hook" /\ w.node = 0 /\ w.gen = e.gen
  BY <1>2 DEF ProcRow, Idle
<1> HIDE DEF w
<1>4. proc'[p] = w => ProcOK(p)'
  BY <1>1, <1>2, <1>3 DEF ProcOK, Recorded, graph
<1>5. proc[p].pc # "committed" /\ faults' \in 0..MaxFaults /\ p \in Proc
  BY <1>1, Rest DEF Proc, Routers
<1> QED
  BY <1>1, <1>3, <1>4, <1>5, HandMoves DEF w

LEMMA CrashKeeps ==
  ASSUME GraphAssumption, IInv, NEW p \in Proc, Crash(p)
  PROVE  IInv'
<1>1. /\ proc[p].pc # "idle" /\ faults' = faults + 1 /\ faults < MaxFaults
      /\ lost' = IF proc[p].pc = "committed" THEN lost \cup {proc[p].node} ELSE lost
      /\ proc' = [proc EXCEPT ![p] = Idle]
      /\ UNCHANGED <<graph, hooks, approved>>
  BY DEF Crash, Release
<1>2. ProcOK(p) /\ proc[p] \in ProcRow
  BY Rest DEF ProcsOK
<1>3. lost \subseteq lost' /\ lost' \subseteq Node
  BY <1>1, <1>2, Rest DEF ProcOK, ProcRow
<1>4. \A m \in Node, k \in Tid \cup {0} :
        Committing(m, k) => Committing(m, k)' \/ m \in lost'
  <2> SUFFICES ASSUME NEW m \in Node, NEW k \in Tid \cup {0}, Committing(m, k)
               PROVE  Committing(m, k)' \/ m \in lost'
    OBVIOUS
  <2>1. PICK q \in Routers : proc[q].pc = "committed" /\ proc[q].node = m /\ proc[q].task = k
    BY DEF Committing
  <2>2. CASE q = p
    BY <1>1, <2>1, <2>2
  <2>3. CASE q # p
    <3>1. proc'[q] = proc[q]
      BY <1>1, <2>1, <2>3, Rest DEF Proc
    <3> QED
      BY <2>1, <3>1 DEF Committing
  <2> QED
    BY <2>2, <2>3
<1>5. OutboxIsComplete'
  BY <1>1 DEF IInv, OutboxIsComplete, graph
<1>6. GraphKept /\ Steady
  <2>1. UNCHANGED graph /\ UNCHANGED <<graph, approved>>
    BY <1>1
  <2>2. \A m \in Node : node[m].status = "RUNNING" => Awaited(m)'
    BY <1>3, <1>4, <2>1, AwaitStands
  <2> QED
    BY <1>5, <2>1, <2>2, RowsStand
<1>7. proc' \in [Proc -> ProcRow] /\ ProcsOK'
  BY <1>1, <1>6, Rest, IdleRow, ProcFree, ProcStep
<1>8. gen' = gen /\ faults' \in 0..MaxFaults
  BY <1>1, Rest DEF graph, GraphAssumption
<1> QED
  BY <1>1, <1>3, <1>6, <1>7, <1>8, Rest, Assembled

LEMMA DispatchHookKeeps ==
  ASSUME GraphAssumption, IInv, NEW p \in Proc, DispatchHook(p)
  PROVE  IInv'
<1>1. /\ proc[p].pc = "hook" /\ UNCHANGED <<graph, approved, lost, faults>>
      /\ hooks' = [hooks EXCEPT ![proc[p].gen] = Queued(proc[p].gen)]
  BY DEF DispatchHook
<1>2. ProcOK(p) /\ proc[p] \in ProcRow
  BY Rest DEF ProcsOK
<1>3. PICK g \in Gen : g = proc[p].gen /\ Recorded(g)
  BY <1>1, <1>2 DEF ProcOK, ProcRow
<1>4. /\ hooks' \in [Gen -> Nat] /\ hooks'[g] = (IF hooks[g] = 0 THEN 1 ELSE hooks[g])
      /\ \A h \in Gen : h # g => hooks'[h] = hooks[h]
  BY <1>1, <1>3, Rest DEF Queued
<1>5. OutboxIsComplete'
  <2>1. hooks'[g] = 1
    BY <1>4, Rest DEF IInv, OutboxIsComplete
  <2>2. outbox' = outbox /\ gen' = gen /\ status' = status
    BY <1>1 DEF graph
  <2>3. \A h \in Gen : hooks'[h] > 0 => hooks'[h] = 1 /\ \E e \in outbox : e.gen = h
    BY <1>3, <1>4, <2>1 DEF IInv, OutboxIsComplete, Recorded
  <2> QED
    BY <2>2, <2>3 DEF IInv, OutboxIsComplete
<1> DEFINE v == [proc[p] EXCEPT !.pc = "mark", !.gen = 0]
           w == IF proc[p].node = 0 THEN Idle ELSE v
<1>6. proc' = [proc EXCEPT ![p] = w]
  BY <1>2, Rest DEF DispatchHook, Release, Goto, ProcRow
<1>7. /\ v \in ProcRow /\ v.pc = "mark" /\ v.node = proc[p].node /\ v.task = proc[p].task
      /\ v.run = proc[p].run
  BY <1>2 DEF ProcRow
<1> HIDE DEF v
<1>8. w \in ProcRow
  BY <1>7, IdleRow
<1>9. proc'[p] = w => ProcOK(p)'
  <2>1. CASE proc[p].node = 0
    BY <2>1, ProcFree
  <2>2. CASE proc[p].node # 0
    <3>1. node' = node /\ task' = task
      BY <1>1 DEF graph
    <3> QED
      BY <1>1, <1>2, <1>7, <2>2, <3>1 DEF ProcOK
  <2> QED
    BY <2>1, <2>2
<1> HIDE DEF w
<1>10. \A m \in Node, k \in Tid \cup {0} : Committing(m, k) => Committing(m, k)'
  BY <1>1, <1>6, <1>8, Rest, CommittingKept
<1>11. GraphKept /\ Steady
  <2>1. UNCHANGED graph /\ UNCHANGED <<graph, approved>> /\ lost \subseteq lost'
    BY <1>1
  <2>2. \A m \in Node : node[m].status = "RUNNING" => Awaited(m)'
    BY <1>10, <2>1, AwaitStands
  <2> QED
    BY <1>5, <2>1, <2>2, RowsStand
<1>12. proc' \in [Proc -> ProcRow] /\ ProcsOK'
  BY <1>6, <1>8, <1>9, <1>11, Rest, ProcStep
<1>13. gen' = gen
  BY <1>1 DEF graph
<1> QED
  BY <1>1, <1>4, <1>11, <1>12, <1>13, Rest, Assembled
-----------------------------------------------------------------------------
(* A publication: the node's own task has not published before.            *)

LEMMA PublishKeeps ==
  ASSUME GraphAssumption, IInv, NEW n \in Node, NEW k \in Tid, NEW r \in Run,
         Publish(n, k, r)
  PROVE  IInv'
<1> DEFINE t == task[n][k]
           pub == [t.published EXCEPT ![r] = t.published[r] + 1]
           u == [t EXCEPT !.published = pub]
           nd == node[n]
<1>1. /\ node[n].task = k /\ node[n].receipt = 0 /\ With(n, k, u)
      /\ node' = [node EXCEPT ![n].receipt = k]
      /\ UNCHANGED <<status, gen, outbox, hooks, proc, approved, lost, faults>>
  BY DEF Publish, MayPublish
<1>2. /\ t \in TaskRow /\ t.published \in [Run -> 0..2] /\ nd \in NodeRow /\ k # 0
      /\ gen \in Gen
  <2>1. t \in TaskRow /\ nd \in NodeRow /\ gen \in Gen
    BY Rest
  <2>2. t.published \in [Run -> 0..2]
    BY <2>1 DEF TaskRow
  <2>3. k # 0
    BY DEF Tid
  <2> QED
    BY <2>1, <2>2, <2>3
<1>3. RowOK(nd, task[n], gen) /\ nd.gen \in Gen
  BY <1>2 DEF IInv, RowsOK, NodeRow
<1>4. t.gen = nd.gen /\ t.gen # 0 /\ \A q \in Run : t.published[q] = 0
  BY <1>1, <1>2, <1>3 DEF RowOK, Gen
<1>5. /\ pub \in [Run -> 0..2] /\ pub[r] = 1 /\ \A q \in Run : q # r => pub[q] = 0
  BY <1>2, <1>4
<1> HIDE DEF pub
<1>6. /\ u \in TaskRow /\ u.out = t.out /\ u.gen = t.gen /\ u.routed = t.routed
      /\ u.published = pub
  BY <1>2, <1>5 DEF TaskRow
<1>7. TaskOK(t)
  BY <1>4 DEF IInv, TasksOK
<1> HIDE DEF u
<1>8. TaskOK(u) /\ Grows(t, u)
  <2>1. \A q \in Run : u.published[q] <= 1
    BY <1>5, <1>6
  <2>2. \A i, j \in Run : u.published[i] > 0 /\ u.published[j] > 0 => i = j
    BY <1>5, <1>6
  <2> QED
    BY <1>6, <1>7, <2>1, <2>2 DEF TaskOK, Last, Ended, Grows
<1>9. /\ task' \in [Node -> [Tid -> TaskRow]]
      /\ task'[n][k] = u
      /\ \A m \in Node, j \in Tid : m # n \/ j # k => task'[m][j] = task[m][j]
      /\ \A m \in Node, j \in Tid : Grows(task[m][j], task'[m][j])
      /\ \A m \in Node : TasksOK(task'[m])
      /\ GateHolds'
  BY <1>1, <1>4, <1>6, <1>8, TaskStep
<1>10. /\ node' \in [Node -> NodeRow] /\ node'[n].receipt = k
       /\ \A m \in Node : m # n => node'[m] = node[m]
       /\ \A m \in Node : /\ node'[m].status = node[m].status /\ node'[m].gen = node[m].gen
                          /\ node'[m].task = node[m].task
  <2>1. node \in [Node -> NodeRow] /\ [node[n] EXCEPT !.receipt = k] \in NodeRow
    BY <1>2, Rest DEF NodeRow
  <2>2. /\ node' \in [Node -> NodeRow]
        /\ node'[n] = [node[n] EXCEPT !.receipt = k]
        /\ \A m \in Node : m # n => node'[m] = node[m]
    BY <1>1, <2>1
  <2>3. /\ node'[n].receipt = k /\ node'[n].status = node[n].status
        /\ node'[n].gen = node[n].gen /\ node'[n].task = node[n].task
    BY <2>1, <2>2 DEF NodeRow
  <2> QED
    BY <2>2, <2>3
<1>11. RowsOK(node, gen)'
  <2>1. ASSUME NEW m \in Node PROVE RowOK(node'[m], task'[m], gen)
    <3>1. CASE m = n
      <4>1. \A j \in Tid : task'[n][j].gen = task[n][j].gen
        BY <1>9 DEF Grows
      <4>2. \A j \in Tid, q \in Run : task'[n][j].out[q] = task[n][j].out[q]
        BY <1>6, <1>9
      <4> QED
        BY <1>1, <1>2, <1>3, <1>10, <3>1, <4>1, <4>2 DEF RowOK
    <3>2. CASE m # n
      <4>1. /\ task[m] \in [Tid -> TaskRow] /\ task'[m] \in [Tid -> TaskRow]
            /\ \A j \in Tid : task'[m][j] = task[m][j]
        BY <1>9, <3>2, Rest
      <4>2. task'[m] = task[m]
        BY <4>1
      <4> QED
        BY <1>10, <3>2, <4>2 DEF IInv, RowsOK
    <3> QED
      BY <3>1, <3>2
  <2> QED
    BY <1>1, <2>1 DEF RowsOK
<1>12. \A m \in Node, j \in Tid : /\ task'[m][j].out = task[m][j].out
                                  /\ task'[m][j].routed = task[m][j].routed
  BY <1>6, <1>9
<1>13. ASSUME NEW m \in Node, node'[m].status = "RUNNING" PROVE Awaited(m)'
  <2>1. Awaited(m) /\ node[m].task \in Tid /\ node'[m].task = node[m].task
    <3>1. node[m].status = "RUNNING" /\ RowOK(node[m], task[m], gen) /\ node[m] \in NodeRow
      BY <1>10, <1>13, Rest DEF IInv, RowsOK
    <3> QED
      BY <1>10, <3>1 DEF IInv, NodeRow, RowOK
  <2>2. PICK j \in Tid : j = node[m].task
    BY <2>1
  <2>3. task'[m][j].out = task[m][j].out /\ task'[m][j].routed = task[m][j].routed
    BY <1>12
  <2> QED
    BY <1>1, <2>1, <2>2, <2>3 DEF Awaited, Last, Committing
<1>14. InOrder(node)' /\ Drained' /\ SettlementIsTrue' /\ OutboxIsComplete'
  <2>1. Ready(node') = Ready(node)
    BY <1>10 DEF Ready, After
  <2>2. \A x : Has(node', x) <=> Has(node, x)
    BY <1>10 DEF Has
  <2>3. \A m \in Node : BlockedBy(m)' = BlockedBy(m)
    <3>1. \A m \in Node : After(m) \subseteq Node
      BY DEF After
    <3> QED
      BY <1>10, <3>1 DEF BlockedBy
  <2>4. InOrder(node)'
    <3>1. \A m \in Node : node'[m].status = node[m].status /\ After(m) \subseteq Node
      BY <1>10 DEF After
    <3> QED
      BY <3>1 DEF IInv, InOrder
  <2>5. Drained'
    BY <1>1, <2>1, <2>2 DEF IInv, Drained
  <2>6. SettlementIsTrue'
    BY <1>1, <1>10, <2>2, <2>3 DEF IInv, SettlementIsTrue
  <2>7. OutboxIsComplete'
    BY <1>1 DEF IInv, OutboxIsComplete
  <2> QED
    BY <2>4, <2>5, <2>6, <2>7
<1>15. Steady
  BY <1>1, <1>9, <1>10 DEF Steady, Waits
<1>16. ProcsOK'
  <2>1. ASSUME NEW p \in Proc PROVE ProcOK(p)'
    BY <1>1, <1>15, Rest, ProcKept DEF ProcsOK
  <2> QED
    BY <2>1 DEF ProcsOK
<1>17. /\ status' \in Live \cup Terminal \cup {"absent"}
       /\ outbox' \subseteq [gen : Gen, outcome : Terminal]
       /\ (status' \in Terminal => Recorded(gen)')
  BY <1>1, <1>2, Rest DEF IInv, TypeOK, OutboxIsComplete, Recorded
<1>18. GraphKept
  BY <1>9, <1>10, <1>11, <1>13, <1>14, <1>15, <1>17 DEF GraphKept
<1> QED
  BY <1>1, <1>16, <1>18, Rest, Assembled
-----------------------------------------------------------------------------
(* A completion.                                                           *)

LEMMA GotoRow ==
  ASSUME TypeOK, NEW p \in Proc, NEW pc \in {"hook", "mark"}, Goto(p, pc)
  PROVE  \E w \in ProcRow :
           /\ proc' = [proc EXCEPT ![p] = w] /\ proc'[p] = w
           /\ w.pc = pc /\ w.node = proc[p].node /\ w.task = proc[p].task
           /\ w.run = proc[p].run /\ w.out = proc[p].out
           /\ pc = "hook" => w.gen = gen
<1>1. proc \in [Proc -> ProcRow] /\ proc[p] \in ProcRow /\ gen \in Gen
  BY RowTypes DEF TypeOK
<1> DEFINE g == IF pc = "hook" THEN gen ELSE 0
           w == [proc[p] EXCEPT !.pc = pc, !.gen = g]
<1>2. g \in Gen \cup {0} /\ (pc = "hook" => g = gen)
  BY <1>1
<1>3. proc' = [proc EXCEPT ![p] = w]
  BY <1>1 DEF Goto
<1> HIDE DEF g
<1>4. /\ w \in ProcRow
      /\ w.pc = pc /\ w.node = proc[p].node /\ w.task = proc[p].task
      /\ w.run = proc[p].run /\ w.out = proc[p].out /\ w.gen = g
  BY <1>1, <1>2 DEF ProcRow
<1> HIDE DEF w
<1>5. proc'[p] = w
  BY <1>1, <1>3
<1> QED
  BY <1>2, <1>3, <1>4, <1>5

(* What a process that is done with the node's transaction holds.          *)
LEMMA GotoKeeps ==
  ASSUME GraphAssumption, TypeOK, Steady, ProcsOK, gen' = gen,
         NEW p \in Proc, proc[p].pc \in {"handle", "committed"},
         NEW pc \in {"hook", "mark"}, Goto(p, pc),
         NEW n \in Node, n = proc[p].node, NEW k \in Tid, k = proc[p].task,
         \/ ~Waits(n, k)'
         \/ Superseded(task'[n][k], proc[p].run),
         pc = "hook" => Recorded(gen)'
  PROVE  proc' \in [Proc -> ProcRow] /\ ProcsOK'
<1>1. ProcOK(p) /\ proc[p] \in ProcRow
  BY RowTypes DEF ProcsOK
<1>2. /\ proc[p].run # 0 /\ proc[p].run \in Run /\ task[n][k].gen # 0
      /\ Ended(task[n][k], proc[p].run) /\ k # 0 /\ n # 0
  BY <1>1 DEF ProcOK, ProcRow, Tid, Node
<1>3. PICK w \in ProcRow :
           /\ proc' = [proc EXCEPT ![p] = w]
           /\ w.pc = pc /\ w.node = n /\ w.task = k
           /\ w.run = proc[p].run /\ w.out = proc[p].out
           /\ pc = "hook" => w.gen = gen
  BY GotoRow
<1>4. task'[n][k].gen # 0 /\ Ended(task'[n][k], proc[p].run)
  BY <1>2 DEF Steady, Grows, Ended
<1>5. gen # 0
  BY DEF TypeOK, Gen
<1>6. proc'[p] = w => ProcOK(p)'
  BY <1>2, <1>3, <1>4, <1>5 DEF ProcOK, Waits, Recorded
<1> QED
  BY <1>3, <1>6, ProcStep

(* The node a recorded completion is for waits for that very task.         *)
LEMMA Recording ==
  ASSUME GraphAssumption, IInv, NEW p \in Routers, proc[p].pc \in {"handle", "committed"}
  PROVE  \E n \in Node, k \in Tid :
           /\ n = proc[p].node /\ k = proc[p].task /\ task[n][k].gen # 0
           /\ proc[p].pc = "committed" => proc[p].out = "ok"
           /\ proc[p].out = "none" => Superseded(task[n][k], proc[p].run)
           /\ proc[p].out # "none" => /\ proc[p].out \in {"ok", "fail"}
                                      /\ \E r \in Run : task[n][k].out[r] = proc[p].out
           /\ IsBound(n, k) /\ node[n].status \in Unsettled => node[n].status = "RUNNING"
<1>1. ProcOK(p) /\ proc[p] \in ProcRow
  BY Rest DEF ProcsOK, Proc
<1>2. PICK n \in Node, k \in Tid : n = proc[p].node /\ k = proc[p].task
  BY <1>1 DEF ProcOK, ProcRow
<1>3. IsBound(n, k) /\ node[n].status \in Unsettled => node[n].status = "RUNNING"
  BY Rest DEF IInv, RowsOK, RowOK, IsBound, Unsettled, Tid
<1> QED
  BY <1>1, <1>2, <1>3 DEF ProcOK, ProcRow

(* The node's row takes the outcome of its task.                           *)
Concluded(n, out) == [node EXCEPT ![n].status = Outcome(out)]

LEMMA OutcomeRow ==
  ASSUME GraphAssumption, IInv, NEW n \in Node, NEW k \in Tid, Waits(n, k),
         NEW out \in {"ok", "fail"}, \E r \in Run : task[n][k].out[r] = out,
         NEW ns, ns = Concluded(n, out)
  PROVE  /\ ns \in [Node -> NodeRow] /\ RowsOK(ns, gen) /\ InOrder(ns)
         /\ \A m \in Node : m # n => ns[m] = node[m]
         /\ ns[n].status \in {"SUCCEEDED", "FAILED"} /\ ns[n].task = k
<1>1. node \in [Node -> NodeRow] /\ RowOK(node[n], task[n], gen) /\ node[n].status = "RUNNING"
  BY Rest DEF IInv, RowsOK, Waits
<1>2. Outcome(out) \in {"SUCCEEDED", "FAILED"}
  BY DEF Outcome
<1>3. /\ ns \in [Node -> NodeRow]
      /\ \A m \in Node : m # n => ns[m] = node[m]
      /\ ns[n].status = Outcome(out) /\ ns[n].gen = node[n].gen
      /\ ns[n].task = node[n].task /\ ns[n].receipt = node[n].receipt
  BY <1>1, <1>2 DEF NodeRow, NodeStatus, Satisfied, Concluded
<1>4. node[n].task = k
  BY DEF Waits
<1>5. RowOK(ns[n], task[n], gen)
  BY <1>1, <1>2, <1>3, <1>4 DEF RowOK, Outcome
<1>6. RowsOK(ns, gen)
  BY <1>3, <1>5 DEF IInv, RowsOK
<1>7. \A m \in Node : node[m].status \in Satisfied => ns[m].status \in Satisfied
  BY <1>1, <1>3 DEF Satisfied
<1>8. InOrder(ns)
  BY <1>1, <1>3, <1>7 DEF IInv, InOrder, After
<1> QED
  BY <1>2, <1>3, <1>4, <1>6, <1>8

(* Another node's committed resolution is in other hands.                  *)
LEMMA OthersCommit ==
  ASSUME TypeOK, NEW p \in Proc, NEW w \in ProcRow, proc' = [proc EXCEPT ![p] = w],
         NEW m, NEW j, proc[p].node # m \/ proc[p].task # j, Committing(m, j)
  PROVE  Committing(m, j)'
<1>1. proc \in [Proc -> ProcRow] /\ Routers \subseteq Proc
  BY RowTypes DEF Proc
<1>2. PICK q \in Routers : proc[q].pc = "committed" /\ proc[q].node = m /\ proc[q].task = j
  BY DEF Committing
<1>3. proc'[q] = proc[q]
  BY <1>1, <1>2
<1> QED
  BY <1>2, <1>3 DEF Committing

LEMMA HandleCompletionKeeps ==
  ASSUME GraphAssumption, IInv, NEW p \in Routers, HandleCompletion(p)
  PROVE  IInv'
<1>1. proc[p].pc \in {"handle", "committed"} /\ UNCHANGED <<gen, hooks, approved, lost, faults>>
  BY DEF HandleCompletion
<1> DEFINE out == proc[p].out
<1>2. PICK n \in Node, k \in Tid :
           /\ n = proc[p].node /\ k = proc[p].task /\ task[n][k].gen # 0
           /\ proc[p].pc = "committed" => out = "ok"
           /\ out = "none" => Superseded(task[n][k], proc[p].run)
           /\ out # "none" => /\ out \in {"ok", "fail"}
                              /\ \E r \in Run : task[n][k].out[r] = out
           /\ IsBound(n, k) /\ node[n].status \in Unsettled => node[n].status = "RUNNING"
  BY <1>1, Recording
<1>3. TypeOK /\ ProcsOK /\ p \in Proc /\ gen \in Gen
  BY Rest DEF Proc
<1> DEFINE records == out # "none" /\ IsBound(n, k) /\ node[n].status \in Unsettled
           ns == Concluded(n, out)
<1>4. \A pc \in {"hook", "mark"} : Goto(p, pc) =>
        \A m \in Node, j \in Tid \cup {0} :
          (m # n \/ j # k) /\ Committing(m, j) => Committing(m, j)'
  BY <1>2, <1>3, GotoRow, OthersCommit
<1>5. records => Waits(n, k)
  BY <1>2 DEF Waits, IsBound
<1>6. records => /\ ns \in [Node -> NodeRow] /\ RowsOK(ns, gen) /\ InOrder(ns)
                 /\ \A m \in Node : m # n => ns[m] = node[m]
                 /\ ns[n].status \in {"SUCCEEDED", "FAILED"} /\ ns[n].task = k
  BY <1>2, <1>5, OutcomeRow
<1>7. \/ /\ records /\ status = "RUNNING"
         /\ Advance(ns, gen)
         /\ Goto(p, IF status' \in Terminal THEN "hook" ELSE "mark")
      \/ /\ records /\ status # "RUNNING"
         /\ node' = ns
         /\ Goto(p, "mark")
         /\ UNCHANGED <<status, task, outbox>>
      \/ /\ ~records
         /\ Goto(p, "mark")
         /\ UNCHANGED <<status, node, task, outbox>>
  BY <1>2 DEF HandleCompletion, Concluded
<1> HIDE DEF ns
<1>8. CASE records /\ status = "RUNNING" /\ Advance(ns, gen)
           /\ Goto(p, IF status' \in Terminal THEN "hook" ELSE "mark")
  <2> DEFINE pc == IF status' \in Terminal THEN "hook" ELSE "mark"
  <2>1. pc \in {"hook", "mark"} /\ Goto(p, pc)
    BY <1>8
  <2>2. WaitsOn(ns)
    <3>1. \A m \in Node : m # n => \A j \in Tid \cup {0} : Committing(m, j) => Committing(m, j)'
      BY <1>4, <2>1
    <3> QED
      BY <1>6, <1>8, <3>1 DEF WaitsOn
  <2>3. GraphKept /\ \A m \in Node : KeepsTask(ns, m) \/ GetsTask(ns, m)
    <3>1. status \notin Terminal /\ ns \in [Node -> NodeRow] /\ RowsOK(ns, gen) /\ InOrder(ns)
          /\ Advance(ns, gen)
      BY <1>6, <1>8 DEF Terminal
    <3> QED
      BY <1>1, <1>3, <2>2, <3>1, AdvanceInv
  <2>4. ~Waits(n, k)'
    <3>1. ns[n].status # "RUNNING"
      BY <1>6, <1>8
    <3>2. CASE KeepsTask(ns, n)
      BY <3>1, <3>2 DEF KeepsTask, Waits
    <3>3. CASE GetsTask(ns, n)
      <4>1. node'[n].task # k
        BY <1>2, <3>3 DEF GetsTask
      <4> QED
        BY <4>1 DEF Waits
    <3> QED
      BY <2>3, <3>2, <3>3
  <2>5. Steady /\ (pc = "hook" => Recorded(gen)')
    BY <2>3 DEF GraphKept
  <2> HIDE DEF pc
  <2>6. proc' \in [Proc -> ProcRow] /\ ProcsOK'
    BY <1>1, <1>2, <1>3, <2>1, <2>4, <2>5, GotoKeeps
  <2> QED
    BY <1>1, <2>3, <2>6, Rest, Assembled
<1>9. CASE records /\ status # "RUNNING" /\ node' = ns /\ Goto(p, "mark")
           /\ UNCHANGED <<status, task, outbox>>
  <2>1. node[n].status = "RUNNING" /\ node' = ns
    BY <1>2, <1>9
  <2>2. status \in Terminal => Recorded(gen)
    BY <1>3 DEF IInv, OutboxIsComplete, Recorded
  <2>3. status \notin {"SUCCEEDED", "FAILED", "WAITING_APPROVAL", "RUNNING"}
    BY <1>9, <2>1 DEF IInv, SettlementIsTrue, Has
  <2>4. Drained' /\ SettlementIsTrue'
    BY <1>9, <2>3 DEF Drained, SettlementIsTrue, Live
  <2>5. OutboxIsComplete' /\ GateHolds' /\ \A m \in Node : TasksOK(task'[m])
    BY <1>1, <1>9 DEF IInv, OutboxIsComplete, GateHolds, Made
  <2>6. RowsOK(node, gen)' /\ InOrder(node)' /\ node' \in [Node -> NodeRow]
    BY <1>1, <1>6, <1>9 DEF RowsOK, InOrder
  <2>7. Steady /\ ~Waits(n, k)'
    BY <1>6, <1>9 DEF Steady, Grows, Ended, Waits
  <2>8. ASSUME NEW m \in Node, node'[m].status = "RUNNING" PROVE Awaited(m)'
    <3>1. m # n /\ node'[m] = node[m] /\ Awaited(m) /\ node[m].task \in Tid \cup {0}
      BY <1>6, <1>9, <2>8, Rest DEF IInv, NodeRow
    <3>2. Committing(m, node[m].task) => Committing(m, node[m].task)'
      BY <1>4, <1>9, <3>1
    <3> QED
      BY <1>1, <1>9, <3>1, <3>2 DEF Awaited
  <2>9. /\ task' \in [Node -> [Tid -> TaskRow]] /\ (status' \in Terminal => Recorded(gen)')
        /\ status' \in Live \cup Terminal \cup {"absent"}
        /\ outbox' \subseteq [gen : Gen, outcome : Terminal]
    BY <1>1, <1>3, <1>9, <2>2, Rest DEF TypeOK, Recorded
  <2>10. GraphKept
    BY <2>4, <2>5, <2>6, <2>7, <2>8, <2>9 DEF GraphKept
  <2>11. proc' \in [Proc -> ProcRow] /\ ProcsOK'
    BY <1>1, <1>2, <1>3, <1>9, <2>7, GotoKeeps
  <2> QED
    BY <1>1, <2>10, <2>11, Rest, Assembled
<1>10. CASE ~records /\ Goto(p, "mark") /\ UNCHANGED <<status, node, task, outbox>>
  <2>1. UNCHANGED graph /\ UNCHANGED <<graph, approved>>
    BY <1>1, <1>10 DEF graph
  <2>2. Waits(n, k) => out = "none"
    BY <1>10 DEF Waits, IsBound, Unsettled
  <2>3. \A m \in Node : node[m].status = "RUNNING" => Awaited(m)'
    <3> SUFFICES ASSUME NEW m \in Node, node[m].status = "RUNNING" PROVE Awaited(m)'
      OBVIOUS
    <3>1. Awaited(m) /\ node[m].task \in Tid \cup {0}
      BY Rest DEF IInv, NodeRow
    <3>2. Committing(m, node[m].task) => Committing(m, node[m].task)'
      <4>1. CASE m # n \/ node[m].task # k
        BY <1>4, <1>10, <3>1, <4>1
      <4>2. CASE m = n /\ node[m].task = k
        <5>1. proc[p].pc = "handle"
          BY <1>1, <1>2, <2>2, <4>2 DEF Waits
        <5>2. PICK w \in ProcRow : proc' = [proc EXCEPT ![p] = w]
          BY <1>3, <1>10, GotoRow
        <5> QED
          BY <1>3, <1>10, <5>1, <5>2, CommittingKept
      <4> QED
        BY <4>1, <4>2
    <3> QED
      BY <1>1, <1>10, <3>1, <3>2 DEF Awaited
  <2>4. OutboxIsComplete'
    BY <1>1, <1>10 DEF IInv, OutboxIsComplete
  <2>5. GraphKept /\ Steady
    BY <2>1, <2>3, <2>4, RowsStand
  <2>6. ~Waits(n, k)' \/ Superseded(task'[n][k], proc[p].run)
    BY <1>2, <1>10, <2>2 DEF Waits
  <2>7. proc' \in [Proc -> ProcRow] /\ ProcsOK'
    BY <1>1, <1>2, <1>3, <1>10, <2>5, <2>6, GotoKeeps
  <2> QED
    BY <1>1, <2>5, <2>7, Rest, Assembled
<1> QED
  BY <1>7, <1>8, <1>9, <1>10
-----------------------------------------------------------------------------
(* A resume: what depends on a node that is taken back is taken back too.  *)

LEMMA DownstreamClosed ==
  ASSUME NEW S, NEW d \in Downstream(S), NEW n \in Node, <<d, n>> \in Edges
  PROVE  n \in Downstream(S)
<1> SUFFICES ASSUME NEW T \in SUBSET Node, S \subseteq T,
                    \A e \in Edges : e[1] \in T => e[2] \in T
             PROVE  n \in T
  BY DEF Downstream
<1>1. d \in T
  BY DEF Downstream
<1>2. <<d, n>>[1] \in T => <<d, n>>[2] \in T
  OBVIOUS
<1> QED
  BY <1>1, <1>2

LEMMA ResetRows ==
  ASSUME GraphAssumption, IInv, gen < MaxGen, NEW S, NEW ns,
         ns = Reset(node, RerunClosure(S))
  PROVE  /\ gen + 1 \in Gen /\ ns \in [Node -> NodeRow] /\ RowsOK(ns, gen + 1)
         /\ InOrder(ns) /\ \A n \in Node : ns[n].status = "RUNNING" => ns[n] = node[n]
<1> DEFINE R == RerunClosure(S)
<1>1. R \subseteq Node
  BY DEF RerunClosure, Downstream
<1>2. gen + 1 \in Gen /\ gen \in Gen /\ node \in [Node -> NodeRow]
  BY Rest DEF Gen, GraphAssumption
<1>3. \A n \in Node : ns[n] = IF n \in R THEN Renewed(node[n]) ELSE node[n]
  BY DEF Reset
<1>4. DOMAIN ns = Node /\ ns = [n \in Node |-> ns[n]]
  BY DEF Reset
<1> HIDE DEF R
<1>5. \A n \in Node : Renewed(node[n]).status = "PENDING"
  BY DEF Renewed
<1>6. ASSUME NEW n \in Node PROVE ns[n] \in NodeRow /\ RowOK(ns[n], task[n], gen + 1)
  <2>1. RowOK(node[n], task[n], gen) /\ node[n].gen \in Gen /\ task[n] \in [Tid -> TaskRow]
    BY <1>2, Rest DEF IInv, RowsOK, NodeRow
  <2>2. \A k \in Tid : task[n][k].gen \in Int
    BY <2>1 DEF TaskRow, Gen
  <2>3. CASE n \in R
    <3>1. /\ ns[n] = [status |-> "PENDING", gen |-> node[n].gen + 1, task |-> 0, receipt |-> 0]
          /\ node[n].gen <= gen
      BY <1>3, <2>1, <2>3 DEF Renewed, RowOK
    <3>2. ns[n].status = "PENDING" /\ ns[n].gen = node[n].gen + 1 /\ ns[n].task = 0 /\ ns[n].receipt = 0
      BY <3>1
    <3>3. node[n].gen + 1 \in Gen
      BY <1>2, <2>1, <3>1 DEF Gen, GraphAssumption
    <3>4. ns[n] \in NodeRow
      BY <3>1, <3>3 DEF NodeRow, NodeStatus, Unsettled
    <3>5. \A k \in Tid : task[n][k].gen <= node[n].gen
      BY <2>1 DEF RowOK
    <3> QED
      BY <1>2, <2>1, <2>2, <3>1, <3>2, <3>4, <3>5 DEF RowOK, Gen
  <2>4. CASE n \notin R
    <3>1. ns[n] = node[n] /\ node[n].gen <= gen
      BY <1>3, <2>1, <2>4 DEF RowOK
    <3>2. node[n].gen <= gen + 1
      BY <1>2, <2>1, <3>1 DEF Gen
    <3> QED
      BY <1>2, <2>1, <3>1, <3>2 DEF RowOK
  <2> QED
    BY <2>3, <2>4
<1>7. InOrder(ns)
  <2> SUFFICES ASSUME NEW n \in Node, ns[n].status \notin {"PENDING", "SKIPPED"},
                      NEW d \in After(n)
               PROVE  ns[d].status \in Satisfied
    BY DEF InOrder
  <2>1. n \notin R /\ ns[n] = node[n] /\ d \in Node /\ <<d, n>> \in Edges
    BY <1>3, <1>5 DEF After
  <2>2. node[d].status \in Satisfied
    BY <2>1 DEF IInv, InOrder
  <2>3. d \notin R
    BY <2>1, DownstreamClosed DEF R, RerunClosure
  <2> QED
    BY <1>3, <2>1, <2>2, <2>3
<1>8. \A n \in Node : ns[n].status = "RUNNING" => ns[n] = node[n]
  BY <1>3, <1>5
<1> QED
  BY <1>2, <1>4, <1>6, <1>7, <1>8 DEF RowsOK

LEMMA ResumeKeeps ==
  ASSUME GraphAssumption, IInv, NEW o \in Operators, NEW S \in SUBSET Node, Resume(o, S)
  PROVE  IInv'
<1>1. PICK T \in SUBSET Node :
        /\ gen < MaxGen /\ gen' = gen + 1 /\ status \in Terminal
        /\ Advance(Reset(node, RerunClosure(T)), gen')
        /\ UNCHANGED <<hooks, proc, approved, lost, faults>>
  <2> DEFINE named == IF S = {} THEN {n \in Node : node[n].status = "FAILED"} ELSE S
  <2>1. named \in SUBSET Node
    OBVIOUS
  <2> QED
    BY <2>1 DEF Resume, Resumable, Terminal
<1> DEFINE ns == Reset(node, RerunClosure(T))
           g == gen + 1
<1>2. /\ g \in Gen /\ ns \in [Node -> NodeRow] /\ RowsOK(ns, g)
      /\ InOrder(ns) /\ \A n \in Node : ns[n].status = "RUNNING" => ns[n] = node[n]
  BY <1>1, ResetRows
<1>3. gen' = g /\ Advance(ns, g)
  BY <1>1
<1> HIDE DEF ns, g
<1>4. WaitsOn(ns)
  BY <1>1, <1>2 DEF WaitsOn, Committing
<1>5. GraphKept
  <2>1. g = gen + 1
    BY DEF g
  <2> QED
    BY <1>1, <1>2, <1>3, <1>4, <2>1, AdvanceInv
<1>6. ProcsOK'
  <2>1. Steady
    BY <1>5 DEF GraphKept
  <2>2. ASSUME NEW p \in Proc PROVE ProcOK(p)'
    BY <1>1, <2>1, Rest, ProcKept DEF ProcsOK
  <2> QED
    BY <2>2 DEF ProcsOK
<1> QED
  BY <1>1, <1>2, <1>3, <1>5, <1>6, Rest, Assembled
-----------------------------------------------------------------------------
LEMMA InitInv ==
  ASSUME GraphAssumption, Init
  PROVE  IInv
<1>1. 1 \in Gen /\ 0 \in 0..MaxFaults
  BY DEF Gen, GraphAssumption
<1>2. /\ status = "absent" /\ gen = 1 /\ outbox = {} /\ approved = {} /\ lost = {} /\ faults = 0
      /\ hooks = [g \in Gen |-> 0]
      /\ \A n \in Node : node[n] = [status |-> "PENDING", gen |-> 1, task |-> 0, receipt |-> 0]
      /\ \A n \in Node : task[n] = [k \in Tid |-> NoTask]
      /\ \A p \in Proc : proc[p] = Idle
  BY DEF Init
<1>3. \A n \in Node : /\ node[n] \in NodeRow /\ node[n].status = "PENDING" /\ node[n].gen = 1
                      /\ node[n].task = 0 /\ node[n].receipt = 0
  BY <1>1, <1>2 DEF NodeRow, NodeStatus, Unsettled
<1>4. NoTask \in TaskRow /\ NoTask.gen = 0
  BY DEF NoTask, TaskRow
<1>5. node \in [Node -> NodeRow] /\ task \in [Node -> [Tid -> TaskRow]] /\ proc \in [Proc -> ProcRow]
  BY <1>2, <1>3, <1>4, IdleRow DEF Init
<1>6. TypeOK
  BY <1>1, <1>2, <1>5 DEF TypeOK, NodeRow, TaskRow, ProcRow
<1>7. \A n \in Node, k \in Tid : task[n][k] = NoTask /\ task[n][k].gen = 0
  BY <1>2, <1>4
<1>8. \A n \in Node : TasksOK(task[n])
  <2>1. 0 \in 0..MaxGen /\ \A n \in Node, k \in Tid : task[n][k].gen # 0 <=> k <= 0
    BY <1>7 DEF Tid, GraphAssumption
  <2> QED
    BY <1>7, <2>1 DEF TasksOK
<1>9. RowsOK(node, gen)
  BY <1>2, <1>3, <1>7 DEF RowsOK, RowOK
<1>10. InOrder(node) /\ GateHolds /\ Drained /\ SettlementIsTrue
  BY <1>2, <1>3, <1>7 DEF InOrder, GateHolds, Made, Drained, SettlementIsTrue, Live, GraphAssumption
<1>11. OutboxIsComplete
  BY <1>2 DEF OutboxIsComplete, Gen, Terminal
<1>12. ProcsOK
  BY <1>2 DEF ProcsOK, ProcOK, Idle
<1>13. \A n \in Node : node[n].status = "RUNNING" => Awaited(n)
  BY <1>3
<1> QED
  BY <1>6, <1>8, <1>9, <1>10, <1>11, <1>12, <1>13 DEF IInv

LEMMA StutterKeeps ==
  ASSUME IInv, UNCHANGED vars
  PROVE  IInv'
<1>1. UNCHANGED <<status, gen, node, task, outbox, hooks, proc, approved, lost, faults>>
  BY DEF vars, graph
<1>2. TypeOK'
  BY <1>1 DEF IInv, TypeOK
<1>3. /\ \A n \in Node : TasksOK(task'[n])
      /\ RowsOK(node, gen)' /\ InOrder(node)' /\ GateHolds'
  BY <1>1 DEF IInv, RowsOK, InOrder, GateHolds, Made
<1>4. Drained' /\ SettlementIsTrue' /\ OutboxIsComplete'
  BY <1>1 DEF IInv, Drained, SettlementIsTrue, OutboxIsComplete, BlockedBy
<1>5. ProcsOK'
  BY <1>1 DEF IInv, ProcsOK, ProcOK, Recorded
<1>6. \A n \in Node : node'[n].status = "RUNNING" => Awaited(n)'
  BY <1>1 DEF IInv, Awaited, Committing
<1> QED
  BY <1>2, <1>3, <1>4, <1>5, <1>6 DEF IInv

LEMMA NextKeeps ==
  ASSUME GraphAssumption, IInv, [Next]_vars
  PROVE  IInv'
<1>1. CASE Start
  BY <1>1, StartKeeps
<1>2. ASSUME NEW n \in Node, NEW k \in Tid, NEW r \in Run, Publish(n, k, r) PROVE IInv'
  BY <1>2, PublishKeeps
<1>3. ASSUME NEW m \in Monitors, NEW n \in Node, NEW k \in Tid, NEW out \in {"ok", "fail"},
             Resolve(m, n, k, out)
      PROVE  IInv'
  BY <1>3, ResolveKeeps
<1>4. ASSUME NEW p \in Reapers, NEW n \in Node, NEW k \in Tid,
             NEW paused \in BOOLEAN, NEW committed \in BOOLEAN,
             Reap(p, n, k, paused, committed)
      PROVE  IInv'
  BY <1>4, ReapKeeps
<1>5. ASSUME NEW p \in Reapers, NEW n \in Node, NEW k \in Tid, NEW r \in Run, Replay(p, n, k, r)
      PROVE  IInv'
  BY <1>5, ReplayKeeps
<1>6. ASSUME NEW p \in Reapers, ReplaySettled(p) PROVE IInv'
  BY <1>6, ReplaySettledKeeps
<1>7. ASSUME NEW p \in Routers, RouterStep(p) \/ Crash(p) PROVE IInv'
  <2>1. p \in Proc
    BY DEF Proc
  <2> QED
    BY <1>7, <2>1, HandleCompletionKeeps, DispatchHookKeeps, MarkRoutedKeeps, CrashKeeps
       DEF RouterStep
<1>8. ASSUME NEW o \in Operators, DispatchHook(o) \/ Crash(o) \/ Cancel(o) PROVE IInv'
  <2>1. o \in Proc
    BY DEF Proc
  <2> QED
    BY <1>8, <2>1, DispatchHookKeeps, CrashKeeps, CancelKeeps
<1>9. ASSUME NEW o \in Operators, NEW n \in Node, Skip(o, n) \/ Approve(o, n) \/ Reject(o, n)
      PROVE  IInv'
  BY <1>9, SkipKeeps, ApproveKeeps, RejectKeeps
<1>10. ASSUME NEW o \in Operators, NEW S \in SUBSET Node, Resume(o, S) PROVE IInv'
  BY <1>10, ResumeKeeps
<1>11. ASSUME NEW n \in Node, NEW k \in Tid, Requeue(n, k) PROVE IInv'
  BY <1>11, RequeueKeeps
<1>12. CASE UNCHANGED vars
  BY <1>12, StutterKeeps
<1> QED
  BY <1>1, <1>2, <1>3, <1>4, <1>5, <1>6, <1>7, <1>8, <1>9, <1>10, <1>11, <1>12 DEF Next

LEMMA Invariance ==
  GraphAssumption => (Spec => []IInv)
<1> SUFFICES ASSUME GraphAssumption PROVE Spec => []IInv
  OBVIOUS
<1>1. Init => IInv
  BY InitInv
<1>2. IInv /\ [Next]_vars => IInv'
  BY NextKeeps
<1> QED
  BY <1>1, <1>2, PTL DEF Spec
-----------------------------------------------------------------------------
(* What the invariant says of the graph.                                   *)

(* Whatever its tasks do and whoever resumes, skips or approves, no node   *)
(* has a task while one it depends on has neither succeeded nor been       *)
(* skipped (_ready_nodes, _rerun_closure), and none behind a gate runs in  *)
(* a generation nobody has approved it in (approve, _dispatch_frontier).   *)
THEOREM NodesRunInOrder ==
  ASSUME GraphAssumption PROVE Spec => []RunsInOrder
<1>1. IInv => RunsInOrder
  <2> SUFFICES ASSUME IInv PROVE RunsInOrder
    OBVIOUS
  <2>1. ASSUME NEW n \in Node, node[n].task # 0 PROVE BlockedBy(n) = {}
    <3>1. node[n].status \in {"RUNNING", "SUCCEEDED", "FAILED"}
      BY <2>1 DEF IInv, RowsOK, RowOK
    <3> QED
      BY <3>1 DEF IInv, InOrder, BlockedBy
  <2> QED
    BY <2>1 DEF IInv, RunsInOrder, DependenciesHold
<1> QED
  BY <1>1, Invariance, PTL

(* A generation of a node has one task, and of all the runs of that task,  *)
(* whether retried, requeued or left behind, one at most publishes, whose  *)
(* receipt the node then holds (_dispatch_node, graphs.publish, resume).   *)
THEOREM GenerationsCountOnce ==
  ASSUME GraphAssumption PROVE Spec => []OncePerGeneration
<1>1. IInv => OncePerGeneration
  <2> SUFFICES ASSUME IInv PROVE OncePerGeneration
    OBVIOUS
  <2>1. \A n \in Node : TasksOK(task[n])
    BY DEF IInv
  <2>2. OneTaskPerGeneration
    BY <2>1 DEF TasksOK, OneTaskPerGeneration, Made
  <2>3. ASSUME NEW n \in Node, NEW k \in Tid, NEW r \in Run
        PROVE  /\ task[n][k].published[r] <= 1
               /\ task[n][k].published[r] > 0 => task[n][k].gen # 0 /\ TaskOK(task[n][k])
    <3>1. CASE task[n][k].gen = 0
      <4>1. task[n][k] = NoTask
        BY <2>1, <3>1 DEF TasksOK
      <4> QED
        BY <4>1 DEF NoTask
    <3>2. CASE task[n][k].gen # 0
      BY <2>1, <3>2 DEF TasksOK, TaskOK
    <3> QED
      BY <3>1, <3>2
  <2>4. ASSUME NEW n \in Node, NEW j \in Tid, NEW k \in Tid, NEW q \in Run, NEW r \in Run,
               task[n][j].gen = task[n][k].gen,
               task[n][j].published[q] > 0, task[n][k].published[r] > 0
        PROVE  j = k /\ q = r
    <3>1. task[n][j].gen # 0 /\ TaskOK(task[n][k])
      BY <2>3, <2>4
    <3>2. j = k
      BY <2>1, <2>4, <3>1 DEF TasksOK
    <3> QED
      BY <2>4, <3>1, <3>2 DEF TaskOK
  <2>5. EffectOncePerGeneration
    BY <2>3, <2>4 DEF EffectOncePerGeneration
  <2>6. ReceiptsAreCurrent
    BY DEF IInv, RowsOK, RowOK, ReceiptsAreCurrent
  <2> QED
    BY <2>2, <2>5, <2>6 DEF OncePerGeneration
<1> QED
  BY <1>1, Invariance, PTL

(* A node's status is how its own task ended, a settled graph has nothing  *)
(* left to run and the outcome its nodes add up to, every settlement is in *)
(* the outbox and its hook queued once, and a running graph has a node     *)
(* that will be heard of (handle_node_completion, _maybe_settle,           *)
(* _record_settlement, replay_unrouted).                                   *)
THEOREM RowsTellTheTruth ==
  ASSUME GraphAssumption PROVE Spec => []GraphTellsTheTruth
<1>1. IInv => GraphTellsTheTruth
  <2> SUFFICES ASSUME IInv PROVE GraphTellsTheTruth
    OBVIOUS
  <2>1. NodesTellTheTruth
    BY DEF IInv, RowsOK, RowOK, NodesTellTheTruth
  <2>2. ASSUME NEW n \in Node, node[n].status = "RUNNING" PROVE Owed(n)
    <3> DEFINE k == node[n].task
               t == task[n][k]
    <3>1. k \in Tid /\ t.gen # 0 /\ t \in TaskRow /\ TaskOK(t)
      <4>1. RowOK(node[n], task[n], gen) /\ node[n] \in NodeRow
        BY Rest DEF IInv, RowsOK
      <4>2. k \in Tid /\ t.gen = node[n].gen /\ node[n].gen \in Gen
        BY <2>2, <4>1 DEF RowOK, NodeRow
      <4> QED
        BY <4>2, Rest DEF IInv, TasksOK, Gen
    <3>2. Awaited(n)
      BY <2>2 DEF IInv
    <3>3. CASE \E r \in Run : Last(t, r) /\ (t.out[r] = "open" \/ r \notin t.routed)
      <4>1. PICK r \in Run : Last(t, r) /\ (t.out[r] = "open" \/ r \notin t.routed)
        BY <3>3
      <4>2. Newest(t) = r /\ t.out[r] \in {"open", "ok", "fail"}
        BY <3>1, <4>1, NewestIs, NewestRuns
      <4>3. CASE t.out[r] = "open"
        BY <2>2, <3>1, <4>2, <4>3 DEF Owed, IsOpen, Made, TaskStatus
      <4>4. CASE t.out[r] \in {"ok", "fail"}
        BY <2>2, <4>1, <4>4 DEF Owed
      <4> QED
        BY <4>2, <4>3, <4>4
    <3>4. CASE Committing(n, k) \/ n \in lost
      BY <2>2, <3>4 DEF Owed, Committing
    <3> QED
      BY <3>2, <3>3, <3>4 DEF Awaited
  <2>3. NothingStranded
    BY <2>2 DEF IInv, Drained, Has, NothingStranded
  <2> QED
    BY <2>1, <2>3 DEF IInv, GraphTellsTheTruth
<1> QED
  BY <1>1, Invariance, PTL
-----------------------------------------------------------------------------
(* The graph implements its contract.  Besides IInv this takes that a      *)
(* graph nobody has started has done nothing.                              *)

Untouched == status = "absent" => \A n \in Node : node[n].status = "PENDING"

Implements == [Contract!Next]_(Contract!vars)

LEMMA Quiet ==
  ASSUME UNCHANGED <<status, gen, outbox, hooks>>
  PROVE  Implements
BY DEF Implements, Contract!vars

(* A live graph goes on, or its generation ends.                           *)
LEMMA LiveStep ==
  ASSUME GraphAssumption, IInv, status \in Live, status' \in Live \cup Terminal,
         UNCHANGED <<gen, hooks>>, outbox' = Record(gen, status')
  PROVE  Implements
<1>1. \A e \in outbox : e.gen # gen
  <2>1. gen \in Gen /\ ~(gen < gen) /\ status \notin Terminal
    BY Rest DEF Gen, Live, Terminal
  <2> QED
    BY <2>1 DEF IInv, OutboxIsComplete
<1>2. CASE status' \in Live
  <2>1. outbox' = outbox
    BY <1>2 DEF Record, Live, Terminal
  <2> QED
    BY <1>2, <2>1 DEF Implements, Contract!vars
<1>3. CASE status' \in Terminal
  <2>1. outbox' = outbox \cup {[gen |-> gen, outcome |-> status']}
    BY <1>1, <1>3 DEF Record
  <2>2. status' \in Contract!Outcome /\ status' \notin Live
    BY <1>3 DEF Terminal, Live, Contract!Outcome
  <2>3. Contract!End(status')
    BY <2>1, <2>2 DEF Contract!End
  <2> QED
    BY <2>2, <2>3 DEF Implements, Contract!Next
<1> QED
  BY <1>2, <1>3

LEMMA SettledStatus ==
  ASSUME NEW g, MaybeSettle(g)
  PROVE  status' \in Live \cup Terminal /\ outbox' = Record(g, status')
BY DEF MaybeSettle, Verdict, Live, Terminal

LEMMA AdvanceSettles ==
  ASSUME NEW ns, NEW g, Advance(ns, g)
  PROVE  status' \in Live \cup Terminal /\ outbox' = Record(g, status')
BY SettledStatus DEF Advance

(* A graph that starts dispatches or parks its roots: there is one.        *)
LEMMA StartImplements ==
  ASSUME GraphAssumption, IInv, Untouched, Start
  PROVE  Implements
<1>1. /\ status = "absent" /\ Advance(node, gen) /\ UNCHANGED <<gen, hooks, approved, lost, proc>>
      /\ gen \in Gen /\ node \in [Node -> NodeRow] /\ RowsOK(node, gen) /\ InOrder(node)
  BY Rest DEF Start, IInv
<1>2. WaitsOn(node)
  BY <1>1 DEF WaitsOn, Committing
<1>3. /\ GraphKept
      /\ \A n \in Node : node'[n].status \in {node[n].status, "RUNNING", "WAITING_APPROVAL"}
  BY <1>1, <1>2, AdvanceInv DEF Terminal
<1>4. \A n \in Node : node'[n].status \in {"PENDING", "RUNNING", "WAITING_APPROVAL"}
  BY <1>1, <1>3 DEF Untouched
<1>5. 1 \in Node /\ node' \in [Node -> NodeRow]
  BY <1>3 DEF Node, GraphAssumption, GraphKept
<1>6. Verdict(node') \in {"WAITING_APPROVAL", "RUNNING"}
  BY <1>4, <1>5 DEF Verdict, Has, Satisfied
<1>7. status' \in Live
  BY <1>1, <1>6 DEF Advance, MaybeSettle, Live
<1>8. outbox' = outbox
  BY <1>1, <1>7, AdvanceSettles DEF Record, Live, Terminal
<1> QED
  BY <1>1, <1>7, <1>8 DEF Implements, Contract!Next, Contract!Open, Live

LEMMA HandleCompletionImplements ==
  ASSUME GraphAssumption, IInv, NEW p \in Routers, HandleCompletion(p)
  PROVE  Implements
<1>1. UNCHANGED <<gen, hooks>>
  BY DEF HandleCompletion
<1>2. \/ status = "RUNNING" /\ \E ns : Advance(ns, gen)
      \/ UNCHANGED <<status, outbox>>
  BY DEF HandleCompletion
<1>3. CASE status = "RUNNING" /\ \E ns : Advance(ns, gen)
  BY <1>1, <1>3, AdvanceSettles, LiveStep DEF Live
<1>4. CASE UNCHANGED <<status, outbox>>
  BY <1>1, <1>4, Quiet
<1> QED
  BY <1>2, <1>3, <1>4

LEMMA OperatorImplements ==
  ASSUME GraphAssumption, IInv, NEW o \in Operators, NEW n \in Node,
         Cancel(o) \/ Skip(o, n) \/ Approve(o, n) \/ Reject(o, n)
  PROVE  Implements
<1>1. CASE Cancel(o)
  <2>1. /\ status \in Live /\ status' = "CANCELLED" /\ outbox' = Record(gen, status')
        /\ UNCHANGED <<gen, hooks>>
    BY <1>1 DEF Cancel
  <2> QED
    BY <2>1, LiveStep DEF Terminal
<1>2. CASE Skip(o, n)
  <2>1. status \in Live /\ (\E ns : Advance(ns, gen)) /\ UNCHANGED <<gen, hooks>>
    BY <1>2 DEF Skip, Live
  <2> QED
    BY <2>1, AdvanceSettles, LiveStep
<1>3. CASE Approve(o, n)
  BY <1>3 DEF Approve, Implements, Contract!vars, Live
<1>4. CASE Reject(o, n)
  <2>1. status \in Live /\ MaybeSettle(gen) /\ UNCHANGED <<gen, hooks>>
    BY <1>4 DEF Reject
  <2> QED
    BY <2>1, SettledStatus, LiveStep
<1> QED
  BY <1>1, <1>2, <1>3, <1>4

LEMMA DispatchHookImplements ==
  ASSUME GraphAssumption, IInv, NEW p \in Proc, DispatchHook(p)
  PROVE  Implements
<1>1. /\ proc[p].pc = "hook" /\ UNCHANGED <<status, gen, outbox>>
      /\ hooks' = [hooks EXCEPT ![proc[p].gen] = Queued(proc[p].gen)]
  BY DEF DispatchHook, graph
<1>2. ProcOK(p) /\ proc[p] \in ProcRow
  BY Rest DEF ProcsOK
<1>3. PICK g \in Gen : g = proc[p].gen /\ Recorded(g)
  BY <1>1, <1>2 DEF ProcOK, ProcRow
<1>4. PICK e \in outbox : e.gen = g
  BY <1>3 DEF Recorded
<1>5. /\ hooks'[g] > 0
      /\ \A h \in Gen : h # g => hooks'[h] = hooks[h]
  BY <1>1, <1>3, Rest DEF Queued
<1> DEFINE A == {h \in Gen : hooks[h] > 0}
           B == {h \in Gen : hooks'[h] > 0}
<1>6. B = A \cup {g}
  BY <1>5
<1>7. CASE g \in A
  <2>1. B = A
    BY <1>6, <1>7
  <2> QED
    BY <1>1, <2>1 DEF Implements, Contract!vars
<1>8. CASE g \notin A
  <2>1. Contract!Announce
    <3>1. e.gen \notin A /\ B = A \cup {e.gen}
      BY <1>4, <1>6, <1>8
    <3> QED
      BY <1>1, <1>4, <3>1 DEF Contract!Announce
  <2> QED
    BY <2>1 DEF Implements, Contract!Next
<1> QED
  BY <1>7, <1>8

(* What a resume has taken back has not succeeded when it returns.         *)
LEMMA ResumeImplements ==
  ASSUME GraphAssumption, IInv, NEW o \in Operators, NEW S \in SUBSET Node, Resume(o, S)
  PROVE  Implements
<1>1. PICK T \in SUBSET Node :
        /\ gen < MaxGen /\ gen' = gen + 1 /\ status \in {"FAILED", "SUCCEEDED"}
        /\ RerunClosure(T) # {}
        /\ Advance(Reset(node, RerunClosure(T)), gen')
        /\ UNCHANGED <<hooks, proc, approved, lost, faults>>
  <2> DEFINE named == IF S = {} THEN {n \in Node : node[n].status = "FAILED"} ELSE S
  <2>1. named \in SUBSET Node
    OBVIOUS
  <2> QED
    BY <2>1 DEF Resume, Resumable
<1> DEFINE ns == Reset(node, RerunClosure(T))
           g == gen + 1
<1>2. /\ g \in Gen /\ ns \in [Node -> NodeRow] /\ RowsOK(ns, g)
      /\ InOrder(ns) /\ \A n \in Node : ns[n].status = "RUNNING" => ns[n] = node[n]
  BY <1>1, ResetRows
<1>3. PICK n \in Node : ns[n].status = "PENDING"
  <2>1. PICK n \in Node : n \in RerunClosure(T)
    BY <1>1 DEF RerunClosure, Downstream
  <2>2. ns[n] = Renewed(node[n])
    BY <2>1 DEF Reset
  <2> QED
    BY <2>2 DEF Renewed
<1>4. gen' = g /\ Advance(ns, g)
  BY <1>1
<1>5. \A e \in outbox : e.gen # gen'
  BY <1>1, Rest DEF IInv, OutboxIsComplete, TypeOK, Gen
<1> HIDE DEF ns, g
<1>6. WaitsOn(ns)
  BY <1>1, <1>2 DEF WaitsOn, Committing
<1>7. /\ GraphKept
      /\ \A m \in Node : node'[m].status \in {ns[m].status, "RUNNING", "WAITING_APPROVAL"}
  <2>1. g = gen + 1 /\ status \in Terminal
    BY <1>1 DEF g, Terminal
  <2> QED
    BY <1>1, <1>2, <1>4, <1>6, <2>1, AdvanceInv
<1>8. node'[n].status \notin Satisfied
  BY <1>3, <1>7 DEF Satisfied
<1>9. Verdict(node') # "SUCCEEDED"
  BY <1>8 DEF Verdict
<1>10. status' # "SUCCEEDED"
  BY <1>4, <1>9 DEF Advance, MaybeSettle
<1>11. status' \in Live \cup {"FAILED", "CANCELLED"} /\ outbox' = Record(g, status')
  BY <1>4, <1>10, AdvanceSettles DEF Terminal
<1>12. CASE status' \in Live
  <2>1. outbox' = outbox
    BY <1>11, <1>12 DEF Record, Live, Terminal
  <2> QED
    BY <1>1, <1>12, <2>1 DEF Implements, Contract!Next, Contract!Reopen, Live
<1>13. CASE status' \in {"FAILED", "CANCELLED"}
  <2>1. outbox' = outbox \cup {[gen |-> gen', outcome |-> status']}
    BY <1>4, <1>5, <1>11, <1>13 DEF Record, Terminal
  <2> QED
    BY <1>1, <1>13, <2>1 DEF Implements, Contract!Next, Contract!Reopen, Live
<1> QED
  BY <1>11, <1>12, <1>13

LEMMA NextImplements ==
  ASSUME GraphAssumption, IInv, Untouched, [Next]_vars
  PROVE  Implements
<1>1. CASE Start
  BY <1>1, StartImplements
<1>2. ASSUME NEW n \in Node, NEW k \in Tid, NEW r \in Run, Publish(n, k, r) PROVE Implements
  BY <1>2, Quiet DEF Publish
<1>3. ASSUME NEW m \in Monitors, NEW n \in Node, NEW k \in Tid, NEW out \in {"ok", "fail"},
             Resolve(m, n, k, out)
      PROVE  Implements
  BY <1>3, Quiet DEF Resolve
<1>4. ASSUME NEW p \in Reapers, NEW n \in Node, NEW k \in Tid,
             NEW paused \in BOOLEAN, NEW committed \in BOOLEAN,
             Reap(p, n, k, paused, committed)
      PROVE  Implements
  BY <1>4, Quiet DEF Reap
<1>5. ASSUME NEW p \in Reapers, NEW n \in Node, NEW k \in Tid, NEW r \in Run, Replay(p, n, k, r)
      PROVE  Implements
  BY <1>5, Quiet DEF Replay, graph
<1>6. ASSUME NEW p \in Reapers, ReplaySettled(p) PROVE Implements
  BY <1>6, Quiet DEF ReplaySettled, graph
<1>7. ASSUME NEW p \in Proc, MarkRouted(p) \/ Crash(p) PROVE Implements
  BY <1>7, Quiet DEF MarkRouted, Crash, graph
<1>8. ASSUME NEW p \in Routers, RouterStep(p) \/ Crash(p) PROVE Implements
  <2>1. p \in Proc
    BY DEF Proc
  <2> QED
    BY <1>7, <1>8, <2>1, HandleCompletionImplements, DispatchHookImplements DEF RouterStep
<1>9. ASSUME NEW o \in Operators, DispatchHook(o) \/ Crash(o) \/ Cancel(o) PROVE Implements
  <2>1. o \in Proc /\ 1 \in Node
    BY DEF Proc, Node, GraphAssumption
  <2> QED
    BY <1>7, <1>9, <2>1, DispatchHookImplements, OperatorImplements
<1>10. ASSUME NEW o \in Operators, NEW n \in Node, Skip(o, n) \/ Approve(o, n) \/ Reject(o, n)
       PROVE  Implements
  BY <1>10, OperatorImplements
<1>11. ASSUME NEW o \in Operators, NEW S \in SUBSET Node, Resume(o, S) PROVE Implements
  BY <1>11, ResumeImplements
<1>12. ASSUME NEW n \in Node, NEW k \in Tid, Requeue(n, k) PROVE Implements
  BY <1>12, Quiet DEF Requeue
<1>13. CASE UNCHANGED vars
  BY <1>13, Quiet DEF vars, graph
<1> QED
  BY <1>1, <1>2, <1>3, <1>4, <1>5, <1>6, <1>8, <1>9, <1>10, <1>11, <1>12, <1>13 DEF Next

LEMMA UntouchedKept ==
  ASSUME GraphAssumption, IInv, Untouched, [Next]_vars
  PROVE  Untouched'
<1>1. ASSUME status' # "absent" PROVE Untouched'
  BY <1>1 DEF Untouched
<1>2. \A ns, g : Advance(ns, g) \/ MaybeSettle(g) => status' # "absent"
  BY AdvanceSettles, SettledStatus DEF Live, Terminal
<1>3. ASSUME UNCHANGED <<status, node>> PROVE Untouched'
  BY <1>3 DEF Untouched
<1>4. CASE Start
  BY <1>1, <1>2, <1>4 DEF Start
<1>5. ASSUME NEW n \in Node, NEW k \in Tid, NEW r \in Run, Publish(n, k, r) PROVE Untouched'
  <2>1. \A m \in Node : node'[m].status = node[m].status
    BY <1>5, Rest DEF Publish, NodeRow
  <2> QED
    BY <1>5, <2>1 DEF Publish, Untouched
<1>6. ASSUME NEW p \in Routers, HandleCompletion(p) PROVE Untouched'
  <2>1. CASE \E ns : Advance(ns, gen)
    BY <1>1, <1>2, <2>1
  <2>2. CASE ~\E ns : Advance(ns, gen)
    <3>1. CASE UNCHANGED <<status, node>>
      BY <1>3, <3>1
    <3>2. CASE ~UNCHANGED <<status, node>>
      <4>1. /\ proc[p].pc \in {"handle", "committed"} /\ status' = status
            /\ IsBound(proc[p].node, proc[p].task)
            /\ node[proc[p].node].status \in Unsettled
        BY <1>6, <2>2, <3>2 DEF HandleCompletion
      <4>2. PICK n \in Node : node[n].status = "RUNNING"
        BY <4>1, Recording
      <4> QED
        BY <4>1, <4>2 DEF Untouched
    <3> QED
      BY <3>1, <3>2
  <2> QED
    BY <2>1, <2>2
<1>7. ASSUME NEW p \in Proc, DispatchHook(p) \/ MarkRouted(p) \/ Crash(p) PROVE Untouched'
  BY <1>3, <1>7 DEF DispatchHook, MarkRouted, Crash, graph
<1>8. ASSUME NEW o \in Operators, NEW n \in Node,
             Cancel(o) \/ Skip(o, n) \/ Approve(o, n) \/ Reject(o, n)
      PROVE  Untouched'
  BY <1>1, <1>2, <1>8 DEF Cancel, Skip, Approve, Reject
<1>9. ASSUME NEW o \in Operators, NEW S \in SUBSET Node, Resume(o, S) PROVE Untouched'
  BY <1>1, <1>2, <1>9 DEF Resume
<1>10. ASSUME NEW m \in Monitors, NEW n \in Node, NEW k \in Tid, NEW out \in {"ok", "fail"},
              Resolve(m, n, k, out)
       PROVE  Untouched'
  BY <1>3, <1>10 DEF Resolve
<1>11. ASSUME NEW p \in Reapers, NEW n \in Node, NEW k \in Tid,
              NEW paused \in BOOLEAN, NEW committed \in BOOLEAN,
              Reap(p, n, k, paused, committed)
       PROVE  Untouched'
  BY <1>3, <1>11 DEF Reap
<1>12. ASSUME NEW p \in Reapers, NEW n \in Node, NEW k \in Tid, NEW r \in Run,
              Replay(p, n, k, r) \/ ReplaySettled(p)
       PROVE  Untouched'
  BY <1>3, <1>12 DEF Replay, ReplaySettled, graph
<1>13. ASSUME NEW n \in Node, NEW k \in Tid, Requeue(n, k) PROVE Untouched'
  BY <1>3, <1>13 DEF Requeue
<1>14. CASE UNCHANGED vars
  BY <1>3, <1>14 DEF vars, graph
<1>15. 1 \in Node /\ 1 \in Tid /\ 1 \in Run
  BY DEF Node, Tid, Run, GraphAssumption
<1>16. Routers \subseteq Proc /\ Operators \subseteq Proc
  BY DEF Proc
<1> QED
  BY <1>4, <1>5, <1>6, <1>7, <1>8, <1>9, <1>10, <1>11, <1>12, <1>13, <1>14, <1>15, <1>16
     DEF Next, RouterStep

(* A graph with any plan keeps the contract of GraphContract: a generation *)
(* ends once and in one way, only a failed or a succeeded one is followed  *)
(* by another, and no end is announced twice (start, _maybe_settle,        *)
(* cancel, resume, dispatch_hook_once).                                    *)
THEOREM GraphKeepsItsContract ==
  ASSUME GraphAssumption PROVE Spec => KeepsContract
<1>1. Init => IInv /\ Untouched /\ Contract!Init
  <2>1. Init => IInv
    BY InitInv
  <2>2. Init => Untouched
    BY DEF Init, Untouched
  <2>3. Init => Contract!Init
    BY DEF Init, Contract!Init, Live
  <2> QED
    BY <2>1, <2>2, <2>3
<1>2. IInv /\ Untouched /\ [Next]_vars => IInv' /\ Untouched' /\ Implements
  BY NextKeeps, UntouchedKept, NextImplements
<1>3. Implements => [Contract!Next]_(Contract!vars)
  BY DEF Implements
<1> QED
  BY <1>1, <1>2, <1>3, PTL DEF Spec, KeepsContract, Contract!Spec
=============================================================================
