------------------------ MODULE ChainWorkflowProofs ------------------------
(***************************************************************************)
(* Theorems about ChainWorkflow, for any number of steps, gates, routers,  *)
(* resumes, requeues and crashes.  BaseInv is inductive for everybody,     *)
(* OrderInv for one operator, and CarefulInv for one operator who waits    *)
(* for routers.  StepKinds says what a step is for the chain; the parts of *)
(* CarefulInv and the contract follow from it case by case.                *)
(***************************************************************************)
EXTENDS ChainWorkflow, TLAPS

OneOperator == \A o, q \in Operators : o = q

(* Nobody else holds the chain before run(), and one person looks after it *)
(* and acts when no completion is half-way routed.                         *)
Careful == ~Shared /\ OneOperator /\ Unhurried

TaskRow ==
  [step : Step \cup {-1}, gen : 0..MaxResumes, routed : SUBSET Run,
   out : [Run -> {"none", "open", "ok", "fail"}]]
ProcRow ==
  [pc : {"idle", "route", "handle", "advance", "fail", "hook", "mark", "failed", "parked"},
   task : Task \cup {0}, run : Run \cup {0}, gen : 0..MaxResumes]

(* Completion r is the last of t so far.                                   *)
Last(t, r) == \A q \in Run : t.out[q] # "none" <=> q <= r

(* A task: completions without a gap, of which only the last may be open   *)
(* or a success, and those that are routed have ended.                     *)
TaskOK(t) ==
  /\ \E r \in Run : Last(t, r) /\ \A q \in Run : q < r => t.out[q] = "fail"
  /\ \A q \in t.routed : t.out[q] \in {"ok", "fail"}

TasksOK ==
  /\ \A t \in Task : Exists(t) => TaskOK(task[t]) /\ task[t].step \in Step
  /\ \A t \in Task : ~Exists(t) => task[t] = NoTask

(* Routers route, operators look; a router's completion has ended, and it  *)
(* is on its way to the transaction for its outcome.                       *)
ProcOK(p) ==
  /\ p \in Operators => proc[p].pc \in {"idle", "failed", "parked"}
  /\ p \in Routers => proc[p].pc \notin {"failed", "parked"}
  /\ p \in Routers /\ proc[p].pc # "idle" =>
       /\ proc[p].task # 0 /\ proc[p].run # 0 /\ Exists(proc[p].task)
       /\ Outcome(p) \in {"ok", "fail"}
       /\ proc[p].pc = "advance" => Outcome(p) = "ok"
       /\ proc[p].pc = "fail" => Outcome(p) = "fail"

ProcsOK == \A p \in Proc : ProcOK(p)

(* The chain has come to a step by a success of the step before it, and    *)
(* no task is ahead of it.                                                 *)
Reached(s) == \E u \in Task, n \in Run : task[u].step = s /\ task[u].out[n] = "ok"
Progress ==
  /\ \A s \in Step : s < index => Reached(s)
  /\ \A t \in Task : Exists(t) => task[t].step <= index /\ task[t].gen <= gen

BaseInv == TypeOK /\ TasksOK /\ ProcsOK /\ Progress

(* Before run() nothing has happened; after it the chain is not PENDING.   *)
StartOK ==
  /\ ~started => /\ status = "PENDING" /\ gen = 0 /\ index = 0
                 /\ \A t \in Task : ~Exists(t)
                 /\ \A p \in Proc : proc[p].pc = "idle"
  /\ started => status # "PENDING"

Queued(s) == \E t \in Task : task[t].step = s

(* A parked step has not been queued, and will not be behind the back of   *)
(* the one operator who has seen it parked; nor is a chain resumed that    *)
(* the one operator has seen failed.                                       *)
GateOK ==
  /\ status = "WAITING_APPROVAL" => ~Queued(index)
  /\ \A o \in Operators :
       /\ proc[o].pc = "parked" => ~Queued(index)
       /\ proc[o].pc = "failed" => status = "FAILED"

OrderInv == BaseInv /\ StartOK /\ GateOK /\ QueuedOnce
-----------------------------------------------------------------------------
(* What holds while operators wait for routers.                            *)

(* A step is bound to the newest of its tasks, and a step that the chain   *)
(* has passed to one that succeeded.                                       *)
Won(t) == \E n \in Run : task[t].out[n] = "ok"
BoundOK ==
  /\ \A s \in Step : bound[s] # 0 => task[bound[s]].step = s
  /\ \A s \in Step : s < index => bound[s] # 0 /\ Won(bound[s])
  /\ status \in {"RUNNING", "FAILED"} => bound[index] # 0

(* A router between its reads and its transaction is at work on the task   *)
(* its step is bound to, and a failure it is to record is final.           *)
FreshReads ==
  \A p \in Routers :
    /\ proc[p].pc \in {"handle", "advance", "fail"} => IsBound(p)
    /\ proc[p].pc = "fail" => IsExhausted(p)

(* The last completion of the current step's task is open or is still to   *)
(* be routed, and whoever is past the transaction has routed another.      *)
Awaited(t) ==
  \E r \in Run : Last(task[t], r) /\ (task[t].out[r] = "open" \/ r \notin task[t].routed)
Superseded(p) ==
  \E r \in Run : proc[p].run < r /\ task[proc[p].task].out[r] # "none"
AwaitedOK ==
  status = "RUNNING" =>
    /\ Awaited(bound[index])
    /\ \A p \in Routers :
         proc[p].pc \in {"hook", "mark"} =>
           proc[p].pc = "mark" /\ (proc[p].task # bound[index] \/ Superseded(p))

(* The gate of the current step has been opened, unless the chain waits.   *)
Opened ==
  /\ GateHolds
  /\ status \in {"RUNNING", "FAILED"} /\ index \in Gated => index \in approved

HookOf(st) ==
  IF st = "SUCCEEDED" THEN "success" ELSE IF st = "FAILED" THEN "failure" ELSE "cancelled"

(* A hook, queued or about to be, is the one for how this generation has   *)
(* ended, and rows has what this generation has queued.                    *)
RowsOK ==
  /\ \A f \in fired : f[1] <= gen
  /\ \A f \in fired : f[1] = gen => settled /\ f[2] = HookOf(status) /\ f[2] \in rows
  /\ \A h \in rows : <<gen, h>> \in fired

HookDue(p) ==
  /\ proc[p].gen = gen
  /\ status \in {"SUCCEEDED", "FAILED"}
  /\ status = "SUCCEEDED" <=> Outcome(p) = "ok"

HooksOK == RowsOK /\ \A p \in Routers : proc[p].pc = "hook" => HookDue(p)

(* The operator who has seen the chain parked finds it parked.             *)
StillParked ==
  \A o \in Operators : proc[o].pc = "parked" => status = "WAITING_APPROVAL"

CarefulInv ==
  /\ OrderInv
  /\ SettledMeansOver /\ StillParked /\ BoundOK /\ FreshReads /\ AwaitedOK /\ Opened
  /\ HooksOK /\ OneHookPerGeneration
  /\ status = "SUCCEEDED" => index = LastStep

(* Without requeues a failed chain's task is and stays dead.               *)
DeadOK == status = "FAILED" => Dead(bound[index])
-----------------------------------------------------------------------------
(* What a step does to the tasks: one is queued, its last completion ends, *)
(* a dead one gets another, or one that has ended is marked routed.        *)

Made(t, s, g) == t \in Task /\ ~Exists(t) /\ task' = [task EXCEPT ![t] = NewTask(s, g)]

Ends(t, r, out) ==
  /\ t \in Task /\ Exists(t) /\ r \in Run /\ Last(task[t], r)
  /\ task[t].out[r] = "open"
  /\ task' = [task EXCEPT ![t].out[r] = out]

Reopens(t, r) ==
  /\ t \in Task /\ Exists(t) /\ r \in Run /\ Last(task[t], r) /\ r + 1 \in Run
  /\ task[t].out[r] = "fail"
  /\ task' = [task EXCEPT ![t].out[r + 1] = "open"]

Marked(t, r) ==
  /\ t \in Task /\ Exists(t) /\ r \in Run
  /\ task[t].out[r] \in {"ok", "fail"}
  /\ task' = [task EXCEPT ![t].routed = @ \cup {r}]

TaskStep ==
  \/ UNCHANGED task
  \/ \E t \in Task, s \in Step : Made(t, s, gen')
  \/ \E t \in Task, r \in Run : \/ \E out \in {"ok", "fail"} : Ends(t, r, out)
                                \/ Reopens(t, r) \/ Marked(t, r)

(* Tasks that exist stay what they are, and what has ended has ended.      *)
Grown ==
  \A t \in Task : Exists(t) =>
    /\ task'[t].step = task[t].step /\ task'[t].gen = task[t].gen
    /\ \A q \in Run : task[t].out[q] # "none" => task'[t].out[q] # "none"
    /\ \A q \in Run : task[t].out[q] \in {"ok", "fail"} => task'[t].out[q] = task[t].out[q]

LEMMA TypesOfRows ==
  TypeOK => /\ task \in [Task -> TaskRow] /\ proc \in [Proc -> ProcRow]
            /\ index \in Step /\ gen \in 0..MaxResumes /\ bound \in [Step -> Task \cup {0}]
BY DEF TypeOK, TaskRow, ProcRow

LEMMA NewestIs ==
  ASSUME ChainAssumption, NEW t \in Task, NEW r \in Run, Last(task[t], r)
  PROVE  Newest(t) = r
<1>1. task[t].out[r] # "none" /\ (r + 1 \in Run => task[t].out[r + 1] = "none")
  BY DEF Last, Run, ChainAssumption
<1>2. ASSUME NEW q \in Run, task[t].out[q] # "none",
             q + 1 \in Run => task[t].out[q + 1] = "none"
      PROVE  q = r
  <2>1. q <= r
    BY <1>2 DEF Last
  <2>2. CASE q < r
    <3>1. q + 1 \in Run /\ q + 1 <= r
      BY <2>2 DEF Run, ChainAssumption
    <3> QED
      BY <1>2, <3>1 DEF Last
  <2> QED
    BY <2>1, <2>2 DEF Run
<1> QED
  BY <1>1, <1>2 DEF Newest

LEMMA NewestOf ==
  ASSUME ChainAssumption, TasksOK, NEW t \in Task, Exists(t)
  PROVE  /\ Newest(t) \in Run /\ Last(task[t], Newest(t))
         /\ task[t].out[Newest(t)] # "none"
         /\ \A q \in Run : q < Newest(t) => task[t].out[q] = "fail"
<1>1. PICK r \in Run : /\ Last(task[t], r)
                       /\ \A q \in Run : q < r => task[t].out[q] = "fail"
  BY DEF TasksOK, TaskOK
<1>2. Newest(t) = r
  BY <1>1, NewestIs
<1>3. task[t].out[r] # "none"
  BY <1>1 DEF Last, Run, ChainAssumption
<1> QED
  BY <1>1, <1>2, <1>3

LEMMA TaskIsAlone ==
  ASSUME TypeOK, NEW t \in Task, NEW x, task' = [task EXCEPT ![t] = x]
  PROVE  task'[t] = x /\ \A u \in Task \ {t} : task'[u] = task[u]
BY TypesOfRows

LEMMA TaskStepKeeps ==
  ASSUME ChainAssumption, TypeOK, TasksOK, TaskStep, gen' \in 0..MaxResumes
  PROVE  task' \in [Task -> TaskRow] /\ TasksOK' /\ Grown
<1>0. task \in [Task -> TaskRow]
  BY TypesOfRows
<1>1. CASE UNCHANGED task
  BY <1>0, <1>1 DEF TasksOK, TaskOK, Last, Exists, Grown
<1>2. ASSUME NEW t \in Task, NEW x \in TaskRow, task' = [task EXCEPT ![t] = x],
             TaskOK(x), x.step \in Step,
             Exists(t) =>
               /\ x.step = task[t].step /\ x.gen = task[t].gen
               /\ \A q \in Run : task[t].out[q] # "none" => x.out[q] # "none"
               /\ \A q \in Run : task[t].out[q] \in {"ok", "fail"} =>
                                   x.out[q] = task[t].out[q]
      PROVE  task' \in [Task -> TaskRow] /\ TasksOK' /\ Grown
  <2>1. task'[t] = x /\ \A u \in Task \ {t} : task'[u] = task[u]
    BY <1>2, TaskIsAlone
  <2>2. task' \in [Task -> TaskRow]
    BY <1>0, <1>2
  <2>3. Grown
    BY <1>2, <2>1 DEF Grown
  <2>4. \A u \in Task \ {t} : /\ Exists(u)' => TaskOK(task'[u]) /\ task'[u].step \in Step
                              /\ ~Exists(u)' => task'[u] = NoTask
    BY <2>1 DEF TasksOK, Exists
  <2>5. x.step # -1
    BY <1>2 DEF Step
  <2>6. Exists(t)' /\ TaskOK(task'[t]) /\ task'[t].step \in Step
    BY <1>2, <2>1, <2>5 DEF Exists
  <2>7. /\ \A u \in Task : Exists(u)' => TaskOK(task'[u]) /\ task'[u].step \in Step
        /\ \A u \in Task : ~Exists(u)' => task'[u] = NoTask
    BY <2>4, <2>6
  <2> QED
    BY <2>2, <2>3, <2>7 DEF TasksOK
<1>3. ASSUME NEW t \in Task, NEW s \in Step, Made(t, s, gen')
      PROVE  task' \in [Task -> TaskRow] /\ TasksOK' /\ Grown
  <2> DEFINE x == NewTask(s, gen')
  <2>1. 1 \in Run /\ \A q \in Run : q >= 1
    BY DEF Run, ChainAssumption
  <2>2. /\ x.step = s /\ x.gen = gen' /\ x.routed = {}
        /\ x.out = [q \in Run |-> IF q = 1 THEN "open" ELSE "none"]
    BY <2>1 DEF NewTask, NoTask
  <2>3. x \in TaskRow
    BY <2>1 DEF NewTask, NoTask, TaskRow
  <2>4. TaskOK(x)
    <3>1. Last(x, 1) /\ \A q \in Run : q < 1 => x.out[q] = "fail"
      BY <2>1, <2>2 DEF Last, Run
    <3> QED
      BY <2>1, <2>2, <3>1 DEF TaskOK
  <2> HIDE DEF x
  <2> QED
    BY <1>2, <1>3, <2>2, <2>3, <2>4 DEF Made, x
<1>4. ASSUME NEW t \in Task, NEW r \in Run, NEW out \in {"ok", "fail"}, Ends(t, r, out)
      PROVE  task' \in [Task -> TaskRow] /\ TasksOK' /\ Grown
  <2> DEFINE x == [task[t] EXCEPT !.out[r] = out]
  <2>1. task[t] \in TaskRow /\ task' = [task EXCEPT ![t] = x]
    BY <1>0, <1>4 DEF Ends
  <2>2. x \in TaskRow /\ x.step = task[t].step /\ x.gen = task[t].gen
        /\ x.routed = task[t].routed /\ x.out = [task[t].out EXCEPT ![r] = out]
    BY <2>1 DEF TaskRow
  <2>3. x.out[r] = out /\ \A q \in Run \ {r} : x.out[q] = task[t].out[q]
    BY <2>1, <2>2 DEF TaskRow
  <2>4. Newest(t) = r /\ \A q \in Run : q < r => task[t].out[q] = "fail"
    BY <1>4, NewestIs, NewestOf DEF Ends
  <2>5. TaskOK(x)
    <3>1. Last(x, r)
      BY <1>4, <2>3 DEF Ends, Last, Run
    <3>2. \A q \in x.routed : q \in Run /\ task[t].out[q] \in {"ok", "fail"}
      BY <1>4, <2>1, <2>2 DEF Ends, TasksOK, TaskOK, TaskRow
    <3>3. \A q \in x.routed : x.out[q] \in {"ok", "fail"}
      BY <2>3, <3>2
    <3> QED
      BY <2>3, <2>4, <3>1, <3>3 DEF TaskOK, Run
  <2>6. task[t].step \in Step
    BY <1>4 DEF Ends, TasksOK
  <2> HIDE DEF x
  <2> QED
    BY <1>2, <1>4, <2>1, <2>2, <2>3, <2>5, <2>6 DEF Ends
<1>5. ASSUME NEW t \in Task, NEW r \in Run, Reopens(t, r)
      PROVE  task' \in [Task -> TaskRow] /\ TasksOK' /\ Grown
  <2> DEFINE x == [task[t] EXCEPT !.out[r + 1] = "open"]
  <2>1. task[t] \in TaskRow /\ task' = [task EXCEPT ![t] = x] /\ r + 1 \in Run
    BY <1>0, <1>5 DEF Reopens
  <2>2. x \in TaskRow /\ x.step = task[t].step /\ x.gen = task[t].gen
        /\ x.routed = task[t].routed /\ x.out = [task[t].out EXCEPT ![r + 1] = "open"]
    BY <2>1 DEF TaskRow
  <2>3. x.out[r + 1] = "open" /\ \A q \in Run \ {r + 1} : x.out[q] = task[t].out[q]
    BY <2>1, <2>2 DEF TaskRow
  <2>4. Newest(t) = r /\ \A q \in Run : q < r => task[t].out[q] = "fail"
    BY <1>5, NewestIs, NewestOf DEF Reopens
  <2>5. task[t].out[r + 1] = "none"
    BY <1>5, <2>1 DEF Reopens, Last, Run
  <2>6. TaskOK(x)
    <3>1. Last(x, r + 1)
      BY <1>5, <2>1, <2>3 DEF Reopens, Last, Run
    <3>2. \A q \in Run : q < r + 1 => x.out[q] = "fail"
      BY <1>5, <2>3, <2>4 DEF Reopens, Run
    <3>3. \A q \in x.routed : x.out[q] \in {"ok", "fail"}
      BY <1>5, <2>1, <2>2, <2>3, <2>5 DEF Reopens, TasksOK, TaskOK, TaskRow
    <3> QED
      BY <2>1, <3>1, <3>2, <3>3 DEF TaskOK
  <2>7. task[t].step \in Step
    BY <1>5 DEF Reopens, TasksOK
  <2> HIDE DEF x
  <2> QED
    BY <1>2, <1>5, <2>1, <2>2, <2>3, <2>5, <2>6, <2>7 DEF Reopens
<1>6. ASSUME NEW t \in Task, NEW r \in Run, Marked(t, r)
      PROVE  task' \in [Task -> TaskRow] /\ TasksOK' /\ Grown
  <2> DEFINE x == [task[t] EXCEPT !.routed = @ \cup {r}]
  <2>1. task[t] \in TaskRow /\ task' = [task EXCEPT ![t] = x]
    BY <1>0, <1>6 DEF Marked
  <2>2. x \in TaskRow /\ x.step = task[t].step /\ x.gen = task[t].gen
        /\ x.routed = task[t].routed \cup {r} /\ x.out = task[t].out
    BY <2>1 DEF TaskRow
  <2>3. TaskOK(x)
    <3>1. TaskOK(task[t])
      BY <1>6 DEF Marked, TasksOK
    <3> QED
      BY <1>6, <2>2, <3>1 DEF Marked, TaskOK, Last
  <2>4. task[t].step \in Step
    BY <1>6 DEF Marked, TasksOK
  <2> HIDE DEF x
  <2> QED
    BY <1>2, <1>6, <2>1, <2>2, <2>3, <2>4
<1> QED
  BY <1>1, <1>3, <1>4, <1>5, <1>6 DEF TaskStep

LEMMA QueueMakes ==
  ASSUME NEW s, Queue(s)
  PROVE  \E t \in Task : Made(t, s, gen') /\ bound' = [bound EXCEPT ![s] = t]
BY DEF Queue, Made, Fresh

(* A router at work has a task that exists and a completion that ended.    *)
LEMMA AtWork ==
  ASSUME BaseInv, NEW p \in Routers, proc[p].pc # "idle"
  PROVE  /\ proc[p].task \in Task /\ proc[p].run \in Run /\ Exists(proc[p].task)
         /\ StepOf(p) \in Step /\ Outcome(p) \in {"ok", "fail"}
         /\ proc[p].pc = "advance" => Outcome(p) = "ok"
         /\ proc[p].pc = "fail" => Outcome(p) = "fail"
<1>1. p \in Proc /\ proc[p] \in ProcRow /\ ProcOK(p)
  BY TypesOfRows DEF BaseInv, ProcsOK, Proc
<1>2. proc[p].task \in Task /\ proc[p].run \in Run /\ Exists(proc[p].task)
  BY <1>1 DEF ProcOK, ProcRow
<1> QED
  BY <1>1, <1>2 DEF ProcOK, BaseInv, TasksOK, StepOf

LEMMA NextStep ==
  ASSUME ChainAssumption, BaseInv, NEW p \in Routers, proc[p].pc # "idle", HasNext(p)
  PROVE  StepOf(p) + 1 \in Step /\ StepOf(p) < StepOf(p) + 1
BY AtWork DEF HasNext, Step, ChainAssumption

LEMMA StepTasks ==
  ASSUME ChainAssumption, BaseInv, [Next]_vars
  PROVE  TaskStep /\ gen' \in 0..MaxResumes
<1>0. /\ gen \in 0..MaxResumes /\ index \in Step /\ 0 \in Step
      /\ gen < MaxResumes => gen + 1 \in 0..MaxResumes
  BY TypesOfRows DEF BaseInv, Step, ChainAssumption
<1>1. ASSUME UNCHANGED <<task, gen>> PROVE TaskStep /\ gen' \in 0..MaxResumes
  BY <1>0, <1>1 DEF TaskStep
<1>2. ASSUME NEW s \in Step, Queue(s) PROVE TaskStep
  BY <1>2, QueueMakes DEF TaskStep
<1>3. CASE RunChain
  BY <1>0, <1>1, <1>2, <1>3 DEF RunChain
<1>4. ASSUME NEW m \in Monitors, NEW t \in Task, NEW out \in {"ok", "fail"},
             Resolve(m, t, out)
      PROVE  TaskStep /\ gen' \in 0..MaxResumes
  <2>1. Newest(t) \in Run /\ Last(task[t], Newest(t)) /\ Exists(t)
        /\ task[t].out[Newest(t)] = "open"
    BY <1>4, NewestOf DEF Resolve, Live, BaseInv
  <2>2. PICK r \in Run : r = Newest(t)
    BY <2>1
  <2>3. Ends(t, r, out)
    BY <1>4, <2>1, <2>2 DEF Resolve, Ends
  <2> QED
    BY <1>0, <1>4, <2>3 DEF TaskStep, Resolve, history
<1>5. ASSUME NEW t \in Task, Requeue(t) PROVE TaskStep /\ gen' \in 0..MaxResumes
  <2>1. Newest(t) \in Run /\ Last(task[t], Newest(t)) /\ Exists(t)
        /\ task[t].out[Newest(t)] = "fail"
    BY <1>5, NewestOf DEF Requeue, Dead, BaseInv
  <2>2. PICK r \in Run : r = Newest(t)
    BY <2>1
  <2>3. Reopens(t, r)
    BY <1>5, <2>1, <2>2 DEF Requeue, Reopens
  <2> QED
    BY <1>0, <1>5, <2>3 DEF TaskStep, Requeue, history
<1>6. ASSUME NEW p \in Routers, Advance(p) PROVE TaskStep /\ gen' \in 0..MaxResumes
  <2>1. HasNext(p) => StepOf(p) + 1 \in Step
    BY <1>6, NextStep DEF Advance
  <2> QED
    BY <1>0, <1>1, <1>2, <1>6, <2>1 DEF Advance, history
<1>7. ASSUME NEW p \in Routers, MarkRouted(p) PROVE TaskStep /\ gen' \in 0..MaxResumes
  <2>1. PICK t \in Task, r \in Run : t = proc[p].task /\ r = proc[p].run
    BY <1>7, AtWork DEF MarkRouted
  <2>2. Marked(t, r)
    BY <1>7, <2>1, AtWork DEF MarkRouted, Marked, Outcome
  <2> QED
    BY <1>0, <1>7, <2>2 DEF TaskStep, MarkRouted, history
<1>8. ASSUME NEW o \in Operators, Resume(o) \/ Approve(o)
      PROVE  TaskStep /\ gen' \in 0..MaxResumes
  BY <1>0, <1>1, <1>2, <1>8 DEF Resume, Approve
<1>9. CASE \/ \E r \in Reapers, t \in Task, n \in Run : Replay(r, t, n)
           \/ \E p \in Routers : \/ Route(p) \/ Handle(p) \/ FailChain(p)
                                 \/ DispatchHook(p) \/ Crash(p)
           \/ \E o \in Operators : Look(o) \/ Reject(o) \/ Cancel(o)
           \/ UNCHANGED vars
  BY <1>1, <1>9
     DEF Replay, Route, Handle, FailChain, DispatchHook, Crash, Look, Reject, Cancel,
         vars, history
<1> QED
  BY <1>3, <1>4, <1>5, <1>6, <1>7, <1>8, <1>9 DEF Next, RouterStep

LEMMA StepGrows ==
  ASSUME ChainAssumption, BaseInv, [Next]_vars
  PROVE  task' \in [Task -> TaskRow] /\ TasksOK' /\ Grown /\ gen' \in 0..MaxResumes
BY StepTasks, TaskStepKeeps DEF BaseInv

LEMMA ProcKept ==
  ASSUME BaseInv, Grown, NEW p \in Proc, proc'[p] = proc[p]
  PROVE  ProcOK(p)'
<1>1. ProcOK(p) /\ proc[p] \in ProcRow
  BY TypesOfRows DEF BaseInv, ProcsOK
<1>2. CASE p \in Routers /\ proc[p].pc # "idle"
  <2>1. /\ proc[p].task \in Task /\ proc[p].run \in Run /\ Exists(proc[p].task)
        /\ Outcome(p) \in {"ok", "fail"}
    BY <1>2, AtWork
  <2>2. PICK t \in Task, r \in Run : t = proc[p].task /\ r = proc[p].run
    BY <2>1
  <2>3. task'[t].step # -1 /\ task'[t].out[r] = task[t].out[r]
    BY <2>1, <2>2 DEF Grown, Exists, Outcome
  <2>4. Exists(proc[p].task)' /\ Outcome(p)' = Outcome(p)
    BY <2>2, <2>3 DEF Exists, Outcome
  <2> QED
    BY <1>1, <2>1, <2>4 DEF ProcOK
<1>3. CASE ~(p \in Routers /\ proc[p].pc # "idle")
  BY <1>1, <1>3 DEF ProcOK
<1> QED
  BY <1>2, <1>3

LEMMA ProcsMoved ==
  ASSUME BaseInv, Grown, NEW p \in Proc, NEW x \in ProcRow,
         proc' = [proc EXCEPT ![p] = x], ProcOK(p)'
  PROVE  ProcsOK' /\ proc' \in [Proc -> ProcRow]
<1>1. proc \in [Proc -> ProcRow]
  BY TypesOfRows DEF BaseInv
<1>2. proc' \in [Proc -> ProcRow] /\ \A q \in Proc \ {p} : proc'[q] = proc[q]
  BY <1>1
<1>3. \A q \in Proc \ {p} : ProcOK(q)'
  BY <1>2, ProcKept
<1> QED
  BY <1>2, <1>3 DEF ProcsOK

LEMMA ProcsStay ==
  ASSUME BaseInv, Grown, UNCHANGED proc
  PROVE  ProcsOK' /\ proc' \in [Proc -> ProcRow]
<1>1. proc \in [Proc -> ProcRow]
  BY TypesOfRows DEF BaseInv
<1> QED
  BY <1>1, ProcKept DEF ProcsOK

LEMMA ProcsRelease ==
  ASSUME ChainAssumption, BaseInv, Grown, NEW p \in Proc, Release(p)
  PROVE  ProcsOK' /\ proc' \in [Proc -> ProcRow]
<1>1. proc \in [Proc -> ProcRow]
  BY TypesOfRows DEF BaseInv
<1>2. Idle \in ProcRow /\ proc' = [proc EXCEPT ![p] = Idle] /\ proc'[p] = Idle
      /\ Idle.pc = "idle"
  BY <1>1 DEF Release, Idle, ProcRow, ChainAssumption
<1>3. ProcOK(p)'
  BY <1>2 DEF ProcOK
<1> QED
  BY <1>2, <1>3, ProcsMoved

(* A router takes up or goes on with a completion that has ended.          *)
LEMMA RouterMoves ==
  ASSUME ChainAssumption, BaseInv, Grown, NEW p \in Routers, NEW x \in ProcRow,
         proc' = [proc EXCEPT ![p] = x],
         x.task \in Task, x.run \in Run, Exists(x.task),
         task'[x.task].out[x.run] \in {"ok", "fail"},
         x.pc \notin {"failed", "parked"},
         x.pc = "advance" => task'[x.task].out[x.run] = "ok",
         x.pc = "fail" => task'[x.task].out[x.run] = "fail"
  PROVE  ProcsOK' /\ proc' \in [Proc -> ProcRow]
<1>1. p \in Proc /\ p \notin Operators /\ 0 \notin Task /\ 0 \notin Run
  BY DEF Proc, ChainAssumption, Task, Run
<1>2. proc'[p] = x
  BY <1>1, TypesOfRows DEF BaseInv
<1>3. PICK t \in Task, r \in Run : t = x.task /\ r = x.run
  OBVIOUS
<1>4. task'[t].step # -1
  BY <1>3 DEF Grown, Exists
<1>5. Exists(proc[p].task)' /\ Outcome(p)' = task'[t].out[r]
  BY <1>2, <1>3, <1>4 DEF Exists, Outcome
<1>6. ProcOK(p)'
  BY <1>1, <1>2, <1>3, <1>5 DEF ProcOK
<1> QED
  BY <1>1, <1>6, ProcsMoved

LEMMA RouterGoesOn ==
  ASSUME ChainAssumption, BaseInv, Grown, NEW p \in Routers, proc[p].pc # "idle",
         NEW pc \in {"handle", "advance", "fail", "mark"}, MoveTo(p, pc),
         pc = "advance" => Outcome(p) = "ok",
         pc = "fail" => Outcome(p) = "fail"
  PROVE  ProcsOK' /\ proc' \in [Proc -> ProcRow]
<1> DEFINE x == [proc[p] EXCEPT !.pc = pc]
<1>1. proc[p] \in ProcRow
  BY TypesOfRows DEF BaseInv, Proc
<1>2. x \in ProcRow /\ x.pc = pc /\ x.task = proc[p].task /\ x.run = proc[p].run
  BY <1>1 DEF ProcRow
<1>3. proc' = [proc EXCEPT ![p] = x]
  BY DEF MoveTo
<1>4. /\ proc[p].task \in Task /\ proc[p].run \in Run /\ Exists(proc[p].task)
      /\ Outcome(p) \in {"ok", "fail"}
  BY AtWork
<1>5. task'[x.task].out[x.run] = Outcome(p)
  BY <1>2, <1>4 DEF Grown, Outcome
<1> HIDE DEF x
<1> QED
  BY <1>2, <1>3, <1>4, <1>5, RouterMoves

LEMMA SettleMoves ==
  ASSUME ChainAssumption, BaseInv, Grown, NEW p \in Routers, proc[p].pc # "idle",
         NEW st, Settle(p, st)
  PROVE  ProcsOK' /\ proc' \in [Proc -> ProcRow]
<1> DEFINE x == [proc[p] EXCEPT !.pc = "hook", !.gen = gen]
<1>1. proc[p] \in ProcRow /\ gen \in 0..MaxResumes
  BY TypesOfRows DEF BaseInv, Proc
<1>2. x \in ProcRow /\ x.pc = "hook" /\ x.task = proc[p].task /\ x.run = proc[p].run
  BY <1>1 DEF ProcRow
<1>3. proc' = [proc EXCEPT ![p] = x] \/ MoveTo(p, "mark")
  BY DEF Settle
<1>4. /\ proc[p].task \in Task /\ proc[p].run \in Run /\ Exists(proc[p].task)
      /\ Outcome(p) \in {"ok", "fail"}
  BY AtWork
<1>5. task'[x.task].out[x.run] = Outcome(p)
  BY <1>2, <1>4 DEF Grown, Outcome
<1> HIDE DEF x
<1>6. CASE proc' = [proc EXCEPT ![p] = x]
  BY <1>2, <1>4, <1>5, <1>6, RouterMoves
<1> QED
  BY <1>3, <1>6, RouterGoesOn

LEMMA IdleRow ==
  ASSUME ChainAssumption PROVE Idle \in ProcRow /\ Idle.pc = "idle"
BY DEF Idle, ProcRow, ChainAssumption

LEMMA TakesUp ==
  ASSUME ChainAssumption, NEW t \in Task, NEW r \in Run
  PROVE  LET x == [Idle EXCEPT !.pc = "route", !.task = t, !.run = r] IN
         x \in ProcRow /\ x.pc = "route" /\ x.task = t /\ x.run = r
BY IdleRow DEF ProcRow

LEMMA StepProcs ==
  ASSUME ChainAssumption, BaseInv, [Next]_vars
  PROVE  ProcsOK' /\ proc' \in [Proc -> ProcRow]
<1>0. /\ Grown
      /\ \A p \in Routers : p \in Proc
      /\ \A o \in Operators : o \in Proc /\ o \notin Routers
  BY StepGrows DEF Proc, ChainAssumption
<1>1. ASSUME NEW m \in Monitors, NEW t \in Task, NEW out \in {"ok", "fail"},
             Resolve(m, t, out)
      PROVE  ProcsOK' /\ proc' \in [Proc -> ProcRow]
  <2>1. PICK r \in Run : r = Newest(t)
    BY <1>1, NewestOf DEF Resolve, Live, BaseInv
  <2> DEFINE x == [Idle EXCEPT !.pc = "route", !.task = t, !.run = r]
  <2>2. x \in ProcRow /\ x.pc = "route" /\ x.task = t /\ x.run = r
    BY TakesUp
  <2>3. proc' = [proc EXCEPT ![m] = x] /\ Exists(t)
        /\ task' = [task EXCEPT ![t].out[r] = out]
    BY <1>1, <2>1 DEF Resolve, Live
  <2>4. task'[t].out[r] = out
    BY <2>3, TypesOfRows DEF BaseInv, TaskRow
  <2> HIDE DEF x
  <2> QED
    BY <1>0, <1>1, <2>2, <2>3, <2>4, RouterMoves DEF Routers
<1>2. ASSUME NEW r \in Reapers, NEW t \in Task, NEW n \in Run, Replay(r, t, n)
      PROVE  ProcsOK' /\ proc' \in [Proc -> ProcRow]
  <2> DEFINE x == [Idle EXCEPT !.pc = "route", !.task = t, !.run = n]
  <2>1. x \in ProcRow /\ x.pc = "route" /\ x.task = t /\ x.run = n
    BY TakesUp
  <2>2. proc' = [proc EXCEPT ![r] = x] /\ task' = task
        /\ task[t].out[n] \in {"ok", "fail"}
    BY <1>2 DEF Replay, Unrouted
  <2>3. Exists(t)
    <3>1. CASE task[t] = NoTask
      BY <2>2, <3>1 DEF NoTask
    <3> QED
      BY <3>1 DEF BaseInv, TasksOK
  <2> HIDE DEF x
  <2> QED
    BY <1>0, <1>2, <2>1, <2>2, <2>3, RouterMoves DEF Routers
<1>3. ASSUME NEW p \in Routers, Route(p) PROVE ProcsOK' /\ proc' \in [Proc -> ProcRow]
  BY <1>0, <1>3, RouterGoesOn DEF Route
<1>4. ASSUME NEW p \in Routers, Handle(p) PROVE ProcsOK' /\ proc' \in [Proc -> ProcRow]
  <2>1. Outcome(p) \in {"ok", "fail"}
    BY <1>4, AtWork DEF Handle
  <2> QED
    BY <1>0, <1>4, <2>1, RouterGoesOn DEF Handle, Succeeded
<1>5. ASSUME NEW p \in Routers, Advance(p) PROVE ProcsOK' /\ proc' \in [Proc -> ProcRow]
  <2>1. MoveTo(p, "mark") \/ Settle(p, "SUCCEEDED") \/ Release(p)
    BY <1>5 DEF Advance
  <2> QED
    BY <1>0, <1>5, <2>1, RouterGoesOn, SettleMoves, ProcsRelease DEF Advance
<1>6. ASSUME NEW p \in Routers, FailChain(p) PROVE ProcsOK' /\ proc' \in [Proc -> ProcRow]
  BY <1>0, <1>6, RouterGoesOn, SettleMoves DEF FailChain
<1>7. ASSUME NEW p \in Routers, DispatchHook(p)
      PROVE  ProcsOK' /\ proc' \in [Proc -> ProcRow]
  BY <1>0, <1>7, RouterGoesOn DEF DispatchHook
<1>8. ASSUME NEW p \in Proc, Release(p) PROVE ProcsOK' /\ proc' \in [Proc -> ProcRow]
  BY <1>0, <1>8, ProcsRelease
<1>9. ASSUME NEW o \in Operators, Look(o) PROVE ProcsOK' /\ proc' \in [Proc -> ProcRow]
  <2>1. PICK pc \in {"failed", "parked"} : MoveTo(o, pc)
    BY <1>9 DEF Look
  <2> DEFINE x == [proc[o] EXCEPT !.pc = pc]
  <2>2. proc[o] \in ProcRow
    BY <1>0, TypesOfRows DEF BaseInv
  <2>3. x \in ProcRow /\ x.pc = pc /\ proc' = [proc EXCEPT ![o] = x]
    BY <2>1, <2>2 DEF ProcRow, MoveTo
  <2> HIDE DEF x
  <2>4. proc'[o] = x
    BY <1>0, <2>3, TypesOfRows DEF BaseInv
  <2>5. ProcOK(o)'
    BY <1>0, <2>3, <2>4 DEF ProcOK
  <2> QED
    BY <1>0, <2>3, <2>5, ProcsMoved
<1>10. ASSUME UNCHANGED proc PROVE ProcsOK' /\ proc' \in [Proc -> ProcRow]
  BY <1>0, <1>10, ProcsStay
<1>11. CASE \E p \in Routers : RouterStep(p) \/ Crash(p)
  BY <1>0, <1>3, <1>4, <1>5, <1>6, <1>7, <1>8, <1>11 DEF RouterStep, MarkRouted, Crash
<1>12. CASE \E o \in Operators :
              Look(o) \/ Resume(o) \/ Approve(o) \/ Reject(o) \/ Cancel(o)
  BY <1>0, <1>8, <1>9, <1>10, <1>12 DEF Resume, Approve, Reject, Cancel
<1>13. CASE RunChain \/ (\E t \in Task : Requeue(t)) \/ UNCHANGED vars
  BY <1>10, <1>13 DEF RunChain, Requeue, vars
<1> QED
  BY <1>1, <1>2, <1>11, <1>12, <1>13 DEF Next

(* The rest of the types: the chain, its hooks and the history.            *)
LEMMA QueueTypes ==
  ASSUME TypeOK, NEW s \in Step, Queue(s)
  PROVE  bound' \in [Step -> Task \cup {0}]
BY QueueMakes, TypesOfRows

LEMMA FireTypes ==
  ASSUME TypeOK, NEW hook \in Hook, NEW g \in 0..MaxResumes, Fire(hook, g)
  PROVE  rows' \subseteq Hook /\ fired' \subseteq (0..MaxResumes) \X Hook
BY DEF Fire, TypeOK

ChainTypes ==
  /\ status \in Status /\ index \in Step /\ settled \in BOOLEAN /\ started \in BOOLEAN
  /\ bound \in [Step -> Task \cup {0}]
HistoryTypes ==
  /\ rows \subseteq Hook /\ fired \subseteq (0..MaxResumes) \X Hook
  /\ approved \subseteq Step /\ faults \in 0..MaxFaults

LEMMA StepTypes ==
  ASSUME ChainAssumption, BaseInv, [Next]_vars
  PROVE  ChainTypes' /\ HistoryTypes'
<1>0. ChainTypes /\ HistoryTypes /\ gen \in 0..MaxResumes /\ 0 \in Step
      /\ TypeOK
  BY DEF BaseInv, TypeOK, ChainTypes, HistoryTypes, Step, ChainAssumption
<1>1. ASSUME UNCHANGED chain PROVE ChainTypes'
  BY <1>0, <1>1 DEF chain, ChainTypes
<1>2. ASSUME UNCHANGED <<rows, fired, approved, faults>> PROVE HistoryTypes'
  BY <1>0, <1>2 DEF HistoryTypes
<1>3. ASSUME RunChain PROVE ChainTypes' /\ HistoryTypes'
  <2>1. bound' \in [Step -> Task \cup {0}]
    BY <1>0, <1>3, QueueTypes DEF RunChain, ChainTypes
  <2> QED
    BY <1>0, <1>2, <1>3, <2>1 DEF RunChain, ChainTypes, Status
<1>4. ASSUME NEW p \in Routers, Advance(p) PROVE ChainTypes' /\ HistoryTypes'
  <2>0. HistoryTypes'
    BY <1>2, <1>4 DEF Advance, history
  <2>1. CASE UNCHANGED chain
    BY <1>1, <2>0, <2>1
  <2>2. CASE Settle(p, "SUCCEEDED") /\ UNCHANGED <<index, started, bound>>
    BY <1>0, <2>0, <2>2 DEF Settle, ChainTypes, Status
  <2>3. CASE /\ HasNext(p) /\ index' = StepOf(p) + 1
             /\ status' \in {status, "WAITING_APPROVAL"}
             /\ UNCHANGED <<settled, started>>
             /\ (Queue(StepOf(p) + 1) \/ UNCHANGED bound)
    <3>1. PICK next \in Step : next = StepOf(p) + 1
      BY <1>4, <2>3, NextStep DEF Advance
    <3>2. bound' \in [Step -> Task \cup {0}]
      BY <1>0, <2>3, <3>1, QueueTypes DEF ChainTypes
    <3> QED
      BY <1>0, <2>0, <2>3, <3>1, <3>2 DEF ChainTypes, Status
  <2> QED
    BY <1>4, <2>1, <2>2, <2>3 DEF Advance
<1>5. ASSUME NEW p \in Routers, FailChain(p) PROVE ChainTypes' /\ HistoryTypes'
  <2>1. status' \in Status /\ settled' \in BOOLEAN
    BY <1>0, <1>5 DEF FailChain, Settle, Status, ChainTypes
  <2> QED
    BY <1>0, <1>2, <1>5, <2>1 DEF FailChain, ChainTypes, history
<1>6. ASSUME NEW p \in Routers, DispatchHook(p) PROVE ChainTypes' /\ HistoryTypes'
  <2>1. proc[p].gen \in 0..MaxResumes
    BY TypesOfRows DEF BaseInv, Proc, ProcRow
  <2>2. rows' \subseteq Hook /\ fired' \subseteq (0..MaxResumes) \X Hook
    BY <1>0, <1>6, <2>1, FireTypes DEF DispatchHook, Hook
  <2> QED
    BY <1>0, <1>1, <1>6, <2>2 DEF DispatchHook, HistoryTypes
<1>7. ASSUME NEW p \in Routers, Crash(p) PROVE ChainTypes' /\ HistoryTypes'
  <2>1. faults' \in 0..MaxFaults
    BY <1>0, <1>7 DEF Crash, HistoryTypes, ChainAssumption
  <2> QED
    BY <1>0, <1>1, <1>7, <2>1 DEF Crash, HistoryTypes, history
<1>8. ASSUME NEW o \in Operators, Resume(o) PROVE ChainTypes' /\ HistoryTypes'
  <2>1. bound' \in [Step -> Task \cup {0}]
    BY <1>0, <1>8, QueueTypes DEF Resume, ChainTypes
  <2>2. status' \in Status /\ settled' \in BOOLEAN /\ rows' \subseteq Hook
    BY <1>0, <1>8 DEF Resume, ChainTypes, HistoryTypes, Status, SettledOnceResumed
  <2> QED
    BY <1>0, <1>8, <2>1, <2>2 DEF Resume, ChainTypes, HistoryTypes
<1>9. ASSUME NEW o \in Operators, Approve(o) PROVE ChainTypes' /\ HistoryTypes'
  <2>1. bound' \in [Step -> Task \cup {0}]
    BY <1>0, <1>9, QueueTypes DEF Approve, ChainTypes
  <2>2. status' \in Status /\ approved' \subseteq Step
    BY <1>0, <1>9 DEF Approve, ChainTypes, HistoryTypes, Status
  <2> QED
    BY <1>0, <1>9, <2>1, <2>2 DEF Approve, ChainTypes, HistoryTypes
<1>10. ASSUME NEW o \in Operators, Reject(o) \/ Cancel(o) PROVE ChainTypes' /\ HistoryTypes'
  <2>1. rows' \subseteq Hook /\ fired' \subseteq (0..MaxResumes) \X Hook
    BY <1>0, <1>10, FireTypes DEF Reject, Cancel, Hook, HistoryTypes
  <2>2. status' \in Status /\ settled' \in BOOLEAN
    BY <1>0, <1>10 DEF Reject, Cancel, ChainTypes, Status
  <2> QED
    BY <1>0, <1>10, <2>1, <2>2 DEF Reject, Cancel, ChainTypes, HistoryTypes
<1>11. CASE \/ \E m \in Monitors, t \in Task, out \in {"ok", "fail"} : Resolve(m, t, out)
            \/ \E r \in Reapers, t \in Task, n \in Run : Replay(r, t, n)
            \/ \E p \in Routers : Route(p) \/ Handle(p) \/ MarkRouted(p)
            \/ \E o \in Operators : Look(o)
            \/ \E t \in Task : Requeue(t)
            \/ UNCHANGED vars
  <2>1. UNCHANGED chain /\ UNCHANGED <<rows, fired, approved, faults>>
    BY <1>11 DEF Resolve, Replay, Route, Handle, MarkRouted, Look, Requeue, history, vars
  <2> QED
    BY <1>1, <1>2, <2>1
<1> QED
  BY <1>3, <1>4, <1>5, <1>6, <1>7, <1>8, <1>9, <1>10, <1>11 DEF Next, RouterStep

(* Progress.                                                               *)
LEMMA ReachedKept ==
  ASSUME TypeOK, Grown, NEW s \in Step, Reached(s)
  PROVE  Reached(s)'
<1>1. PICK u \in Task, n \in Run : task[u].step = s /\ task[u].out[n] = "ok"
  BY DEF Reached
<1>2. Exists(u)
  BY <1>1 DEF Exists, Step
<1>3. task'[u].step = s /\ task'[u].out[n] = "ok"
  BY <1>1, <1>2 DEF Grown
<1> QED
  BY <1>3 DEF Reached

(* The chain goes on from a step whose task succeeded.                     *)
Passes(p) ==
  /\ proc[p].pc = "advance" /\ Proceeds /\ AtIndex(p) /\ HasNext(p)
  /\ index' = index + 1
  /\ UNCHANGED <<settled, started, gen, rows, fired, approved>>

(* Why a task for step s is made.                                          *)
Queuing(s) ==
  \/ RunChain /\ s = 0 /\ s \notin Gated /\ index' = index
  \/ \E p \in Routers : Advance(p) /\ Passes(p) /\ s = index' /\ s \notin Gated
  \/ \E o \in Operators :
       (Resume(o) \/ Approve(o)) /\ CanMove("RUNNING") /\ s = index /\ index' = index

NoNewTask ==
  /\ bound' = bound
  /\ \A t \in Task : task'[t].step = task[t].step /\ task'[t].gen = task[t].gen

NewTaskFor(t, s) ==
  Made(t, s, gen') /\ task'[t] = NewTask(s, gen') /\ bound' = [bound EXCEPT ![s] = t]

LEMMA PassesIfMoves ==
  ASSUME ChainAssumption, BaseInv, NEW p \in Routers, Advance(p), index' # index
  PROVE  /\ Passes(p) /\ index' = StepOf(p) + 1 /\ index' \in Step
         /\ (Queue(index') /\ index' \notin Gated) \/ UNCHANGED <<task, bound>>
<1>1. proc[p].pc # "idle" /\ index \in Step
  BY TypesOfRows DEF Advance, BaseInv
<1>2. HasNext(p) /\ index' = StepOf(p) + 1 /\ AtIndex(p) /\ Proceeds
      /\ UNCHANGED <<settled, started>>
  BY DEF Advance, Settle, chain
<1>3. index' \in Step /\ index' = index + 1
  BY <1>1, <1>2, NextStep DEF AtIndex
<1>4. (Queue(index') /\ index' \notin Gated) \/ UNCHANGED <<task, bound>>
  BY <1>2 DEF Advance, NeedsApproval, chain
<1> QED
  BY <1>2, <1>3, <1>4 DEF Passes, Advance, history

LEMMA StepQueues ==
  ASSUME ChainAssumption, BaseInv, [Next]_vars
  PROVE  NoNewTask \/ \E s \in Step, t \in Task : NewTaskFor(t, s) /\ Queuing(s)
<1>0. TypeOK /\ index \in Step /\ 0 \in Step /\ task \in [Task -> TaskRow]
  BY TypesOfRows DEF BaseInv, Step, ChainAssumption
<1>1. ASSUME UNCHANGED <<task, bound>> PROVE NoNewTask
  BY <1>1 DEF NoNewTask
<1>2. ASSUME NEW s \in Step, Queue(s) PROVE \E t \in Task : NewTaskFor(t, s)
  <2>1. PICK t \in Task : Made(t, s, gen') /\ bound' = [bound EXCEPT ![s] = t]
    BY <1>2, QueueMakes
  <2>2. task'[t] = NewTask(s, gen')
    BY <1>0, <2>1, TaskIsAlone DEF Made
  <2> QED
    BY <2>1, <2>2 DEF NewTaskFor
<1>3. CASE RunChain
  <2>1. CASE UNCHANGED <<task, bound>>
    BY <1>1, <2>1
  <2>2. CASE Queue(0) /\ 0 \notin Gated
    BY <1>0, <1>2, <1>3, <2>2 DEF Queuing, RunChain
  <2> QED
    BY <1>3, <2>1, <2>2 DEF RunChain, NeedsApproval
<1>4. ASSUME NEW p \in Routers, Advance(p)
      PROVE  NoNewTask \/ \E s \in Step, t \in Task : NewTaskFor(t, s) /\ Queuing(s)
  <2>1. CASE UNCHANGED <<task, bound>>
    BY <1>1, <2>1
  <2>2. CASE ~UNCHANGED <<task, bound>>
    <3>1. index' = StepOf(p) + 1 /\ index = StepOf(p)
      BY <1>4, <2>2 DEF Advance, AtIndex, Settle, chain
    <3>2. index' # index
      BY <1>0, <3>1 DEF Step
    <3>3. Passes(p) /\ index' \in Step /\ Queue(index') /\ index' \notin Gated
      BY <1>4, <2>2, <3>2, PassesIfMoves
    <3>4. PICK s \in Step : s = index'
      BY <3>3
    <3> QED
      BY <1>2, <1>4, <3>3, <3>4 DEF Queuing
  <2> QED
    BY <2>1, <2>2
<1>5. ASSUME NEW o \in Operators, Resume(o) \/ Approve(o)
      PROVE  NoNewTask \/ \E s \in Step, t \in Task : NewTaskFor(t, s) /\ Queuing(s)
  <2>1. CASE UNCHANGED <<task, bound>>
    BY <1>1, <2>1
  <2>2. CASE Queue(index) /\ CanMove("RUNNING")
    BY <1>0, <1>2, <1>5, <2>2 DEF Queuing, Resume, Approve
  <2> QED
    BY <1>5, <2>1, <2>2 DEF Resume, Approve
<1>6. ASSUME NEW t \in Task, NEW x, task' = [task EXCEPT ![t] = x],
             x.step = task[t].step, x.gen = task[t].gen, bound' = bound
      PROVE  NoNewTask
  BY <1>0, <1>6, TaskIsAlone DEF NoNewTask
<1>7. ASSUME NEW t \in Task, NEW r, NEW out, task' = [task EXCEPT ![t].out[r] = out],
             bound' = bound
      PROVE  NoNewTask
  <2> DEFINE x == [task[t] EXCEPT !.out[r] = out]
  <2>1. x.step = task[t].step /\ x.gen = task[t].gen
    BY <1>0 DEF TaskRow
  <2>2. task' = [task EXCEPT ![t] = x]
    BY <1>7
  <2> HIDE DEF x
  <2> QED
    BY <1>6, <1>7, <2>1, <2>2
<1>8. ASSUME NEW p \in Routers, MarkRouted(p) PROVE NoNewTask
  <2>1. PICK t \in Task, r \in Run : t = proc[p].task /\ r = proc[p].run
    BY <1>8, AtWork DEF MarkRouted
  <2> DEFINE x == [task[t] EXCEPT !.routed = @ \cup {r}]
  <2>2. task' = [task EXCEPT ![t] = x] /\ bound' = bound
    BY <1>8, <2>1 DEF MarkRouted, chain
  <2>3. x.step = task[t].step /\ x.gen = task[t].gen
    BY <1>0 DEF TaskRow
  <2> HIDE DEF x
  <2> QED
    BY <1>6, <2>2, <2>3
<1>9. CASE \/ \E m \in Monitors, t \in Task, out \in {"ok", "fail"} : Resolve(m, t, out)
           \/ \E t \in Task : Requeue(t)
  <2>1. ASSUME NEW m \in Monitors, NEW t \in Task, NEW out \in {"ok", "fail"},
               Resolve(m, t, out)
        PROVE  NoNewTask
    BY <1>7, <2>1 DEF Resolve, chain
  <2>2. ASSUME NEW t \in Task, Requeue(t) PROVE NoNewTask
    BY <1>7, <2>2 DEF Requeue, chain
  <2> QED
    BY <1>9, <2>1, <2>2
<1>10. CASE \/ \E r \in Reapers, t \in Task, n \in Run : Replay(r, t, n)
            \/ \E p \in Routers : \/ Route(p) \/ Handle(p) \/ FailChain(p)
                                  \/ DispatchHook(p) \/ Crash(p)
            \/ \E o \in Operators : Look(o) \/ Reject(o) \/ Cancel(o)
            \/ UNCHANGED vars
  BY <1>1, <1>10
     DEF Replay, Route, Handle, FailChain, DispatchHook, Crash, Look, Reject, Cancel,
         vars, chain
<1> QED
  BY <1>3, <1>4, <1>5, <1>8, <1>9, <1>10 DEF Next, RouterStep

LEMMA StepIndex ==
  ASSUME ChainAssumption, BaseInv, [Next]_vars
  PROVE  index' = index \/ \E p \in Routers : Advance(p) /\ Passes(p)
<1>1. ASSUME NEW p \in Routers, Advance(p), index' # index PROVE Passes(p)
  BY <1>1, PassesIfMoves
<1> QED
  BY <1>1
     DEF Next, RouterStep, RunChain, Resolve, Replay, Route, Handle, FailChain,
         DispatchHook, MarkRouted, Crash, Look, Resume, Approve, Reject, Cancel, Requeue,
         vars, chain

LEMMA StepGen ==
  ASSUME BaseInv, [Next]_vars
  PROVE  gen' = gen \/ (gen' = gen + 1 /\ \E o \in Operators : Resume(o) /\ CanMove("RUNNING"))
BY DEF Next, RouterStep, RunChain, Resolve, Replay, Route, Handle, Advance, FailChain,
       DispatchHook, MarkRouted, Crash, Look, Resume, Approve, Reject, Cancel, Requeue,
       vars, history

LEMMA NewRow ==
  ASSUME ChainAssumption, NEW s \in Step, NEW g
  PROVE  LET x == NewTask(s, g) IN
         /\ x.step = s /\ x.gen = g /\ x.routed = {}
         /\ 1 \in Run /\ x.out[1] = "open" /\ \A q \in Run \ {1} : x.out[q] = "none"
BY DEF NewTask, NoTask, Run, ChainAssumption

(* After a step every task is one of before or the one that was made.      *)
LEMMA AfterQueuing ==
  ASSUME TypeOK, NEW s \in Step, NEW t \in Task, NewTaskFor(t, s)
  PROVE  /\ ~Exists(t) /\ \A u \in Task \ {t} : task'[u] = task[u]
         /\ bound'[s] = t /\ \A z \in Step \ {s} : bound'[z] = bound[z]
BY TaskIsAlone, TypesOfRows DEF NewTaskFor, Made

LEMMA PassesFrom ==
  ASSUME ChainAssumption, BaseInv, NEW p \in Routers, Passes(p)
  PROVE  /\ Reached(index) /\ index' > index /\ index = StepOf(p) /\ index \in Step
         /\ Outcome(p) = "ok" /\ index' = index + 1
<1>1. index \in Step /\ index' = index + 1
  BY TypesOfRows DEF Passes, BaseInv
<1>2. /\ proc[p].task \in Task /\ proc[p].run \in Run /\ Outcome(p) = "ok"
      /\ index = StepOf(p)
  BY AtWork DEF Passes, AtIndex
<1> QED
  BY <1>1, <1>2 DEF Reached, StepOf, Outcome, Step

LEMMA StepProgress ==
  ASSUME ChainAssumption, BaseInv, [Next]_vars
  PROVE  Progress'
<1>0. /\ Grown /\ TypeOK /\ index \in Step /\ index' \in Step
      /\ gen \in 0..MaxResumes /\ gen' \in 0..MaxResumes
      /\ \A u \in Task : task[u].step \in Step \cup {-1} /\ task[u].gen \in 0..MaxResumes
  BY StepGrows, StepTypes, TypesOfRows DEF BaseInv, ChainTypes, TaskRow
<1>1. index' >= index /\ (index' = index \/ (index' = index + 1 /\ Reached(index)))
  BY <1>0, StepIndex, PassesFrom DEF Step
<1>2. gen' >= gen
  BY <1>0, StepGen
<1>3. ASSUME NEW s \in Step, s < index' PROVE Reached(s)'
  <2>1. s < index \/ (s = index /\ Reached(s))
    BY <1>0, <1>1, <1>3 DEF Step
  <2>2. Reached(s)
    BY <2>1 DEF BaseInv, Progress
  <2> QED
    BY <1>0, <2>2, ReachedKept
<1>4. ASSUME NEW u \in Task, Exists(u)'
      PROVE  task'[u].step <= index' /\ task'[u].gen <= gen'
  <2>1. CASE Exists(u)
    <3>1. task[u].step <= index /\ task[u].gen <= gen
      BY <2>1 DEF BaseInv, Progress
    <3>2. task'[u].step = task[u].step /\ task'[u].gen = task[u].gen
      BY <1>0, <2>1 DEF Grown
    <3> QED
      BY <1>0, <1>1, <1>2, <3>1, <3>2 DEF Step
  <2>2. CASE ~Exists(u)
    <3>1. ~NoNewTask
      BY <1>4, <2>2 DEF NoNewTask, Exists
    <3>2. PICK s \in Step, t \in Task : NewTaskFor(t, s) /\ Queuing(s)
      BY <3>1, StepQueues
    <3>3. u = t
      BY <1>0, <1>4, <2>2, <3>2, AfterQueuing DEF Exists
    <3>4. task'[u].step = s /\ task'[u].gen = gen'
      BY <3>2, <3>3, NewRow DEF NewTaskFor
    <3>5. s <= index'
      BY <1>0, <3>2 DEF Queuing, Step
    <3> QED
      BY <1>0, <3>4, <3>5
  <2> QED
    BY <2>1, <2>2
<1> QED
  BY <1>3, <1>4 DEF Progress

LEMMA InitBase ==
  ASSUME ChainAssumption, Init PROVE BaseInv
<1>1. 0 \in Step /\ 0 \in 0..MaxResumes /\ 0 \in 0..MaxFaults
  BY DEF Step, ChainAssumption
<1>2. NoTask \in TaskRow /\ NoTask.step = -1 /\ Idle \in ProcRow /\ Idle.pc = "idle"
  BY <1>1, IdleRow DEF NoTask, TaskRow
<1>3. TypeOK
  BY <1>1, <1>2 DEF Init, TypeOK, Status, TaskRow, ProcRow
<1>4. TasksOK
  BY <1>2 DEF Init, TasksOK, Exists
<1>5. ProcsOK
  BY <1>2 DEF Init, ProcsOK, ProcOK, Proc
<1>6. Progress
  BY <1>1, <1>2 DEF Init, Progress, Exists, Step
<1> QED
  BY <1>3, <1>4, <1>5, <1>6 DEF BaseInv

LEMMA StepBase ==
  ASSUME ChainAssumption, BaseInv, [Next]_vars PROVE BaseInv'
<1>1. TypeOK'
  BY StepGrows, StepProcs, StepTypes DEF TypeOK, ChainTypes, HistoryTypes, TaskRow, ProcRow
<1> QED
  BY <1>1, StepGrows, StepProcs, StepProgress DEF BaseInv

LEMMA AlwaysBase ==
  ASSUME ChainAssumption PROVE Spec => []BaseInv
<1>1. Init => BaseInv
  BY InitBase
<1>2. BaseInv /\ [Next]_vars => BaseInv'
  BY StepBase
<1> QED
  BY <1>1, <1>2, PTL DEF Spec

(* The variables of a chain keep their types.                              *)
THEOREM TypesHold ==
  ASSUME ChainAssumption PROVE Spec => []TypeOK
<1>1. BaseInv => TypeOK
  BY DEF BaseInv
<1> QED
  BY <1>1, AlwaysBase, PTL

(* However completions are delivered, replayed and lost, and whoever       *)
(* approves, resumes and requeues, a step is queued only after a success   *)
(* of the step before it.                                                  *)
THEOREM StepsComeInOrder ==
  ASSUME ChainAssumption PROVE Spec => []StepsInOrder
<1>1. BaseInv => StepsInOrder
  <2> SUFFICES ASSUME BaseInv,
                      NEW t \in Task, Exists(t), task[t].step > 0
               PROVE  \E u \in Task, n \in Run :
                        task[u].step = task[t].step - 1 /\ task[u].out[n] = "ok"
    BY DEF StepsInOrder
  <2>1. task[t].step \in Step /\ task[t].step <= index /\ index \in Step
    BY TypesOfRows DEF BaseInv, TasksOK, Progress
  <2>2. task[t].step - 1 \in Step /\ task[t].step - 1 < index
    BY <2>1 DEF Step, ChainAssumption
  <2>3. PICK s \in Step : s = task[t].step - 1 /\ s < index
    BY <2>2
  <2>4. PICK u \in Task, n \in Run : task[u].step = s /\ task[u].out[n] = "ok"
    BY <2>3 DEF BaseInv, Progress, Reached
  <2>5. task[u].step = task[t].step - 1
    BY <2>3, <2>4
  <2> QED
    BY <2>4, <2>5
<1> QED
  BY <1>1, AlwaysBase, PTL
-----------------------------------------------------------------------------
(* Nothing happens before run().                                           *)

LEMMA NothingBefore ==
  ASSUME ChainAssumption, ~Shared, BaseInv, StartOK, ~started, [Next]_vars
  PROVE  RunChain \/ UNCHANGED vars
<1>1. /\ status = "PENDING" /\ \A t \in Task : ~Exists(t) /\ task[t] = NoTask
      /\ \A p \in Proc : proc[p].pc = "idle"
  BY DEF StartOK, BaseInv, TasksOK
<1>2. \A t \in Task, n \in Run : task[t].out[n] = "none"
  BY <1>1 DEF NoTask
<1>3. ~\E m \in Monitors, t \in Task, out \in {"ok", "fail"} : Resolve(m, t, out)
  BY <1>1 DEF Resolve, Live
<1>4. ~\E r \in Reapers, t \in Task, n \in Run : Replay(r, t, n)
  BY <1>2 DEF Replay, Unrouted
<1>5. ~\E p \in Routers : RouterStep(p) \/ Crash(p)
  BY <1>1 DEF RouterStep, Route, Handle, Advance, FailChain, DispatchHook, MarkRouted,
              Crash, Proc
<1>6. ~\E o \in Operators : Look(o) \/ Resume(o) \/ Approve(o) \/ Reject(o) \/ Cancel(o)
  BY <1>1 DEF Look, Resume, Approve, Reject, Cancel, Proc
<1>7. ~\E t \in Task : Requeue(t)
  BY <1>1 DEF Requeue, Dead
<1> QED
  BY <1>3, <1>4, <1>5, <1>6, <1>7 DEF Next

(* The status after a step.                                                *)
LEMMA StepStatus ==
  ASSUME BaseInv, [Next]_vars
  PROVE  /\ started' = (started \/ RunChain)
         /\ \/ status' = status
            \/ /\ status' # "PENDING"
               /\ \/ ~started /\ RunChain
                  \/ status # "CANCELLED"
<1>1. started \in BOOLEAN
  BY DEF BaseInv, TypeOK
<1>2. ASSUME NEW p \in Routers, NEW st \in Status \ {"PENDING"}, Settle(p, st)
      PROVE  status' = status \/ (status' # "PENDING" /\ status # "CANCELLED")
  BY <1>2 DEF Settle, Settles, Terminal
<1>3. ASSUME NEW p \in Routers, Advance(p)
      PROVE  /\ started' = started
             /\ status' = status \/ (status' # "PENDING" /\ status # "CANCELLED")
  BY <1>2, <1>3 DEF Advance, Proceeds, chain, Status
<1>4. ASSUME NEW p \in Routers, FailChain(p)
      PROVE  /\ started' = started
             /\ status' = status \/ (status' # "PENDING" /\ status # "CANCELLED")
  BY <1>2, <1>4 DEF FailChain, Status
<1>5. ASSUME NEW o \in Operators, Resume(o) \/ Approve(o) \/ Reject(o) \/ Cancel(o)
      PROVE  /\ started' = started
             /\ status' = status \/ (status' # "PENDING" /\ status # "CANCELLED")
  BY <1>5 DEF Resume, Approve, Reject, Cancel, CanMove, ValidTransitions, Cancellable
<1>6. CASE RunChain
  BY <1>1, <1>6 DEF RunChain
<1>7. CASE ~RunChain
  <2>1. started' = started
        /\ (status' = status \/ (status' # "PENDING" /\ status # "CANCELLED"))
    BY <1>3, <1>4, <1>5, <1>7
       DEF Next, RouterStep, Resolve, Replay, Route, Handle, DispatchHook, MarkRouted,
           Crash, Look, Requeue, vars, chain
  <2> QED
    BY <1>1, <1>7, <2>1
<1> QED
  BY <1>6, <1>7

LEMMA StepStart ==
  ASSUME ChainAssumption, ~Shared, BaseInv, StartOK, [Next]_vars
  PROVE  StartOK'
<1>1. CASE started
  BY <1>1, StepStatus DEF StartOK
<1>2. CASE ~started
  <2>1. CASE RunChain
    BY <1>2, <2>1, StepStatus DEF StartOK, RunChain
  <2>2. CASE UNCHANGED vars
    BY <1>2, <2>2 DEF StartOK, vars, chain, history, Exists
  <2> QED
    BY <1>2, <2>1, <2>2, NothingBefore
<1> QED
  BY <1>1, <1>2

LEMMA AlwaysStart ==
  ASSUME ChainAssumption, ~Shared PROVE Spec => [](BaseInv /\ StartOK)
<1>1. Init => StartOK
  BY DEF Init, StartOK, Exists, NoTask, Idle
<1>2. Init => BaseInv
  BY InitBase
<1>3. BaseInv /\ StartOK /\ [Next]_vars => BaseInv' /\ StartOK'
  BY StepBase, StepStart
<1> QED
  BY <1>1, <1>2, <1>3, PTL DEF Spec

LEMMA CancelledStays ==
  ASSUME ChainAssumption, ~Shared, BaseInv, StartOK, [Next]_vars, status = "CANCELLED"
  PROVE  status' = "CANCELLED" /\ bound' = bound
<1>1. ~RunChain
  BY DEF StartOK, RunChain
<1>2. status' = "CANCELLED"
  BY <1>1, StepStatus
<1>3. ASSUME NEW p \in Routers, Advance(p) PROVE bound' = bound
  BY <1>3 DEF Advance, Proceeds, chain
<1>4. ASSUME NEW o \in Operators, Resume(o) \/ Approve(o) PROVE bound' = bound
  BY <1>4 DEF Resume, Approve, CanMove, ValidTransitions
<1>5. bound' = bound
  BY <1>1, <1>3, <1>4
     DEF Next, RouterStep, Resolve, Replay, Route, Handle, FailChain, DispatchHook,
         MarkRouted, Crash, Look, Reject, Cancel, Requeue, vars, chain
<1> QED
  BY <1>2, <1>5

(* A chain that only its builder can reach before run() stays cancelled    *)
(* once it is, and nothing is queued for it, whatever routers, operators   *)
(* and requeues still do (BaseWorkflow.cancel).                            *)
THEOREM CancelStands ==
  ASSUME ChainAssumption, ~Shared PROVE Spec => CancelledIsFinal
<1>1. BaseInv /\ StartOK /\ [Next]_vars
        => [status = "CANCELLED" => status' = "CANCELLED" /\ bound' = bound]_vars
  BY CancelledStays
<1> QED
  BY <1>1, AlwaysStart, PTL DEF Spec, CancelledIsFinal
-----------------------------------------------------------------------------
(* One operator.                                                           *)

(* What an operator holds changes by their own steps only.                 *)
LEMMA OperatorMoves ==
  ASSUME ChainAssumption, BaseInv, [Next]_vars, NEW o \in Operators
  PROVE  \/ proc'[o] = proc[o]
         \/ proc'[o].pc = "idle"
         \/ /\ Look(o)
            /\ \/ status = "FAILED" /\ proc'[o].pc = "failed"
               \/ status = "WAITING_APPROVAL" /\ proc'[o].pc = "parked"
<1>0. /\ proc \in [Proc -> ProcRow] /\ o \in Proc /\ o \notin Routers
      /\ Routers \subseteq Proc /\ Operators \subseteq Proc
      /\ Monitors \subseteq Routers /\ Reapers \subseteq Routers
  BY TypesOfRows DEF BaseInv, Proc, Routers, ChainAssumption
<1>1. ASSUME NEW p \in Routers, NEW x, proc' = [proc EXCEPT ![p] = x]
      PROVE  proc'[o] = proc[o]
  BY <1>0, <1>1
<1>2. ASSUME NEW p \in Routers, NEW pc, MoveTo(p, pc) PROVE proc'[o] = proc[o]
  BY <1>0, <1>2 DEF MoveTo
<1>3. ASSUME NEW p \in Routers, NEW st, Settle(p, st) PROVE proc'[o] = proc[o]
  BY <1>0, <1>2, <1>3 DEF Settle
<1>4. ASSUME NEW p \in Routers, RouterStep(p) \/ Crash(p) PROVE proc'[o] = proc[o]
  BY <1>1, <1>2, <1>3, <1>4
     DEF RouterStep, Route, Handle, Advance, FailChain, DispatchHook, MarkRouted, Crash,
         Release
<1>5. ASSUME NEW m \in Monitors, NEW t \in Task, NEW out \in {"ok", "fail"},
             Resolve(m, t, out)
      PROVE  proc'[o] = proc[o]
  BY <1>0, <1>1, <1>5 DEF Resolve
<1>6. ASSUME NEW r \in Reapers, NEW t \in Task, NEW n \in Run, Replay(r, t, n)
      PROVE  proc'[o] = proc[o]
  BY <1>0, <1>1, <1>6 DEF Replay
<1>7. ASSUME NEW q \in Operators, Release(q)
      PROVE  proc'[o] = proc[o] \/ proc'[o].pc = "idle"
  BY <1>0, <1>7, IdleRow DEF Release
<1>8. ASSUME NEW q \in Operators, Look(q)
      PROVE  \/ proc'[o] = proc[o]
             \/ /\ Look(o)
                /\ \/ status = "FAILED" /\ proc'[o].pc = "failed"
                   \/ status = "WAITING_APPROVAL" /\ proc'[o].pc = "parked"
  BY <1>0, <1>8 DEF Look, MoveTo, ProcRow
<1>9. CASE \E q \in Operators : Look(q) \/ Resume(q) \/ Approve(q) \/ Reject(q) \/ Cancel(q)
  BY <1>7, <1>8, <1>9 DEF Resume, Approve, Reject, Cancel
<1>10. CASE RunChain \/ (\E t \in Task : Requeue(t)) \/ UNCHANGED vars
  BY <1>10 DEF RunChain, Requeue, vars
<1> QED
  BY <1>4, <1>5, <1>6, <1>9, <1>10 DEF Next

LEMMA OperatorIsDone ==
  ASSUME ChainAssumption, BaseInv, NEW o \in Operators, Resume(o) \/ Approve(o) \/ Reject(o)
  PROVE  proc'[o].pc = "idle"
BY TypesOfRows, IdleRow DEF BaseInv, Resume, Approve, Reject, Release, Proc

LEMMA LeavesFailed ==
  ASSUME ChainAssumption, BaseInv, StartOK, [Next]_vars, status = "FAILED", status' # "FAILED"
  PROVE  \E o \in Operators : Resume(o) \/ Approve(o)
<1>1. ~RunChain
  BY DEF RunChain, StartOK
<1>2. ASSUME NEW p \in Routers, NEW st, Settle(p, st) PROVE FALSE
  BY <1>2 DEF Settle, Settles, Terminal
<1>3. ASSUME NEW p \in Routers, Advance(p) \/ FailChain(p) PROVE FALSE
  BY <1>2, <1>3 DEF Advance, FailChain, CanMove, ValidTransitions, chain
<1>4. ASSUME NEW o \in Operators, Reject(o) \/ Cancel(o) PROVE FALSE
  BY <1>4 DEF Reject, Cancel, CanMove, ValidTransitions, Cancellable
<1> QED
  BY <1>1, <1>3, <1>4
     DEF Next, RouterStep, Resolve, Replay, Route, Handle, DispatchHook, MarkRouted,
         Crash, Look, Requeue, vars, chain

(* Why the chain is parked after a step.                                   *)
LEMMA BecomesParked ==
  ASSUME ChainAssumption, BaseInv, [Next]_vars, status' = "WAITING_APPROVAL"
  PROVE  \/ status = "WAITING_APPROVAL"
         \/ UNCHANGED <<task, bound>> /\ RunChain
         \/ UNCHANGED <<task, bound>> /\ \E p \in Routers : Advance(p) /\ Passes(p)
<1>1. ASSUME NEW p \in Routers, NEW st \in {"SUCCEEDED", "FAILED"}, Settle(p, st)
      PROVE  status' \in {status, st}
  BY <1>1 DEF Settle
<1>2. ASSUME NEW p \in Routers, Advance(p), status # "WAITING_APPROVAL"
      PROVE  UNCHANGED <<task, bound>> /\ Passes(p)
  <2>1. index' = StepOf(p) + 1 /\ index = StepOf(p) /\ UNCHANGED <<task, bound>>
    BY <1>1, <1>2 DEF Advance, AtIndex, chain
  <2>2. index' # index
    BY <2>1, TypesOfRows DEF BaseInv, Step
  <2> QED
    BY <1>2, <2>1, <2>2, PassesIfMoves
<1>3. ASSUME NEW p \in Routers, FailChain(p) PROVE status = "WAITING_APPROVAL"
  BY <1>1, <1>3 DEF FailChain
<1>4. CASE RunChain
  BY <1>4 DEF RunChain
<1> QED
  BY <1>2, <1>3, <1>4
     DEF Next, RouterStep, Resolve, Replay, Route, Handle, DispatchHook, MarkRouted,
         Crash, Look, Resume, Approve, Reject, Cancel, Requeue, vars, chain

(* A new task is the first of its generation for its step.                 *)
LEMMA QueuesFresh ==
  ASSUME ChainAssumption, OrderInv, [Next]_vars, NEW s \in Step, Queuing(s),
         NEW u \in Task, Exists(u), task[u].step = s
  PROVE  task[u].gen # gen'
<1>0. /\ task[u].step <= index /\ task[u].gen <= gen /\ gen \in 0..MaxResumes
      /\ index \in Step /\ task[u].gen \in 0..MaxResumes
  BY TypesOfRows DEF OrderInv, BaseInv, Progress, TaskRow
<1>1. CASE RunChain
  BY <1>1 DEF OrderInv, StartOK, RunChain
<1>2. CASE \E p \in Routers : Passes(p) /\ s = index'
  BY <1>0, <1>2 DEF Passes, Step
<1>3. CASE \E o \in Operators : Resume(o) /\ CanMove("RUNNING")
  <2>1. gen' = gen + 1
    BY <1>3 DEF Resume
  <2> QED
    BY <1>0, <2>1
<1>4. CASE \E o \in Operators : Approve(o) /\ s = index
  BY <1>4 DEF Approve, OrderInv, GateOK, Queued
<1> QED
  BY <1>1, <1>2, <1>3, <1>4 DEF Queuing

LEMMA StepQueuedOnce ==
  ASSUME ChainAssumption, OrderInv, [Next]_vars
  PROVE  QueuedOnce'
<1>0. BaseInv /\ TypeOK
  BY DEF OrderInv, BaseInv
<1>1. CASE NoNewTask
  BY <1>1 DEF NoNewTask, OrderInv, QueuedOnce, Exists
<1>2. ASSUME NEW s \in Step, NEW t \in Task, NewTaskFor(t, s), Queuing(s)
      PROVE  QueuedOnce'
  <2>1. ~Exists(t) /\ \A u \in Task \ {t} : task'[u] = task[u]
    BY <1>0, <1>2, AfterQueuing
  <2>2. task'[t].step = s /\ task'[t].gen = gen'
    BY <1>2, NewRow DEF NewTaskFor
  <2>3. ASSUME NEW u \in Task \ {t}, task'[u].step = s, task'[u].gen = gen'
        PROVE  FALSE
    <3>1. Exists(u) /\ task[u].step = s /\ task[u].gen = gen'
      BY <2>1, <2>3 DEF Exists, Step
    <3> QED
      BY <1>2, <3>1, QueuesFresh
  <2>4. ASSUME NEW u \in Task, NEW z \in Task, Exists(u)', task'[u].step = task'[z].step,
               task'[u].gen = task'[z].gen
        PROVE  u = z
    <3>1. CASE u # t /\ z # t
      BY <2>1, <2>4, <3>1 DEF OrderInv, QueuedOnce, Exists
    <3>2. CASE u = t \/ z = t
      BY <2>2, <2>3, <2>4, <3>2
    <3> QED
      BY <3>1, <3>2
  <2> QED
    BY <2>4 DEF QueuedOnce
<1> QED
  BY <1>0, <1>1, <1>2, StepQueues

(* A step that is not queued is not queued by routers.                     *)
LEMMA NotOvertaken ==
  ASSUME ChainAssumption, BaseInv, [Next]_vars, started, ~Queued(index),
         \A o \in Operators : ~((Resume(o) \/ Approve(o)) /\ CanMove("RUNNING"))
  PROVE  index' = index /\ ~Queued(index)'
<1>0. TypeOK /\ index \in Step
  BY DEF BaseInv, TypeOK
<1>1. ASSUME NEW p \in Routers, Passes(p) PROVE FALSE
  <2>1. proc[p].task \in Task /\ task[proc[p].task].step = index
    BY <1>1, PassesFrom, AtWork DEF Passes, StepOf
  <2> QED
    BY <2>1 DEF Queued
<1>2. index' = index
  BY <1>1, StepIndex
<1>3. NoNewTask
  BY <1>1, StepQueues DEF Queuing, RunChain
<1> QED
  BY <1>2, <1>3 DEF NoNewTask, Queued

LEMMA StepGate ==
  ASSUME ChainAssumption, OneOperator, OrderInv, [Next]_vars
  PROVE  GateOK'
<1>0. /\ BaseInv /\ StartOK /\ GateOK /\ index \in Step
      /\ \A t \in Task : Exists(t) => task[t].step <= index /\ task[t].step \in Step
  BY TypesOfRows DEF OrderInv, BaseInv, Progress, TasksOK
<1>1. ASSUME status' = "WAITING_APPROVAL" PROVE ~Queued(index)'
  <2>1. CASE status = "WAITING_APPROVAL"
    <3>1. started /\ ~Queued(index)
      BY <1>0, <2>1 DEF StartOK, GateOK
    <3>2. \A o \in Operators : ~((Resume(o) \/ Approve(o)) /\ CanMove("RUNNING"))
      BY <1>1 DEF Resume, Approve
    <3> QED
      BY <1>0, <3>1, <3>2, NotOvertaken
  <2>2. CASE UNCHANGED task /\ RunChain
    <3>1. \A t \in Task : task[t].step = -1
      BY <1>0, <2>2 DEF StartOK, RunChain, Exists
    <3> QED
      BY <1>0, <2>2, <3>1 DEF RunChain, Queued, Step
  <2>3. CASE UNCHANGED task /\ \E p \in Routers : Passes(p)
    <3>1. index' = index + 1
      BY <2>3 DEF Passes
    <3>2. \A t \in Task : task[t].step # index + 1
      BY <1>0 DEF Exists, Step
    <3> QED
      BY <2>3, <3>1, <3>2 DEF Queued
  <2> QED
    BY <1>0, <1>1, <2>1, <2>2, <2>3, BecomesParked
<1>2. ASSUME NEW o \in Operators, proc'[o].pc \in {"parked", "failed"}
      PROVE  ~\E q \in Operators : Resume(q) \/ Approve(q)
  BY <1>0, <1>2, OperatorIsDone DEF OneOperator
<1>3. ASSUME NEW o \in Operators, proc'[o].pc = "parked" PROVE ~Queued(index)'
  <2>1. proc[o].pc = "parked" \/ (Look(o) /\ status = "WAITING_APPROVAL")
    BY <1>0, <1>3, OperatorMoves
  <2>2. ~Queued(index)
    BY <1>0, <2>1 DEF GateOK
  <2>3. started
    BY <1>0, <2>1 DEF StartOK, Proc
  <2> QED
    BY <1>0, <1>2, <1>3, <2>2, <2>3, NotOvertaken
<1>4. ASSUME NEW o \in Operators, proc'[o].pc = "failed" PROVE status' = "FAILED"
  <2>1. status = "FAILED"
    BY <1>0, <1>4, OperatorMoves DEF GateOK
  <2> QED
    BY <1>0, <1>2, <1>4, <2>1, LeavesFailed
<1> QED
  BY <1>1, <1>3, <1>4 DEF GateOK

LEMMA StepOrder ==
  ASSUME ChainAssumption, ~Shared, OneOperator, OrderInv, [Next]_vars PROVE OrderInv'
BY StepBase, StepStart, StepGate, StepQueuedOnce DEF OrderInv

LEMMA InitOrder ==
  ASSUME ChainAssumption, Init PROVE OrderInv
<1>1. StartOK /\ (\A t \in Task : task[t].step = -1) /\ \A p \in Proc : proc[p].pc = "idle"
  BY DEF Init, StartOK, Exists, NoTask, Idle
<1>2. GateOK
  BY <1>1 DEF Init, GateOK, Proc
<1>3. QueuedOnce
  BY <1>1 DEF QueuedOnce, Exists
<1> QED
  BY <1>1, <1>2, <1>3, InitBase DEF OrderInv

(* When one person looks after the chain, no step of a generation is       *)
(* queued twice: its predecessor's completion may be delivered and         *)
(* replayed at once, or again after a crash, an approval or a requeue.     *)
THEOREM StepsAreQueuedOnce ==
  ASSUME ChainAssumption, ~Shared, OneOperator PROVE Spec => []QueuedOnce
<1>1. Init => OrderInv
  BY InitOrder
<1>2. OrderInv /\ [Next]_vars => OrderInv'
  BY StepOrder
<1>3. OrderInv => QueuedOnce
  BY DEF OrderInv
<1> QED
  BY <1>1, <1>2, <1>3, PTL DEF Spec
-----------------------------------------------------------------------------
(* Operators who wait for routers.                                         *)

LEMMA Parts ==
  ASSUME CarefulInv
  PROVE  /\ BaseInv /\ StartOK /\ GateOK /\ TypeOK /\ TasksOK
         /\ SettledMeansOver /\ StillParked /\ BoundOK /\ FreshReads /\ AwaitedOK
         /\ Opened /\ HooksOK /\ OneHookPerGeneration
         /\ status = "SUCCEEDED" => index = LastStep
BY DEF CarefulInv, OrderInv, BaseInv

(* A task is dead or has won.                                              *)
LEMMA DeadHasNotWon ==
  ASSUME ChainAssumption, TasksOK, NEW t \in Task, Dead(t) PROVE ~Won(t)
<1>1. /\ Newest(t) \in Run /\ Last(task[t], Newest(t)) /\ task[t].out[Newest(t)] = "fail"
      /\ \A q \in Run : q < Newest(t) => task[t].out[q] = "fail"
  BY NewestOf DEF Dead
<1>2. \A q \in Run : q <= Newest(t) \/ task[t].out[q] = "none"
  BY <1>1 DEF Last
<1>3. \A q \in Run : q < Newest(t) \/ q = Newest(t) \/ task[t].out[q] = "none"
  BY <1>1, <1>2 DEF Run
<1> QED
  BY <1>1, <1>3 DEF Won

(* A router that is to fail the chain is at work on its current step, and  *)
(* one that is to advance it at its current step finds it not parked.      *)
LEMMA FailsCurrent ==
  ASSUME ChainAssumption, CarefulInv, NEW p \in Routers, proc[p].pc = "fail"
  PROVE  /\ StepOf(p) = index /\ bound[index] = proc[p].task
         /\ status \notin {"WAITING_APPROVAL", "PENDING"}
<1>1. /\ proc[p].task \in Task /\ StepOf(p) \in Step /\ Exists(proc[p].task)
      /\ Dead(proc[p].task) /\ bound[StepOf(p)] = proc[p].task /\ index \in Step
  BY AtWork, Parts, TypesOfRows DEF FreshReads, IsBound, IsExhausted
<1>2. ~Won(proc[p].task)
  BY <1>1, DeadHasNotWon, Parts
<1>3. ~(StepOf(p) < index)
  BY <1>1, <1>2, Parts DEF BoundOK
<1>4. StepOf(p) <= index
  BY <1>1, Parts DEF BaseInv, Progress, StepOf
<1>5. StepOf(p) = index
  BY <1>1, <1>3, <1>4 DEF Step
<1>6. Queued(index)
  BY <1>1, <1>5 DEF Queued, StepOf
<1>7. status # "PENDING"
  BY Parts DEF StartOK, Proc
<1> QED
  BY <1>1, <1>5, <1>6, <1>7, Parts DEF GateOK

LEMMA AdvancesCurrent ==
  ASSUME ChainAssumption, CarefulInv, NEW p \in Routers, proc[p].pc = "advance", AtIndex(p)
  PROVE  /\ StepOf(p) = index /\ bound[index] = proc[p].task /\ Outcome(p) = "ok"
         /\ Won(proc[p].task) /\ status \notin {"WAITING_APPROVAL", "PENDING"}
<1>1. /\ proc[p].task \in Task /\ proc[p].run \in Run /\ StepOf(p) = index
      /\ Outcome(p) = "ok" /\ bound[StepOf(p)] = proc[p].task
  BY AtWork, Parts DEF FreshReads, IsBound, AtIndex
<1>2. Queued(index) /\ Won(proc[p].task)
  BY <1>1 DEF Queued, StepOf, Won, Outcome
<1>3. status # "PENDING"
  BY Parts DEF StartOK, Proc
<1> QED
  BY <1>1, <1>2, <1>3, Parts DEF GateOK

(* What a step is for the chain: nothing, the end of a generation, the     *)
(* next step, a cancel, a resume or an approval; or RunChain or            *)
(* DispatchHook.                                                           *)
Still == UNCHANGED <<chain, rows, history>>

Closes(p, st) ==
  /\ proc[p].pc \in {"advance", "fail"}
  /\ StepOf(p) = index /\ bound[index] = proc[p].task
  /\ status = "RUNNING" /\ ~settled
  /\ status' = st /\ settled' = TRUE
  /\ proc' = [proc EXCEPT ![p].pc = "hook", ![p].gen = gen]
  /\ st = "SUCCEEDED" => Outcome(p) = "ok" /\ index = LastStep
  /\ st = "FAILED" => Outcome(p) = "fail" /\ Dead(proc[p].task)
  /\ UNCHANGED <<index, started, bound, task, rows, history>>

GoesOn(p) ==
  /\ Advance(p) /\ Passes(p) /\ MoveTo(p, "mark")
  /\ StepOf(p) = index /\ bound[index] = proc[p].task /\ Won(proc[p].task)
  /\ status \in {"RUNNING", "FAILED"}
  /\ \/ /\ status = "RUNNING" /\ status' = "WAITING_APPROVAL"
        /\ UNCHANGED <<task, bound>> /\ index' \in Gated
     \/ /\ status' = status /\ Queue(index') /\ index' \notin Gated

CallsOff(o) ==
  /\ status \in Cancellable /\ ~settled
  /\ status' = "CANCELLED" /\ settled' = TRUE
  /\ Fire("cancelled", gen)
  /\ UNCHANGED <<index, started, bound, task, gen, approved>>
  /\ proc'[o].pc = "idle" /\ \A p \in Routers : proc'[p] = proc[p]

Revives(o) ==
  /\ Resume(o) /\ Quiet /\ status = "FAILED" /\ status' = "RUNNING"
  /\ gen' = gen + 1 /\ rows' = {} /\ ~settled' /\ Queue(index)

OpensGate(o) ==
  /\ Approve(o) /\ Quiet /\ status = "WAITING_APPROVAL" /\ status' = "RUNNING"
  /\ approved' = approved \cup {index} /\ Queue(index)

LEMMA SettleCloses ==
  ASSUME ChainAssumption, CarefulInv, NEW p \in Routers,
         NEW st \in {"SUCCEEDED", "FAILED"}, Settle(p, st),
         proc[p].pc \in {"advance", "fail"}, StepOf(p) = index, bound[index] = proc[p].task,
         status \notin {"WAITING_APPROVAL", "PENDING"},
         st = "SUCCEEDED" => Outcome(p) = "ok" /\ index = LastStep,
         st = "FAILED" => Outcome(p) = "fail" /\ Dead(proc[p].task),
         UNCHANGED <<index, started, bound, task, rows, history>>
  PROVE  Closes(p, st) \/ Still
<1>1. CASE Settles
  <2>1. status = "RUNNING"
    BY <1>1, Parts DEF Settles, Terminal, TypeOK, Status
  <2>2. /\ status' = st /\ settled' = TRUE
        /\ proc' = [proc EXCEPT ![p].pc = "hook", ![p].gen = gen]
    BY <1>1 DEF Settle
  <2> QED
    BY <1>1, <2>1, <2>2 DEF Settles, Closes
<1>2. CASE ~Settles
  BY <1>2 DEF Settle, Still, chain
<1> QED
  BY <1>1, <1>2

LEMMA AdvanceKind ==
  ASSUME ChainAssumption, CarefulInv, NEW p \in Routers, Advance(p)
  PROVE  Still \/ Closes(p, "SUCCEEDED") \/ GoesOn(p)
<1>0. proc[p].pc = "advance" /\ UNCHANGED <<rows, history>>
  BY DEF Advance
<1>1. CASE UNCHANGED chain
  BY <1>0, <1>1 DEF Still
<1>2. CASE ~UNCHANGED chain
  <2>1. Proceeds /\ AtIndex(p)
    BY <1>2 DEF Advance
  <2>2. /\ StepOf(p) = index /\ bound[index] = proc[p].task /\ Outcome(p) = "ok"
        /\ Won(proc[p].task) /\ status \notin {"WAITING_APPROVAL", "PENDING"}
    BY <1>0, <2>1, AdvancesCurrent
  <2>3. index \in Step /\ status \in Status
    BY Parts DEF TypeOK
  <2>4. CASE ~HasNext(p)
    <3>1. Settle(p, "SUCCEEDED") /\ UNCHANGED <<index, started, bound, task>>
      BY <1>2, <2>1, <2>4 DEF Advance
    <3>2. index = LastStep
      BY <2>2, <2>3, <2>4 DEF HasNext, Step, ChainAssumption
    <3> QED
      BY <1>0, <2>2, <3>1, <3>2, SettleCloses
  <2>5. CASE HasNext(p)
    <3>1. /\ MoveTo(p, "mark") /\ index' = StepOf(p) + 1
          /\ \/ /\ CanMove("WAITING_APPROVAL") /\ status' = "WAITING_APPROVAL"
                /\ UNCHANGED <<task, bound>> /\ StepOf(p) + 1 \in Gated
             \/ status' = status /\ Queue(StepOf(p) + 1) /\ StepOf(p) + 1 \notin Gated
      BY <1>2, <2>1, <2>5 DEF Advance, NeedsApproval
    <3>2. index' # index
      BY <2>2, <2>3, <3>1 DEF Step
    <3>3. Passes(p)
      BY <3>2, PassesIfMoves, Parts
    <3>4. status \in {"RUNNING", "FAILED"}
      <4>1. status # "SUCCEEDED"
        BY <2>2, <2>3, <2>5, Parts DEF HasNext, Step, ChainAssumption
      <4> QED
        BY <2>1, <2>2, <2>3, <4>1 DEF Proceeds, Status
    <3>5. CanMove("WAITING_APPROVAL") => status = "RUNNING"
      BY DEF CanMove, ValidTransitions
    <3>6. PICK s \in Step : s = StepOf(p) + 1
      BY <1>0, <2>5, NextStep, Parts
    <3> QED
      BY <2>2, <3>1, <3>3, <3>4, <3>5, <3>6 DEF GoesOn
  <2> QED
    BY <2>4, <2>5
<1> QED
  BY <1>1, <1>2

LEMMA FailKind ==
  ASSUME ChainAssumption, CarefulInv, NEW p \in Routers, FailChain(p)
  PROVE  Still \/ Closes(p, "FAILED")
<1>1. proc[p].pc = "fail" /\ UNCHANGED <<index, started, bound, task, rows, history>>
  BY DEF FailChain
<1>2. /\ StepOf(p) = index /\ bound[index] = proc[p].task
      /\ status \notin {"WAITING_APPROVAL", "PENDING"}
  BY <1>1, FailsCurrent
<1>3. Outcome(p) = "fail" /\ Dead(proc[p].task)
  BY <1>1, AtWork, Parts DEF FreshReads, IsExhausted
<1>4. CASE Settle(p, "FAILED")
  BY <1>1, <1>2, <1>3, <1>4, SettleCloses
<1>5. CASE UNCHANGED <<status, settled>>
  BY <1>1, <1>5 DEF Still, chain
<1> QED
  BY <1>4, <1>5 DEF FailChain

LEMMA OperatorKind ==
  ASSUME ChainAssumption, Careful, CarefulInv, NEW o \in Operators,
         Look(o) \/ Resume(o) \/ Approve(o) \/ Reject(o) \/ Cancel(o)
  PROVE  Still \/ CallsOff(o) \/ Revives(o) \/ OpensGate(o)
<1>0. /\ o \in Proc /\ o \notin Routers /\ Routers \subseteq Proc
      /\ settled <=> status \in Terminal
  BY Parts DEF Proc, ChainAssumption, SettledMeansOver
<1>1. ASSUME Release(o) PROVE \A p \in Routers : proc'[p] = proc[p]
  BY <1>0, <1>1, TypesOfRows, Parts DEF Release
<1>2. CASE Look(o)
  BY <1>2 DEF Look, Still
<1>3. CASE Resume(o)
  <2>1. status = "FAILED" /\ Quiet
    BY <1>3, Parts DEF Resume, GateOK, MayAct, Careful
  <2>2. CanMove("RUNNING")
    BY <2>1 DEF CanMove, ValidTransitions
  <2> QED
    BY <1>3, <2>1, <2>2 DEF Resume, Revives, SettledOnceResumed
<1>4. CASE Approve(o)
  <2>1. status = "WAITING_APPROVAL" /\ Quiet
    BY <1>4, Parts DEF Approve, StillParked, MayAct, Careful
  <2>2. CanMove("RUNNING")
    BY <2>1 DEF CanMove, ValidTransitions
  <2> QED
    BY <1>4, <2>1, <2>2 DEF Approve, OpensGate
<1>5. CASE Reject(o)
  <2>1. status = "WAITING_APPROVAL" /\ CanMove("CANCELLED")
    BY <1>5, Parts DEF Reject, StillParked, CanMove, ValidTransitions
  <2>2. status \in Cancellable /\ ~settled
    BY <1>0, <2>1 DEF Cancellable, Terminal
  <2> QED
    BY <1>1, <1>5, <2>1, <2>2, OperatorIsDone, Parts DEF Reject, CallsOff
<1>6. CASE Cancel(o)
  BY <1>6 DEF Cancel, CallsOff
<1> QED
  BY <1>2, <1>3, <1>4, <1>5, <1>6

LEMMA StepKinds ==
  ASSUME ChainAssumption, Careful, CarefulInv, [Next]_vars
  PROVE  \/ Still \/ RunChain
         \/ \E p \in Routers : \/ Closes(p, "SUCCEEDED") \/ Closes(p, "FAILED")
                               \/ GoesOn(p) \/ DispatchHook(p)
         \/ \E o \in Operators : CallsOff(o) \/ Revives(o) \/ OpensGate(o)
<1>1. CASE \/ \E m \in Monitors, t \in Task, out \in {"ok", "fail"} : Resolve(m, t, out)
           \/ \E r \in Reapers, t \in Task, n \in Run : Replay(r, t, n)
           \/ \E p \in Routers : Route(p) \/ Handle(p) \/ MarkRouted(p) \/ Crash(p)
           \/ \E t \in Task : Requeue(t)
           \/ UNCHANGED vars
  BY <1>1 DEF Resolve, Replay, Route, Handle, MarkRouted, Crash, Requeue, vars, Still
<1> QED
  BY <1>1, AdvanceKind, FailKind, OperatorKind DEF Next, RouterStep

LEMMA StepSettled ==
  ASSUME ChainAssumption, Careful, CarefulInv, [Next]_vars
  PROVE  SettledMeansOver' /\ (status' = "SUCCEEDED" => index' = LastStep)
<1>0. /\ settled <=> status \in Terminal
      /\ status = "SUCCEEDED" => index = LastStep
      /\ ~started => status = "PENDING"
  BY Parts DEF SettledMeansOver, StartOK
<1>1. CASE Still
  BY <1>0, <1>1 DEF Still, chain, SettledMeansOver
<1>2. CASE RunChain
  BY <1>0, <1>2 DEF RunChain, SettledMeansOver, Terminal
<1>3. ASSUME NEW p \in Routers, Closes(p, "SUCCEEDED") \/ Closes(p, "FAILED")
      PROVE  SettledMeansOver' /\ (status' = "SUCCEEDED" => index' = LastStep)
  BY <1>3 DEF Closes, SettledMeansOver, Terminal
<1>4. ASSUME NEW p \in Routers, GoesOn(p)
      PROVE  SettledMeansOver' /\ (status' = "SUCCEEDED" => index' = LastStep)
  BY <1>0, <1>4 DEF GoesOn, Passes, SettledMeansOver, Terminal
<1>5. ASSUME NEW p \in Routers, DispatchHook(p)
      PROVE  SettledMeansOver' /\ (status' = "SUCCEEDED" => index' = LastStep)
  BY <1>0, <1>5 DEF DispatchHook, chain, SettledMeansOver
<1>6. ASSUME NEW o \in Operators, CallsOff(o) \/ Revives(o)
      PROVE  SettledMeansOver' /\ (status' = "SUCCEEDED" => index' = LastStep)
  BY <1>6 DEF CallsOff, Revives, SettledMeansOver, Terminal
<1>7. ASSUME NEW o \in Operators, OpensGate(o)
      PROVE  SettledMeansOver' /\ (status' = "SUCCEEDED" => index' = LastStep)
  BY <1>0, <1>7 DEF OpensGate, Approve, SettledMeansOver, Terminal
<1> QED
  BY <1>1, <1>2, <1>3, <1>4, <1>5, <1>6, <1>7, StepKinds

LEMMA StepParked ==
  ASSUME ChainAssumption, Careful, CarefulInv, [Next]_vars
  PROVE  StillParked'
<1> SUFFICES ASSUME NEW o \in Operators, proc'[o].pc = "parked"
             PROVE  status' = "WAITING_APPROVAL"
  BY DEF StillParked
<1>1. CASE Look(o)
  BY <1>1, OperatorMoves, Parts DEF Look, chain
<1>2. CASE ~Look(o)
  <2>1. proc[o].pc = "parked" /\ status = "WAITING_APPROVAL"
    BY <1>2, OperatorMoves, Parts DEF StillParked
  <2>2. ~RunChain
    BY <2>1, Parts DEF RunChain, StartOK
  <2>3. ~\E q \in Operators : CallsOff(q) \/ Revives(q) \/ OpensGate(q)
    BY OperatorIsDone, Parts DEF Careful, OneOperator, CallsOff, Revives, OpensGate
  <2> QED
    BY <2>1, <2>2, <2>3, StepKinds DEF Still, chain, Closes, GoesOn, DispatchHook
<1> QED
  BY <1>1, <1>2

(* Only those who open a gate, or find none, bring a chain past it.        *)
LEMMA StepOpened ==
  ASSUME ChainAssumption, Careful, CarefulInv, [Next]_vars
  PROVE  Opened'
<1>0. /\ GateHolds /\ TypeOK /\ index \in Step
      /\ status \in {"RUNNING", "FAILED"} /\ index \in Gated => index \in approved
  BY Parts DEF Opened, TypeOK
<1>1. approved \subseteq approved'
  BY DEF Next, RouterStep, RunChain, Resolve, Replay, Route, Handle, Advance, FailChain,
         DispatchHook, MarkRouted, Crash, Look, Resume, Approve, Reject, Cancel, Requeue,
         vars, history
<1>2. ASSUME NEW s \in Step, Queuing(s), s \in Gated PROVE s \in approved'
  <2>1. CASE \E o \in Operators : Resume(o) /\ s = index
    <3>1. status = "FAILED"
      BY <2>1, Parts DEF Resume, GateOK
    <3>2. index \in approved
      BY <1>0, <1>2, <2>1, <3>1
    <3> QED
      BY <1>1, <2>1, <3>2
  <2>2. CASE \E o \in Operators : Approve(o) /\ CanMove("RUNNING") /\ s = index
    BY <2>2 DEF Approve
  <2> QED
    BY <1>2, <2>1, <2>2 DEF Queuing
<1>3. GateHolds'
  <2>1. CASE NoNewTask
    BY <1>0, <1>1, <2>1 DEF NoNewTask, GateHolds
  <2>2. ASSUME NEW s \in Step, NEW t \in Task, NewTaskFor(t, s), Queuing(s)
        PROVE  GateHolds'
    <3>1. \A u \in Task \ {t} : task'[u] = task[u]
      BY <1>0, <2>2, AfterQueuing
    <3>2. task'[t].step = s
      BY <2>2, NewRow DEF NewTaskFor
    <3>3. s \in Gated => s \in approved'
      BY <1>2, <2>2
    <3> QED
      BY <1>0, <1>1, <3>1, <3>2, <3>3 DEF GateHolds
  <2> QED
    BY <2>1, <2>2, StepQueues, Parts
<1>4. status' \in {"RUNNING", "FAILED"} /\ index' \in Gated => index' \in approved'
  <2>1. CASE Still
    BY <1>0, <2>1 DEF Still, chain, history
  <2>2. CASE RunChain
    BY <2>2, Parts DEF RunChain, NeedsApproval, StartOK
  <2>3. ASSUME NEW p \in Routers,
               Closes(p, "SUCCEEDED") \/ Closes(p, "FAILED") \/ GoesOn(p) \/ DispatchHook(p)
        PROVE  status' \in {"RUNNING", "FAILED"} /\ index' \in Gated => index' \in approved'
    BY <1>0, <2>3 DEF Closes, GoesOn, DispatchHook, history, chain
  <2>4. ASSUME NEW o \in Operators, CallsOff(o) \/ Revives(o) \/ OpensGate(o)
        PROVE  status' \in {"RUNNING", "FAILED"} /\ index' \in Gated => index' \in approved'
    BY <1>0, <2>4 DEF CallsOff, Revives, OpensGate, Resume, Approve
  <2> QED
    BY <2>1, <2>2, <2>3, <2>4, StepKinds
<1> QED
  BY <1>3, <1>4 DEF Opened

(* What a router holds after a step.                                       *)
KeepsTask(p) == proc'[p].task = proc[p].task /\ proc'[p].run = proc[p].run

LEMMA RouterChanges ==
  ASSUME ChainAssumption, BaseInv, [Next]_vars, NEW p \in Routers
  PROVE  \/ proc'[p] = proc[p]
         \/ proc'[p].pc \in {"idle", "route"}
         \/ /\ Route(p) \/ Handle(p) \/ Advance(p) \/ FailChain(p) \/ DispatchHook(p)
            /\ proc[p].pc # "idle" /\ KeepsTask(p)
<1>0. /\ proc \in [Proc -> ProcRow] /\ p \in Proc /\ p \notin Operators
      /\ Routers \subseteq Proc /\ Operators \subseteq Proc /\ proc[p] \in ProcRow
  BY TypesOfRows DEF BaseInv, Proc, ChainAssumption
<1>1. ASSUME NEW q \in Proc \ {p}, NEW x, proc' = [proc EXCEPT ![q] = x]
      PROVE  proc'[p] = proc[p]
  BY <1>0, <1>1
<1>2. ASSUME NEW q \in Proc, Release(q)
      PROVE  proc'[p] = proc[p] \/ proc'[p].pc = "idle"
  BY <1>0, <1>2, IdleRow DEF Release
<1>3. ASSUME NEW q \in Routers, NEW pc, MoveTo(q, pc)
      PROVE  proc'[p] = proc[p] \/ (q = p /\ KeepsTask(p))
  BY <1>0, <1>3 DEF MoveTo, ProcRow, KeepsTask
<1>4. ASSUME NEW q \in Routers, NEW st, Settle(q, st)
      PROVE  proc'[p] = proc[p] \/ (q = p /\ KeepsTask(p))
  <2>1. CASE proc' = [proc EXCEPT ![q].pc = "hook", ![q].gen = gen]
    BY <1>0, <2>1 DEF ProcRow, KeepsTask
  <2> QED
    BY <1>3, <1>4, <2>1 DEF Settle
<1>5. ASSUME NEW q \in Routers, MarkRouted(q) \/ Crash(q)
      PROVE  proc'[p] = proc[p] \/ proc'[p].pc = "idle"
  BY <1>0, <1>2, <1>5 DEF MarkRouted, Crash
<1>6. ASSUME NEW q \in Routers,
             Route(q) \/ Handle(q) \/ FailChain(q) \/ DispatchHook(q)
      PROVE  proc'[p] = proc[p] \/ (q = p /\ KeepsTask(p))
  BY <1>3, <1>4, <1>6 DEF Route, Handle, FailChain, DispatchHook
<1>7. ASSUME NEW q \in Routers, Advance(q)
      PROVE  \/ proc'[p] = proc[p] \/ proc'[p].pc = "idle"
             \/ (q = p /\ KeepsTask(p))
  <2>1. MoveTo(q, "mark") \/ Settle(q, "SUCCEEDED") \/ Release(q)
    BY <1>7 DEF Advance
  <2> QED
    BY <1>0, <1>2, <1>3, <1>4, <2>1
<1>8. CASE \E q \in Routers : RouterStep(q) \/ Crash(q)
  <2>1. PICK q \in Routers : RouterStep(q) \/ Crash(q)
    BY <1>8
  <2>2. ASSUME Route(p) \/ Handle(p) \/ Advance(p) \/ FailChain(p) \/ DispatchHook(p)
        PROVE  proc[p].pc # "idle"
    BY <2>2 DEF Route, Handle, Advance, FailChain, DispatchHook
  <2> QED
    BY <1>5, <1>6, <1>7, <2>1, <2>2 DEF RouterStep
<1>9. ASSUME NEW q \in Proc, NEW t \in Task, NEW r \in Run,
             proc' = [proc EXCEPT ![q] =
                        [Idle EXCEPT !.pc = "route", !.task = t, !.run = r]]
      PROVE  proc'[p] = proc[p] \/ proc'[p].pc = "route"
  <2> DEFINE x == [Idle EXCEPT !.pc = "route", !.task = t, !.run = r]
  <2>1. x.pc = "route"
    BY TakesUp
  <2>2. proc' = [proc EXCEPT ![q] = x]
    BY <1>9
  <2> HIDE DEF x
  <2> QED
    BY <1>0, <2>1, <2>2
<1>10. ASSUME NEW m \in Monitors, NEW t \in Task, NEW out \in {"ok", "fail"},
              Resolve(m, t, out)
       PROVE  proc'[p] = proc[p] \/ proc'[p].pc = "route"
  <2>1. Newest(t) \in Run
    BY <1>10, NewestOf DEF Resolve, Live, BaseInv
  <2>2. PICK r \in Run : r = Newest(t)
    BY <2>1
  <2> QED
    BY <1>9, <1>10, <2>2 DEF Resolve, Proc, Routers
<1>11. ASSUME NEW r \in Reapers, NEW t \in Task, NEW n \in Run, Replay(r, t, n)
       PROVE  proc'[p] = proc[p] \/ proc'[p].pc = "route"
  BY <1>9, <1>11 DEF Replay, Proc, Routers
<1>12. ASSUME NEW o \in Operators,
              Look(o) \/ Resume(o) \/ Approve(o) \/ Reject(o) \/ Cancel(o)
       PROVE  proc'[p] = proc[p]
  BY <1>0, <1>12 DEF Look, MoveTo, Resume, Approve, Reject, Cancel, Release
<1>13. CASE RunChain \/ (\E t \in Task : Requeue(t)) \/ UNCHANGED vars
  BY <1>13 DEF RunChain, Requeue, vars
<1> QED
  BY <1>8, <1>10, <1>11, <1>12, <1>13 DEF Next

LEMMA SameWork ==
  ASSUME ChainAssumption, BaseInv, Grown, NEW p \in Routers, proc[p].pc # "idle", KeepsTask(p)
  PROVE  StepOf(p)' = StepOf(p) /\ Outcome(p)' = Outcome(p)
<1>1. /\ proc[p].task \in Task /\ proc[p].run \in Run /\ Exists(proc[p].task)
      /\ Outcome(p) \in {"ok", "fail"}
  BY AtWork
<1>2. PICK t \in Task, r \in Run : t = proc[p].task /\ r = proc[p].run
  BY <1>1
<1> QED
  BY <1>1, <1>2 DEF Grown, KeepsTask, StepOf, Outcome

(* Nobody routes in a step that lets the chain start, resume or pass a gate. *)
LEMMA NobodyRoutes ==
  ASSUME ChainAssumption, CarefulInv,
         RunChain \/ \E o \in Operators : Revives(o) \/ OpensGate(o)
  PROVE  \A p \in Routers : proc[p].pc = "idle" /\ proc'[p].pc = "idle"
<1>0. /\ proc \in [Proc -> ProcRow] /\ Routers \cap Operators = {}
      /\ Routers \subseteq Proc /\ Operators \subseteq Proc
  BY TypesOfRows, Parts DEF BaseInv, Proc, ChainAssumption
<1>1. CASE RunChain
  BY <1>0, <1>1, Parts DEF RunChain, StartOK
<1>2. ASSUME NEW o \in Operators, Revives(o) \/ OpensGate(o)
      PROVE  \A p \in Routers : proc[p].pc = "idle" /\ proc'[p].pc = "idle"
  BY <1>0, <1>2 DEF Revives, OpensGate, Resume, Approve, Release, Quiet
<1> QED
  BY <1>1, <1>2

(* Bindings after a step.                                                  *)
LEMMA WonKept ==
  ASSUME ChainAssumption, TasksOK, Grown, NEW t \in Task, Won(t) PROVE Won(t)'
<1>1. PICK n \in Run : task[t].out[n] = "ok"
  BY DEF Won
<1>2. Exists(t)
  BY <1>1 DEF TasksOK, NoTask
<1>3. task'[t].out[n] = "ok"
  BY <1>1, <1>2 DEF Grown
<1> QED
  BY <1>3 DEF Won

(* Whoever queues a task for a step is at that step afterwards.            *)
LEMMA QueuedWhere ==
  ASSUME ChainAssumption, CarefulInv, NEW s \in Step, Queuing(s)
  PROVE  s = index'
BY Parts DEF Queuing, RunChain, StartOK

LEMMA BoundStep ==
  ASSUME ChainAssumption, CarefulInv, [Next]_vars
  PROVE  /\ \A s \in Step : bound'[s] # 0 => task'[bound'[s]].step = s
         /\ \A s \in Step : s # index' => bound'[s] = bound[s]
         /\ \A s \in Step : bound[s] # 0 => bound'[s] # 0
         /\ \A s \in Step : bound[s] # 0 => Exists(bound[s])
<1>0. /\ TypeOK /\ BaseInv /\ Grown /\ bound \in [Step -> Task \cup {0}] /\ 0 \notin Task
      /\ \A s \in Step : bound[s] # 0 => task[bound[s]].step = s
  BY Parts, StepGrows, TypesOfRows DEF BoundOK, Task
<1>1. \A s \in Step : bound[s] # 0 => Exists(bound[s])
  BY <1>0 DEF Exists, Step
<1>2. CASE NoNewTask
  <2>1. ASSUME NEW s \in Step, bound[s] # 0 PROVE task'[bound[s]].step = s
    BY <1>0, <1>2, <2>1 DEF NoNewTask
  <2> QED
    BY <1>1, <1>2, <2>1 DEF NoNewTask
<1>3. ASSUME NEW s \in Step, NEW t \in Task, NewTaskFor(t, s), Queuing(s)
      PROVE  /\ \A z \in Step : bound'[z] # 0 => task'[bound'[z]].step = z
             /\ \A z \in Step : z # index' => bound'[z] = bound[z]
             /\ \A z \in Step : bound[z] # 0 => bound'[z] # 0
  <2>1. /\ ~Exists(t) /\ \A u \in Task \ {t} : task'[u] = task[u]
        /\ bound'[s] = t /\ \A z \in Step \ {s} : bound'[z] = bound[z]
    BY <1>0, <1>3, AfterQueuing
  <2>2. task'[t].step = s
    BY <1>3, NewRow DEF NewTaskFor
  <2>3. s = index'
    BY <1>3, QueuedWhere
  <2>4. ASSUME NEW z \in Step \ {s}, bound[z] # 0 PROVE task'[bound[z]].step = z
    BY <1>0, <1>1, <2>1, <2>4
  <2> QED
    BY <1>0, <2>1, <2>2, <2>3, <2>4
<1> QED
  BY <1>0, <1>1, <1>2, <1>3, StepQueues

LEMMA StepBound ==
  ASSUME ChainAssumption, Careful, CarefulInv, [Next]_vars
  PROVE  BoundOK'
<1>0. /\ TypeOK /\ BaseInv /\ Grown /\ index \in Step /\ index' \in Step /\ TasksOK
      /\ bound \in [Step -> Task \cup {0}] /\ 0 \notin Task
  BY Parts, StepGrows, StepTypes, TypesOfRows DEF ChainTypes, Task
<1>1. ASSUME NEW s \in Step, s < index' 
      PROVE  bound'[s] # 0 /\ \E n \in Run : task'[bound'[s]].out[n] = "ok"
  <2>1. bound[s] # 0 /\ Won(bound[s])
    <3>1. CASE s < index
      BY <3>1, Parts DEF BoundOK
    <3>2. CASE ~(s < index)
      <4>1. index' # index
        BY <1>1, <3>2
      <4>2. PICK p \in Routers : Advance(p) /\ Passes(p)
        BY <1>0, <4>1, StepIndex
      <4>3. index' = index + 1 /\ proc[p].pc = "advance" /\ AtIndex(p)
        BY <4>2 DEF Passes
      <4>4. s = index
        BY <1>0, <1>1, <3>2, <4>3 DEF Step
      <4>5. bound[index] = proc[p].task /\ Won(proc[p].task) /\ proc[p].task \in Task
        BY <4>3, AdvancesCurrent, AtWork, Parts
      <4> QED
        BY <1>0, <4>4, <4>5
    <3> QED
      BY <3>1, <3>2
  <2>2. bound'[s] = bound[s]
    BY <1>0, <1>1, BoundStep DEF Step
  <2>3. PICK t \in Task : t = bound[s]
    BY <1>0, <2>1
  <2>4. Won(t)'
    BY <1>0, <2>1, <2>3, WonKept
  <2> QED
    BY <2>1, <2>2, <2>3, <2>4 DEF Won
<1>2. status' \in {"RUNNING", "FAILED"} => bound'[index'] # 0
  <2>1. ASSUME NEW s \in Step, s = index', Queue(s) PROVE bound'[index'] # 0
    <3>1. PICK t \in Task : bound' = [bound EXCEPT ![s] = t]
      BY <2>1, QueueMakes
    <3> QED
      BY <1>0, <2>1, <3>1
  <2>2. CASE status \in {"RUNNING", "FAILED"} /\ index' = index
    <3>1. bound[index] # 0
      BY <2>2, Parts DEF BoundOK
    <3> QED
      BY <1>0, <2>2, <3>1, BoundStep
  <2>3. CASE RunChain
    BY <1>0, <2>1, <2>3, Parts DEF RunChain, StartOK
  <2>4. ASSUME NEW p \in Routers, GoesOn(p), status' \in {"RUNNING", "FAILED"}
        PROVE  bound'[index'] # 0
    <3>1. PICK s \in Step : s = index'
      BY <1>0
    <3>2. Queue(s)
      BY <2>4, <3>1 DEF GoesOn
    <3> QED
      BY <2>1, <3>1, <3>2
  <2>5. ASSUME NEW o \in Operators, Revives(o) \/ OpensGate(o) PROVE bound'[index'] # 0
    <3>1. Queue(index) /\ index' = index
      BY <2>5 DEF Revives, OpensGate, Resume, Approve
    <3> QED
      BY <1>0, <2>1, <3>1
  <2>6. CASE \/ Still \/ \E p \in Routers : DispatchHook(p)
             \/ \E p \in Routers : Closes(p, "SUCCEEDED") \/ Closes(p, "FAILED")
             \/ \E o \in Operators : CallsOff(o)
    BY <2>2, <2>6 DEF Still, DispatchHook, chain, Closes, CallsOff
  <2> QED
    BY <2>3, <2>4, <2>5, <2>6, StepKinds
<1> QED
  BY <1>1, <1>2, BoundStep DEF BoundOK, Won

(* Hooks.                                                                  *)
LEMMA UnsettledIsClean ==
  ASSUME CarefulInv, ~settled
  PROVE  rows = {} /\ \A f \in fired : f[1] # gen
<1>1. \A f \in fired : f[1] # gen
  BY Parts DEF HooksOK, HookDue, RowsOK
<1>2. \A h \in rows : <<gen, h>> \in fired
  BY Parts DEF HooksOK, HookDue, RowsOK
<1> QED
  BY <1>1, <1>2

LEMMA RowsFired ==
  ASSUME RowsOK, gen \in Int, NEW h, h = HookOf(status), settled, Fire(h, gen),
         UNCHANGED <<gen, status, settled>>
  PROVE  RowsOK'
BY DEF RowsOK, Fire, HookOf

LEMMA StepRows ==
  ASSUME ChainAssumption, Careful, CarefulInv, [Next]_vars
  PROVE  /\ RowsOK'
         /\ fired' = fired \/ (gen' = gen /\ \E h \in Hook : fired' = fired \cup {<<gen, h>>})
<1> DEFINE Goal == /\ RowsOK'
                   /\ \/ fired' = fired
                      \/ gen' = gen /\ \E h \in Hook : fired' = fired \cup {<<gen, h>>}
<1>0. /\ RowsOK /\ gen \in 0..MaxResumes /\ (settled <=> status \in Terminal)
      /\ \A f \in fired : f[1] \in 0..MaxResumes
  BY Parts DEF HooksOK, HookDue, RowsOK, SettledMeansOver, TypeOK
<1>1. ASSUME ~settled, UNCHANGED <<rows, fired, gen>> PROVE Goal
  BY <1>0, <1>1, UnsettledIsClean DEF RowsOK
<1>2. CASE Still
  BY <1>0, <1>2 DEF Still, chain, history, RowsOK
<1>3. CASE RunChain
  <2>1. ~settled
    BY <1>0, <1>3, Parts DEF RunChain, StartOK, Terminal
  <2> QED
    BY <1>1, <1>3, <2>1 DEF RunChain
<1>4. ASSUME NEW p \in Routers, Closes(p, "SUCCEEDED") \/ Closes(p, "FAILED") PROVE Goal
  BY <1>1, <1>4 DEF Closes, history
<1>5. ASSUME NEW p \in Routers, GoesOn(p) PROVE Goal
  <2>1. UNCHANGED <<rows, fired, gen, settled>>
    BY <1>5 DEF GoesOn, Passes
  <2>2. CASE status' = status
    BY <1>0, <2>1, <2>2 DEF RowsOK
  <2>3. CASE status = "RUNNING"
    BY <1>0, <1>1, <2>1, <2>3 DEF Terminal
  <2> QED
    BY <1>5, <2>2, <2>3 DEF GoesOn
<1>6. ASSUME NEW p \in Routers, DispatchHook(p) PROVE Goal
  <2>1. /\ proc[p].gen = gen /\ status \in {"SUCCEEDED", "FAILED"}
        /\ status = "SUCCEEDED" <=> Outcome(p) = "ok"
    BY <1>6, Parts DEF DispatchHook, HooksOK, HookDue, RowsOK
  <2>2. PICK h \in Hook : h = IF Outcome(p) = "ok" THEN "success" ELSE "failure"
    BY DEF Hook
  <2>3. h = HookOf(status) /\ settled /\ Fire(h, gen) /\ UNCHANGED <<gen, status, settled>>
    BY <1>0, <1>6, <2>1, <2>2 DEF DispatchHook, HookOf, Terminal, chain
  <2>4. RowsOK'
    BY <1>0, <2>3, RowsFired
  <2> QED
    BY <2>3, <2>4 DEF Fire
<1>7. ASSUME NEW o \in Operators, CallsOff(o) PROVE Goal
  <2>1. /\ rows' = {"cancelled"} /\ fired' = fired \cup {<<gen, "cancelled">>}
        /\ gen' = gen /\ settled' = TRUE /\ status' = "CANCELLED"
        /\ \A f \in fired : f[1] # gen
    BY <1>7, UnsettledIsClean DEF CallsOff, Fire
  <2>2. RowsOK'
    BY <1>0, <2>1 DEF RowsOK, HookOf
  <2> QED
    BY <2>1, <2>2 DEF Hook
<1>8. ASSUME NEW o \in Operators, Revives(o) PROVE Goal
  <2>1. gen' = gen + 1 /\ rows' = {} /\ fired' = fired
    BY <1>8 DEF Revives, Resume
  <2> QED
    BY <1>0, <2>1 DEF RowsOK
<1>9. ASSUME NEW o \in Operators, OpensGate(o) PROVE Goal
  BY <1>0, <1>1, <1>9 DEF OpensGate, Approve, Terminal
<1> QED
  BY <1>2, <1>3, <1>4, <1>5, <1>6, <1>7, <1>8, <1>9, StepKinds

(* A hook that is due is for how the chain has just ended.                 *)
LEMMA StepHookDue ==
  ASSUME ChainAssumption, Careful, CarefulInv, [Next]_vars,
         NEW p \in Routers, proc'[p].pc = "hook"
  PROVE  HookDue(p)'
<1>0. BaseInv /\ Grown /\ proc \in [Proc -> ProcRow] /\ p \in Proc
  BY Parts, StepGrows, TypesOfRows DEF Proc
<1>1. CASE proc'[p] = proc[p]
  <2>1. HookDue(p) /\ proc[p].pc = "hook"
    BY <1>1, Parts DEF HooksOK, RowsOK, HookDue
  <2>2. Outcome(p)' = Outcome(p)
    BY <1>0, <1>1, <2>1, SameWork DEF KeepsTask
  <2>3. ~(RunChain \/ \E o \in Operators : Revives(o) \/ OpensGate(o))
    BY <2>1, NobodyRoutes
  <2>4. ~(\E o \in Operators : CallsOff(o))
    BY <2>1 DEF HookDue, CallsOff, Cancellable
  <2>5. status' = status /\ gen' = gen
    BY <2>1, <2>3, <2>4, StepKinds
       DEF Still, Closes, GoesOn, Passes, DispatchHook, chain, history, HookDue
  <2> QED
    BY <1>1, <2>1, <2>2, <2>5 DEF HookDue
<1>2. CASE proc'[p] # proc[p]
  <2>1. /\ Route(p) \/ Handle(p) \/ Advance(p) \/ FailChain(p) \/ DispatchHook(p)
        /\ proc[p].pc # "idle" /\ KeepsTask(p)
    BY <1>0, <1>2, RouterChanges
  <2>2. Outcome(p)' = Outcome(p)
    BY <1>0, <2>1, SameWork
  <2>3. ASSUME NEW pc \in {"idle", "handle", "advance", "fail", "mark"}, MoveTo(p, pc)
        PROVE  FALSE
    BY <1>0, <2>3 DEF MoveTo, ProcRow
  <2>4. ~Release(p)
    BY <1>0, IdleRow DEF Release
  <2>5. ~(Route(p) \/ Handle(p) \/ DispatchHook(p))
    BY <2>3 DEF Route, Handle, DispatchHook
  <2>6. ASSUME NEW st, Settle(p, st) PROVE status' = st /\ proc'[p].gen = gen
    BY <1>0, <2>3, <2>6 DEF Settle, ProcRow
  <2>7. CASE Advance(p)
    <3>1. Settle(p, "SUCCEEDED") /\ gen' = gen /\ Outcome(p) = "ok"
      BY <1>0, <2>3, <2>4, <2>7, AtWork DEF Advance, history
    <3> QED
      BY <2>2, <2>6, <3>1 DEF HookDue
  <2>8. CASE FailChain(p)
    <3>1. Settle(p, "FAILED") /\ gen' = gen /\ Outcome(p) = "fail"
      BY <1>0, <2>3, <2>8, AtWork DEF FailChain, history
    <3> QED
      BY <2>2, <2>6, <3>1 DEF HookDue
  <2> QED
    BY <2>1, <2>5, <2>7, <2>8
<1> QED
  BY <1>1, <1>2

LEMMA StepHooks ==
  ASSUME ChainAssumption, Careful, CarefulInv, [Next]_vars
  PROVE  HooksOK' /\ OneHookPerGeneration'
<1>1. HooksOK'
  BY StepRows, StepHookDue DEF HooksOK, RowsOK, HookDue
<1>2. /\ \A f \in fired' : f \in fired \/ f[1] = gen'
      /\ \A f \in fired' : f = <<f[1], f[2]>>
  <2>1. fired' \subseteq (0..MaxResumes) \X Hook
    BY StepTypes, Parts DEF HistoryTypes
  <2>2. \A f \in fired' : f = <<f[1], f[2]>>
    BY <2>1
  <2> QED
    BY <2>2, StepRows
<1>3. \A f \in fired' : f[1] = gen' => f[2] = HookOf(status')
  BY <1>1 DEF HooksOK, HookDue, RowsOK, HookOf
<1>4. ASSUME NEW f \in fired', NEW h \in fired', f[1] = h[1] PROVE f = h
  <2>1. CASE f[1] = gen'
    BY <1>2, <1>3, <1>4, <2>1
  <2>2. CASE f[1] # gen'
    BY <1>2, <1>4, <2>2, Parts DEF OneHookPerGeneration
  <2> QED
    BY <2>1, <2>2
<1> QED
  BY <1>1, <1>4 DEF OneHookPerGeneration

(* While a completion is routed, the binding of its step stays and a dead  *)
(* task that is not requeued stays dead.                                   *)
LEMMA BindingStays ==
  ASSUME ChainAssumption, Careful, CarefulInv, [Next]_vars,
         NEW p \in Routers, proc[p].pc # "idle", NEW s \in Step, s = StepOf(p)
  PROVE  bound'[s] = bound[s]
<1>0. /\ BaseInv /\ TypeOK /\ index \in Step /\ StepOf(p) <= index
  BY Parts, AtWork, TypesOfRows DEF BaseInv, Progress, StepOf
<1>1. CASE NoNewTask
  BY <1>1 DEF NoNewTask
<1>2. ASSUME NEW z \in Step, NEW t \in Task, NewTaskFor(t, z), Queuing(z)
      PROVE  bound'[s] = bound[s]
  <2>1. CASE s = z
    <3>1. ~Quiet
      BY DEF Quiet
    <3>2. ~RunChain
      BY Parts DEF RunChain, StartOK, Proc
    <3>3. ~\E o \in Operators : Resume(o) \/ Approve(o)
      BY <3>1 DEF Resume, Approve, MayAct, Careful
    <3>4. z = index + 1
      BY <1>2, <3>2, <3>3 DEF Queuing, Passes
    <3> QED
      BY <1>0, <2>1, <3>4 DEF Step
  <2>2. CASE s # z
    BY <1>0, <1>2, <2>2, AfterQueuing
  <2> QED
    BY <2>1, <2>2
<1> QED
  BY <1>0, <1>1, <1>2, StepQueues

LEMMA DeadStays ==
  ASSUME ChainAssumption, CarefulInv, [Next]_vars, \A u \in Task : ~Requeue(u),
         NEW t \in Task, Dead(t)
  PROVE  Dead(t)'
<1>0. TypeOK /\ BaseInv /\ task \in [Task -> TaskRow] /\ TasksOK /\ Grown /\ Exists(t)
  BY Parts, TypesOfRows, StepGrows DEF Dead
<1>1. ASSUME task'[t].out = task[t].out PROVE Dead(t)'
  <2>1. Newest(t)' = Newest(t)
    BY <1>1 DEF Newest
  <2> QED
    BY <1>0, <1>1, <2>1 DEF Dead, Exists, Grown
<1>2. ASSUME NEW u \in Task \ {t}, NEW x, task' = [task EXCEPT ![u] = x]
      PROVE  Dead(t)'
  BY <1>0, <1>1, <1>2
<1>3. ASSUME NEW s, Queue(s) PROVE Dead(t)'
  <2>1. PICK u \in Task : Made(u, s, gen')
    BY <1>3, QueueMakes
  <2> QED
    BY <1>0, <1>2, <2>1 DEF Made
<1>4. ASSUME NEW m \in Monitors, NEW u \in Task, NEW out \in {"ok", "fail"},
             Resolve(m, u, out)
      PROVE  Dead(t)'
  <2>1. u # t
    BY <1>4 DEF Resolve, Live, Dead
  <2> QED
    BY <1>2, <1>4, <2>1 DEF Resolve
<1>5. ASSUME NEW p \in Routers, MarkRouted(p) PROVE Dead(t)'
  <2>1. task'[t].out = task[t].out
    BY <1>0, <1>5 DEF MarkRouted, TaskRow
  <2> QED
    BY <1>1, <2>1
<1>6. CASE UNCHANGED task
  BY <1>1, <1>6
<1>7. CASE RunChain
  BY <1>3, <1>6, <1>7 DEF RunChain
<1>8. ASSUME NEW p \in Routers, Advance(p) PROVE Dead(t)'
  BY <1>3, <1>6, <1>8 DEF Advance
<1>9. ASSUME NEW o \in Operators, Resume(o) \/ Approve(o) PROVE Dead(t)'
  BY <1>3, <1>6, <1>9 DEF Resume, Approve
<1> QED
  BY <1>4, <1>5, <1>6, <1>7, <1>8, <1>9
     DEF Next, RouterStep, Replay, Route, Handle, FailChain, DispatchHook, Crash, Look,
         Reject, Cancel, vars

LEMMA StepFresh ==
  ASSUME ChainAssumption, Careful, CarefulInv, [Next]_vars
  PROVE  FreshReads'
<1> SUFFICES ASSUME NEW p \in Routers, proc'[p].pc \in {"handle", "advance", "fail"}
             PROVE  IsBound(p)' /\ (proc'[p].pc = "fail" => IsExhausted(p)')
  BY DEF FreshReads
<1>0. BaseInv /\ Grown /\ proc \in [Proc -> ProcRow] /\ p \in Proc
  BY Parts, StepGrows, TypesOfRows DEF Proc
<1>1. ASSUME proc'[p] # proc[p]
      PROVE  /\ proc[p].pc # "idle" /\ KeepsTask(p) /\ IsBound(p)
             /\ proc'[p].pc = "fail" => IsExhausted(p)
  <2>1. /\ Route(p) \/ Handle(p) \/ Advance(p) \/ FailChain(p) \/ DispatchHook(p)
        /\ proc[p].pc # "idle" /\ KeepsTask(p)
    BY <1>0, <1>1, RouterChanges
  <2>2. ASSUME NEW pc, MoveTo(p, pc) PROVE proc'[p].pc = pc
    BY <1>0, <2>2 DEF MoveTo, ProcRow
  <2>3. ASSUME NEW st, Settle(p, st) PROVE FALSE
    BY <1>0, <2>2, <2>3 DEF Settle, ProcRow
  <2>4. ~Release(p)
    BY <1>0, IdleRow DEF Release
  <2>5. ~(Advance(p) \/ FailChain(p) \/ DispatchHook(p))
    BY <2>2, <2>3, <2>4 DEF Advance, FailChain, DispatchHook
  <2>6. CASE Route(p)
    BY <2>1, <2>2, <2>6 DEF Route
  <2>7. CASE Handle(p)
    BY <2>1, <2>2, <2>7, Parts DEF Handle, FreshReads
  <2> QED
    BY <2>1, <2>5, <2>6, <2>7
<1>2. /\ proc[p].pc # "idle" /\ KeepsTask(p) /\ IsBound(p)
      /\ proc'[p].pc = "fail" => IsExhausted(p)
  <2>1. CASE proc'[p] = proc[p]
    BY <2>1, Parts DEF FreshReads, KeepsTask
  <2> QED
    BY <1>1, <2>1
<1>3. PICK s \in Step : s = StepOf(p) /\ bound[s] = proc[p].task
  BY <1>0, <1>2, AtWork DEF IsBound
<1>4. bound'[s] = proc'[p].task /\ StepOf(p)' = s
  BY <1>0, <1>2, <1>3, BindingStays, SameWork DEF KeepsTask
<1>5. ASSUME proc'[p].pc = "fail" PROVE IsExhausted(p)'
  <2>1. PICK t \in Task : t = proc[p].task /\ Dead(t)
    BY <1>0, <1>2, <1>5, AtWork DEF IsExhausted
  <2>2. \A u \in Task : ~Requeue(u)
    BY <1>2 DEF Requeue, MayAct, Quiet, Careful
  <2>3. Dead(t)'
    BY <2>1, <2>2, DeadStays
  <2> QED
    BY <1>2, <2>1, <2>3 DEF IsExhausted, KeepsTask, Dead, Exists, Newest
<1> QED
  BY <1>4, <1>5 DEF IsBound

(* A task stays awaited unless its last completion is marked routed.       *)
LEMMA AwaitedStays ==
  ASSUME ChainAssumption, TypeOK, TasksOK, TaskStep, NEW t \in Task, Exists(t), Awaited(t),
         \A r \in Run : Last(task[t], r) /\ r \in task'[t].routed => r \in task[t].routed
  PROVE  Awaited(t)'
<1>0. task \in [Task -> TaskRow] /\ task[t] \in TaskRow
  BY TypesOfRows
<1>1. PICK r \in Run : /\ Last(task[t], r)
                       /\ task[t].out[r] = "open" \/ r \notin task[t].routed
  BY DEF Awaited
<1>2. r \notin task[t].routed
  BY <1>1 DEF TasksOK, TaskOK
<1>3. ASSUME NEW q \in Run, Last(task[t], q) PROVE q = r
  BY <1>0, <1>1, <1>3, NewestIs
<1>4. ASSUME \A q \in Run : task'[t].out[q] # "none" <=> task[t].out[q] # "none"
      PROVE  Awaited(t)'
  <2>1. Last(task'[t], r)
    BY <1>1, <1>4 DEF Last
  <2> QED
    BY <1>1, <1>2, <2>1 DEF Awaited
<1>5. ASSUME NEW u \in Task \ {t}, NEW x, task' = [task EXCEPT ![u] = x]
      PROVE  Awaited(t)'
  BY <1>0, <1>4, <1>5
<1>6. ASSUME NEW u \in Task, NEW q \in Run, NEW out \in {"ok", "fail"}, Ends(u, q, out)
      PROVE  Awaited(t)'
  <2>1. CASE u = t
    <3>1. q = r
      BY <1>3, <1>6, <2>1 DEF Ends
    <3>2. \A z \in Run : task'[t].out[z] = IF z = r THEN out ELSE task[t].out[z]
      BY <1>0, <1>6, <2>1, <3>1 DEF Ends, TaskRow
    <3>3. task[t].out[r] # "none"
      BY <1>6, <2>1, <3>1 DEF Ends
    <3> QED
      BY <1>4, <3>2, <3>3
  <2>2. CASE u # t
    BY <1>5, <1>6, <2>2 DEF Ends
  <2> QED
    BY <2>1, <2>2
<1>7. ASSUME NEW u \in Task, NEW q \in Run, Reopens(u, q) PROVE Awaited(t)'
  <2>1. CASE u = t
    <3>1. q = r /\ r + 1 \in Run
      BY <1>3, <1>7, <2>1 DEF Reopens
    <3>2. \A z \in Run : task'[t].out[z] = IF z = r + 1 THEN "open" ELSE task[t].out[z]
      BY <1>0, <1>7, <2>1, <3>1 DEF Reopens, TaskRow
    <3>3. Last(task'[t], r + 1)
      BY <1>1, <3>1, <3>2 DEF Last, Run
    <3> QED
      BY <3>1, <3>2, <3>3 DEF Awaited
  <2>2. CASE u # t
    BY <1>5, <1>7, <2>2 DEF Reopens
  <2> QED
    BY <2>1, <2>2
<1>8. ASSUME NEW u \in Task, NEW q \in Run, Marked(u, q) PROVE Awaited(t)'
  <2>1. task'[t].out = task[t].out
    BY <1>0, <1>8 DEF Marked, TaskRow
  <2> QED
    BY <1>4, <2>1
<1>9. ASSUME NEW u \in Task, NEW s \in Step, Made(u, s, gen') PROVE Awaited(t)'
  BY <1>5, <1>9 DEF Made
<1>10. CASE UNCHANGED task
  BY <1>4, <1>10
<1> QED
  BY <1>6, <1>7, <1>8, <1>9, <1>10 DEF TaskStep

(* A running chain to which this step adds no task stays where it is.      *)
LEMMA RunsOn ==
  ASSUME ChainAssumption, Careful, CarefulInv, [Next]_vars, NoNewTask, status' = "RUNNING"
  PROVE  /\ status = "RUNNING" /\ ~settled /\ index' = index /\ bound' = bound
         /\ bound[index] \in Task /\ Exists(bound[index]) /\ task[bound[index]].step = index
<1>0. index \in Step /\ bound \in [Step -> Task \cup {0}] /\ TypeOK
  BY Parts, TypesOfRows
<1>1. ASSUME NEW s \in Step, Queue(s) PROVE FALSE
  <2>1. PICK t \in Task : Made(t, s, gen')
    BY <1>1, QueueMakes
  <2>2. task'[t] = NewTask(s, gen')
    BY <1>0, <2>1, TaskIsAlone DEF Made
  <2>3. task'[t].step = s
    BY <2>2, NewRow
  <2> QED
    BY <2>1, <2>3 DEF NoNewTask, Made, Exists, Step
<1>2. ~(RunChain \/ \E o \in Operators : Revives(o) \/ OpensGate(o))
  BY <1>0, <1>1, Parts DEF RunChain, StartOK, Revives, OpensGate
<1>3. ~\E p \in Routers : GoesOn(p)
  <2>1. index' \in Step
    BY Parts, StepTypes DEF ChainTypes
  <2>2. PICK s \in Step : s = index'
    BY <2>1
  <2> QED
    BY <1>1, <2>2 DEF GoesOn
<1>4. status = "RUNNING" /\ index' = index
  BY <1>2, <1>3, StepKinds DEF Still, Closes, DispatchHook, CallsOff, chain
<1>5. bound[index] \in Task /\ task[bound[index]].step = index
  BY <1>0, <1>4, Parts DEF BoundOK
<1>6. ~settled
  BY <1>4, Parts DEF SettledMeansOver, Terminal
<1> QED
  BY <1>0, <1>4, <1>5, <1>6 DEF NoNewTask, Exists, Step

LEMMA SupersededStays ==
  ASSUME ChainAssumption, BaseInv, Grown, NEW p \in Routers, proc[p].pc # "idle",
         KeepsTask(p), Superseded(p)
  PROVE  Superseded(p)'
<1>1. PICK t \in Task, n \in Run : t = proc[p].task /\ n = proc[p].run /\ Exists(t)
  BY AtWork
<1>2. PICK r \in Run : n < r /\ task[t].out[r] # "none"
  BY <1>1 DEF Superseded
<1>3. task'[t].out[r] # "none"
  BY <1>1, <1>2 DEF Grown
<1> QED
  BY <1>1, <1>2, <1>3 DEF Superseded, KeepsTask

(* A failure that is not final has been followed by another completion.    *)
LEMMA NotFinal ==
  ASSUME ChainAssumption, BaseInv, NEW p \in Routers, proc[p].pc # "idle",
         ~Succeeded(p), ~IsExhausted(p)
  PROVE  Superseded(p)
<1>1. PICK t \in Task, n \in Run :
        t = proc[p].task /\ n = proc[p].run /\ Exists(t) /\ task[t].out[n] = "fail"
  BY AtWork DEF Succeeded, Outcome
<1>2. /\ Newest(t) \in Run /\ Last(task[t], Newest(t)) /\ task[t].out[Newest(t)] # "none"
      /\ task[t].out[Newest(t)] # "fail"
  BY <1>1, NewestOf DEF BaseInv, IsExhausted, Dead
<1>3. PICK r \in Run : r = Newest(t)
  BY <1>2
<1>4. n <= r /\ n # r
  BY <1>1, <1>2, <1>3 DEF Last
<1> QED
  BY <1>1, <1>2, <1>3, <1>4 DEF Superseded, Run

(* Who has left a running chain's transaction routes no completion that it *)
(* waits for.                                                              *)
LEMMA LeavesAwaited ==
  ASSUME ChainAssumption, Careful, CarefulInv, [Next]_vars, NoNewTask, status' = "RUNNING",
         NEW p \in Routers, proc'[p].pc = "mark"
  PROVE  /\ KeepsTask(p) /\ proc[p].pc # "idle"
         /\ proc[p].task # bound[index] \/ Superseded(p)
<1>0. /\ BaseInv /\ Grown /\ proc \in [Proc -> ProcRow] /\ p \in Proc
      /\ status = "RUNNING" /\ ~settled /\ index' = index /\ bound' = bound
      /\ task[bound[index]].step = index /\ index \in Step
  BY Parts, StepGrows, TypesOfRows, RunsOn DEF Proc
<1>1. CASE proc'[p] = proc[p]
  BY <1>0, <1>1, Parts DEF AwaitedOK, KeepsTask
<1>2. CASE proc'[p] # proc[p]
  <2>1. /\ Route(p) \/ Handle(p) \/ Advance(p) \/ FailChain(p) \/ DispatchHook(p)
        /\ proc[p].pc # "idle" /\ KeepsTask(p)
    BY <1>0, <1>2, RouterChanges
  <2>2. ASSUME NEW pc, MoveTo(p, pc) PROVE pc = "mark"
    BY <1>0, <2>2 DEF MoveTo, ProcRow
  <2>3. ASSUME NEW st, Settle(p, st) PROVE FALSE
    <3>1. Settles
      BY <1>0 DEF Settles, Terminal
    <3>2. proc'[p].pc = "hook"
      BY <1>0, <2>3, <3>1 DEF Settle, ProcRow
    <3> QED
      BY <3>2
  <2>4. ~Release(p)
    BY <1>0, IdleRow DEF Release
  <2>5. proc[p].task = bound[index] => AtIndex(p) /\ IsBound(p)
    BY <1>0 DEF AtIndex, IsBound, StepOf
  <2>6. CASE Route(p)
    <3>1. ~IsBound(p)
      BY <2>2, <2>6 DEF Route
    <3> QED
      BY <2>1, <2>5, <3>1
  <2>7. CASE Handle(p)
    <3>1. ~Succeeded(p) /\ ~IsExhausted(p)
      BY <1>0, <2>2, <2>7 DEF Handle
    <3> QED
      BY <1>0, <2>1, <3>1, NotFinal
  <2>8. CASE Advance(p)
    <3>1. StepOf(p) \in Step
      BY <1>0, <2>1, AtWork
    <3>2. index' = StepOf(p) + 1 => ~AtIndex(p)
      BY <1>0, <3>1 DEF AtIndex, Step
    <3>3. ~AtIndex(p)
      BY <1>0, <2>3, <2>4, <2>8, <3>2 DEF Advance, Proceeds
    <3> QED
      BY <2>1, <2>5, <3>3
  <2>9. ~FailChain(p)
    BY <1>0, <2>3 DEF FailChain, Proceeds
  <2>10. ~DispatchHook(p)
    BY <1>0, Parts DEF DispatchHook, AwaitedOK
  <2> QED
    BY <2>1, <2>6, <2>7, <2>8, <2>9, <2>10
<1> QED
  BY <1>1, <1>2

(* Only a router that is done with a completion marks it routed.           *)
LEMMA MarkedBy ==
  ASSUME ChainAssumption, BaseInv, [Next]_vars, NoNewTask, NEW t \in Task, NEW r \in Run,
         r \in task'[t].routed, r \notin task[t].routed
  PROVE  \E p \in Routers : proc[p].pc = "mark" /\ proc[p].task = t /\ proc[p].run = r
<1>0. task \in [Task -> TaskRow] /\ TypeOK
  BY TypesOfRows DEF BaseInv
<1>1. ASSUME NEW u \in Task, NEW q, NEW out, task' = [task EXCEPT ![u].out[q] = out]
      PROVE  FALSE
  BY <1>0, <1>1 DEF TaskRow
<1>2. ASSUME NEW s \in Step, Queue(s) PROVE FALSE
  <2>1. PICK u \in Task : Made(u, s, gen')
    BY <1>2, QueueMakes
  <2>2. task'[u] = NewTask(s, gen')
    BY <1>0, <2>1, TaskIsAlone DEF Made
  <2>3. task'[u].step = s
    BY <2>2, NewRow
  <2> QED
    BY <2>1, <2>3 DEF NoNewTask, Made, Exists, Step
<1>3. ASSUME NEW p \in Routers, MarkRouted(p)
      PROVE  proc[p].pc = "mark" /\ proc[p].task = t /\ proc[p].run = r
  BY <1>0, <1>3, AtWork DEF MarkRouted, TaskRow
<1>4. ~UNCHANGED task
  OBVIOUS
<1>5. ~RunChain
  <2>1. 0 \in Step
    BY DEF Step, ChainAssumption
  <2> QED
    BY <1>2, <1>4, <2>1 DEF RunChain
<1>6. ASSUME NEW p \in Routers, Advance(p) PROVE FALSE
  BY <1>2, <1>4, <1>6, NextStep DEF Advance
<1>7. ASSUME NEW o \in Operators, Resume(o) \/ Approve(o) PROVE FALSE
  BY <1>0, <1>2, <1>4, <1>7, TypesOfRows DEF Resume, Approve
<1>8. ASSUME NEW m \in Monitors, NEW u \in Task, NEW out \in {"ok", "fail"},
             Resolve(m, u, out)
      PROVE  FALSE
  BY <1>1, <1>8 DEF Resolve
<1>9. ASSUME NEW u \in Task, Requeue(u) PROVE FALSE
  BY <1>1, <1>9 DEF Requeue
<1> QED
  BY <1>3, <1>4, <1>5, <1>6, <1>7, <1>8, <1>9
     DEF Next, RouterStep, Replay, Route, Handle, FailChain, DispatchHook, Crash, Look,
         Reject, Cancel, vars

LEMMA StepAwaited ==
  ASSUME ChainAssumption, Careful, CarefulInv, [Next]_vars
  PROVE  AwaitedOK'
<1> SUFFICES ASSUME status' = "RUNNING"
             PROVE  /\ Awaited(bound[index])'
                    /\ \A p \in Routers :
                         proc'[p].pc \in {"hook", "mark"} =>
                           /\ proc'[p].pc = "mark"
                           /\ proc'[p].task # bound'[index'] \/ Superseded(p)'
  BY DEF AwaitedOK
<1>0. BaseInv /\ Grown /\ TypeOK /\ TasksOK
  BY Parts, StepGrows
<1>1. ASSUME NEW p \in Routers PROVE proc'[p].pc # "hook"
  BY <1>1, StepHookDue DEF HookDue
<1>2. CASE NoNewTask
  <2>1. /\ status = "RUNNING" /\ index' = index /\ bound' = bound
        /\ bound[index] \in Task /\ Exists(bound[index])
    BY <1>2, RunsOn
  <2>2. PICK t \in Task : t = bound[index] /\ Exists(t) /\ Awaited(t)
    BY <2>1, Parts DEF AwaitedOK
  <2>3. ASSUME NEW r \in Run, Last(task[t], r), r \in task'[t].routed
        PROVE  r \in task[t].routed
    <3>1. CASE r \notin task[t].routed
      <4>1. PICK p \in Routers : proc[p].pc = "mark" /\ proc[p].task = t /\ proc[p].run = r
        BY <1>0, <1>2, <2>3, <3>1, MarkedBy
      <4>2. Superseded(p)
        BY <2>1, <2>2, <4>1, Parts DEF AwaitedOK
      <4>3. PICK q \in Run : r < q /\ task[t].out[q] # "none"
        BY <4>1, <4>2 DEF Superseded
      <4> QED
        BY <2>3, <4>3 DEF Last, Run
    <3> QED
      BY <3>1
  <2>4. Awaited(t)'
    BY <1>0, <2>2, <2>3, AwaitedStays, StepTasks
  <2>5. ASSUME NEW p \in Routers, proc'[p].pc = "mark"
        PROVE  proc'[p].task # bound'[index'] \/ Superseded(p)'
    <3>1. /\ KeepsTask(p) /\ proc[p].pc # "idle"
          /\ proc[p].task # bound[index] \/ Superseded(p)
      BY <1>2, <2>5, LeavesAwaited
    <3> QED
      BY <1>0, <2>1, <3>1, SupersededStays DEF KeepsTask
  <2> QED
    BY <1>1, <2>1, <2>2, <2>4, <2>5 DEF Awaited, Last
<1>3. ASSUME NEW s \in Step, NEW t \in Task, NewTaskFor(t, s), Queuing(s)
      PROVE  /\ Awaited(bound[index])'
             /\ \A p \in Routers : proc'[p].pc = "mark" => proc'[p].task # bound'[index']
  <2>1. ~Exists(t) /\ bound'[s] = t
    BY <1>0, <1>3, AfterQueuing
  <2>2. s = index'
    BY <1>3, QueuedWhere
  <2>3. 1 \in Run /\ task'[t].out[1] = "open" /\ \A q \in Run \ {1} : task'[t].out[q] = "none"
    BY <1>3, NewRow DEF NewTaskFor
  <2>4. Last(task'[t], 1)
    BY <2>3 DEF Last, Run
  <2>5. Awaited(bound[index])'
    BY <2>1, <2>2, <2>3, <2>4 DEF Awaited, Last
  <2>6. ASSUME NEW p \in Routers, proc'[p].pc = "mark" PROVE proc'[p].task # t
    <3>1. proc[p].pc # "idle" /\ proc'[p].task = proc[p].task
      BY <1>0, <2>6, RouterChanges DEF KeepsTask
    <3>2. Exists(proc[p].task)
      BY <1>0, <3>1, AtWork
    <3> QED
      BY <2>1, <3>1, <3>2
  <2> QED
    BY <2>1, <2>2, <2>5, <2>6
<1> QED
  BY <1>0, <1>1, <1>2, <1>3, StepQueues

LEMMA StepCareful ==
  ASSUME ChainAssumption, Careful, CarefulInv, [Next]_vars PROVE CarefulInv'
<1>1. OrderInv'
  BY StepOrder DEF CarefulInv, Careful
<1> QED
  BY <1>1, StepSettled, StepParked, StepOpened, StepBound, StepHooks, StepFresh, StepAwaited
     DEF CarefulInv

LEMMA InitCareful ==
  ASSUME ChainAssumption, Init PROVE CarefulInv
<1>1. \A p \in Proc : proc[p].pc = "idle"
  BY DEF Init, Idle
<1>2. \A t \in Task : task[t].step = -1
  BY DEF Init, NoTask
<1>3. SettledMeansOver /\ StillParked /\ FreshReads /\ AwaitedOK
  BY <1>1 DEF Init, SettledMeansOver, Terminal, StillParked, FreshReads, AwaitedOK, Proc
<1>4. BoundOK
  BY DEF Init, BoundOK, Step
<1>5. Opened
  BY <1>2 DEF Init, Opened, GateHolds, Step, ChainAssumption
<1>6. HooksOK /\ OneHookPerGeneration
  BY <1>1 DEF Init, HooksOK, HookDue, RowsOK, OneHookPerGeneration, Proc
<1> QED
  BY <1>3, <1>4, <1>5, <1>6, InitOrder DEF Init, CarefulInv

LEMMA AlwaysCareful ==
  ASSUME ChainAssumption, Careful PROVE Spec => []CarefulInv
<1>1. Init => CarefulInv
  BY InitCareful
<1>2. CarefulInv /\ [Next]_vars => CarefulInv'
  BY StepCareful
<1> QED
  BY <1>1, <1>2, PTL DEF Spec

(* A gated step never runs before somebody has approved it, through any    *)
(* resumes, requeues and replays of the step before it.                    *)
THEOREM GatesHold ==
  ASSUME ChainAssumption, Careful PROVE Spec => []GateHolds
<1>1. CarefulInv => GateHolds
  BY DEF CarefulInv, Opened
<1> QED
  BY <1>1, AlwaysCareful, PTL

(* settled_at is set exactly while the status is terminal, so a chain that *)
(* is not over can still settle and one that is does not settle again.     *)
THEOREM SettledIsOver ==
  ASSUME ChainAssumption, Careful PROVE Spec => []SettledMeansOver
<1>1. CarefulInv => SettledMeansOver
  BY DEF CarefulInv
<1> QED
  BY <1>1, AlwaysCareful, PTL

(* A generation of a chain queues one hook at most, whichever of its       *)
(* settlement, a crash, a cancel and a rejection comes first.              *)
THEOREM HooksAreOnce ==
  ASSUME ChainAssumption, Careful PROVE Spec => []OneHookPerGeneration
<1>1. CarefulInv => OneHookPerGeneration
  BY DEF CarefulInv
<1> QED
  BY <1>1, AlwaysCareful, PTL

(* However many routers crash, a running chain's current step has a task   *)
(* that runs or whose last completion is still to be routed.               *)
THEOREM NobodyIsStranded ==
  ASSUME ChainAssumption, Careful PROVE Spec => []NothingStranded
<1>1. CarefulInv => NothingStranded
  <2> SUFFICES ASSUME CarefulInv, status = "RUNNING"
               PROVE  /\ bound[index] # 0
                      /\ \/ Live(bound[index])
                         \/ \E n \in Run :
                              /\ task[bound[index]].out[n] \in {"ok", "fail"}
                              /\ n \notin task[bound[index]].routed
    BY DEF NothingStranded
  <2>1. /\ bound[index] # 0 /\ task[bound[index]].step = index /\ index \in Step
        /\ bound \in [Step -> Task \cup {0}] /\ task \in [Task -> TaskRow]
        /\ Awaited(bound[index])
    BY Parts, TypesOfRows DEF BoundOK, AwaitedOK
  <2>2. PICK t \in Task : t = bound[index]
    BY <2>1
  <2>3. Exists(t) /\ task[t] \in TaskRow
    BY <2>1, <2>2 DEF Exists, Step
  <2>4. PICK r \in Run : /\ Last(task[t], r)
                         /\ task[t].out[r] = "open" \/ r \notin task[t].routed
    BY <2>1, <2>2 DEF Awaited
  <2>5. Newest(t) = r /\ task[t].out[r] \in {"open", "ok", "fail"}
    BY <2>3, <2>4, NewestIs DEF TaskRow, Last, Run, ChainAssumption
  <2> QED
    BY <2>1, <2>2, <2>3, <2>4, <2>5 DEF Live
<1> QED
  BY <1>1, AlwaysCareful, PTL

(* A router fails a chain only on behalf of the task its step is bound to: *)
(* a completion captured before a resume is dropped.                       *)
THEOREM SupersededAreDropped ==
  ASSUME ChainAssumption, Careful PROVE Spec => SupersededIsDropped
<1>1. CarefulInv /\ [Next]_vars
        => [\A p \in Routers : FailsChain(p) => bound[StepOf(p)] = proc[p].task]_vars
  BY DEF CarefulInv, FreshReads, FailsChain, IsBound
<1> QED
  BY <1>1, AlwaysCareful, PTL DEF Spec, SupersededIsDropped
-----------------------------------------------------------------------------
(* The contract, where nobody requeues the chain's tasks on their own.     *)

LEMMA NoRequeue ==
  ASSUME ChainAssumption, BaseInv, MaxRuns = 1 PROVE \A t \in Task : ~Requeue(t)
<1> SUFFICES ASSUME NEW t \in Task, Requeue(t) PROVE FALSE
  OBVIOUS
<1>1. Newest(t) \in Run /\ Newest(t) + 1 \in Run
  BY NewestOf DEF Requeue, Dead, BaseInv
<1> QED
  BY <1>1 DEF Run

LEMMA StepDead ==
  ASSUME ChainAssumption, Careful, MaxRuns = 1, CarefulInv, DeadOK, [Next]_vars
  PROVE  DeadOK'
<1> SUFFICES ASSUME status' = "FAILED" PROVE Dead(bound[index])'
  BY DEF DeadOK
<1>0. /\ index \in Step /\ bound \in [Step -> Task \cup {0}] /\ TasksOK
      /\ \A u \in Task : ~Requeue(u)
  BY Parts, TypesOfRows, NoRequeue
<1>1. CASE status = "FAILED" /\ UNCHANGED <<index, bound>>
  <2>1. bound[index] \in Task /\ Dead(bound[index])
    BY <1>0, <1>1, Parts DEF BoundOK, DeadOK
  <2>2. PICK t \in Task : t = bound[index]
    BY <2>1
  <2>3. Dead(t)'
    BY <1>0, <2>1, <2>2, DeadStays
  <2> QED
    BY <1>1, <2>2, <2>3 DEF Dead, Exists, Newest
<1>2. ASSUME NEW p \in Routers, Closes(p, "FAILED") PROVE Dead(bound[index])'
  BY <1>2 DEF Closes, Dead, Exists, Newest
<1>3. ASSUME NEW p \in Routers, GoesOn(p) PROVE FALSE
  <2>1. status = "FAILED" /\ bound[index] = proc[p].task /\ Won(proc[p].task)
    BY <1>3 DEF GoesOn
  <2>2. proc[p].task \in Task
    BY <1>3, AtWork, Parts DEF GoesOn, Passes
  <2> QED
    BY <1>0, <2>1, <2>2, DeadHasNotWon DEF DeadOK
<1>4. ~RunChain /\ ~\E p \in Routers : Closes(p, "SUCCEEDED")
  BY DEF RunChain, Closes
<1>5. ~\E o \in Operators : CallsOff(o) \/ Revives(o) \/ OpensGate(o)
  BY DEF CallsOff, Revives, OpensGate
<1> QED
  BY <1>1, <1>2, <1>3, <1>4, <1>5, StepKinds DEF Still, DispatchHook, chain

LEMMA HookIsFirst ==
  ASSUME ChainAssumption, CarefulInv, NEW p \in Routers, DispatchHook(p)
  PROVE  [Contract!Next]_(Contract!vars)
<1>1. /\ proc[p].gen = gen /\ status \in {"SUCCEEDED", "FAILED"}
      /\ status = "SUCCEEDED" <=> Outcome(p) = "ok"
      /\ gen \in 0..MaxResumes
  BY Parts DEF DispatchHook, HooksOK, HookDue, RowsOK, TypeOK
<1>2. PICK h \in {"success", "failure"} :
        h = (IF Outcome(p) = "ok" THEN "success" ELSE "failure") /\ h = HookOf(status)
  BY <1>1 DEF HookOf
<1>3. Fire(h, gen) /\ UNCHANGED <<status, index, gen>>
  BY <1>1, <1>2 DEF DispatchHook, chain
<1>4. CASE h \in rows
  BY <1>3, <1>4 DEF Fire, Contract!vars
<1>5. CASE h \notin rows
  <2>1. \A f \in fired : f[1] # gen
    BY <1>2, <1>5, Parts DEF HooksOK, HookDue, RowsOK
  <2>2. gen \in 0..gen /\ fired' = fired \cup {<<gen, h>>}
    BY <1>1, <1>3, <1>5 DEF Fire
  <2>3. /\ h = "success" => gen = gen /\ status = "SUCCEEDED"
        /\ h = "failure" => status = "FAILED"
    BY <1>1, <1>2
  <2>4. Contract!Fire
    BY <1>3, <2>1, <2>2, <2>3 DEF Contract!Fire
  <2> QED
    BY <2>4 DEF Contract!Next
<1> QED
  BY <1>4, <1>5

LEMMA StepAllowed ==
  ASSUME ChainAssumption, Careful, CarefulInv, DeadOK, [Next]_vars
  PROVE  [Contract!Next]_(Contract!vars)
<1>0. index \in Step /\ bound \in [Step -> Task \cup {0}] /\ TasksOK
  BY Parts, TypesOfRows
<1>1. CASE Still
  BY <1>1 DEF Still, chain, history, Contract!vars
<1>2. CASE RunChain
  <2>1. status = "PENDING" /\ index' = 0
    BY <1>2, Parts DEF RunChain, StartOK
  <2>2. Contract!Start
    BY <1>2, <2>1 DEF RunChain, NeedsApproval, Contract!Start, Contract!Enter
  <2> QED
    BY <2>2 DEF Contract!Next
<1>3. ASSUME NEW p \in Routers, Closes(p, "SUCCEEDED") \/ Closes(p, "FAILED")
      PROVE  Contract!End
  BY <1>3 DEF Closes, history, Contract!End
<1>4. ASSUME NEW p \in Routers, GoesOn(p) PROVE Contract!Advance
  <2>1. /\ bound[index] = proc[p].task /\ Won(proc[p].task) /\ StepOf(p) = index
        /\ HasNext(p) /\ index' = index + 1 /\ UNCHANGED <<gen, fired>>
    BY <1>4 DEF GoesOn, Passes
  <2>2. proc[p].task \in Task
    BY <1>4, AtWork, Parts DEF GoesOn, Passes
  <2>3. status # "FAILED"
    BY <1>0, <2>1, <2>2, DeadHasNotWon DEF DeadOK
  <2>4. /\ status = "RUNNING"
        /\ status' = IF index' \in Gated THEN "WAITING_APPROVAL" ELSE "RUNNING"
    BY <1>4, <2>3 DEF GoesOn
  <2> QED
    BY <2>1, <2>4 DEF HasNext, Contract!Advance, Contract!Enter
<1>5. ASSUME NEW o \in Operators, CallsOff(o) PROVE Contract!Cancel
  <2>1. rows = {}
    BY <1>5, UnsettledIsClean DEF CallsOff
  <2> QED
    BY <1>5, <2>1 DEF CallsOff, Fire, Cancellable, Contract!Cancel
<1>6. ASSUME NEW o \in Operators, Revives(o) PROVE Contract!Resume
  BY <1>6 DEF Revives, Resume, Contract!Resume
<1>7. ASSUME NEW o \in Operators, OpensGate(o) PROVE Contract!Approve
  BY <1>7 DEF OpensGate, Approve, Contract!Approve
<1> QED
  BY <1>1, <1>2, <1>3, <1>4, <1>5, <1>6, <1>7, HookIsFirst, StepKinds DEF Contract!Next

(* A chain does what its contract allows, whatever crashes, is replayed or *)
(* comes late: it goes through its steps in order, stops at gates, ends in *)
(* one way a generation and queues the one hook for that end.              *)
THEOREM ChainKeepsItsContract ==
  ASSUME ChainAssumption, Careful, MaxRuns = 1 PROVE Spec => KeepsContract
<1>1. Init => CarefulInv /\ DeadOK /\ Contract!Init
  BY InitCareful DEF Init, DeadOK, Contract!Init
<1>2. CarefulInv /\ DeadOK /\ [Next]_vars
        => CarefulInv' /\ DeadOK' /\ [Contract!Next]_(Contract!vars)
  BY StepCareful, StepDead, StepAllowed
<1> QED
  BY <1>1, <1>2, PTL DEF Spec, KeepsContract, Contract!Spec
-----------------------------------------------------------------------------
(* What holds of hooks when operators act in the middle of a completion.   *)

(* A chain without a gate does not park.                                   *)
Ungated ==
  /\ status # "WAITING_APPROVAL"
  /\ \A o \in Operators : proc[o].pc # "parked"

(* Who holds a hook that is due is the one who has settled its generation, *)
(* and that generation has queued none.                                    *)
HookHeld(p) ==
  /\ proc[p].gen <= gen /\ (proc[p].gen = gen => settled)
  /\ \A f \in fired : f[1] # proc[p].gen
  /\ \A q \in Routers : proc[q].pc = "hook" /\ proc[q].gen = proc[p].gen => q = p
HooksHeld ==
  /\ \A f \in fired : f[1] <= gen /\ (f[1] = gen => settled)
  /\ \A p \in Routers : proc[p].pc = "hook" => HookHeld(p)

OnceInv == BaseInv /\ Ungated /\ HooksHeld /\ OneHookPerGeneration

(* What a step is for the hooks of a chain that does not park.             *)
NewHooksNone == \A p \in Routers : proc'[p].pc = "hook" => proc'[p] = proc[p]
Takes(q) ==
  /\ ~settled /\ settled' = TRUE
  /\ proc'[q].pc = "hook" /\ proc'[q].gen = gen
  /\ \A p \in Routers \ {q} : proc'[p] = proc[p]
  /\ UNCHANGED <<fired, gen>>
Fires(q) ==
  /\ proc[q].pc = "hook" /\ proc'[q].pc = "mark"
  /\ \/ fired' = fired
     \/ \E h \in Hook : fired' = fired \cup {<<proc[q].gen, h>>}
  /\ NewHooksNone /\ UNCHANGED <<gen, settled>>
Cancels ==
  /\ ~settled /\ settled' = TRUE
  /\ fired' = fired \/ fired' = fired \cup {<<gen, "cancelled">>}
  /\ NewHooksNone /\ gen' = gen
Restarts ==
  gen' = gen + 1 /\ settled' = FALSE /\ fired' = fired /\ NewHooksNone

LEMMA StaysUngated ==
  ASSUME ChainAssumption, Gated = {}, BaseInv, Ungated, [Next]_vars
  PROVE  Ungated'
<1>1. status' # "WAITING_APPROVAL"
  <2>1. ~NeedsApproval(0) /\ \A p \in Routers : ~NeedsApproval(StepOf(p) + 1)
    BY DEF NeedsApproval
  <2>2. ASSUME NEW p \in Routers, NEW st \in {"SUCCEEDED", "FAILED"}, Settle(p, st)
        PROVE  status' \in {status, st}
    BY <2>2 DEF Settle
  <2>3. ASSUME NEW p \in Routers, Advance(p) \/ FailChain(p)
        PROVE  status' # "WAITING_APPROVAL"
    BY <2>1, <2>2, <2>3 DEF Advance, FailChain, Ungated, chain
  <2> QED
    BY <2>1, <2>3
       DEF Next, RouterStep, RunChain, Resolve, Replay, Route, Handle, DispatchHook,
           MarkRouted, Crash, Look, Resume, Approve, Reject, Cancel, Requeue, vars, chain,
           Ungated
<1>2. ASSUME NEW o \in Operators PROVE proc'[o].pc # "parked"
  BY OperatorMoves DEF Ungated
<1> QED
  BY <1>1, <1>2 DEF Ungated

LEMMA SettleTakes ==
  ASSUME ChainAssumption, BaseInv, NEW q \in Routers, NEW st, Settle(q, st),
         UNCHANGED <<fired, gen>>
  PROVE  Takes(q) \/ (NewHooksNone /\ settled' = settled)
<1>0. proc \in [Proc -> ProcRow] /\ Routers \subseteq Proc
  BY TypesOfRows DEF BaseInv, Proc
<1>1. CASE MoveTo(q, "mark") /\ settled' = settled
  <2>1. NewHooksNone
    BY <1>0, <1>1 DEF MoveTo, NewHooksNone, ProcRow
  <2> QED
    BY <1>1, <2>1
<1>2. CASE Settles /\ settled' = TRUE /\ proc' = [proc EXCEPT ![q].pc = "hook", ![q].gen = gen]
  BY <1>0, <1>2 DEF Settles, Takes, ProcRow
<1> QED
  BY <1>1, <1>2 DEF Settle

LEMMA HookSteps ==
  ASSUME ChainAssumption, BaseInv, Ungated, [Next]_vars
  PROVE  \/ NewHooksNone /\ UNCHANGED <<fired, gen, settled>>
         \/ \E q \in Routers : Takes(q) \/ Fires(q)
         \/ Cancels \/ Restarts
<1> DEFINE Quietly == NewHooksNone /\ UNCHANGED <<fired, gen, settled>>
<1>0. proc \in [Proc -> ProcRow] /\ Routers \subseteq Proc /\ Operators \subseteq Proc
      /\ Routers \cap Operators = {}
  BY TypesOfRows DEF BaseInv, Proc, ChainAssumption
<1>1. ASSUME NEW q \in Routers, NEW pc, pc # "hook", MoveTo(q, pc) PROVE NewHooksNone
  BY <1>0, <1>1 DEF MoveTo, NewHooksNone, ProcRow
<1>2. ASSUME NEW q \in Proc, Release(q) PROVE NewHooksNone
  BY <1>0, <1>2, IdleRow DEF Release, NewHooksNone
<1>3. ASSUME NEW q \in Routers, Route(q) \/ Handle(q) \/ MarkRouted(q) \/ Crash(q)
      PROVE  Quietly
  BY <1>0, <1>1, <1>2, <1>3 DEF Route, Handle, MarkRouted, Crash, chain, history
<1>4. ASSUME NEW q \in Routers, Advance(q) PROVE Takes(q) \/ Quietly
  <2>1. UNCHANGED <<fired, gen>>
    BY <1>4 DEF Advance, history
  <2>2. \/ MoveTo(q, "mark") /\ settled' = settled
        \/ Release(q) /\ settled' = settled
        \/ Settle(q, "SUCCEEDED")
    BY <1>4 DEF Advance, chain
  <2> QED
    BY <1>0, <1>1, <1>2, <2>1, <2>2, SettleTakes
<1>5. ASSUME NEW q \in Routers, FailChain(q) PROVE Takes(q) \/ Quietly
  <2>1. UNCHANGED <<fired, gen>>
    BY <1>5 DEF FailChain, history
  <2>2. \/ MoveTo(q, "mark") /\ settled' = settled
        \/ Settle(q, "FAILED")
    BY <1>5 DEF FailChain
  <2> QED
    BY <1>1, <2>1, <2>2, SettleTakes
<1>6. ASSUME NEW q \in Routers, DispatchHook(q) PROVE Fires(q)
  <2>1. proc[q].pc = "hook" /\ MoveTo(q, "mark") /\ UNCHANGED <<gen, settled>>
    BY <1>6 DEF DispatchHook, chain
  <2>2. proc'[q].pc = "mark" /\ NewHooksNone
    BY <1>0, <1>1, <2>1 DEF MoveTo, ProcRow
  <2>3. PICK h \in Hook : h = IF Outcome(q) = "ok" THEN "success" ELSE "failure"
    BY DEF Hook
  <2>4. fired' = fired \/ fired' = fired \cup {<<proc[q].gen, h>>}
    BY <1>6, <2>3 DEF DispatchHook, Fire
  <2> QED
    BY <2>1, <2>2, <2>4 DEF Fires
<1>7. ASSUME NEW o \in Operators, Look(o) PROVE Quietly
  <2>1. NewHooksNone
    BY <1>0, <1>7 DEF Look, MoveTo, NewHooksNone
  <2> QED
    BY <1>7, <2>1 DEF Look, chain, history
<1>8. ASSUME NEW o \in Operators, Resume(o) PROVE Restarts \/ Quietly
  <2>1. NewHooksNone
    BY <1>0, <1>2, <1>8 DEF Resume
  <2> QED
    BY <1>8, <2>1 DEF Resume, Restarts, SettledOnceResumed
<1>9. ASSUME NEW o \in Operators PROVE ~Approve(o) /\ ~Reject(o)
  BY DEF Ungated, Approve, Reject
<1>10. ASSUME NEW o \in Operators, Cancel(o) PROVE Cancels
  <2>1. NewHooksNone
    BY <1>10 DEF Cancel, NewHooksNone
  <2> QED
    BY <1>10, <2>1 DEF Cancel, Cancels, Fire
<1>11. ASSUME NEW m \in Monitors, NEW t \in Task, NEW out \in {"ok", "fail"}, Resolve(m, t, out)
       PROVE  Quietly
  <2> DEFINE x == [Idle EXCEPT !.pc = "route", !.task = t, !.run = Newest(t)]
  <2>1. x.pc = "route"
    BY DEF Idle
  <2>2. proc' = [proc EXCEPT ![m] = x]
    BY <1>11 DEF Resolve
  <2> HIDE DEF x
  <2>3. NewHooksNone
    BY <1>0, <2>1, <2>2 DEF NewHooksNone
  <2> QED
    BY <1>11, <2>3 DEF Resolve, chain, history
<1>12. ASSUME NEW r \in Reapers, NEW t \in Task, NEW n \in Run, Replay(r, t, n)
       PROVE  Quietly
  <2> DEFINE x == [Idle EXCEPT !.pc = "route", !.task = t, !.run = n]
  <2>1. x.pc = "route"
    BY DEF Idle
  <2>2. proc' = [proc EXCEPT ![r] = x]
    BY <1>12 DEF Replay
  <2> HIDE DEF x
  <2>3. NewHooksNone
    BY <1>0, <2>1, <2>2 DEF NewHooksNone
  <2> QED
    BY <1>12, <2>3 DEF Replay, chain, history
<1>13. CASE RunChain \/ (\E t \in Task : Requeue(t)) \/ UNCHANGED vars
  BY <1>13 DEF RunChain, Requeue, vars, chain, history, NewHooksNone
<1> HIDE DEF Quietly
<1>14. Quietly => NewHooksNone /\ UNCHANGED <<fired, gen, settled>>
  BY DEF Quietly
<1> QED
  BY <1>3, <1>4, <1>5, <1>6, <1>7, <1>8, <1>9, <1>10, <1>11, <1>12, <1>13, <1>14
     DEF Next, RouterStep

LEMMA HooksStayHeld ==
  ASSUME ChainAssumption, BaseInv, Ungated, HooksHeld, OneHookPerGeneration, [Next]_vars
  PROVE  HooksHeld' /\ OneHookPerGeneration'
<1>0. /\ gen \in Int /\ settled \in BOOLEAN /\ \A f \in fired : f[1] \in Int
      /\ \A p \in Routers : proc[p].gen \in Int
  BY TypesOfRows DEF BaseInv, TypeOK, Proc, ChainAssumption, ProcRow
<1>1. CASE NewHooksNone /\ UNCHANGED <<fired, gen, settled>>
  BY <1>1 DEF NewHooksNone, HooksHeld, HookHeld, OneHookPerGeneration
<1>2. ASSUME NEW q \in Routers, Takes(q) PROVE HooksHeld' /\ OneHookPerGeneration'
  <2>1. \A p \in Routers : p # q /\ proc'[p].pc = "hook" =>
          /\ proc[p].pc = "hook" /\ proc'[p].gen = proc[p].gen /\ proc[p].gen < gen
    BY <1>0, <1>2 DEF Takes, HooksHeld, HookHeld
  <2>2. \A f \in fired : f[1] < gen
    BY <1>0, <1>2 DEF Takes, HooksHeld
  <2> QED
    BY <1>0, <1>2, <2>1, <2>2 DEF Takes, HooksHeld, HookHeld, OneHookPerGeneration
<1>3. ASSUME NEW q \in Routers, Fires(q) PROVE HooksHeld' /\ OneHookPerGeneration'
  <2>1. HookHeld(q) /\ proc'[q].pc # "hook"
    BY <1>3 DEF Fires, HooksHeld
  <2>2. PICK h : fired' \subseteq fired \cup {<<proc[q].gen, h>>}
    BY <1>3 DEF Fires
  <2>3. \A p \in Routers : proc'[p].pc = "hook" => proc'[p] = proc[p] /\ proc[p].gen # proc[q].gen
    BY <1>3, <2>1 DEF Fires, NewHooksNone, HookHeld
  <2>4. \A f \in fired' : f \in fired \/ (f = <<proc[q].gen, h>> /\ f[1] = proc[q].gen)
    BY <2>2
  <2>5. gen' = gen /\ settled' = settled
    BY <1>3 DEF Fires
  <2>6. OneHookPerGeneration'
    BY <2>1, <2>4 DEF OneHookPerGeneration, HookHeld
  <2>7. \A f \in fired' : f[1] <= gen /\ (f[1] = gen => settled)
    BY <2>1, <2>4 DEF HooksHeld, HookHeld
  <2>8. ASSUME NEW p \in Routers, proc'[p].pc = "hook" PROVE HookHeld(p)'
    <3>1. HookHeld(p) /\ proc'[p] = proc[p]
      BY <2>3, <2>8 DEF HooksHeld
    <3> QED
      BY <2>3, <2>4, <2>5, <2>8, <3>1 DEF HookHeld
  <2> QED
    BY <2>5, <2>6, <2>7, <2>8 DEF HooksHeld
<1>4. CASE Cancels
  <2>1. \A f \in fired : f[1] # gen
    BY <1>4 DEF Cancels, HooksHeld
  <2>2. \A p \in Routers : proc'[p].pc = "hook" => proc'[p] = proc[p] /\ proc[p].gen # gen
    BY <1>4 DEF Cancels, NewHooksNone, HooksHeld, HookHeld
  <2>3. \A f \in fired' : f \in fired \/ (f = <<gen, "cancelled">> /\ f[1] = gen)
    BY <1>4 DEF Cancels
  <2> QED
    BY <1>0, <1>4, <2>1, <2>2, <2>3 DEF Cancels, HooksHeld, HookHeld, OneHookPerGeneration
<1>5. CASE Restarts
  <2>1. \A p \in Routers : proc'[p].pc = "hook" => proc'[p] = proc[p] /\ proc[p].gen < gen'
    BY <1>0, <1>5 DEF Restarts, NewHooksNone, HooksHeld, HookHeld
  <2>2. \A f \in fired : f[1] < gen'
    BY <1>0, <1>5 DEF Restarts, HooksHeld
  <2> QED
    BY <1>0, <1>5, <2>1, <2>2 DEF Restarts, HooksHeld, HookHeld, OneHookPerGeneration
<1> QED
  BY <1>1, <1>2, <1>3, <1>4, <1>5, HookSteps

LEMMA InitOnce ==
  ASSUME ChainAssumption, Init PROVE OnceInv
<1>1. \A p \in Proc : proc[p].pc = "idle"
  BY DEF Init, Idle
<1> QED
  BY <1>1, InitBase DEF Init, OnceInv, Ungated, HooksHeld, OneHookPerGeneration, Proc

LEMMA StepOnce ==
  ASSUME ChainAssumption, Gated = {}, OnceInv, [Next]_vars PROVE OnceInv'
BY StepBase, StaysUngated, HooksStayHeld DEF OnceInv

(* Without a gate a generation queues one hook at most, whoever cancels or *)
(* resumes the chain in the middle of a completion, and from whatever page.*)
THEOREM HooksAreOnceInAnyHurry ==
  ASSUME ChainAssumption, Gated = {} PROVE Spec => []OneHookPerGeneration
<1>1. Init => OnceInv
  BY InitOnce
<1>2. OnceInv /\ [Next]_vars => OnceInv'
  BY StepOnce
<1>3. OnceInv => OneHookPerGeneration
  BY DEF OnceInv
<1> QED
  BY <1>1, <1>2, <1>3, PTL DEF Spec
=============================================================================
