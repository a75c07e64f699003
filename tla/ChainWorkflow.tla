--------------------------- MODULE ChainWorkflow ---------------------------
(***************************************************************************)
(* One QraftChain: run, the routing of its steps' completions through      *)
(* ChainDispatcher, approval gates, cancel, reject, resume, and the        *)
(* dispatch of its workflow hooks.  The series of attempts of a step's     *)
(* task is what TaskLifecycle shows it to be: attempts one after another,  *)
(* each resolved once, the newest deciding the status.  An attempt that a  *)
(* retry absorbs is not routed, so only the last attempt of each retry     *)
(* series is seen here; a requeued dead task starts another.               *)
(*                                                                         *)
(* A transaction is one action.  What a router reads before it takes the   *)
(* chain's lock, and what an operator has seen on a page, is an earlier    *)
(* action.                                                                 *)
(***************************************************************************)
EXTENDS Integers, FiniteSets

CONSTANTS
  Monitors,     \* monitor processes: resolve attempts and route them
  Reapers,      \* reaper threads: replay what was not routed
  Operators,    \* people and views holding an instance of the chain
  LastStep,     \* steps are numbered from 0
  Gated,        \* steps with requires_approval
  MaxTasks,     \* bound: tasks created for steps
  MaxRuns,      \* bound: completions of one task (1 + requeues)
  MaxResumes,   \* bound: resumes
  MaxFaults,    \* bound: crashes of routers
  Shared,       \* others hold the chain's id before run()
  Unhurried     \* people act only when no completion is half-way routed

Routers == Monitors \cup Reapers
Proc == Routers \cup Operators
Step == 0..LastStep
Task == 1..MaxTasks
Run == 1..MaxRuns

ChainAssumption ==
  /\ LastStep \in Nat /\ Gated \subseteq Step
  /\ MaxTasks \in Nat \ {0} /\ MaxRuns \in Nat \ {0}
  /\ MaxResumes \in Nat /\ MaxFaults \in Nat
  /\ Shared \in BOOLEAN /\ Unhurried \in BOOLEAN
  /\ Monitors \cap Reapers = {} /\ Routers \cap Operators = {}

VARIABLES
  status,    \* QraftChainModel.status
  index,     \* current_step_index
  settled,   \* settled_at is set
  started,   \* the steps exist: run() has committed
  bound,     \* task bound to each step (QraftChainStep.qraft_task), 0 for none
  task,      \* the tasks created for steps, with their completions
  rows,      \* hook types with a WorkflowHookDispatch row
  proc,      \* what each monitor, reaper and operator is doing
  gen,       \* history: resumes so far
  fired,     \* history: hooks queued, with the generation they settle
  approved,  \* history: steps an operator has approved
  faults     \* crashes so far

chain == <<status, index, settled, started, bound>>
history == <<gen, fired, approved>>
vars == <<chain, task, rows, proc, history, faults>>

Status ==
  {"PENDING", "RUNNING", "WAITING_APPROVAL", "SUCCEEDED", "FAILED", "CANCELLED"}
Terminal == {"SUCCEEDED", "FAILED", "CANCELLED"}
Cancellable == {"PENDING", "RUNNING", "WAITING_APPROVAL"}
Hook == {"success", "failure", "cancelled"}

(* VALID_TRANSITIONS: transition_to raises outside them. *)
ValidTransitions ==
  {<<"PENDING", "RUNNING">>, <<"PENDING", "CANCELLED">>,
   <<"RUNNING", "WAITING_APPROVAL">>, <<"RUNNING", "SUCCEEDED">>,
   <<"RUNNING", "FAILED">>, <<"RUNNING", "CANCELLED">>,
   <<"WAITING_APPROVAL", "RUNNING">>, <<"WAITING_APPROVAL", "CANCELLED">>,
   <<"FAILED", "RUNNING">>}
CanMove(to) == <<status, to>> \in ValidTransitions

NoTask == [step |-> -1, gen |-> 0, out |-> [r \in Run |-> "none"], routed |-> {}]
NewTask(s, g) == [NoTask EXCEPT !.step = s, !.gen = g, !.out[1] = "open"]
Idle == [pc |-> "idle", task |-> 0, run |-> 0, gen |-> 0]

TypeOK ==
  /\ status \in Status /\ index \in Step
  /\ settled \in BOOLEAN /\ started \in BOOLEAN
  /\ bound \in [Step -> Task \cup {0}]
  /\ task \in [Task -> [step : Step \cup {-1}, gen : 0..MaxResumes,
                        routed : SUBSET Run,
                        out : [Run -> {"none", "open", "ok", "fail"}]]]
  /\ rows \subseteq Hook
  /\ proc \in [Proc -> [pc : {"idle", "route", "handle", "advance", "fail",
                              "hook", "mark", "failed", "parked"},
                        task : Task \cup {0}, run : Run \cup {0},
                        gen : 0..MaxResumes]]
  /\ gen \in 0..MaxResumes
  /\ fired \subseteq (0..MaxResumes) \X Hook
  /\ approved \subseteq Step
  /\ faults \in 0..MaxFaults

Newest(t) == CHOOSE r \in Run :
               task[t].out[r] # "none"
                 /\ (r + 1 \in Run => task[t].out[r + 1] = "none")
Exists(t) == task[t].step # -1
Live(t) == Exists(t) /\ task[t].out[Newest(t)] = "open"
Dead(t) == Exists(t) /\ task[t].out[Newest(t)] = "fail"
Fresh(t) == ~Exists(t) /\ \A u \in Task : u < t => Exists(u)

Init ==
  /\ status = "PENDING" /\ index = 0
  /\ settled = FALSE /\ started = FALSE
  /\ bound = [s \in Step |-> 0]
  /\ task = [t \in Task |-> NoTask]
  /\ rows = {} /\ fired = {}
  /\ proc = [p \in Proc |-> Idle]
  /\ gen = 0 /\ approved = {} /\ faults = 0
-----------------------------------------------------------------------------
MoveTo(p, pc) == proc' = [proc EXCEPT ![p].pc = pc]
Release(p) == proc' = [proc EXCEPT ![p] = Idle]

(* _queue_chain_step: a task is created, queued and bound to the step in   *)
(* the caller's transaction.                                               *)
Queue(s) ==
  \E t \in Task :
    /\ Fresh(t)
    /\ task' = [task EXCEPT ![t] = NewTask(s, gen')]
    /\ bound' = [bound EXCEPT ![s] = t]

(* Mutant: only run() looks at gates. *)
GatedAtStart(s) == s = 0 /\ s \in Gated

NeedsApproval(s) == s \in Gated

(* QraftChain.run by the process that built the chain.  It moves its own   *)
(* instance, which says PENDING whatever others have done, and saves the   *)
(* status.                                                                 *)
RunChain ==
  /\ ~started
  /\ UNCHANGED gen
  /\ started' = TRUE
  /\ \/ /\ NeedsApproval(0)
        /\ status' = "WAITING_APPROVAL"
        /\ UNCHANGED <<task, bound>>
     \/ /\ ~NeedsApproval(0)
        /\ status' = "RUNNING"
        /\ Queue(0)
  /\ UNCHANGED <<index, settled, rows, proc, fired, approved, faults>>
-----------------------------------------------------------------------------
(* Routing of a completion.                                                *)

(* The monitor resolves the last attempt of a task's retry series and goes *)
(* on to route it.                                                         *)
Resolve(m, t, out) ==
  /\ proc[m].pc = "idle"
  /\ Live(t)
  /\ task' = [task EXCEPT ![t].out[Newest(t)] = out]
  /\ proc' = [proc EXCEPT ![m] =
       [Idle EXCEPT !.pc = "route", !.task = t, !.run = Newest(t)]]
  /\ UNCHANGED <<chain, rows, history, faults>>

(* Mutant: only successes are replayed. *)
UnroutedSuccess(t, n) == task[t].out[n] = "ok" /\ n \notin task[t].routed

Unrouted(t, n) == task[t].out[n] \in {"ok", "fail"} /\ n \notin task[t].routed

(* replay_unrouted: the reaper routes what was resolved and never routed.  *)
Replay(r, t, n) ==
  /\ proc[r].pc = "idle"
  /\ Unrouted(t, n)
  /\ proc' = [proc EXCEPT ![r] =
       [Idle EXCEPT !.pc = "route", !.task = t, !.run = n]]
  /\ UNCHANGED <<chain, task, rows, history, faults>>

Outcome(p) == task[proc[p].task].out[proc[p].run]
StepOf(p) == task[proc[p].task].step

(* Mutant: the binding is not read again. *)
AnyBinding(p) == TRUE

IsBound(p) == bound[StepOf(p)] = proc[p].task

(* route_workflow_completion: a completion of a task the step is no longer *)
(* bound to is dropped.                                                    *)
Route(p) ==
  /\ proc[p].pc = "route"
  /\ MoveTo(p, IF IsBound(p) THEN "handle" ELSE "mark")
  /\ UNCHANGED <<chain, task, rows, history, faults>>

(* Mutants: a FAILED task, one without a policy, is not taken for final;   *)
(* a task that has not died is taken for successful.                       *)
NeverExhausted(p) == FALSE
NotDead(p) == ~Dead(proc[p].task)

(* _is_task_exhausted: no further attempt is pending. *)
IsExhausted(p) == Dead(proc[p].task)

Succeeded(p) == Outcome(p) = "ok"

(* ChainDispatcher.handle before any lock. *)
Handle(p) ==
  /\ proc[p].pc = "handle"
  /\ MoveTo(p, IF status = "CANCELLED" THEN "mark"
               ELSE IF Succeeded(p) THEN "advance"
               ELSE IF IsExhausted(p) THEN "fail" ELSE "mark")
  /\ UNCHANGED <<chain, task, rows, history, faults>>

(* Mutants: a settled chain is settled again; the index is not compared;   *)
(* a cancel is not looked for under the lock; the last step is off by one. *)
AlwaysSettles == TRUE
AtAnyIndex(p) == TRUE
NotCancelled == TRUE
OneTooFar(p) == StepOf(p) <= LastStep

(* settle_workflow: one conditional update. *)
Settles == ~settled /\ status \notin Terminal

(* The chain settles as st and its hook is due, or it has settled already. *)
Settle(p, st) ==
  \/ /\ Settles
     /\ status' = st
     /\ settled' = TRUE
     /\ proc' = [proc EXCEPT ![p].pc = "hook", ![p].gen = gen]
  \/ /\ ~Settles
     /\ MoveTo(p, "mark")
     /\ UNCHANGED <<status, settled>>

AtIndex(p) == index = StepOf(p)
Proceeds == status # "CANCELLED"
HasNext(p) == StepOf(p) < LastStep

(* _handle_step_success under the chain's lock.  Parking is the one move   *)
(* that validates the transition; when it raises, the routing is abandoned *)
(* and the completion stays unrouted.                                      *)
Advance(p) ==
  LET next == StepOf(p) + 1 IN
  /\ proc[p].pc = "advance"
  /\ UNCHANGED <<rows, history, faults>>
  /\ IF ~Proceeds \/ ~AtIndex(p)
     THEN MoveTo(p, "mark") /\ UNCHANGED <<chain, task>>
     ELSE \/ /\ ~HasNext(p)
             /\ Settle(p, "SUCCEEDED")
             /\ UNCHANGED <<index, started, bound, task>>
          \/ /\ HasNext(p) /\ NeedsApproval(next) /\ CanMove("WAITING_APPROVAL")
             /\ index' = next
             /\ status' = "WAITING_APPROVAL"
             /\ MoveTo(p, "mark")
             /\ UNCHANGED <<settled, started, bound, task>>
          \/ /\ HasNext(p) /\ NeedsApproval(next) /\ ~CanMove("WAITING_APPROVAL")
             /\ Release(p)
             /\ UNCHANGED <<chain, task>>
          \/ /\ HasNext(p) /\ ~NeedsApproval(next)
             /\ index' = next
             /\ Queue(next)
             /\ MoveTo(p, "mark")
             /\ UNCHANGED <<status, settled, started>>

(* _complete_chain(success=False) under the chain's lock. *)
FailChain(p) ==
  /\ proc[p].pc = "fail"
  /\ \/ /\ Proceeds
        /\ Settle(p, "FAILED")
     \/ /\ ~Proceeds
        /\ MoveTo(p, "mark")
        /\ UNCHANGED <<status, settled>>
  /\ UNCHANGED <<index, started, bound, task, rows, history, faults>>

(* dispatch_hook_once: the row and the queued hook commit together, unless *)
(* there is a row already.                                                 *)
Fire(hook, g) ==
  \/ /\ hook \notin rows
     /\ rows' = rows \cup {hook}
     /\ fired' = fired \cup {<<g, hook>>}
  \/ /\ hook \in rows
     /\ UNCHANGED <<rows, fired>>

(* _dispatch_chain_hook, after the settling commit. *)
DispatchHook(p) ==
  /\ proc[p].pc = "hook"
  /\ Fire(IF Outcome(p) = "ok" THEN "success" ELSE "failure", proc[p].gen)
  /\ MoveTo(p, "mark")
  /\ UNCHANGED <<chain, task, gen, approved, faults>>

MarkRouted(p) ==
  /\ proc[p].pc = "mark"
  /\ task' = [task EXCEPT ![proc[p].task].routed = @ \cup {proc[p].run}]
  /\ Release(p)
  /\ UNCHANGED <<chain, rows, history, faults>>
-----------------------------------------------------------------------------
(* Operators.                                                              *)

Quiet == \A p \in Routers : proc[p].pc = "idle"
MayAct == Unhurried => Quiet

(* An instance or a page shows the chain failed, or parked at a gate. *)
Look(o) ==
  /\ proc[o].pc = "idle"
  /\ status \in {"FAILED", "WAITING_APPROVAL"}
  /\ MoveTo(o, IF status = "FAILED" THEN "failed" ELSE "parked")
  /\ UNCHANGED <<chain, task, rows, history, faults>>

(* Mutant: settled_at survives the resume. *)
StillSettled == settled

SettledOnceResumed == FALSE

(* QraftChain.resume: the status is checked on the loaded instance, the    *)
(* transition on the locked row.                                           *)
Resume(o) ==
  /\ proc[o].pc = "failed"
  /\ MayAct
  /\ \/ /\ CanMove("RUNNING")
        /\ gen < MaxResumes
        /\ gen' = gen + 1
        /\ status' = "RUNNING"
        /\ settled' = SettledOnceResumed
        /\ rows' = {}
        /\ Queue(index)
     \/ /\ ~CanMove("RUNNING")
        /\ UNCHANGED <<status, settled, bound, task, rows, gen>>
  /\ Release(o)
  /\ UNCHANGED <<index, started, fired, approved, faults>>

(* QraftChain.approve: one locked transaction. *)
Approve(o) ==
  /\ proc[o].pc = "parked"
  /\ MayAct
  /\ UNCHANGED gen
  /\ \/ /\ CanMove("RUNNING")
        /\ status' = "RUNNING"
        /\ approved' = approved \cup {index}
        /\ Queue(index)
     \/ /\ ~CanMove("RUNNING")
        /\ UNCHANGED <<status, bound, task, approved>>
  /\ Release(o)
  /\ UNCHANGED <<index, settled, started, rows, fired, faults>>

(* QraftChain.reject: the cancelled hook commits with the transition. *)
Reject(o) ==
  /\ proc[o].pc = "parked"
  /\ \/ /\ CanMove("CANCELLED")
        /\ status' = "CANCELLED"
        /\ settled' = TRUE
        /\ Fire("cancelled", gen)
     \/ /\ ~CanMove("CANCELLED")
        /\ UNCHANGED <<status, settled, rows, fired>>
  /\ Release(o)
  /\ UNCHANGED <<index, started, bound, task, gen, approved, faults>>

(* BaseWorkflow.cancel: a conditional update and the hook, in one          *)
(* transaction.                                                            *)
Cancel(o) ==
  /\ proc[o].pc = "idle"
  /\ started \/ Shared
  /\ status \in Cancellable /\ ~settled
  /\ status' = "CANCELLED"
  /\ settled' = TRUE
  /\ Fire("cancelled", gen)
  /\ UNCHANGED <<index, started, bound, task, proc, gen, approved, faults>>

(* dlq.requeue of a dead task of the chain: its next attempt. *)
Requeue(t) ==
  /\ Dead(t)
  /\ MayAct
  /\ Newest(t) + 1 \in Run
  /\ task' = [task EXCEPT ![t].out[Newest(t) + 1] = "open"]
  /\ UNCHANGED <<chain, rows, proc, history, faults>>

(* A monitor or reaper dies between two of its transactions. *)
Crash(p) ==
  /\ faults < MaxFaults
  /\ proc[p].pc # "idle"
  /\ faults' = faults + 1
  /\ Release(p)
  /\ UNCHANGED <<chain, task, rows, history>>
-----------------------------------------------------------------------------
RouterStep(p) ==
  Route(p) \/ Handle(p) \/ Advance(p) \/ FailChain(p) \/ DispatchHook(p) \/ MarkRouted(p)

Next ==
  \/ RunChain
  \/ \E m \in Monitors, t \in Task, out \in {"ok", "fail"} : Resolve(m, t, out)
  \/ \E r \in Reapers, t \in Task, n \in Run : Replay(r, t, n)
  \/ \E p \in Routers : RouterStep(p) \/ Crash(p)
  \/ \E o \in Operators : Look(o) \/ Resume(o) \/ Approve(o) \/ Reject(o) \/ Cancel(o)
  \/ \E t \in Task : Requeue(t)

Spec == Init /\ [][Next]_vars

(* The builder runs its chain, and the cluster's threads go on: targets    *)
(* end, monitors resolve and route, reapers replay.  Operators need not    *)
(* act.                                                                    *)
Fairness ==
  /\ WF_vars(RunChain)
  /\ \A m \in Monitors, t \in Task :
       WF_vars(\E out \in {"ok", "fail"} : Resolve(m, t, out))
  /\ \A r \in Reapers, t \in Task, n \in Run : WF_vars(Replay(r, t, n))
  /\ \A p \in Routers : WF_vars(RouterStep(p))

FairSpec == Spec /\ Fairness
-----------------------------------------------------------------------------
(* Properties.                                                             *)

(* A step is queued only once the step before it has succeeded, in this    *)
(* generation or an earlier one (ChainDispatcher._handle_step_success).    *)
StepsInOrder ==
  \A t \in Task : Exists(t) /\ task[t].step > 0 =>
    \E u \in Task, n \in Run :
      task[u].step = task[t].step - 1 /\ task[u].out[n] = "ok"

(* Between two resumes no step is queued twice, however often its          *)
(* predecessor's completion is delivered or replayed.                      *)
QueuedOnce ==
  \A t, u \in Task :
    Exists(t) /\ task[t].step = task[u].step /\ task[t].gen = task[u].gen => t = u

(* A gated step runs only after somebody has approved it                   *)
(* (docs/workflows.md:43).                                                 *)
GateHolds ==
  \A t \in Task : task[t].step \in Gated => task[t].step \in approved

(* settled_at and the status agree, so a chain that is not over can still  *)
(* settle and one that is cannot settle again (docs/workflows.md:426).     *)
SettledMeansOver == settled <=> status \in Terminal

(* One generation ends in one way: it never queues two hooks.              *)
OneHookPerGeneration ==
  \A f, h \in fired : f[1] = h[1] => f = h

(* A running chain always has somebody to wait for: the task of its        *)
(* current step is live, or has a completion that is yet to be routed, so  *)
(* no crash between a commit and what follows it strands the chain.        *)
NothingStranded ==
  status = "RUNNING" =>
    /\ bound[index] # 0
    /\ \/ Live(bound[index])
       \/ \E n \in Run : /\ task[bound[index]].out[n] \in {"ok", "fail"}
                         /\ n \notin task[bound[index]].routed

(* Nothing is queued for a cancelled chain, and nothing revives it         *)
(* (BaseWorkflow.cancel).                                                  *)
CancelledIsFinal ==
  [][status = "CANCELLED" => status' = "CANCELLED" /\ bound' = bound]_vars

(* A chain that runs ends or parks, whatever crashes. *)
ChainMoves == status = "RUNNING" ~> status # "RUNNING"

(* Every completion is routed in the end. *)
CompletionsRouted ==
  \A t \in Task, n \in Run :
    task[t].out[n] \in {"ok", "fail"} ~> n \in task[t].routed

Contract == INSTANCE ChainContract
              WITH phase <- status, at <- index

(* Without requeues and second operators the chain implements its          *)
(* contract.                                                               *)
KeepsContract == Contract!Spec

FailsChain(p) == proc[p].pc = "fail" /\ proc'[p].pc = "hook"

(* A completion captured before a resume is dropped instead of settling    *)
(* the chain the resume started (docs/workflows.md:436).                   *)
SupersededIsDropped ==
  [][\A p \in Routers : FailsChain(p) => bound[StepOf(p)] = proc[p].task]_vars

(* After a settlement, once all is routed, its hook has been queued: it is *)
(* not deduplicated against an earlier settlement (docs/workflows.md:433)  *)
(* and not lost in a crash (hooks.py:415).                                 *)
SettlementHookQueued ==
  /\ Quiet
  /\ \A t \in Task, n \in Run :
       task[t].out[n] \in {"ok", "fail"} => n \in task[t].routed
  =>
  /\ status = "SUCCEEDED" => <<gen, "success">> \in fired
  /\ status = "FAILED" => <<gen, "failure">> \in fired
=============================================================================
