--------------------------- MODULE TaskLifecycle ---------------------------
(***************************************************************************)
(* One QraftTask and its series of QraftTaskAttempts, from enqueue to the  *)
(* last routed completion: the dispatcher that claims SCHEDULED attempts,  *)
(* the Django-Q2 broker that delivers (and redelivers) messages, the       *)
(* worker that claims a delivery, heartbeats and returns, the monitor that *)
(* saves a result and runs qraft_hook_handler, the reaper's three sweeps,  *)
(* and operators requeueing a dead task.  No transaction modelled here     *)
(* writes rows of two tasks, so one task is enough.  The task is a plain   *)
(* one or a graph node's; what its completion does to the graph is in a    *)
(* module of its own.                                                      *)
(*                                                                         *)
(* A database transaction is one action; a read made before a lock, and    *)
(* work done after a commit, are actions of their own.                     *)
(***************************************************************************)
EXTENDS Integers, FiniteSets

CONSTANTS
  Monitors,       \* monitor processes, one per running cluster
  Reapers,        \* reaper threads, one per running cluster
  Operators,      \* people requeueing from the dashboard, admin or a shell
  Slots,          \* worker slots: deliveries the clusters can hold at once
  MaxAttempt,     \* bound: attempt numbers explored
  MaxExecutions,  \* conf.max_executions_per_attempt
  RetryLimit,     \* max_attempts of the task's retry policy, 0 for no policy
  MaxFaults,      \* bound: crashes and lost messages explored
  NodeTask,       \* the task belongs to a graph node, so it may publish()
  OwnerMayCancel, \* the owning workflow or graph can be cancelled
  HookMayFail,    \* enqueueing a hook can fail
  Timely          \* no redelivery and no lapsed lease under a live worker

Handlers == Monitors \cup Reapers
Proc == Handlers \cup Operators
Attempt == 1..MaxAttempt

ASSUME ConstantsAssumption ==
  /\ MaxAttempt \in Nat \ {0}
  /\ MaxExecutions \in Nat \ {0}
  /\ RetryLimit \in 0..MaxAttempt
  /\ MaxFaults \in Nat
  /\ NodeTask \in BOOLEAN /\ OwnerMayCancel \in BOOLEAN
  /\ HookMayFail \in BOOLEAN /\ Timely \in BOOLEAN
  /\ Monitors \cap Reapers = {}
  /\ Handlers \cap Operators = {}
  /\ IsFiniteSet(Slots)

VARIABLES
  status,   \* QraftTask.status
  attempt,  \* the QraftTaskAttempt row of each attempt number
  row,      \* the broker still holds the attempt's message, unacknowledged
  saved,    \* outcome in the Django-Q2 Task row of the attempt, if any
  slot,     \* what each worker slot is doing
  proc,     \* what each monitor, reaper and operator is doing
  hooks,    \* hook types with a HookDispatch row
  receipt,  \* attempt named by the node's receipt_attempt_id, 0 for none
  died,     \* history: the task has been FAILED or EXHAUSTED
  faults    \* faults that have happened

vars == <<status, attempt, row, saved, slot, proc, hooks, receipt, died, faults>>

Dead == {"FAILED", "EXHAUSTED"}
Status == {"PENDING", "RUNNING", "SUCCEEDED"} \cup Dead
Outcome == {"none", "ok", "fail"}

AttemptRow ==
  [state: {"absent", "SCHEDULED", "QUEUED"}, success: Outcome,
   cause: {"none", "raised", "OrphanedTask", "ResultLost"},
   routed: BOOLEAN, executions: 0..MaxExecutions,
   heartbeat: {"null", "fresh", "stale"}, returned: BOOLEAN, committed: BOOLEAN]
SlotState == [pc: {"free", "picked", "running", "result"},
              att: Attempt \cup {0}, out: Outcome]
ProcState == [pc: {"idle", "handle", "hook", "mark", "ack", "reap", "loaded"},
              att: Attempt \cup {0}, out: Outcome,
              returned: BOOLEAN, committed: BOOLEAN]

TypeOK ==
  /\ status \in Status
  /\ attempt \in [Attempt -> AttemptRow]
  /\ row \in [Attempt -> BOOLEAN]
  /\ saved \in [Attempt -> Outcome]
  /\ slot \in [Slots -> SlotState]
  /\ proc \in [Proc -> ProcState]
  /\ hooks \subseteq {"success", "failure"}
  /\ receipt \in Attempt \cup {0}
  /\ died \in BOOLEAN
  /\ faults \in 0..MaxFaults

FreshRow(st) ==
  [state |-> st, success |-> "none", cause |-> "none", routed |-> FALSE,
   executions |-> 0, heartbeat |-> "null", returned |-> FALSE, committed |-> FALSE]
FreeSlot == [pc |-> "free", att |-> 0, out |-> "none"]
Idle == [pc |-> "idle", att |-> 0, out |-> "none",
         returned |-> FALSE, committed |-> FALSE]
At(pc, a, out) == [Idle EXCEPT !.pc = pc, !.att = a, !.out = out]

Exists(a) == a \in Attempt /\ attempt[a].state # "absent"
Unresolved(a) == Exists(a) /\ attempt[a].success = "none"
Latest(a) == Exists(a) /\ ~Exists(a + 1)

(* An immediate task is created RUNNING with attempt 1 already queued, a   *)
(* deferred one PENDING with attempt 1 scheduled.                          *)
Init ==
  /\ \E st \in {"SCHEDULED", "QUEUED"} :
       /\ attempt = [a \in Attempt |-> FreshRow(IF a = 1 THEN st ELSE "absent")]
       /\ row = [a \in Attempt |-> a = 1 /\ st = "QUEUED"]
       /\ status = IF st = "QUEUED" THEN "RUNNING" ELSE "PENDING"
  /\ saved = [a \in Attempt |-> "none"]
  /\ slot = [s \in Slots |-> FreeSlot]
  /\ proc = [p \in Proc |-> Idle]
  /\ hooks = {}
  /\ receipt = 0
  /\ died = FALSE
  /\ faults = 0
-----------------------------------------------------------------------------
(* Mutant: the dispatcher enqueues but leaves the task PENDING. *)
StillPending == status

(* The status a task has once its attempt is queued: an update scoped to   *)
(* PENDING, so that it cannot resurrect a settled task.                    *)
StatusOnceQueued == IF status = "PENDING" THEN "RUNNING" ELSE status

(* The dispatcher: scheduler._claim_and_enqueue, one transaction.          *)
Dispatch(a) ==
  /\ attempt[a].state = "SCHEDULED"
  /\ attempt' = [attempt EXCEPT ![a].state = "QUEUED"]
  /\ row' = [row EXCEPT ![a] = TRUE]
  /\ status' = StatusOnceQueued
  /\ UNCHANGED <<saved, slot, proc, hooks, receipt, died, faults>>
-----------------------------------------------------------------------------
(* The broker and the worker.                                              *)

Held(a) == \/ \E s \in Slots : slot[s].pc # "free" /\ slot[s].att = a
           \/ \E m \in Monitors : proc[m].pc # "idle" /\ proc[m].att = a

(* A message is handed to a worker, again whenever it is unacknowledged.   *)
Deliver(s, a) ==
  /\ row[a]
  /\ slot[s].pc = "free"
  /\ Timely => ~Held(a)
  /\ slot' = [slot EXCEPT ![s] = [pc |-> "picked", att |-> a, out |-> "none"]]
  /\ UNCHANGED <<status, attempt, row, saved, proc, hooks, receipt, died, faults>>

(* Mutant: an off-by-one in the allowance. *)
MayExecuteOnceMore(a) ==
  attempt[a].success = "none" /\ attempt[a].executions <= MaxExecutions

(* The filter both compare-and-swaps of lease._claim share.                *)
MayExecute(a) ==
  attempt[a].success = "none" /\ attempt[a].executions < MaxExecutions

(* lease._claim admits the delivery, or run_task raises RedeliveredAttempt *)
(* and the delivery reports a failure without running the target.          *)
Claim(s) ==
  LET a == slot[s].att IN
  /\ slot[s].pc = "picked"
  /\ \/ /\ MayExecute(a)
        /\ attempt' = [attempt EXCEPT ![a].executions = @ + 1,
                                      ![a].heartbeat = "fresh"]
        /\ slot' = [slot EXCEPT ![s].pc = "running"]
     \/ /\ ~MayExecute(a)
        /\ slot' = [slot EXCEPT ![s].pc = "result", ![s].out = "fail"]
        /\ UNCHANGED attempt
  /\ UNCHANGED <<status, row, saved, proc, hooks, receipt, died, faults>>

(* lease.touch: a resolved attempt's lease is not refreshed.               *)
Beat(s) ==
  LET a == slot[s].att IN
  /\ slot[s].pc = "running"
  /\ attempt[a].success = "none"
  /\ attempt[a].heartbeat = "stale"
  /\ attempt' = [attempt EXCEPT ![a].heartbeat = "fresh"]
  /\ UNCHANGED <<status, row, saved, slot, proc, hooks, receipt, died, faults>>

(* The grace period passes with no heartbeat.                              *)
Lapse(a) ==
  /\ attempt[a].heartbeat = "fresh"
  /\ Timely => \A s \in Slots : ~(slot[s].pc = "running" /\ slot[s].att = a)
  /\ attempt' = [attempt EXCEPT ![a].heartbeat = "stale"]
  /\ UNCHANGED <<status, row, saved, slot, proc, hooks, receipt, died, faults>>

(* Only a task that a node is bound to has anything to publish.            *)
Publishers == IF NodeTask THEN Slots ELSE {}

(* graphs.publish: the node's receipt and the attempt's commit stamp in    *)
(* one transaction.  The node stays bound to this task throughout.         *)
Publish(s) ==
  LET a == slot[s].att IN
  /\ slot[s].pc = "running"
  /\ receipt = 0
  /\ receipt' = a
  /\ attempt' = [attempt EXCEPT ![a].committed = TRUE]
  /\ slot' = [slot EXCEPT ![s].out = "ok"]
  /\ UNCHANGED <<status, row, saved, proc, hooks, died, faults>>

(* The target returns or raises and runner.close_lease stamps returned_at. *)
(* A target that published does nothing that can fail afterwards.          *)
Return(s, out) ==
  LET a == slot[s].att IN
  /\ slot[s].pc = "running"
  /\ slot[s].out = "ok" => out = "ok"
  /\ attempt' = [attempt EXCEPT ![a].returned = @ \/ attempt[a].success = "none"]
  /\ slot' = [slot EXCEPT ![s].pc = "result", ![s].out = out]
  /\ UNCHANGED <<status, row, saved, proc, hooks, receipt, died, faults>>
-----------------------------------------------------------------------------
(* Mutant: the comparison with max_attempts is off by one. *)
VerdictsOffByOne(a) ==
  IF RetryLimit = 0 THEN {"FAILED"}
  ELSE IF a <= RetryLimit THEN {"PENDING", "EXHAUSTED"} ELSE {"EXHAUSTED"}

(* What recording a failure of attempt a may leave the task as:            *)
(* retry.handle_task_retry, where the exception class decides below the    *)
(* limit, and the guard that keeps a cancelled owner's member unretried.   *)
Verdicts(a) ==
  (IF RetryLimit = 0 THEN {"FAILED"}
   ELSE IF a < RetryLimit THEN {"PENDING", "EXHAUSTED"} ELSE {"EXHAUSTED"})
  \cup (IF OwnerMayCancel THEN {"FAILED"} ELSE {})

(* Mutant: routed is set with the resolution whatever follows it. *)
NothingToRoute(verdict) == TRUE

(* A scheduled retry leaves no post-commit work.                           *)
Absorbed(verdict) == verdict = "PENDING"

(* The failure of attempt a is recorded and, for a retry, attempt a + 1 is *)
(* scheduled in the same transaction: scheduler.schedule_attempt.          *)
SettleFailed(a, cause, verdict) ==
  /\ status' = verdict
  /\ died' = (died \/ verdict \in Dead)
  /\ attempt' =
       [n \in Attempt |->
          IF n = a
          THEN [attempt[a] EXCEPT !.success = "fail", !.cause = cause,
                                  !.routed = @ \/ Absorbed(verdict)]
          ELSE IF verdict = "PENDING" /\ n = a + 1
          THEN FreshRow("SCHEDULED")
          ELSE attempt[n]]

(* Where a process goes when it is done with an attempt: a monitor         *)
(* acknowledges the delivery, a reaper carries on with its sweep.          *)
Done(p) == IF p \in Monitors THEN [proc[p] EXCEPT !.pc = "ack"] ELSE Idle
MoveTo(p, pc) == proc' = [proc EXCEPT ![p].pc = pc]
Finish(p) == proc' = [proc EXCEPT ![p] = Done(p)]

(* Mutant: a scheduled retry falls through to the hook. *)
RouteAnyFailure(p, verdict) == MoveTo(p, "hook")

AfterFailure(p, verdict) ==
  IF verdict = "PENDING" THEN Finish(p) ELSE MoveTo(p, "hook")

(* One failure transaction.  If attempt a + 1 exists already, the insert   *)
(* breaks the unique constraint and everything rolls back.                 *)
Fail(p, a, cause) ==
  \E verdict \in Verdicts(a) :
    \/ /\ ~(verdict = "PENDING" /\ Exists(a + 1))
       /\ SettleFailed(a, cause, verdict)
       /\ AfterFailure(p, verdict)
    \/ /\ verdict = "PENDING" /\ Exists(a + 1)
       /\ Finish(p)
       /\ UNCHANGED <<status, attempt, died>>

(* The monitor saves a result in the Django-Q2 Task row.  A row that       *)
(* already holds a success is kept and its hook is not called again.       *)
SaveResult(m, s) ==
  LET a == slot[s].att IN
  /\ proc[m].pc = "idle"
  /\ slot[s].pc = "result"
  /\ slot' = [slot EXCEPT ![s] = FreeSlot]
  /\ \/ /\ saved[a] # "ok"
        /\ saved' = [saved EXCEPT ![a] = slot[s].out]
        /\ proc' = [proc EXCEPT ![m] = At("handle", a, slot[s].out)]
     \/ /\ saved[a] = "ok"
        /\ proc' = [proc EXCEPT ![m] = At("ack", a, slot[s].out)]
        /\ UNCHANGED saved
  /\ UNCHANGED <<status, attempt, row, hooks, receipt, died, faults>>

(* Mutant: the update of the attempt is not conditional. *)
AlwaysResolvable(a) == TRUE

(* The handler's compare-and-set: only an unresolved attempt is resolved.  *)
Resolvable(a) == attempt[a].success = "none"

(* hooks.qraft_hook_handler up to its commit, under the task's lock.       *)
Resolve(p) ==
  LET a == proc[p].att IN
  /\ proc[p].pc = "handle"
  /\ \/ /\ ~Resolvable(a)
        /\ Finish(p)
        /\ UNCHANGED <<status, attempt, died>>
     \/ /\ Resolvable(a)
        /\ proc[p].out = "ok"
        /\ attempt' = [attempt EXCEPT ![a].success = "ok"]
        /\ status' = "SUCCEEDED"
        /\ MoveTo(p, "hook")
        /\ UNCHANGED died
     \/ /\ Resolvable(a)
        /\ proc[p].out = "fail"
        /\ Fail(p, a, "raised")
  /\ UNCHANGED <<row, saved, slot, hooks, receipt, faults>>

HookOf(out) == IF out = "ok" THEN "success" ELSE "failure"

(* After the commit: HookDispatcher.dispatch through dispatch_hook_once.   *)
(* A failed enqueue is swallowed and leaves no HookDispatch row.           *)
DispatchHook(p) ==
  /\ proc[p].pc = "hook"
  /\ \/ hooks' = hooks \cup {HookOf(proc[p].out)}
     \/ HookMayFail /\ UNCHANGED hooks
  /\ MoveTo(p, "mark")
  /\ UNCHANGED <<status, attempt, row, saved, slot, receipt, died, faults>>

(* routed is written last, so that a crash before it is replayed.          *)
MarkRouted(p) ==
  /\ proc[p].pc = "mark"
  /\ attempt' = [attempt EXCEPT ![proc[p].att].routed = TRUE]
  /\ Finish(p)
  /\ UNCHANGED <<status, row, saved, slot, hooks, receipt, died, faults>>

(* ack_failure is set on every message, so any result is acknowledged.     *)
Acknowledge(m) ==
  /\ proc[m].pc = "ack"
  /\ row' = [row EXCEPT ![proc[m].att] = FALSE]
  /\ proc' = [proc EXCEPT ![m] = Idle]
  /\ UNCHANGED <<status, attempt, saved, slot, hooks, receipt, died, faults>>
-----------------------------------------------------------------------------
(* The reaper.                                                             *)

(* Mutant: nothing replays a result whose handler died. *)
NeverUnhandled(a) == FALSE

Unhandled(a) ==
  /\ Unresolved(a)
  /\ status = "RUNNING"
  /\ attempt[a].state = "QUEUED"
  /\ saved[a] # "none"

(* reconcile_finished: a saved result whose handler never resolved the     *)
(* attempt is handed to the hook handler again.                            *)
Reconcile(r, a) ==
  /\ proc[r].pc = "idle"
  /\ Unhandled(a)
  /\ proc' = [proc EXCEPT ![r] = At("handle", a, saved[a])]
  /\ UNCHANGED <<status, attempt, row, saved, slot, hooks, receipt, died, faults>>

(* Mutant: only successes are replayed. *)
UnroutedSuccess(a) == attempt[a].success = "ok" /\ ~attempt[a].routed

Unrouted(a) == attempt[a].success # "none" /\ ~attempt[a].routed

(* replay_unrouted: a resolved attempt whose post-commit work never ended. *)
Replay(r, a) ==
  /\ proc[r].pc = "idle"
  /\ Unrouted(a)
  /\ proc' = [proc EXCEPT ![r] = At("hook", a, attempt[a].success)]
  /\ UNCHANGED <<status, attempt, row, saved, slot, hooks, receipt, died, faults>>

(* Mutant: any unresolved attempt counts as lost. *)
LostWhenUnresolved(a) ==
  Unresolved(a) /\ status = "RUNNING" /\ saved[a] = "none"

(* The two orphan predicates of reap_orphans: the lease is dead, or the    *)
(* attempt never started and its message is no longer queued.              *)
Orphaned(a) ==
  /\ Unresolved(a)
  /\ status = "RUNNING"
  /\ attempt[a].state = "QUEUED"
  /\ saved[a] = "none"
  /\ \/ attempt[a].heartbeat = "stale"
     \/ attempt[a].heartbeat = "null" /\ ~row[a]

(* reap_orphans selects a candidate, and _reap_one reads its row before it *)
(* has the task's lock.                                                    *)
Sweep(r, a) ==
  /\ proc[r].pc = "idle"
  /\ Orphaned(a)
  /\ proc' = [proc EXCEPT ![r] = [pc |-> "reap", att |-> a, out |-> "fail",
                                  returned |-> attempt[a].returned,
                                  committed |-> attempt[a].committed]]
  /\ UNCHANGED <<status, attempt, row, saved, slot, hooks, receipt, died, faults>>

(* Mutant of the re-check: without the Q2 row. *)
StillRunning(a) == status = "RUNNING"

(* What _reap_one reads again under the lock: the task's status and the Q2 *)
(* row.  success, heartbeat_at, returned_at and output_committed_at are    *)
(* those of the row read in Sweep.                                         *)
StillLost(a) == status = "RUNNING" /\ saved[a] = "none"

(* Mutant: every reap is named a lost result. *)
AlwaysResultLost(r) == "ResultLost"

ReapCause(r) == IF proc[r].returned THEN "ResultLost" ELSE "OrphanedTask"

(* Mutant: the reaper does not know of receipts. *)
ReceiptIgnored(r) == FALSE

Published(r) == proc[r].committed

(* _reap_one under the lock.  A published attempt is resolved as a success *)
(* with routed set at once and no hook (_resolve_committed).               *)
Reap(r) ==
  LET a == proc[r].att IN
  /\ proc[r].pc = "reap"
  /\ \/ /\ ~StillLost(a)
        /\ Finish(r)
        /\ UNCHANGED <<status, attempt, died>>
     \/ /\ StillLost(a)
        /\ Published(r)
        /\ status' = "SUCCEEDED"
        /\ attempt' = [attempt EXCEPT
             ![a] = [@ EXCEPT !.success = "ok", !.cause = "none", !.routed = TRUE]]
        /\ Finish(r)
        /\ UNCHANGED died
     \/ /\ StillLost(a)
        /\ ~Published(r)
        /\ Fail(r, a, ReapCause(r))
  /\ UNCHANGED <<row, saved, slot, hooks, receipt, faults>>
-----------------------------------------------------------------------------
(* Mutant: any task that is not running can be requeued. *)
NotRunning == status # "RUNNING"

IsDead == status \in Dead

(* dlq.requeue: the task instance is loaded, then its status - as loaded - *)
(* is checked and the next attempt scheduled.                              *)
Load(o) ==
  /\ proc[o].pc = "idle"
  /\ IsDead
  /\ MoveTo(o, "loaded")
  /\ UNCHANGED <<status, attempt, row, saved, slot, hooks, receipt, died, faults>>

Requeue(o) ==
  /\ proc[o].pc = "loaded"
  /\ \E a \in Attempt :
       /\ Latest(a)
       /\ a + 1 \in Attempt
       /\ attempt' = [attempt EXCEPT ![a + 1] = FreshRow("SCHEDULED")]
  /\ status' = "PENDING"
  /\ proc' = [proc EXCEPT ![o] = Idle]
  /\ UNCHANGED <<row, saved, slot, hooks, receipt, died, faults>>
-----------------------------------------------------------------------------
(* Faults.                                                                 *)

Fault == faults < MaxFaults /\ faults' = faults + 1

(* A worker dies with its delivery, or the result it queued is lost.       *)
WorkerDies(s) ==
  /\ Fault
  /\ slot[s].pc # "free"
  /\ slot' = [slot EXCEPT ![s] = FreeSlot]
  /\ UNCHANGED <<status, attempt, row, saved, proc, hooks, receipt, died>>

(* A monitor or reaper dies between two of its transactions.               *)
ProcDies(p) ==
  /\ Fault
  /\ proc[p].pc # "idle"
  /\ proc' = [proc EXCEPT ![p] = Idle]
  /\ UNCHANGED <<status, attempt, row, saved, slot, hooks, receipt, died>>

(* The monitor cannot save a result: django_q logs it and acknowledges.    *)
SaveFails(m, s) ==
  /\ Fault
  /\ proc[m].pc = "idle"
  /\ slot[s].pc = "result"
  /\ slot' = [slot EXCEPT ![s] = FreeSlot]
  /\ proc' = [proc EXCEPT ![m] = At("ack", slot[s].att, slot[s].out)]
  /\ UNCHANGED <<status, attempt, row, saved, hooks, receipt, died>>

(* The hook handler raises before its commit (django_q swallows it).       *)
HandlerFails(p) ==
  /\ Fault
  /\ proc[p].pc = "handle"
  /\ Finish(p)
  /\ UNCHANGED <<status, attempt, row, saved, slot, hooks, receipt, died>>

(* The message is lost while no worker holds it.                           *)
BrokerLoses(a) ==
  /\ Fault
  /\ row[a]
  /\ ~Held(a)
  /\ row' = [row EXCEPT ![a] = FALSE]
  /\ UNCHANGED <<status, attempt, saved, slot, proc, hooks, receipt, died>>
-----------------------------------------------------------------------------
WorkerStep(s) ==
  \/ \E a \in Attempt : Deliver(s, a)
  \/ Claim(s)
  \/ Beat(s)
  \/ \E out \in {"ok", "fail"} : Return(s, out)
  \/ WorkerDies(s)

HandlerStep(p) == Resolve(p) \/ DispatchHook(p) \/ MarkRouted(p)

MonitorStep(m) ==
  \/ \E s \in Slots : SaveResult(m, s) \/ SaveFails(m, s)
  \/ HandlerStep(m)
  \/ Acknowledge(m)

ReaperStep(r) ==
  \/ \E a \in Attempt : Reconcile(r, a) \/ Replay(r, a) \/ Sweep(r, a)
  \/ Reap(r)
  \/ HandlerStep(r)

Next ==
  \/ \E a \in Attempt : Dispatch(a) \/ Lapse(a) \/ BrokerLoses(a)
  \/ \E s \in Slots : WorkerStep(s)
  \/ \E s \in Publishers : Publish(s)
  \/ \E m \in Monitors : MonitorStep(m)
  \/ \E r \in Reapers : ReaperStep(r)
  \/ \E o \in Operators : Load(o) \/ Requeue(o)
  \/ \E p \in Handlers : ProcDies(p) \/ HandlerFails(p)

Spec == Init /\ [][Next]_vars

(* The threads of a running cluster: dispatcher, broker, worker, monitor   *)
(* and the reaper, whose every pass goes through all three of its lists.   *)
(* A target ends, if only by Django-Q2's timeout, and time passes.         *)
Fairness ==
  /\ \A a \in Attempt : WF_vars(Dispatch(a)) /\ WF_vars(Lapse(a))
  /\ \A s \in Slots :
       /\ \A a \in Attempt : WF_vars(Deliver(s, a))
       /\ WF_vars(Claim(s))
       /\ WF_vars(\E out \in {"ok", "fail"} : Return(s, out))
  /\ \A m \in Monitors :
       /\ WF_vars(\E s \in Slots : SaveResult(m, s))
       /\ WF_vars(HandlerStep(m))
       /\ WF_vars(Acknowledge(m))
  /\ \A r \in Reapers :
       /\ \A a \in Attempt : WF_vars(Reconcile(r, a) \/ Replay(r, a) \/ Sweep(r, a))
       /\ WF_vars(Reap(r) \/ HandlerStep(r))

FairSpec == Spec /\ Fairness
-----------------------------------------------------------------------------
(* Properties.                                                             *)

(* At most one attempt of a task is open, and it is the newest: a retry or *)
(* requeue is never scheduled beside an attempt that can still be resolved *)
(* (hooks.qraft_hook_handler, reaper._reap_one, dlq.requeue).              *)
OneOpenAttempt == \A a \in Attempt : Unresolved(a) => Latest(a)

(* QraftTask.status always agrees with the newest attempt, so no task is   *)
(* terminal with work outstanding, or open with nothing left to run.       *)
StatusMatchesAttempts ==
  \A a \in Attempt : Latest(a) =>
    /\ status = "PENDING" <=> attempt[a].state = "SCHEDULED"
    /\ status = "RUNNING" <=> attempt[a].state = "QUEUED" /\ Unresolved(a)
    /\ status = "SUCCEEDED" <=> attempt[a].success = "ok"
    /\ status \in Dead <=> attempt[a].success = "fail"

(* An attempt is resolved once: late results, replayed completions and     *)
(* reaps racing the monitor never rewrite its outcome.                     *)
ResolvedOnce ==
  [][\A a \in Attempt : attempt[a].success # "none" =>
       /\ attempt'[a].success = attempt[a].success
       /\ attempt'[a].cause = attempt[a].cause]_vars

(* A task that has succeeded stays so: no late failure, retry or requeue   *)
(* takes it back.                                                          *)
SucceededIsFinal == [][status = "SUCCEEDED" => status' = "SUCCEEDED"]_vars

(* routed is only ever set once the hook has been dispatched, or a newer   *)
(* attempt has taken over, so no crash between the resolving commit and    *)
(* the hook can lose it (hooks.py:415, reaper.replay_unrouted).            *)
RoutedMeansDispatched ==
  \A a \in Attempt : attempt[a].routed =>
    \/ Exists(a + 1)
    \/ HookOf(attempt[a].success) \in hooks

(* A hook tells the truth: success only ever fires for a task that has     *)
(* succeeded, failure never for a failure that a retry absorbed.           *)
HooksTellTheTruth ==
  /\ "success" \in hooks => status = "SUCCEEDED"
  /\ "failure" \in hooks => died

(* However often the broker redelivers, an attempt is not executed more    *)
(* often at once than its allowance (lease.claim_delivery).                *)
AdmittedDeliveries ==
  \A a \in Attempt :
    Cardinality({s \in Slots : slot[s].pc = "running" /\ slot[s].att = a})
      <= MaxExecutions

(* With live workers heartbeating and a broker that does not redeliver     *)
(* what is still held, two attempts never execute side by side, whatever   *)
(* crashes (docs/ai-workloads.md: a running task is not reaped).           *)
NoOverlap ==
  \A s, t \in Slots : slot[s].pc = "running" /\ slot[t].pc = "running" => s = t

(* ResultLost says that the target ran to its end, OrphanedTask that it    *)
(* did not get there (reaper._reap_one, docs/ai-workloads.md).             *)
CauseIsTrue ==
  \A a \in Attempt :
    /\ attempt[a].cause = "ResultLost" => attempt[a].returned
    /\ attempt[a].cause = "OrphanedTask" => ~attempt[a].returned

(* Every task settles: a crash, a lost message, a lost result or a failed  *)
(* handler leaves nothing PENDING or RUNNING for ever.                     *)
TaskSettles ==
  status \in {"PENDING", "RUNNING"} ~> status \in {"SUCCEEDED"} \cup Dead

(* Every hook a task is owed is dispatched in the end, whoever crashes     *)
(* between the commit and the dispatch.                                    *)
HooksFire ==
  /\ status = "SUCCEEDED" ~> "success" \in hooks
  /\ died ~> "failure" \in hooks

(* The attempts a caller sees, and the contract they keep.                 *)
SeriesOf ==
  [a \in 1..Cardinality({n \in Attempt : Exists(n)}) |->
     IF attempt[a].success = "none" THEN "open" ELSE attempt[a].success]

Contract == INSTANCE TaskContract
              WITH phase <- status, series <- SeriesOf, fired <- hooks

(* The lifecycle implements the contract.                                  *)
KeepsContract == Contract!Spec

(* No interleaving of redeliveries, late results and reaps gives a task    *)
(* more attempts than its retry policy allows: two sweeps that retry the   *)
(* same attempt schedule one between them (retry.handle_task_retry, the    *)
(* unique constraint on the attempt number).                               *)
AttemptsWithinPolicy ==
  Operators = {} => \A a \in Attempt : Exists(a) => a = 1 \/ a <= RetryLimit

(* However the monitors and reapers of several clusters race, the series   *)
(* stays within the policy and a task that has succeeded stays so          *)
(* (retry.handle_task_retry, reaper._reap_one).                            *)
SeriesIsSound == []AttemptsWithinPolicy /\ SucceededIsFinal

(* A receipt is authoritative: an attempt that has published is never      *)
(* reaped as lost, whatever happened to its result (reaper._reap_one,      *)
(* docs/workflows.md:312).                                                 *)
ReceiptOutranksLostResult ==
  \A a \in Attempt :
    attempt[a].committed => attempt[a].cause \notin {"OrphanedTask", "ResultLost"}

(* A lost attempt is named after what happened to it: ResultLost if its    *)
(* target ran to the end, OrphanedTask if not, and neither of them once it *)
(* has published (reaper._reap_one).                                       *)
LossIsNamedRight == CauseIsTrue /\ ReceiptOutranksLostResult

(* A reap is guarded by the success-is-null update matching                *)
(* (docs/architecture.md:445): it resolves only an unresolved attempt.     *)
ReapOnlyUnresolved ==
  [][\A r \in Reapers :
       proc[r].pc = "reap" /\ proc'[r] # proc[r] /\ attempt' # attempt
         => attempt[proc[r].att].success = "none"]_vars
=============================================================================
