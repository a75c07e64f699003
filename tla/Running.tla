------------------------------- MODULE Running -------------------------------
(***************************************************************************)
(* What surrounds a running target: the threaded worker that runs it, the  *)
(* rows it reports to, and the bucket of RateBucket that throttles it.     *)
(* The rows are seen twice, with targets that report, record usage and     *)
(* spend, and with targets that record usage at length.  The initial state *)
(* chooses the system at work.                                             *)
(***************************************************************************)
EXTENDS RateBucket

CONSTANTS
  Tasks, Threads, MaxInflight, Recycle, Timeouts, Grace,      \* ThreadedWorker
  MaxAttempts, Targets, Does, Goal, MaxUsage, Budget,         \* TaskProgress
  LedgerDoes, LedgerUsage     \* what the recording targets do, and how often

VARIABLES
  which,   \* the system at work
  w_inbox, w_loop, w_held, w_permits, w_pool, w_deadline, w_timer, w_count,
  w_waited, w_stopping, w_stuck,
  t_attempts, t_row, t_snapshot, t_budget, t_rowLock, t_taskLock,
  t_graphLock, t_call, t_monitor, t_said, t_recorded, t_spent

w_vars == <<w_inbox, w_loop, w_held, w_permits, w_pool, w_deadline, w_timer, w_count,
    w_waited, w_stopping, w_stuck>>
t_vars == <<t_attempts, t_row, t_snapshot, t_budget, t_rowLock, t_taskLock,
    t_graphLock, t_call, t_monitor, t_said, t_recorded, t_spent>>
suite == <<which, w_vars, t_vars, vars>>

Worker == INSTANCE ThreadedWorker WITH
  inbox <- w_inbox, loop <- w_loop, held <- w_held, permits <- w_permits,
  pool <- w_pool, deadline <- w_deadline, timer <- w_timer, count <- w_count,
  waited <- w_waited, stopping <- w_stopping, stuck <- w_stuck

Progress == INSTANCE TaskProgress WITH
  attempts <- t_attempts, row <- t_row, snapshot <- t_snapshot,
  budget <- t_budget, rowLock <- t_rowLock, taskLock <- t_taskLock,
  graphLock <- t_graphLock, call <- t_call, monitor <- t_monitor,
  said <- t_said, recorded <- t_recorded, spent <- t_spent

Ledger == INSTANCE TaskProgress WITH
  Does <- LedgerDoes, MaxUsage <- LedgerUsage,
  attempts <- t_attempts, row <- t_row, snapshot <- t_snapshot,
  budget <- t_budget, rowLock <- t_rowLock, taskLock <- t_taskLock,
  graphLock <- t_graphLock, call <- t_call, monitor <- t_monitor,
  said <- t_said, recorded <- t_recorded, spent <- t_spent

ASSUME RunningAssumption ==
  /\ Worker!WorkerAssumption
  /\ Progress!ProgressAssumption
  /\ Ledger!ProgressAssumption
  /\ BucketAssumption
-----------------------------------------------------------------------------
Systems == {"worker", "progress", "ledger", "bucket"}

SuiteInit ==
  /\ which \in Systems
  /\ Worker!Init
  /\ Progress!Init
  /\ Init

(* Only the system at work moves. *)
SuiteNext ==
  /\ UNCHANGED which
  /\ \/ which = "worker" /\ Worker!Next /\ UNCHANGED <<t_vars, vars>>
     \/ which = "progress" /\ Progress!Next /\ UNCHANGED <<w_vars, vars>>
     \/ which = "ledger" /\ Ledger!Next /\ UNCHANGED <<w_vars, vars>>
     \/ which = "bucket" /\ Next /\ UNCHANGED <<w_vars, t_vars>>

(* The fairness of each system, while it is the one at work. *)
At(system, A) == which = system /\ A

SuiteFairness ==
  /\ WF_w_vars(At("worker", Worker!MainLoop))
  /\ \A t \in Tasks :
       /\ WF_w_vars(At("worker", \E timeout \in Timeouts, hangs \in BOOLEAN :
                                   Worker!Begin(t, timeout, hangs)))
       /\ WF_w_vars(At("worker", Worker!Report(t) \/ Worker!DropDeadline(t) \/ Worker!Release(t)))
  /\ WF_w_vars(At("worker", Worker!Terminate)) /\ WF_w_vars(At("worker", Worker!Reincarnate))
  /\ WF_w_vars(At("worker", Worker!Tick))
  /\ \A r \in Targets :
       SF_t_vars(At("progress", Progress!Step(r))) /\ WF_t_vars(At("progress", Progress!Detect(r)))
  /\ SF_t_vars(At("progress", Progress!Resolve)) /\ WF_t_vars(At("progress", Progress!Commit))

SuiteSpec == SuiteInit /\ [][SuiteNext]_suite /\ SuiteFairness
-----------------------------------------------------------------------------
(* While tasks hang, are terminated or forgotten and the cluster stops, a  *)
(* permit, a deadline and a place in the pool belong to the same tasks,    *)
(* what has run over is seen by the guard, and the worker recycles after   *)
(* its limit and no later (worker.py).                                     *)
WorkerStaysInStep ==
  which = "worker" =>
  /\ Worker!TypeOK /\ Worker!PermitsMatch /\ Worker!OverdueIsSeen
  /\ Worker!RunningIsGuarded /\ Worker!WithinRecycle

(* The last report, the usage and the budget of a task are exact, whoever  *)
(* writes the snapshot and the shared row at the same time (context.py).   *)
ReportsAreExact ==
  /\ which = "progress" =>
       /\ Progress!TypeOK /\ Progress!LastWordShows
       /\ Progress!UsageIsExact /\ Progress!BudgetIsExact
  /\ which = "ledger" => Ledger!TypeOK /\ Ledger!UsageIsExact

(* The snapshot of a task is never handed back to an earlier attempt       *)
(* (context.py, dispatchers.py).                                           *)
NewestShows == Progress!NewestShows

(* Whatever the worker takes is settled, what is queued is served, a stop  *)
(* ends, and a call a target makes never waits forever for the handler     *)
(* that locks the same rows (worker.py, context.py).                       *)
EverythingEnds ==
  /\ which = "worker" => Worker!TakenIsSettled /\ Worker!QueueIsServed /\ Worker!StopEnds
  /\ which = "progress" => Progress!CallsEnd
=============================================================================
