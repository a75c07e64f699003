# Verification of django-qraft

TLA+ models of the parts of `qraft/` that decide what happens to tasks,
workflows and graphs, the TLC runs that check them, and TLAPS proofs about them.
Source lines are those of `src/qraft/`.

## 1. The system

Qraft adds retries, leases, workflows and graphs to Django-Q2. Its state is in
database rows; the processes of one or more clusters and of the application
change them in transactions, and a crash can fall between any two.

| Component | State | Operations | What makes it hard | What makes it correct |
|---|---|---|---|---|
| Task and attempts (`models/tasks.py`, `tasks.py`, `scheduler.py`, `hooks.py`, `runner.py`) | `QraftTask.status`; one `QraftTaskAttempt` row per attempt | enqueue, dispatch a scheduled attempt, resolve a result, schedule a retry, dispatch hooks, mark routed | redelivered and late results, crashes between commit and hook, messages without a row and rows without a message | one open attempt, resolved once; the status follows the newest attempt; hooks only for real outcomes and never lost |
| Lease (`lease.py`, `runner.py`) | execution count, `heartbeat_at`, `returned_at` | claim a delivery, heartbeat, stamp the return | the broker redelivers live work; a worker stalls | an attempt executes no more often than allowed |
| Reaper (`reaper.py`, `cluster.py`) | reads the rows above | reconcile, replay, reap, re-arm, flag stalls | reads before the lock, several reapers | everything unfinished is found and ends |
| Retry policy (`retry.py`) | `max_attempts`, exception lists, back-off | decide, compute the delay, schedule the next attempt | the order of hint, back-off, jitter, cap and truncation | attempts within the policy; delays within hint and cap |
| Dead letters (`dlq.py`) | none of its own | list, requeue | stale instances | each accepted requeue is one attempt |
| Brokers and lanes (`brokers.py`; Django-Q2 external) | queued messages, saved results, a cache of brokers | choose lane and cluster, enqueue, scan, lease, acknowledge | a patched `Conf` while another thread routes; pollers racing for a row | every lane is drained, in order |
| Chains (`chain.py`, `dispatchers.py`) | status, `current_step_index`, `settled_at`, step bindings, hook rows | run, advance, park, approve, reject, cancel, resume, fail, settle | duplicate and superseded completions, stale instances | steps in order and once, gates hold, one settlement |
| Iterations and batches (`iter.py`, `batch.py`, `dispatchers.py`) | counters, `counted` flags, status | run, count, settle, cancel | concurrent and duplicate completions, requeued members | counters equal what has finished; one settlement and hook |
| Graphs (`graphs.py`, `models/graphs.py`) | node statuses, generations, receipts, settlement outbox | start, dispatch, complete, skip, cancel, publish, approve, reject, resume, settle, replay hooks | stragglers after a resume, crashes around the settlement | order, once per generation, quiescent settlement, each announced once |
| Submission (`tasks.py`, `backend.py`, `graphs.py`) | idempotency and request keys, the subject of correlated work | keyed enqueue, deferred enqueue, correlate, start by key | racing callers, reads before the inserting transaction | one live task per key; a whole answer for each caller |
| Throttle (`throttle.py`) | token bucket rows | acquire | seeding and withdrawing at once, several clocks | never more than capacity plus refill |
| Threaded worker (`worker.py`) | semaphore, deadlines, shared timer, recycle count | take, run, time out, recycle, drain | threads finishing out of order, targets that hang | in-flight bound, overdue work seen, nothing wedged |
| Context and pricing (`context.py`, `pricing.py`) | progress, snapshot, usage, budget | report, record, consume, price, aggregate | superseded attempts, coalesced reports, locks taken in two orders | the newest attempt shows; sums are exact |
| Retention (`retention.py`) | deletes rows | sweep | ids selected, lists read, rows revived meanwhile | nothing live or unannounced is deleted |
| Watchdogs (`reaper.flag_stalls`, `graphs.flag_overdue`) | flag columns | flag | writes long after the read | flags are true, and told once |
| Dashboard and admin (`dashboard/views.py`, `admin.py`) | none of its own | buttons that call the operations above | a page, a request and a transaction are three moments | decisions stand; a button that was shown works |
| Signals, metrics, tracing, logging, configuration, migrations | none | observe, set up | best effort by design | not modelled |

The parts meet in the database. Application code creates the rows; the
dispatcher thread turns a due SCHEDULED attempt into a queued message; a worker
claims the delivery, runs the target and returns a result; the monitor saves
the result and calls `qraft_hook_handler`, which resolves the attempt in one
transaction and then, after the commit, routes the completion to the graph,
the workflow or the task hooks and sets `routed`. The reaper repeats whatever
of that is missing.

## 2. Modules

One database transaction is one action. A read made before a lock, and work
done after a commit, are actions of their own, so every crash point of the code
is a state. Where threads or locks are the matter (worker, context, throttle)
a statement is an action.

### TaskLifecycle, TaskContract

One task and its attempts, from enqueue to routed completion.

| Variable | Stands for |
|---|---|
| `status` | `QraftTask.status` |
| `attempt[a]` | the attempt row: `state`, `success` ("none" is NULL), `cause` (`exception_class`), `routed`, `executions` (`execution_count`), `heartbeat` (NULL, within the grace period, older), `returned` (`returned_at`), `committed` (`output_committed_at`) |
| `row[a]` | the broker holds the message, delivered or not, until it is acknowledged |
| `saved[a]` | the Django-Q2 `Task` row of the attempt |
| `slot[s]` | a worker slot: free, delivery picked up, target running, result queued |
| `proc[p]` | where a monitor, reaper or operator is between two transactions, with the row fields it has read |
| `hooks` | `HookDispatch` rows |
| `receipt` | `QraftGraphNode.receipt_attempt_id` |
| `died`, `faults` | history for the properties, and the fault bound |

| Actor | Actions | Code |
|---|---|---|
| dispatcher | `Dispatch` | `scheduler._claim_and_enqueue` |
| broker and worker | `Deliver`, `Claim`, `Beat`, `Lapse`, `Publish` (of a node's task, `Publishers`), `Return` | `lease._claim`, `lease.touch`, `graphs.publish`, `runner.close_lease` |
| monitor | `SaveResult`, `Resolve`, `DispatchHook`, `MarkRouted`, `Acknowledge` | `hooks.qraft_hook_handler`, `hooks.dispatch_hook_once` |
| reaper | `Reconcile`, `Replay`, `Sweep`, `Reap` and the handler's steps | `reaper.reconcile_finished`, `replay_unrouted`, `reap_orphans`, `_reap_one` |
| operator | `Load`, `Requeue` | `dlq.dead_letters`, `dlq.requeue` |
| faults | `WorkerDies`, `ProcDies`, `SaveFails`, `HandlerFails`, `BrokerLoses` | crashes, lost results, lost messages |

`TaskContract` is the abstract specification: a series of outcomes, a status
that follows the newest, hooks that fire at most once. `KeepsContract` maps
`TaskLifecycle` onto it (`phase` is `status`, `series` the outcomes of the
existing attempts, `fired` the dispatched hooks).

One task suffices because no transaction modelled here writes rows of two
tasks. The ORM broker is assumed: its queue row commits with the rest
(`Handoff` has the others). Time is `Lapse`: a heartbeat gets old. The
exception class matters only through `Verdicts`, the results a retry policy may
give below its limit (`RetryDelay` has the policy). A reaper thread shares its
process with the monitor; here they die apart, which allows more behaviours.
`Timely` restricts broker and clock: a message somebody holds is not
redelivered, and the lease of a running target does not lapse. Runs whose
question is about redelivery set it FALSE.

### Handoff

How a scheduled attempt becomes a message and a message finds its attempt: two
dispatchers, a broker inside or outside the database (`InDatabase`), lookup by
q2 task id and by the marker in the name, and perhaps a message of an earlier
release. Which of them a deployment has is `install`, chosen in the initial state
from `Installs` and never changed. The dispatcher's lock, claim, push and commit
are four actions.
`row.q2` is the message that `q2_task_id` names; `attempt_from_marker` takes
it over. The sweep is `reap_orphans` and `reconcile_finished`;
`rearm_stuck_claims` looks for `Stuck`, which is shown never to be committed.

### RetryDelay

`retry.py` for one task: the verdict for each exception class, the parsed hint,
back-off, jitter, cap and the truncation of the ETA to seconds. Durations are
tenths of a second, `random.uniform` a choice over the tenths of its interval.
`jitter=True` with `jitter_max=0` behaves as no jitter and is folded into it.

### ChainWorkflow, ChainContract

One chain. A step's task is abstracted to what `TaskLifecycle` shows it to be: a
series of attempts of which only those no retry absorbs are routed. A requeue
starts a further such completion.

| Variable | Stands for |
|---|---|
| `status`, `index`, `settled` | `QraftChainModel.status`, `current_step_index`, `settled_at IS NOT NULL` |
| `started`, `bound` | the step rows exist; `QraftChainStep.qraft_task` |
| `task[t]` | a task created for a step: its completions and which of them are routed |
| `rows` | `WorkflowHookDispatch` rows of the chain |
| `proc[p]` | where a router is between two transactions, or what an operator has seen |
| `gen`, `fired`, `approved` | history: resumes, hooks queued with the settlement they announce, gates opened |

The binding (`Route`), the status before the lock (`Handle`), the transaction
under the lock (`Advance`, `FailChain`) and the hook after it (`DispatchHook`) are
separate actions, because the code releases everything between them. Operators
`Look` and then `Resume`, `Approve`, `Reject` or `Cancel` what they saw.
`Unhurried` keeps operators from acting while a completion is half-way routed;
it is TRUE where the code does not keep a property otherwise (section 7 says
which). `Shared` lets others act on the chain before `run()`.

`ChainContract` is the abstract specification: steps in order, gates, one end
and at most one hook for each generation. A hook may be queued late, even after
the next resume, and may be lost, which is what the code promises across a
crash and no more.

### ParallelWorkflow

One `QraftIter` or `QraftBatch`. `tally` is the three counters, `counted` and
`routed` the flags of the attempts, `out` the outcome of each completion of each
member. `Count` is `_atomic_increment` with `settle_workflow`, one transaction;
`IsTerminal` is read before it without a lock. Progress hooks write no row and
are left out.

### ExecutionGraph, GraphContract

One graph with any acyclic plan. `graphs._locked` takes the graph's row lock
first in every operation, so each is one action; what a router has read before
is in `proc`.

| Variable | Stands for |
|---|---|
| `status`, `gen` | `QraftGraph.status`, `generation` |
| `node[n]` | `QraftGraphNode`: status, generation, bound task, receipt |
| `task[n][k]` | the tasks dispatched for a node: runs, which are routed, alive, published |
| `outbox` | `QraftGraphSettlement` rows |
| `hooks[g]` | hooks queued for generation g (`WorkflowHookDispatch`) |
| `approved`, `lost` | history: gates opened; completions whose process died before its `on_commit` |

| Actor | Actions | Code |
|---|---|---|
| application | `Start`, `Publish` | `Graph.start`, `_dispatch_frontier`, `publish` |
| monitor | `Resolve`, then `HandleCompletion`, `DispatchHook`, `MarkRouted` | `qraft_hook_handler`, `handle_node_completion`, `_maybe_settle`, `_settle` |
| reaper | `Reap`, `Replay`, `ReplaySettled` | `_reap_one`, `_resolve_committed`, `replay_unrouted`, `replay_settled_hooks` |
| operator | `Skip`, `Cancel`, `Approve`, `Reject`, `Resume`, `Requeue` | the functions of those names |
| fault | `Crash`, and `Reap` of work that still runs | |

`GraphContract` is the abstract specification: each generation ends in one way,
only a failed or succeeded one is followed by another, and each end is announced
at most once, with the outcome it had.

### Submission

Calls of `async_task` with a key, onto a graph, as a workflow's member, through
the Django Tasks backend, and `Graph.start(request_key=...)`: one key, one graph,
one request key. The lookup, the reclaim of a dead task's key, the insert, the
fallback after an `IntegrityError` and the deferred second insert are separate
actions; a caller may die between them.

### PriorityLanes

`Build` patches `Conf` and `Built` restores it, so another thread may route
(`Route`) in between. A lock is a version and whether it has run out; `Look` reads
a batch of a lane and `Lease` compares and swaps one row of it.

### RateBucket

`Seed`, `Lock` (which reads row and time) and `Withdraw` of one bucket, with an
offset of each host's clock. `since` and `spent` are an arbitrary window.

### ThreadedWorker

The main loop (take, acquire, submit, drain), the pool's threads (`Begin`,
`Report`, `DropDeadline`, `Release`), the deadline registry that publishes the
earliest deadline on the shared timer, and the sentinel as `worker.py` uses it. A
tick is one guard cycle.

### TaskProgress

`report_progress`, `record_usage` and `consume_budget` of several deliveries of
several attempts beside the monitor's resolution and the scheduler's insert,
with row locks held to the end of a transaction and a deadlock detector
(`Detect`) that aborts one of the two.

### UsageLedger

`usage_entry` prices a call as it is recorded, `_merge_usage` adds it, `_sum_usage`
and `pricing.cost` add up again over attempt, task and workflow, with a price
table that changes and a resolver every process caches.

### Retention

Each pass of `sweep_retention` selects (`Select`) and deletes (`Delete`) in two
statements; the lists of open graphs and live workflows are read before. Beside
it tasks finish and are requeued, chains and graphs are resumed, and the outbox
is dispatched.

### Watchdogs

`flag_stalls` on an attempt and `flag_overdue` on a graph: clock, candidates and
write are three actions.

### OperatorConsole

The buttons of the dashboard and the admin for one task, one chain and one graph
of three nodes. `Press` is what a page showed; the request then checks, and in a
later action commits and answers. `req[o].due` says that nothing else has
moved since.

### Suites

A run costs its start-up, and each of these systems is small, so most runs check
several. A suite is a module that EXTENDS one of them, instantiates the others on
variables of its own, chooses one in the initial state (`which`) and lets only that
one move. Its properties are named conjunctions of those of the modules, each
conjunct guarded by `which`; its fairness is theirs, while at work.

| Suite | Extends | Instantiates |
|---|---|---|
| `Records` | `OperatorConsole` | `ChainWorkflow` twice (`Patient`, `Race`), `ExecutionGraph`, `Submission` twice (`Keys`, `Labels`), `RetryDelay`, `UsageLedger` |
| `Alive` | `Handoff` | `TaskLifecycle`, `ExecutionGraph`, `Watchdogs` |
| `Workflows` | `ParallelWorkflow` | `ChainWorkflow` |
| `Running` | `RateBucket` | `ThreadedWorker`, `TaskProgress` twice (`Progress`, `Ledger`) |
| `Cluster` | `Retention` | `PriorityLanes` twice (`Send`, `Poll`), `Retention` of a batch |

A suite has parameters like any module, so that the theorems of section 5 are about
the very definitions the runs check. `MCRecords`, `MCAlive`, `MCWorkflows`,
`MCRunning` and `MCCluster` give the parameters values; `MCTaskLifecycle`,
`MCChainWorkflow`, `MCParallelWorkflow` and `MCExecutionGraph` add symmetry sets and
plans to one module; `MCTaskClusters` is a suite and its values in one.

## 3. Runs

All runs set `CHECK_DEADLOCK FALSE`: a settled task, workflow or graph whose
faults, requeues and resumes are used up really stops.

| Run | Systems and instances | Checks | Shows |
|---|---|---|---|
| `core` | one task; 1 monitor, 1 reaper, 1 operator, 2 slots, 2 attempts, 1 fault, not `Timely` | `TypeOK`, `OneOpenAttempt`, `StatusMatchesAttempts`, `RoutedMeansDispatched`, `HooksTellTheTruth`, `AdmittedDeliveries`, `ResolvedOnce`, `SucceededIsFinal` | series, status, outcomes and hooks stay consistent under redelivery, late results, reaps, requeues and a crash |
| `clusters` | a node's task in a `Timely` cluster, 3 attempts, 1 fault; two clusters of 2 monitors and 2 reapers, 3 attempts | `NoOverlap`, `LossIsNamedRight`, `KeepsContract`, `ClustersAreSound` | attempts do not overlap, lost work is named for what happened to it, the contract; two clusters stay within the retry policy |
| `graph` | a node and a gated node after it; 2 generations, 1 fault, an operator with 1 requeue of a dead task | `RunsInOrder`, `OncePerGeneration`, `GraphTellsTheTruth`, `KeepsContract` | order, gates, effects, settlements and the contract across a resume, a requeue and a crash |
| `workflows` | a chain of 3 steps with a gate, 2 resumes, 1 crash; an iteration of 2 members, each requeued once, 1 crash | `MembersCountOnce`, `OutcomesStand`, `EverythingEnds` | the chain's contract, exact counting, and progress |
| `records` | a gated chain with `Unhurried` operators; a short chain without; a graph of two roots, one gated, that meet in a third node, 2 generations; 2 callers with a key, and with a graph and a request key; delays under 192 policies; the ledger of 3 attempts; 2 operators at the dashboard | `ChainStaysConsistent`, `ChainDecisionsStand`, `GraphStaysConsistent`, `CallersAgree`, `DelayIsSound`, `LedgerIsSound`, `DecisionsStand` | rows that several processes write say one thing |
| `alive` | a task with 2 attempts, a gated graph of 2 nodes with 2 generations, an attempt with 2 executions allowed and 3 messages, through the ORM broker (2 dispatchers, 2 faults) and through one outside the database (`Alone`: 1 dispatcher, `FewFaults`: 1, with a message of an earlier release), 2 watchdogs | `EverythingEnds`, `HandoffHolds`, `FlagsTellTheTruth`, `OnlyOpenIsFlagged`, `WatchdogsSee` | everything ends, is announced, or is flagged |
| `running` | a worker of 2 threads and 3 tasks that may hang, recycling after 3; 3 deliveries of 2 attempts that report, record and spend; 2 callers of a bucket | `WorkerStaysInStep`, `ReportsAreExact`, `RateHolds`, `NewestShows`, `EverythingEnds` | permits, deadlines, reports, sums and rates are exact, and nothing waits for ever |
| `cluster` | 2 threads that enqueue for 2 clusters; 2 pushers of one cluster; a sweep beside a chain and a graph, and beside a batch in a graph, 2 generations | `EveryLaneIsDrained`, `LanesInOrder`, `SweepIsSafe`, `NothingPilesUp` | lanes drain in order; a sweep deletes what is dead, and all of it |
| `reapers` | 2 reapers and an operator | `ReapOnlyUnresolved`, violated | section 7 |
| `chain_losthook`, `chain_reviewers` | one crash; two reviewers | `SettlementHookQueued`, `SettledMeansOver`, violated | section 7 |
| `parallel_premature` | 2 members, 1 requeue | `CompletesWhenAllFinish`, violated | section 7 |

Why the bounds are enough to be interesting. A race on one row needs two
routers, which a monitor and a reaper already are; the reaper alone plays the
second monitor where both do the same thing. Two attempts are needed for a
retry and a late result of the attempt before it; `clusters` uses a third so
that a retry can itself be retried. Three steps give a step that has both a
predecessor and a successor and a gate between ungated steps; two roots and a
join are the least graph with a sibling race and a dependency (`records`), and a
line of two nodes the least one in which a requeue, a gate and a fault meet
(`graph`). Two generations
have a straggler; a third repeats it. One fault reaches every single crash point
of the code; the code's recovery is one actor repeating what is missing, so a
second fault repeats the first (the hand-over has two, so that a second delivery
may die as well). Two callers, pushers, operators or sweepers race for one row.
The racing clusters of `clusters` have no owner that cancels and hooks that do not
fail, which the series does not depend on (the theorem has both).
The bounds are the constants whose names begin with `Max`; each is a guard of the
action it limits. They are no limits of the code, except that `MaxAttempt` must
be at least `RetryLimit`.

Every property of a passing run is paired in `PROJECT.json` with changed
definitions of the model, bugs one could make in that code, under which the same
run finds it violated. A conjunction has several, one for each hazard it is
about. The changed definitions stand next to the ones they replace and are
marked "Mutant".

## 4. Fairness

Fairness asks of each system what the cluster's loops do again and again. The
suites state it for the system at work (`While`, `At`), the modules as `FairSpec`.

- The dispatcher and the reaper run every cycle (`scheduler.dispatch_due`,
  `cluster._reap_loop`), django-q2 workers pull, monitors drain the result queue,
  and a target ends. A heartbeat nobody renews gets old (`Lapse`). Weak fairness
  is enough: each of these steps, once enabled, stays so until somebody takes it.
- A router goes on until it is through or dies; `replay_unrouted` and
  `replay_settled_hooks` are called again.
- The worker's main loop, its threads and the guard run; a target may hang for
  ever, so its end is not asked for.
- In `TaskProgress` the rows are locks. A call that waits for one is granted it in
  its turn (PostgreSQL queues waiters), which is strong fairness of `Step` and
  `Resolve`; a deadlock is detected.
- In `Retention` time passes between sweeps again and again although something
  may be resumed at any moment: strong fairness of `Age`.

Nothing is asked of operators, of faults or of a particular outcome.

Liveness of chains is checked with `MaxRuns = 1`. With requeues it fails for one
completion: a requeued step of a FAILED chain that succeeds in front of a gate
makes `transition_to(WAITING_APPROVAL)` raise (`dispatchers.py:181`), so that
completion is never routed. Liveness of graphs excepts `lost`: a reaper that dies
between `_resolve_committed` and its `on_commit` leaves an attempt that is already
marked routed (`docs/architecture.md:223` says so). Liveness of the hand-over
excepts `dropped`: a delivery popped from a broker without receipts whose worker
dies before it starts.

## 5. Proofs

| Module | Theorem | States | Assumes, beside the module's own assumption |
|---|---|---|---|
| `TaskLifecycleProofs` | `TypeCorrect` | `TypeOK` | |
| | `AttemptsAreSequential` | `OneOpenAttempt` | `Solo` |
| | `StatusIsTrue` | `StatusMatchesAttempts` | `Solo` |
| | `HooksAreTrue` | `HooksTellTheTruth` | `Solo` |
| | `OutcomesAreFinal` | `ResolvedOnce` | `Solo` |
| | `SuccessIsFinal` | `SucceededIsFinal` | `Solo` |
| | `DeliveriesAreAdmitted` | `AdmittedDeliveries` | |
| | `RacingClustersAreSound` | `SeriesIsSound` | `Operators = {}`, `~NodeTask` |
| | `RoutedIsDispatched` | `RoutedMeansDispatched` | `Solo`, `~HookMayFail`, `~NodeTask` |
| | `NeverTwoAtOnce`, `LossesAreNamedRight` | `NoOverlap`, `LossIsNamedRight` | `Calm` |
| | `TaskKeepsItsContract` | `KeepsContract`, the refinement of `TaskContract` | `Solo` |
| `ExecutionGraphProofs` | `NodesRunInOrder` | `RunsInOrder` | |
| | `GenerationsCountOnce` | `OncePerGeneration` | |
| | `RowsTellTheTruth` | `GraphTellsTheTruth` | |
| | `GraphKeepsItsContract` | `KeepsContract`, the refinement of `GraphContract` | |
| `ChainWorkflowProofs` | `TypesHold`, `StepsComeInOrder` | `TypeOK`, `StepsInOrder` | |
| | `CancelStands` | `CancelledIsFinal` | `~Shared` |
| | `StepsAreQueuedOnce` | `QueuedOnce` | `~Shared`, `OneOperator` |
| | `GatesHold`, `SettledIsOver`, `NobodyIsStranded` | `GateHolds`, `SettledMeansOver`, `NothingStranded` | `Careful` |
| | `HooksAreOnce`, `SupersededAreDropped` | `OneHookPerGeneration`, `SupersededIsDropped` | `Careful` |
| | `ChainKeepsItsContract` | `KeepsContract`, the refinement of `ChainContract` | `Careful`, `MaxRuns = 1` |
| | `HooksAreOnceInAnyHurry` | `OneHookPerGeneration` | `Gated = {}` |
| `WorkflowsProofs` | `MembersAreCounted` | `MembersCountOnce` | `RunsFirst` |
| | `OutcomesAreKept` | `OutcomesStand` | |
| `RecordsProofs` | `DecisionsAreKept`, `PressesStand` | `DecisionsStand`, of the console alone and in its suite | |
| | `ChainsStayConsistent`, `ChainsDecisionsStand` | `ChainStaysConsistent`, `ChainDecisionsStand` | |
| | `GraphsStayConsistent` | `GraphStaysConsistent` | |
| | `CallersGetOneTask` | `CallersAgree` | |
| | `DelaysAreSound` | `DelayIsSound` | |
| | `LedgersAreSound` | `LedgerIsSound` | `Counts \subseteq Nat` |
| `RunningProofs` | `RateIsKept` | `RateHolds` | `ClocksAgree` |
| | `WorkersStayInStep` | `WorkerStaysInStep` | |
| | `ReportsStayExact`, `TheNewestShows` | `ReportsAreExact`, `NewestShows` | |
| `ClusterProofs` | `SweepsAreSafe` | `SweepIsSafe` | `MembersShareTheGraph` |
| | `LanesAreDrained`, `LanesAreInOrder` | `EveryLaneIsDrained`, `LanesInOrder` | |
| `AliveProofs` | `HandoffIsSafe` | `HandoffHolds` | |
| | `FlagsAreTrue`, `FlagsAreForOpenAttempts` | `FlagsTellTheTruth`, `OnlyOpenIsFlagged` | |

They hold for any number of processes, slots, attempts, members, callers and
generations, those about chains for any number of steps and any gates, and those
about graphs for any plan without a cycle and any gates.
The modules' own assumptions give the constants their types and
are evaluated by TLC in every run that extends the module. Those of two suites say
more, because the systems in them need it: `RecordsAssumption` and
`WorkflowsAssumption` that one person decides for a chain, and the latter that
nobody else holds a workflow before its `run()`.

`RateIsKept`, `SweepsAreSafe`, `MembersAreCounted` and `DecisionsAreKept` are about
the `Spec` of the module their suite extends; the other theorems of the last five
modules are about `SuiteSpec`. Where a suite instantiates a chain or a graph, its proof
cites the theorems of `ChainWorkflowProofs` or `ExecutionGraphProofs` through an
instance with the same substitution (`PatientP`, `RaceP`, `JoinP`, `ChainP`), and a
lemma says that the two instances are one specification (`PatientIs`, `RaceIs`, ...).

The other assumptions are needed, not convenient:

- `Solo`: at most one reaper and one operator. A second operator can requeue a
  task the first has requeued, and a second reaper can rewrite an attempt the
  first has resolved (run `reapers`).
- `Operators = {}`: `RacingClustersAreSound` is about what two reapers may do to a
  series (`SeriesIsSound` is weaker than `OneOpenAttempt` for that reason); a requeue
  would let a series go past the retry limit, which is what a requeue is for.
- `~NodeTask`: the reaper marks a published attempt routed without its task hook
  (`reaper.py:430`), and turns a loss into a success.
- `~HookMayFail`: a hook whose enqueue fails is not retried (`hooks.py:87`).
- `Calm` is `Solo`, `Timely` and `MaxExecutions = 1`, the default
  (`docs/ai-workloads.md:378`). With two executions allowed a delivery may die, its
  lease lapse, and the reaper read the row; then the redelivery is claimed as the
  second execution, and `_reap_one`, which does not look at the heartbeat again,
  schedules a retry beside it.
- `~Shared`: nobody else holds the chain before its `run()`, which overwrites the
  status (`chain.py:170`).
- `OneOperator`: a second operator's stale `approve()` is accepted on a FAILED chain
  and queues the step again in the same generation (run `chain_reviewers`).
- `Careful` is `~Shared`, `OneOperator` and `Unhurried`: that operator resumes,
  approves and requeues while no completion is half-way routed. A router reads the
  binding before it takes the chain's lock (`dispatchers.py:658`), so what it does
  with a chain resumed in between is not what it would have decided (section 7).
  Cancels and rejections need not wait.
- `MaxRuns = 1`: no dead task of the chain is requeued on its own. A requeued task
  that succeeds lets a FAILED chain go on to its next step, which the contract,
  where a failed chain waits for a resume, does not allow.
- `RunsFirst`: nobody but the builder knows the workflow before `run()`. `run()`
  writes the builder's copy of the status, so it would set a workflow RUNNING
  that a cancel has settled.
- `Gated = {}`: without gates a chain never parks, so that nothing an operator decides
  in the middle of a completion gives the generation a second end. With two gates and
  a requeue it does (section 7).
- `Counts \subseteq Nat`: a caller may also record what is no number, and then the sums
  of the ledger do not exist (`AggregatesExist`, section 7).
- `ClocksAgree`: a host whose clock is ahead refills the same time twice.
- `MembersShareTheGraph`: members are in their iteration's graph, which
  `tasks.workflow_member_labels` sees to.

None of the invariants is inductive alone. The strengthenings:

- Task: `IInv` is `TInv` (typing; a busy slot or process names an attempt that
  exists; proved first and without `Solo`), `SeriesInv` (no gap, one open, the status
  matches, a success is the last), `OnlyQueuedLeaves` (only a dispatched attempt is in
  the broker, in a slot or in a saved result), `HandlerOK` (what a process between
  its commit and its hook has read still holds, or its own re-check catches it),
  `OperatorOK`, `FailuresKnown`. The other theorems of the task add to it, or to `TInv`:
  - `LeaseInv`: the slots that execute an attempt are no more than its count. It
    needs cardinalities, which change by one when a delivery is claimed or ends.
  - `RaceInv`, in place of `SeriesInv`: no gap, one open attempt, none after a success
    and none beyond the policy, while nothing is said of outcomes, which two reapers
    may write twice.
  - `RoutedInv`: a process about to mark an attempt routed has seen its hook
    dispatched, and only an attempt with its outcome is routed.
  - `TimelyInv`: one holder for each message (`Alone`), what each slot shows of its
    attempt (`SlotOK`, `AttemptOK`), and what a reaper that has read the row and
    waits for the lock may still find (`ReapOK`, `CauseIsTrue`).
  - `RefineInv`: the attempts that exist are 1..k for some k, so that the series of
    the contract, which is computed with a cardinality, grows at its end.
- Graph: `TasksOK` (runs and tasks are numbered without a gap, one task to a
  generation, one publication to a task), `RowOK` (a node is bound while it runs and
  after it ran, to the task of its own generation, and tells how that task ended),
  `InOrder`, `Drained` (whatever is ready has been dispatched or parked, and a running
  graph has a node that runs, for which the plan must have no cycle), `Awaited` (a
  running node's last run is open, unrouted or being committed), and `ProcOK` (what a
  router holds between two transactions: past the node's own transaction the node
  no longer waits for that run). Most steps change one node: `Steady` says what a
  step leaves of what the other processes hold, and lemmas follow it.
- Chain: `BaseInv`, for everybody (a task's completions have no gap, only the last may
  be a success; what a router routes has ended; each step the chain has passed has
  succeeded, and no task is ahead of it). `OrderInv` adds `GateOK`: a parked step is
  not queued, nor is it by others while the one operator looks at it. `CarefulInv` adds
  `BoundOK` (a passed step is bound to the task that won, so a dead task is that of
  the current step), `FreshReads` (a router between its reads and its transaction is
  at work on the task its step is bound to), `AwaitedOK` (the last completion of a
  running chain's task is open or unrouted, and who is past the transaction routes
  another), `Opened`, `HooksOK` (a hook, queued or due, is the one for how this
  generation has ended) and `StillParked`. `StepKinds` reduces a step of any actor to
  one of eight effects on the chain, and the parts and the refinement follow by
  cases. `DeadOK` (a failed chain's task is dead) serves the refinement alone.
- Parallel workflow: `SeriesInv` (only a failure is followed by another attempt, so a
  member has at most one success), `AccountInv` (a routed completion was counted,
  superseded or cancelled) and `FinalInv` (how far the count is in each status and
  which hook it has). Sums over members need cardinalities: `CountersMatch` with
  `FS_*` lemmas gives that as many successes as members are one of each.
- Bucket: `LedgerInv`: what was granted in the window and what is left are no more
  than a full bucket and what was added up to the last save; `LockInv`: the holder
  has read the row as it is.
- Retention: `ListsInv`: the two lists are out of date only about what was reopened
  since; `HooksInv`: a dispatch row goes only after its graph.
- Watchdogs: `FoundOrRecovered`: what a sweep that is about to write will say is true.
- Console: `PromiseInv`: while nothing else has moved, what showed the button is
  what the transaction looks for; `FailedInv`, `ChainInv` and `GateInv` say why.
- Submission: `RowsInv` with `KeyKept` (a key has one holder at most; a task born with
  it holds it, or has had it taken away and is dead unless revived) and `CallsInv` with
  `Informed` (a caller's label is the graph's, its answer is a task that is there, and
  who collided has somebody to be answered with unless the key was taken since).
- Delays: `DelayInv`: each delay is the one the policy computes for its attempt
  (`DelayOf`), and so is the one before. The products of constants meet no others than
  the doublings of one base (`Doubles`).
- Ledger: `LedgerInv`: the entries of a row come to what is known of their prices and,
  at any later rate, to that of the tokens without one (`Accounts`); the callers' own
  total is that of their entries, unless a cost went in without a name (`Names`). What
  readers see of sums follows without looking at their order: see below.
- Worker: `PlacesInv` (each task is in one place: inbox, main loop's hand, pool),
  `PoolInv` (permits and pool make `MaxInflight`), `RegistryInv` (the registry holds what
  runs or has reported), `TimerInv` (the timer is the earliest deadline, the recycle
  signal or idle; after the stop it may be late), `CountInv` (no poll past `Recycle`).
- Task progress: `CallsInv` (what a call has read still holds while it has the lock it
  read under), `MonitorInv` (the monitor holds the task's lock, and the row's once it
  has resolved), `TaskInv` (the snapshot is of no attempt later than there is, and its
  last word shows), `BooksInv` (usage and budget add up).
- Lanes: `RoutesInv` (`Conf` is the process's own except while a broker is built, and
  what is not `astray` is in a lane its cluster drains), `BatchInv` (what a pusher has
  read of a row is true until the row's version changes), `EarlyInv` (what was ready
  when a scan began and is not leased is still ready, and the lanes the scan is past
  held none of it unless a race was lost); `RowsInv`, `CallsInv` and `ScansInv` are
  about the shape of these.
- Hand-over: `LocksInv` (one dispatcher holds the row, and meanwhile nobody queues it),
  `RowInv` (a queued row names a message that was sent), `SlotInv` (a delivery is of a
  sent message, and who has started has a queued row), `ClaimInv` (inside the database:
  one message, and none while SCHEDULED), `CountInv` (with one message, as many calls
  as the execution count says).

Sums. `SumUsage` and `Amount` are folds of the community modules, which pick an order
by CHOOSE, and induction with the library's theorems is not available (an operator as
parameter). `RecordsProofs` does it with data: a sum of numbers along a sequence is the
last value of the function that adds them up (`SumTo`); the induction is over the set
of the lengths for which a statement holds, which has all numbers because its
complement has no least (`LeastNatural`, from `NatLessThanWellFounded` and `WFMin`);
`OrderIsFree` shows that any two lists of a set come to the same sum. A fold exists
because each of its steps stays within a set (`FoldExists`), and what readers see of a
row is either a number that adds up with rows (`Additive`) or a trait that one row
is enough for (`Spreads`). So a workflow's sum of its tasks' sums reads as the one over
all attempts (`NestedHolds`), though as sequences the entries come in another order.

The graph's refinement corrected its contract. `GraphContract` said that a resumed
graph is live, or ends at once FAILED or SUCCEEDED. The step `Resume` of the proof did
not go through, and the reason is a state one can reach: of four nodes 1, 2, 3 are a
line and 4 stands alone; 1 is gated and rejected while 4 runs, 2 and 3 do not run, 4
fails and the graph is FAILED; a resume of 2 takes back 2 and 3, which wait for the
cancelled 1, so the graph settles CANCELLED in the same transaction
(`docs/workflows.md:229` agrees). A resume cannot end SUCCEEDED.

The proof of `LanesInOrder` corrected its property. `Passed` counted the ready rows of
every higher lane; a cluster that does not drain the lanes polls its default queue
alone, and a row that went astray into another lane is not passed over by it. `Passed`
now asks that the poller polls the lane (`Polls`).

Each proof has an initial lemma and one preservation lemma per actor or action,
and the theorem combines them. There is one lemma for each operator the steps
use (`FrontierIs`, `VerdictIs`, `RefillKeepsBooks`, `Sizes`).

## 6. Model-checked only

Every invariant of a passing run is a theorem, and every action property and
refinement but one.

- Liveness needs ENABLED and stays with TLC: `EverythingEnds`, `WatchdogsSee`,
  `NothingPilesUp`, and within them `TaskSettles`, `HooksFire`, `ChainMoves`, `Settled`,
  `CompletionsRouted`, `GraphMoves`, `SettlementsAnnounced`, `AttemptSettles`, `CallsEnd`,
  `TakenIsSettled`, `QueueIsServed`, `StopEnds`, `LanesDrain` and `PrunedInTheEnd`.
- `ClustersAreSound` (run `clusters`) is `SeriesIsSound` in an instance of
  `TaskLifecycle`; its theorem is `RacingClustersAreSound`, about the module itself for
  any constants. It is not restated for the run's instance.

## 7. Where the code and its documents part

Four runs show a divergence; `PROJECT.json` quotes the lines.

- `reapers`: `_reap_one` checks, under the lock, a copy it read before the lock
  (`reaper.py:446`), and two reapers may resolve one attempt twice. With several
  clusters this can mark a task dead whose retry is already live.
- `chain_losthook`: a crash between the settling commit and the hook loses the
  chain's hook (`dispatchers.py:255`); the replay finds the chain settled.
- `chain_reviewers`: `approve()` also accepts a FAILED chain (`chain.py:251`) and leaves
  `settled_at` set, so the chain can never settle again, and its cancel button
  answers 409 for ever.
- `parallel_premature`: a counted member that is requeued counts again
  (`dispatchers.py:389`), and the workflow may complete before its other members.

The modules state more that the code does not keep; each can be seen by adding
the property named to a `.cfg`, or changing the constant named in the module:

- Chains. `SupersededIsDropped` without `Unhurried`: the binding is read before the
  chain is locked (`dispatchers.py:658`), and a resume in between lets the old
  completion settle the new generation, against `docs/workflows.md:436`.
  `SettlementHookQueued` with two monitors, one operator and one resume: a hook
  dispatched after the resume takes the place of the next settlement's
  (`docs/workflows.md:433`). `GateHolds` with two operators and two resumes: a stale resume is
  accepted from WAITING_APPROVAL (`chain.py:213`) and runs a gated step.
  `OneHookPerGeneration` without `Unhurried`, with two gates and a requeue: a failure
  read before the requeue settles the chain FAILED after it has parked, `approve()`
  accepts that, and a rejection at the next gate queues a second hook. `CancelledIsFinal`
  with `Shared = TRUE`: `run()` overwrites a cancel (`chain.py:170`, `base.py:88`).
  A reject is accepted while the chain is RUNNING.
- Parallel workflows. `OneHook` with `Shared = TRUE`: the same of their `run()`.
- Tasks. `OneOpenAttempt` with two operators: a stale requeue of a task that is live
  again (`dlq.py:52`); `docs/dlq.md:36` says it raises. `RoutedMeansDispatched` with
  `NodeTask = TRUE`: a published attempt resolved by the reaper is marked routed
  without its task hook (`reaper.py:430`). It is checked with `HookMayFail = FALSE`:
  a hook whose enqueue fails is not retried (`hooks.py:87`).
- Hand-over. `Handoff!AllowanceHolds`: two messages that take the row in turn leave
  one without an attempt, which runs unguarded, against `lease.py:78`. A duplicate
  message that takes `q2_task_id` also stops the heartbeats of the running one. The
  rows `rearm_stuck_claims` looks for are never committed (`ClaimsKeepTheirMessage`).
- Watchdogs. `OnlyRunningIsOverdue`: `flag_overdue`'s write does not look at the status
  again, so a graph that parked meanwhile is flagged, against
  `docs/configuration.md:344`. A resume does not reset `date_started`, so the new
  generation is overdue at once.
- Graphs. `ResumeFindsQuiet`: `docs/workflows.md:258` says a resume finds no straggler;
  a requeued dead task and a reaped task that still runs are ones (they are dropped,
  `OncePerGeneration`). `docs/workflows.md:264` says a resume deletes the dispatch
  rows; the code keys them by generation instead, to the same effect.
- Submission. `StartIsIdempotent`: two callers with one request key may both pass the
  lookup, and the slower gets an `IntegrityError` (`docs/workflows.md:360`).
  `JoinsRunningGraphs`: work may be correlated to a graph that settles between the
  check and the insert. `OneLivePerKey` excepts a dead task that is requeued after
  its key was taken away. `_wrapped_dispatch` (`tasks.py:207`) returns untouched what
  is already `RUNNER_PATH`, and says the Django Tasks backend enqueues through it,
  which uses a path of its own (`backend.py:63`).
- Delays. `HintIsFloor`: a hint with a fraction is truncated to seconds after the
  jitter, so the wait can be shorter than asked for, against
  `docs/ai-workloads.md:51`. `WholeHintIsFloor` is what holds.
- Ledger. `AggregatesExist`: a number after a non-numeric value of the same key raises
  `TypeError` in `_sum_usage` (`context.py:646`), also while a graph settles
  (`graphs.py:1019`); the docstring says the latest non-numeric wins. `cost()` adds
  amounts of different currencies; a cost recorded without a model is ignored
  once entries exist (`unnamed`); a cost that is not a number drops the running
  total.
- Throttle. `RateHolds` needs clocks that agree; `docs/ai-workloads.md:67` says that
  workers across machines share one limit.
- Lanes. `StrictlyInOrder`: a poller that loses a row of the high lane to another
  goes on to the next lane although the high one has more, against the docstring
  of `brokers.py`. `EveryLaneIsDrained` excepts messages routed while another thread
  had `Conf` patched.
- Worker. A stop does not end within the grace period when hanging targets hold
  every permit: the main loop waits in `acquire()` and never reads the pill
  (`worker.py:295`, `docs/threading.md:119`). `StopEnds` excepts it.
- Context. A late report (attempt row, then task row) and the monitor (task row, then
  attempt row) can deadlock; the database aborts one (`context.py:581`).
- Retention. A chain or graph reopened after a sweep has read its lists may lose
  settled members, against `retention.py:14` and `docs/architecture.md:483`;
  `MembersAreKept` excepts what was reopened.
- Dashboard. `RefusalsAreAnswered`: the slower of two requeues violates the unique
  constraint and answers 500, against `docs/dashboard.md:82`. `RefusesAsDocumented`: a
  stale requeue and the approval of a FAILED chain are accepted. A repeated cancel
  that loses the race answers 409 and not "already"; an unknown graph of
  `approve_graph_node` answers 409, the document says 404.

## 8. Not modelled, and the plan

Left out for good: signals, metrics, tracing and logging (they read state and
change none of it); configuration and migrations; the contents of arguments,
results and hooks; dashboard lists and charts; Django's and Django-Q2's own code,
except the broker, the worker's pool and the sentinel as `src/qraft` uses them;
the demo.

Not modelled yet: a pass of `dispatch_due` over several attempts, which stops at
the first that raises (`scheduler.py:265`), and with it the reaper's passes over
several rows; the ContextVars that bind a thread to its attempt (`context.py:109`).

| Order | What | Why |
|---|---|---|
| 1 | a pass over several rows (dispatcher, reaper) | one row that raises must not hide the others |
| 2 | the ContextVars of a worker's threads | a report must reach the attempt of its own thread |
