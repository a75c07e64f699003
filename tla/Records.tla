------------------------------- MODULE Records -------------------------------
(***************************************************************************)
(* The systems whose rows several processes write, side by side: a chain   *)
(* whose people are patient and one where they act in the middle of a      *)
(* completion, a graph, calls with an idempotency key, calls that name a   *)
(* graph, the delay before a retry, the ledger of a task's usage, and the  *)
(* people of OperatorConsole.  They share the database and no rows, so the *)
(* initial state chooses the one at work.                                  *)
(***************************************************************************)
EXTENDS OperatorConsole

CONSTANTS
  Monitors, Reapers, Deciders,             \* the processes of chains and graphs
  LastStep, Gates, MaxTasks,               \* the patient chain, its gated steps
  RaceStep, RaceTasks,                     \* the other one, without gates
  MaxRuns, MaxResumes, MaxFaults,          \* bounds of both
  Size, Edges, GatedNodes, MaxGen,         \* the graph and the bound of its resumes
  Callers, MaxTask,                        \* who submits work, and of what kind
  KeyRequests, LabelRequests,
  Exceptions, Policies, HintTexts,         \* RetryDelay
  Attempts, LedgerTasks, TaskOf, Processes,\* UsageLedger
  Rates, Counts, Costs, MaxCalls

VARIABLES
  which,   \* the system at work
  c_status, c_index, c_settled, c_started, c_bound, c_task, c_rows, c_proc,
  c_gen, c_fired, c_approved, c_faults,
  g_status, g_gen, g_node, g_task, g_outbox, g_hooks, g_proc, g_approved,
  g_lost, g_faults,
  s_task, s_graph, s_started, s_call, s_revived, s_taken,
  d_policy, d_number, d_state, d_failure, d_delay, d_before,
  u_table, u_cached, u_usage, u_calls, u_billed, u_open, u_unnamed

c_vars == <<c_status, c_index, c_settled, c_started, c_bound, c_task, c_rows, c_proc,
    c_gen, c_fired, c_approved, c_faults>>
g_vars == <<g_status, g_gen, g_node, g_task, g_outbox, g_hooks, g_proc, g_approved,
    g_lost, g_faults>>
s_vars == <<s_task, s_graph, s_started, s_call, s_revived, s_taken>>
d_vars == <<d_policy, d_number, d_state, d_failure, d_delay, d_before>>
u_vars == <<u_table, u_cached, u_usage, u_calls, u_billed, u_open, u_unnamed>>
suite == <<which, c_vars, g_vars, s_vars, d_vars, u_vars, vars>>

Patient == INSTANCE ChainWorkflow WITH
  Operators <- Deciders, Gated <- Gates, Shared <- FALSE, Unhurried <- TRUE,
  status <- c_status, index <- c_index, settled <- c_settled,
  started <- c_started, bound <- c_bound, task <- c_task, rows <- c_rows,
  proc <- c_proc, gen <- c_gen, fired <- c_fired, approved <- c_approved,
  faults <- c_faults

Race == INSTANCE ChainWorkflow WITH
  Operators <- Deciders, LastStep <- RaceStep, Gated <- {}, MaxTasks <- RaceTasks,
  Shared <- FALSE, Unhurried <- FALSE,
  status <- c_status, index <- c_index, settled <- c_settled,
  started <- c_started, bound <- c_bound, task <- c_task, rows <- c_rows,
  proc <- c_proc, gen <- c_gen, fired <- c_fired, approved <- c_approved,
  faults <- c_faults

Join == INSTANCE ExecutionGraph WITH
  Operators <- Deciders, Gated <- GatedNodes, MaxRuns <- 1, MaxFaults <- 0,
  status <- g_status, gen <- g_gen, node <- g_node, task <- g_task,
  outbox <- g_outbox, hooks <- g_hooks, proc <- g_proc, approved <- g_approved,
  lost <- g_lost, faults <- g_faults

Keys == INSTANCE Submission WITH
  Requests <- KeyRequests, task <- s_task, graph <- s_graph,
  started <- s_started, call <- s_call, revived <- s_revived, taken <- s_taken

Labels == INSTANCE Submission WITH
  Requests <- LabelRequests, task <- s_task, graph <- s_graph,
  started <- s_started, call <- s_call, revived <- s_revived, taken <- s_taken

Delay == INSTANCE RetryDelay WITH
  policy <- d_policy, number <- d_number, state <- d_state, failure <- d_failure,
  delay <- d_delay, before <- d_before

Ledger == INSTANCE UsageLedger WITH
  Tasks <- LedgerTasks,
  table <- u_table, cached <- u_cached, usage <- u_usage, calls <- u_calls,
  billed <- u_billed, open <- u_open, unnamed <- u_unnamed

(* One person decides for a chain: two of them are a race of their own. *)
ASSUME RecordsAssumption ==
  /\ Patient!ChainAssumption /\ Race!ChainAssumption
  /\ \A o, p \in Deciders : o = p
  /\ Join!GraphAssumption /\ Keys!SubmissionAssumption /\ Labels!SubmissionAssumption
  /\ Delay!PolicyAssumption /\ Ledger!LedgerAssumption /\ ConsoleAssumption
-----------------------------------------------------------------------------
AnyPolicy == CHOOSE p \in Policies : TRUE
AnyRate == CHOOSE r \in Rates : TRUE

SuiteInit ==
  /\ which \in {"gate", "race", "join", "keys", "labels", "delay", "ledger", "console"}
  /\ IF which = "race" THEN Race!Init ELSE Patient!Init
  /\ Join!Init /\ Keys!Init
  /\ Delay!Init /\ (which # "delay" => d_policy = AnyPolicy)
  /\ Ledger!Init /\ (which # "ledger" => u_table = AnyRate)
  /\ Init /\ (which # "console" => task.status = "FAILED")

(* Only the system at work moves. *)
SuiteNext ==
  /\ UNCHANGED which
  /\ \/ /\ \/ which = "gate" /\ Patient!Next
           \/ which = "race" /\ Race!Next
        /\ UNCHANGED <<g_vars, s_vars, d_vars, u_vars, vars>>
     \/ which = "join" /\ Join!Next /\ UNCHANGED <<c_vars, s_vars, d_vars, u_vars, vars>>
     \/ /\ \/ which = "keys" /\ Keys!Next
           \/ which = "labels" /\ Labels!Next
        /\ UNCHANGED <<c_vars, g_vars, d_vars, u_vars, vars>>
     \/ which = "delay" /\ Delay!Next /\ UNCHANGED <<c_vars, g_vars, s_vars, u_vars, vars>>
     \/ which = "ledger" /\ Ledger!Next /\ UNCHANGED <<c_vars, g_vars, s_vars, d_vars, vars>>
     \/ which = "console" /\ Next /\ UNCHANGED <<c_vars, g_vars, s_vars, d_vars, u_vars>>

SuiteSpec == SuiteInit /\ [][SuiteNext]_suite
-----------------------------------------------------------------------------
(* A chain runs its steps in order and each once a generation, passes a    *)
(* gate only with an approval, is over when it is settled and says so with *)
(* one hook, and never waits for nobody (dispatchers.py, chain.py).        *)
ChainStaysConsistent ==
  /\ which = "gate" => Patient!GateHolds /\ Patient!SettledMeansOver /\ Patient!NothingStranded
  /\ which = "race" =>
       Race!TypeOK /\ Race!StepsInOrder /\ Race!QueuedOnce /\ Race!OneHookPerGeneration

(* A completion of a task the chain is no longer bound to fails nothing,   *)
(* and what was cancelled stays so (dispatchers.py, base.cancel).          *)
ChainDecisionsStand ==
  /\ [][which = "gate" => \A p \in Patient!Routers :
          Patient!FailsChain(p) => c_bound[Patient!StepOf(p)] = c_proc[p].task]_c_vars
  /\ Race!CancelledIsFinal

(* Siblings that end in any order, a gate and a resume leave a graph with  *)
(* its order, its once-only effects and the truth of its rows (graphs.py). *)
GraphStaysConsistent ==
  which = "join" => Join!RunsInOrder /\ Join!OncePerGeneration /\ Join!GraphTellsTheTruth

(* Two callers with one idempotency key or one graph get one live task     *)
(* between them, a whole answer each, and rows that agree on their subject *)
(* (tasks.py, backend.py, graphs.py).                                      *)
CallersAgree ==
  /\ which = "keys" => Keys!TypeOK
  /\ which \in {"keys", "labels"} =>
       /\ Keys!OneLivePerKey /\ Keys!LosersAreAnswered
       /\ Keys!SubjectsAgree /\ Keys!AnswersAreWhole

(* The delay before a retry keeps its cap, honours a whole hint, backs off *)
(* under rate limits, is never nothing, and the series ends where the      *)
(* policy's lists say (retry.py).                                          *)
DelayIsSound ==
  which = "delay" =>
  /\ Delay!TypeOK /\ Delay!CapHolds /\ Delay!WholeHintIsFloor
  /\ Delay!RateLimitsBackOff /\ Delay!NeverAtOnce /\ Delay!EndsAsListed

(* What was billed or priced is never priced again, what has no price      *)
(* shows, what is not called an estimate is what callers billed, and a     *)
(* workflow's usage adds up its attempts (context.py, pricing.py).         *)
LedgerIsSound ==
  which = "ledger" =>
  /\ Ledger!TypeOK /\ Ledger!BilledStands /\ Ledger!CoverageIsTrue
  /\ Ledger!UnestimatedIsBilled /\ Ledger!NestedIsFlat
=============================================================================
