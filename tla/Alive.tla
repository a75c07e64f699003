------------------------------- MODULE Alive -------------------------------
(***************************************************************************)
(* What must come to an end, and what watches over it, side by side: an    *)
(* attempt on its way to a worker (Handoff), a task, a graph, and the      *)
(* sweeps of Watchdogs.  The initial state chooses the system at work.     *)
(***************************************************************************)
EXTENDS Handoff

CONSTANTS
  Monitors, Reapers, Operators, MaxCrashes,  \* the processes of tasks and graphs
  Workers, MaxAttempt, RetryLimit,           \* the task
  Size, Edges, Gated, MaxGen,                \* the graph
  Sweepers, StallAfter, OverdueAfter, MaxClock, MaxGeneration,  \* Watchdogs
  Alone, FewFaults   \* bounds outside the database: dispatchers, and faults

VARIABLES
  which,   \* the system at work
  t_status, t_attempt, t_row, t_saved, t_slot, t_proc, t_hooks, t_receipt,
  t_died, t_faults,
  g_status, g_gen, g_node, g_task, g_outbox, g_hooks, g_proc, g_approved,
  g_lost, g_faults,
  w_clock, w_attempt, w_graph, w_sweep, w_told

t_vars == <<t_status, t_attempt, t_row, t_saved, t_slot, t_proc, t_hooks, t_receipt,
    t_died, t_faults>>
g_vars == <<g_status, g_gen, g_node, g_task, g_outbox, g_hooks, g_proc, g_approved,
    g_lost, g_faults>>
w_vars == <<w_clock, w_attempt, w_graph, w_sweep, w_told>>
suite == <<which, t_vars, g_vars, w_vars, vars>>

Task == INSTANCE TaskLifecycle WITH
  Slots <- Workers, MaxExecutions <- 1, MaxFaults <- MaxCrashes,
  NodeTask <- FALSE, OwnerMayCancel <- FALSE, HookMayFail <- FALSE, Timely <- TRUE,
  status <- t_status, attempt <- t_attempt, row <- t_row, saved <- t_saved,
  slot <- t_slot, proc <- t_proc, hooks <- t_hooks, receipt <- t_receipt,
  died <- t_died, faults <- t_faults

Graph == INSTANCE ExecutionGraph WITH
  MaxRuns <- 1, MaxFaults <- MaxCrashes, status <- g_status, gen <- g_gen,
  node <- g_node, task <- g_task, outbox <- g_outbox, hooks <- g_hooks,
  proc <- g_proc, approved <- g_approved, lost <- g_lost, faults <- g_faults

Watch == INSTANCE Watchdogs WITH
  Reapers <- Sweepers, clock <- w_clock, attempt <- w_attempt, graph <- w_graph,
  sweep <- w_sweep, told <- w_told

ASSUME AliveAssumption ==
  /\ HandoffAssumption
  /\ Task!ConstantsAssumption /\ Graph!GraphAssumption /\ Watch!WatchdogsAssumption
-----------------------------------------------------------------------------
SuiteInit ==
  /\ which \in {"task", "graph", "handoff", "watch"}
  /\ Task!Init /\ (which # "task" => t_status = "PENDING")
  /\ Graph!Init
  /\ Init /\ (which # "handoff" => InDatabase /\ row.state = "SCHEDULED" /\ sent = {})
  /\ Watch!Init /\ (which # "watch" => w_attempt.open)

(* Outside the database a rollback leaves its message behind, so that      *)
(* faults and dispatchers multiply: there are fewer of both.               *)
AtWork == IF InDatabase THEN Dispatchers ELSE Alone
FaultsAllowed == IF InDatabase THEN MaxFaults ELSE FewFaults

(* Only the system at work moves. *)
SuiteNext ==
  /\ UNCHANGED which
  /\ \/ which = "task" /\ Task!Next /\ UNCHANGED <<g_vars, w_vars, vars>>
     \/ which = "graph" /\ Graph!Next /\ UNCHANGED <<t_vars, w_vars, vars>>
     \/ /\ which = "handoff" /\ Next /\ UNCHANGED <<t_vars, g_vars, w_vars>>
        /\ faults' <= FaultsAllowed
        /\ \A d \in Dispatchers \ AtWork : UNCHANGED disp[d]
     \/ which = "watch" /\ Watch!Next /\ UNCHANGED <<t_vars, g_vars, vars>>

(* The fairness of each system, while it is the one at work. *)
While(system, A) == which = system /\ A

SuiteFairness ==
  /\ \A a \in Task!Attempt :
       /\ WF_t_vars(While("task", Task!Dispatch(a))) /\ WF_t_vars(While("task", Task!Lapse(a)))
       /\ \A s \in Workers : WF_t_vars(While("task", Task!Deliver(s, a)))
       /\ \A r \in Reapers : WF_t_vars(While("task",
            Task!Reconcile(r, a) \/ Task!Replay(r, a) \/ Task!Sweep(r, a)))
  /\ \A s \in Workers :
       /\ WF_t_vars(While("task", Task!Claim(s)))
       /\ WF_t_vars(While("task", \E end \in {"ok", "fail"} : Task!Return(s, end)))
  /\ \A m \in Monitors :
       /\ WF_t_vars(While("task", \E s \in Workers : Task!SaveResult(m, s)))
       /\ WF_t_vars(While("task", Task!HandlerStep(m)))
       /\ WF_t_vars(While("task", Task!Acknowledge(m)))
  /\ \A r \in Reapers : WF_t_vars(While("task", Task!Reap(r) \/ Task!HandlerStep(r)))
  /\ WF_g_vars(While("graph", Graph!Start))
  /\ \A m \in Monitors, n \in Graph!Node, k \in Graph!Tid :
       WF_g_vars(While("graph", \E end \in {"ok", "fail"} : Graph!Resolve(m, n, k, end)))
  /\ \A r \in Reapers : WF_g_vars(While("graph",
       \/ Graph!ReplaySettled(r)
       \/ \E n \in Graph!Node, k \in Graph!Tid, i \in Graph!Run : Graph!Replay(r, n, k, i)))
  /\ \A p \in Monitors \cup Reapers \cup Operators :
       WF_g_vars(While("graph", Graph!RouterStep(p)))
  /\ \A d \in Dispatchers : WF_moves(While("handoff", d \in AtWork /\ DispatcherStep(d)))
  /\ \A s \in Slots : WF_moves(While("handoff", WorkerStep(s)))
  /\ WF_moves(While("handoff", \E s \in Slots, m \in Messages : Deliver(s, m)))
  /\ WF_moves(While("handoff", Sweep))
  /\ \A r \in Sweepers : WF_w_vars(While("watch", Watch!Sweep(r)))
  /\ WF_w_vars(While("watch", Watch!Tick))

SuiteSpec == SuiteInit /\ [][SuiteNext]_suite /\ SuiteFairness
-----------------------------------------------------------------------------
(* Whatever crashes, a task settles and its hooks fire, a scheduled        *)
(* attempt reaches a worker and settles through a broker of either kind, a *)
(* running graph settles or parks, and every settlement is announced       *)
(* (reaper.py, graphs.replay_settled_hooks).                               *)
EverythingEnds ==
  /\ which = "task" => Task!TaskSettles /\ Task!HooksFire
  /\ which = "handoff" => AttemptSettles
  /\ which = "graph" => Graph!GraphMoves /\ Graph!SettlementsAnnounced

(* Between any dispatchers, a broker of either kind and the sweep that     *)
(* re-arms claims, no claim loses its message, no target is called more    *)
(* often than its allowance or without its row, and no outcome is          *)
(* overwritten (scheduler.py, lease.py, hooks.py, reaper.py).              *)
HandoffHolds ==
  /\ [](TypeOK /\ ClaimsKeepTheirMessage /\ QueuedWithTheClaim /\ CallsAreAdmitted)
  /\ OutcomeIsKept

(* A flagged attempt had stood still or has recovered since, and each      *)
(* stall and overdue generation is told of once, whichever cluster's       *)
(* reaper finds it (reaper.flag_stalls, graphs.flag_overdue).              *)
FlagsTellTheTruth == Watch!FlagsTellTheTruth

(* No attempt is flagged once it has its outcome, however late the write   *)
(* of a sweep comes (reaper.flag_stalls).                                  *)
OnlyOpenIsFlagged == Watch!OnlyOpenIsFlagged

(* Nothing that stands still or runs over goes unseen (reaper.flag_stalls, *)
(* graphs.flag_overdue).                                                   *)
WatchdogsSee == which = "watch" => Watch!StallIsSeen /\ Watch!OverdueIsSeen
=============================================================================
