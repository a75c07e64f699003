------------------------------ MODULE Workflows ------------------------------
(***************************************************************************)
(* The workflows, side by side: the iteration or batch of ParallelWorkflow *)
(* and a chain with gates.  They share the routers and no rows, so the     *)
(* initial state chooses the one at work.                                  *)
(***************************************************************************)
EXTENDS ParallelWorkflow

CONSTANTS
  Deciders,              \* who approves, cancels and resumes the chain
  LastStep, Gates,       \* its steps, and which of them are gated
  MaxTasks, MaxResumes   \* bounds: its tasks and its resumes

VARIABLES
  which,   \* the system at work
  c_status, c_index, c_settled, c_started, c_bound, c_task, c_rows, c_proc,
  c_gen, c_fired, c_approved, c_faults

c_vars == <<c_status, c_index, c_settled, c_started, c_bound, c_task, c_rows, c_proc,
    c_gen, c_fired, c_approved, c_faults>>
suite == <<which, c_vars, vars>>

(* The chain's own tasks are requeued by nobody: it is resumed. *)
Chain == INSTANCE ChainWorkflow WITH
  Operators <- Deciders, Gated <- Gates, MaxRuns <- 1, Shared <- FALSE, Unhurried <- TRUE,
  status <- c_status, index <- c_index, settled <- c_settled,
  started <- c_started, bound <- c_bound, task <- c_task, rows <- c_rows,
  proc <- c_proc, gen <- c_gen, fired <- c_fired, approved <- c_approved,
  faults <- c_faults

(* One person decides for a chain, and whoever has a workflow's id has it  *)
(* from run().                                                             *)
ASSUME WorkflowsAssumption ==
  /\ Chain!ChainAssumption /\ ParallelAssumption
  /\ \A o, p \in Deciders : o = p
  /\ Shared = FALSE
-----------------------------------------------------------------------------
SuiteInit ==
  /\ which \in {"chain", "parallel"}
  /\ Chain!Init
  /\ Init

(* Only the system at work moves. *)
SuiteNext ==
  /\ UNCHANGED which
  /\ \/ which = "chain" /\ Chain!Next /\ UNCHANGED vars
     \/ which = "parallel" /\ Next /\ UNCHANGED c_vars

(* The fairness of each system, while it is the one at work. *)
While(system, A) == which = system /\ A

SuiteFairness ==
  /\ WF_c_vars(While("chain", Chain!RunChain))
  /\ \A m \in Monitors, t \in Chain!Task :
       WF_c_vars(While("chain", \E end \in {"ok", "fail"} : Chain!Resolve(m, t, end)))
  /\ \A r \in Reapers, t \in Chain!Task, n \in Chain!Run :
       WF_c_vars(While("chain", Chain!Replay(r, t, n)))
  /\ \A p \in Routers : WF_c_vars(While("chain", Chain!RouterStep(p)))
  /\ WF_vars(While("parallel", RunAll))
  /\ \A m \in Monitors, c \in Completion :
       WF_vars(While("parallel", \E o \in {"ok", "fail"} : Resolve(m, c, o)))
  /\ \A r \in Reapers, c \in Completion : WF_vars(While("parallel", Replay(r, c)))
  /\ \A p \in Routers : WF_vars(While("parallel", RouterStep(p)))

SuiteSpec == SuiteInit /\ [][SuiteNext]_suite /\ SuiteFairness
-----------------------------------------------------------------------------
(* A chain does what its contract allows, and a cancelled iteration or     *)
(* batch counts nothing any more (dispatchers.py, workflows/base.py).      *)
OutcomesStand == Chain!KeepsContract /\ CancelledIsFinal

(* A running chain ends or parks, a running iteration or batch settles,    *)
(* and every completion is routed, whatever crashes (reaper.py).           *)
EverythingEnds ==
  /\ which = "chain" => Chain!ChainMoves /\ Chain!CompletionsRouted
  /\ which = "parallel" => Settled /\ CompletionsRouted
=============================================================================
