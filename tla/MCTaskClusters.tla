--------------------------- MODULE MCTaskClusters ---------------------------
(* Two TLC instances of TaskLifecycle in one run, chosen in the initial    *)
(* state: a node's task in a timely cluster, and two clusters whose        *)
(* monitors and reapers race.                                              *)
EXTENDS TaskLifecycle, TLC

CONSTANTS s1, s2, c_m1, c_m2, c_r1, c_r2, c_s1

VARIABLES
  which,   \* the system at work
  c_status, c_attempt, c_row, c_saved, c_slot, c_proc, c_hooks, c_receipt,
  c_died, c_faults

c_vars == <<c_status, c_attempt, c_row, c_saved, c_slot, c_proc, c_hooks, c_receipt,
    c_died, c_faults>>
suite == <<which, c_vars, vars>>

Clusters == INSTANCE TaskLifecycle WITH
  Monitors <- {c_m1, c_m2}, Reapers <- {c_r1, c_r2}, Operators <- {}, Slots <- {c_s1},
  MaxAttempt <- 3, MaxExecutions <- 1, RetryLimit <- 2, MaxFaults <- 0,
  NodeTask <- FALSE, OwnerMayCancel <- FALSE, HookMayFail <- FALSE,
  Timely <- FALSE, status <- c_status, attempt <- c_attempt, row <- c_row,
  saved <- c_saved, slot <- c_slot, proc <- c_proc, hooks <- c_hooks,
  receipt <- c_receipt, died <- c_died, faults <- c_faults

ASSUME ClustersAssumption == Clusters!ConstantsAssumption

(* The slots are interchangeable only where there are two of them, so the  *)
(* clusters have one of their own.                                         *)
Symmetry ==
  Permutations({c_m1, c_m2}) \cup Permutations({c_r1, c_r2}) \cup Permutations({s1, s2})

SuiteInit ==
  /\ which \in {"node", "clusters"}
  /\ Clusters!Init
  /\ Init
  /\ which # "clusters" => c_status = "PENDING"
  /\ which # "node" => status = "PENDING"

(* Only the system at work moves. *)
SuiteNext ==
  /\ UNCHANGED which
  /\ \/ which = "node" /\ Next /\ UNCHANGED c_vars
     \/ which = "clusters" /\ Clusters!Next /\ UNCHANGED vars

SuiteSpec == SuiteInit /\ [][SuiteNext]_suite

(* However the monitors and reapers of two clusters race, the series of    *)
(* attempts stays within the retry policy, and a task that has succeeded   *)
(* stays so (dispatchers.py, retry.py).                                    *)
ClustersAreSound == Clusters!SeriesIsSound
=============================================================================
