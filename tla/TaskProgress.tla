---------------------------- MODULE TaskProgress ----------------------------
(***************************************************************************)
(* What a running target reports about itself (context.py): progress,      *)
(* merged into its attempt and copied onto the task, usage, and the budget *)
(* of its graph; beside the monitor that resolves attempts and the         *)
(* scheduler that inserts the next one.                                    *)
(*                                                                         *)
(* Attempts and the task are rows with locks, held to the end of the       *)
(* transaction.  A target may go on reporting when its attempt is resolved *)
(* (it timed out, or its lease lapsed), and an attempt may run twice.      *)
(***************************************************************************)
EXTENDS Integers, FiniteSets

CONSTANTS
  MaxAttempts,   \* bound: attempts of the task
  Targets,       \* executions: an attempt, and which delivery of it
  Does,          \* target -> what it does: "report", "record", "spend"
  Goal,          \* bound: `current` is reported in 0..Goal
  MaxUsage,      \* bound: usage recorded on an attempt
  Budget         \* what the graph declares for the key

ProgressAssumption ==
  /\ MaxAttempts \in Nat \ {0} /\ Goal \in Nat /\ MaxUsage \in Nat /\ Budget \in Nat
  /\ Targets \subseteq (1..MaxAttempts) \X Nat
  /\ Does \in [Targets -> SUBSET {"report", "record", "spend"}]

VARIABLES
  attempts,   \* how many attempts the task has
  row,        \* attempt -> `current`, whether it was reported within the interval, ...
  snapshot,   \* what the task shows: `current` of which attempt
  budget,     \* what is left in the graph's row
  rowLock,    \* attempt -> who holds its row
  taskLock,   \* who holds the task's row
  graphLock,  \* who holds the graph's row
  call,       \* target -> how far its call is
  monitor,    \* how far the monitor is
  said,       \* history: attempt -> the last `current` a call returned from
  recorded,   \* history: attempt -> usage of calls that returned
  spent       \* history: budget granted

vars == <<attempts, row, snapshot, budget, rowLock, taskLock, graphLock,
          call, monitor, said, recorded, spent>>
rows == <<attempts, row, snapshot, budget>>
history == <<said, recorded, spent>>

Attempts == 1..MaxAttempts
Of(r) == r[1]
Free == <<>>         \* a lock's holder: nobody,
Monitor == <<0>>     \* the monitor, or a target

Idle == [at |-> "idle", current |-> 0, read |-> 0, newest |-> FALSE]

TypeOK ==
  /\ attempts \in Attempts
  /\ row \in [Attempts -> [current: 0..Goal, recent: BOOLEAN, usage: 0..MaxUsage,
                           resolved: BOOLEAN]]
  /\ snapshot \in [of: 0..MaxAttempts, current: 0..Goal]
  /\ budget \in 0..Budget
  /\ \A a \in Attempts : rowLock[a] \in {Free, Monitor} \cup Targets
  /\ taskLock \in {Free, Monitor} \cup Targets
  /\ graphLock \in {Free} \cup Targets
  /\ call \in [Targets -> [at: {"idle", "merged", "locked", "looked", "recording",
                                "declared", "charging"},
                           current: 0..Goal, read: 0..(MaxUsage + Budget), newest: BOOLEAN]]
  /\ monitor \in [at: {"idle", "locked", "resolved"}, of: Attempts]
  /\ said \in [Attempts -> 0..Goal] /\ recorded \in [Attempts -> Nat] /\ spent \in Nat

Init ==
  /\ attempts = 1
  /\ row = [a \in Attempts |->
             [current |-> 0, recent |-> FALSE, usage |-> 0, resolved |-> FALSE]]
  /\ snapshot = [of |-> 0, current |-> 0]
  /\ budget = Budget
  /\ rowLock = [a \in Attempts |-> Free] /\ taskLock = Free /\ graphLock = Free
  /\ call = [r \in Targets |-> Idle]
  /\ monitor = [at |-> "idle", of |-> 1]
  /\ said = [a \in Attempts |-> 0] /\ recorded = [a \in Attempts |-> 0] /\ spent = 0
-----------------------------------------------------------------------------
At(r, place) == call[r].at = place
To(r, place) == call' = [call EXCEPT ![r].at = place]
Back(r) == call' = [call EXCEPT ![r] = Idle]
May(r, what) == At(r, "idle") /\ Of(r) <= attempts /\ what \in Does[r]

RowFree(r) == rowLock[Of(r)] = Free
Held(a, who) == rowLock' = [rowLock EXCEPT ![a] = who]

(* Mutant: whatever comes within the interval is skipped. *)
CoalescedAlways(r, current, force) == ~force /\ row[Of(r)].recent

(* Within progress_min_interval a report is skipped, unless it advances or *)
(* is forced.                                                              *)
Coalesced(r, current, force) ==
  ~force /\ row[Of(r)].recent /\ current = row[Of(r)].current

(* report_progress begins: the merge takes the attempt's row.              *)
Merge(r) ==
  /\ May(r, "report") /\ RowFree(r)
  /\ \E current \in 0..Goal, force \in BOOLEAN :
       IF Coalesced(r, current, force)
       THEN /\ said' = [said EXCEPT ![Of(r)] = current]
            /\ UNCHANGED <<rowLock, call>>
       ELSE /\ call' = [call EXCEPT ![r] = [Idle EXCEPT !.at = "merged", !.current = current]]
            /\ Held(Of(r), r)
            /\ UNCHANGED said
  /\ UNCHANGED <<rows, taskLock, graphLock, monitor, recorded, spent>>

(* Mutant: a superseded attempt waits until it is the newest. *)
MayLockNewest(r) == taskLock = Free /\ attempts = Of(r)

MayLock(r) == taskLock = Free

(* _snapshot_progress locks the task's row ...                             *)
LockTask(r) ==
  /\ At(r, "merged") /\ MayLock(r)
  /\ taskLock' = r
  /\ To(r, "locked")
  /\ UNCHANGED <<rows, rowLock, graphLock, monitor, history>>

(* ... and looks for a newer attempt ...                                   *)
Look(r) ==
  /\ At(r, "locked")
  /\ call' = [call EXCEPT ![r].at = "looked", ![r].newest = attempts = Of(r)]
  /\ UNCHANGED <<rows, rowLock, taskLock, graphLock, monitor, history>>

(* Mutant: the attempt is not compared with the others. *)
CopiedAlways(r) == [of |-> Of(r), current |-> call[r].current]

Copied(r) ==
  IF call[r].newest THEN [of |-> Of(r), current |-> call[r].current] ELSE snapshot

(* ... and writes the copy; with that the transaction ends.                *)
Snapshot(r) ==
  /\ At(r, "looked")
  /\ row' = [row EXCEPT ![Of(r)].current = call[r].current, ![Of(r)].recent = TRUE]
  /\ snapshot' = Copied(r)
  /\ said' = [said EXCEPT ![Of(r)] = call[r].current]
  /\ Held(Of(r), Free)
  /\ taskLock' = IF taskLock = r THEN Free ELSE taskLock
  /\ Back(r)
  /\ UNCHANGED <<attempts, budget, graphLock, monitor, recorded, spent>>

(* The interval passes. *)
Elapse(a) ==
  /\ row[a].recent
  /\ row' = [row EXCEPT ![a].recent = FALSE]
  /\ UNCHANGED <<attempts, snapshot, budget, rowLock, taskLock, graphLock, call, monitor, history>>

(* Mutant: usage is read without the row's lock. *)
MayReadAlways(r) == TRUE

MayRead(r) == RowFree(r)

(* record_usage: the stored usage is read under the row's lock (on         *)
(* Postgres by the UPDATE itself) ...                                      *)
ReadUsage(r) ==
  /\ May(r, "record") /\ MayRead(r)
  /\ recorded[Of(r)] < MaxUsage
  /\ call' = [call EXCEPT ![r].at = "recording", ![r].read = row[Of(r)].usage]
  /\ Held(Of(r), r)
  /\ UNCHANGED <<rows, taskLock, graphLock, monitor, history>>

(* ... and written back with the increment.                                *)
WriteUsage(r) ==
  /\ At(r, "recording") /\ recorded[Of(r)] < MaxUsage
  /\ row' = [row EXCEPT ![Of(r)].usage = call[r].read + 1]
  /\ recorded' = [recorded EXCEPT ![Of(r)] = @ + 1]
  /\ Held(Of(r), IF rowLock[Of(r)] = r THEN Free ELSE rowLock[Of(r)])
  /\ Back(r)
  /\ UNCHANGED <<attempts, snapshot, budget, taskLock, graphLock, monitor, said, spent>>

(* consume_budget: the key is declared, so it is metered.                  *)
Declared(r) ==
  /\ May(r, "spend") /\ Budget > 0
  /\ To(r, "declared")
  /\ UNCHANGED <<rows, rowLock, taskLock, graphLock, monitor, history>>

(* Mutant: the budget is read without the graph's lock. *)
MayChargeAlways(r) == TRUE

MayCharge(r) == graphLock = Free

(* The guarded decrement reads what is left under the graph's lock ...     *)
ReadBudget(r) ==
  /\ At(r, "declared") /\ MayCharge(r)
  /\ call' = [call EXCEPT ![r].at = "charging", ![r].read = budget]
  /\ graphLock' = r
  /\ UNCHANGED <<rows, rowLock, taskLock, monitor, history>>

(* ... and spends it, or raises BudgetExhausted.                           *)
Charge(r) ==
  /\ At(r, "charging")
  /\ IF call[r].read >= 1
     THEN budget' = call[r].read - 1 /\ spent' = spent + 1
     ELSE UNCHANGED <<budget, spent>>
  /\ graphLock' = IF graphLock = r THEN Free ELSE graphLock
  /\ Back(r)
  /\ UNCHANGED <<attempts, row, snapshot, rowLock, taskLock, monitor, said, recorded>>

(* A result was saved: q2_task_completion_handler locks the task ...       *)
Handle(a) ==
  /\ monitor.at = "idle" /\ a <= attempts /\ ~row[a].resolved /\ taskLock = Free
  /\ taskLock' = Monitor
  /\ monitor' = [at |-> "locked", of |-> a]
  /\ UNCHANGED <<rows, rowLock, graphLock, call, history>>

(* ... resolves the attempt, whose row it needs ...                        *)
Resolve ==
  /\ monitor.at = "locked" /\ rowLock[monitor.of] = Free
  /\ Held(monitor.of, Monitor)
  /\ monitor' = [monitor EXCEPT !.at = "resolved"]
  /\ UNCHANGED <<rows, taskLock, graphLock, call, history>>

(* ... and commits, a failure with the attempt that schedule_attempt has   *)
(* inserted.                                                               *)
Commit ==
  /\ monitor.at = "resolved"
  /\ \E more \in 0..1 : attempts + more <= MaxAttempts /\ attempts' = attempts + more
  /\ row' = [row EXCEPT ![monitor.of].resolved = TRUE]
  /\ taskLock' = Free /\ Held(monitor.of, Free)
  /\ monitor' = [monitor EXCEPT !.at = "idle"]
  /\ UNCHANGED <<snapshot, budget, graphLock, call, history>>

(* Mutant: schedule_attempt inserts without the task's lock. *)
MayInsertAlways == TRUE

MayInsert == taskLock = Free

(* requeue schedules a further attempt of a dead task.                     *)
Requeue ==
  /\ row[attempts].resolved /\ attempts < MaxAttempts /\ MayInsert
  /\ attempts' = attempts + 1
  /\ UNCHANGED <<row, snapshot, budget, rowLock, taskLock, graphLock, call, monitor, history>>

(* A report holds the attempt and wants the task, the monitor holds the    *)
(* task and wants the attempt.                                             *)
Deadlocked(r) ==
  At(r, "merged") /\ taskLock = Monitor /\ monitor.at = "locked" /\ monitor.of = Of(r)

(* The database ends it: the report raises ...                             *)
AbortReport(r) ==
  /\ Deadlocked(r)
  /\ Back(r) /\ Held(Of(r), Free)
  /\ UNCHANGED <<rows, taskLock, graphLock, monitor, history>>

(* ... or the handler does, and reconcile_finished gives it the result     *)
(* again later.                                                            *)
AbortHandler(r) ==
  /\ Deadlocked(r)
  /\ monitor' = [monitor EXCEPT !.at = "idle"] /\ taskLock' = Free
  /\ UNCHANGED <<rows, rowLock, graphLock, call, history>>
-----------------------------------------------------------------------------
Call(r) ==
  \/ Merge(r) \/ ReadUsage(r) \/ Declared(r)
Step(r) ==
  \/ LockTask(r) \/ Look(r) \/ Snapshot(r) \/ WriteUsage(r) \/ ReadBudget(r) \/ Charge(r)
Detect(r) == AbortReport(r) \/ AbortHandler(r)

Next ==
  \/ \E r \in Targets : Call(r) \/ Step(r) \/ Detect(r)
  \/ \E a \in Attempts : Elapse(a) \/ Handle(a)
  \/ Resolve \/ Commit \/ Requeue

Spec == Init /\ [][Next]_vars

(* Statements end: a lock that is waited for is granted in turn, and the   *)
(* database looks for deadlocks.                                           *)
Fairness ==
  /\ \A r \in Targets : SF_vars(Step(r)) /\ WF_vars(Detect(r))
  /\ SF_vars(Resolve) /\ WF_vars(Commit)

FairSpec == Spec /\ Fairness
-----------------------------------------------------------------------------
(* Properties.                                                             *)

(* The task's progress is never overwritten by an attempt that a newer one *)
(* has superseded: when it changes, it is by the newest attempt there is   *)
(* (_snapshot_progress and schedule_attempt take the same lock).           *)
NewestShows == [][snapshot' # snapshot => snapshot'.of = attempts]_vars

(* What the newest attempt said last is what its row and the task show,    *)
(* whatever was coalesced, rolled back or reported by a second delivery of *)
(* the attempt (_locked_progress_update, _snapshot_progress).              *)
LastWordShows ==
  /\ \A a \in Attempts : row[a].current = said[a]
  /\ snapshot.of = attempts => snapshot.current = said[attempts]

(* No recorded usage is lost, however calls and attempts overlap           *)
(* (_pg_usage_update, _locked_usage_update).                               *)
UsageIsExact == \A a \in Attempts : row[a].usage = recorded[a]

(* What is granted of a budget and what is left of it is what the graph    *)
(* declared (_pg_consume_budget, _locked_consume_budget).                  *)
BudgetIsExact == budget + spent = Budget

(* A deadlock between a late report and the monitor ends, and with it both *)
(* of their transactions.                                                  *)
CallsEnd ==
  /\ \A r \in Targets : ~At(r, "idle") ~> At(r, "idle")
  /\ monitor.at # "idle" ~> monitor.at = "idle"
=============================================================================
