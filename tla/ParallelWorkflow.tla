-------------------------- MODULE ParallelWorkflow --------------------------
(***************************************************************************)
(* One QraftIter or QraftBatch: run, the counting of its members'          *)
(* completions by ParallelDispatcher, cancel, and its workflow hook.  The  *)
(* two differ only in what their members execute.  As in ChainWorkflow a   *)
(* member's task is its series of routed completions, the newest deciding  *)
(* its status; a requeued dead member starts another.                      *)
(***************************************************************************)
EXTENDS Integers, FiniteSets

CONSTANTS
  Monitors,    \* monitor processes: resolve attempts and route them
  Reapers,     \* reaper threads: replay what was not routed
  Members,     \* the member tasks
  MaxRuns,     \* bound: completions of one member (1 + requeues)
  MaxFaults,   \* bound: crashes of routers
  Shared       \* others hold the workflow's id before run()

Routers == Monitors \cup Reapers
Run == 1..MaxRuns
Completion == Members \X Run

ParallelAssumption ==
  /\ IsFiniteSet(Members) /\ Members # {}
  /\ MaxRuns \in Nat \ {0} /\ MaxFaults \in Nat
  /\ Shared \in BOOLEAN
  /\ Monitors \cap Reapers = {}

VARIABLES
  status,   \* the workflow's status
  settled,  \* settled_at is set
  tally,    \* completed_count, success_count, failure_count
  out,      \* outcome of each completion of each member
  counted,  \* completions whose attempt has the counted flag
  routed,   \* completions whose attempt has the routed flag
  proc,     \* what each monitor and reaper is doing
  fired,    \* hook types with a WorkflowHookDispatch row
  faults    \* crashes so far

workflow == <<status, settled, tally, counted>>
vars == <<workflow, out, routed, proc, fired, faults>>

Status == {"PENDING", "RUNNING", "SUCCEEDED", "FAILED", "CANCELLED"}
Terminal == {"SUCCEEDED", "FAILED", "CANCELLED"}
Total == Cardinality(Members)
Idle == [pc |-> "idle", of |-> <<>>]

TypeOK ==
  /\ status \in Status
  /\ settled \in BOOLEAN
  /\ tally \in [completed : 0..(Total * MaxRuns), success : 0..Total,
                failure : 0..(Total * MaxRuns)]
  /\ out \in [Completion -> {"none", "open", "ok", "fail"}]
  /\ counted \subseteq Completion
  /\ routed \subseteq Completion
  /\ \A p \in Routers :
       \/ proc[p] = Idle
       \/ /\ proc[p].pc \in {"handle", "count", "hook", "mark"}
          /\ proc[p].of \in Completion
  /\ fired \subseteq {"success", "failure", "cancelled"}
  /\ faults \in 0..MaxFaults

Started == \E c \in Completion : out[c] # "none"
Resolved(c) == out[c] \in {"ok", "fail"}
IsNewest(c) ==
  out[c] # "none" /\ (c[2] < MaxRuns => out[<<c[1], c[2] + 1>>] = "none")
Live(m) == \E r \in Run : out[<<m, r>>] = "open"
Dead(m) == \E r \in Run : IsNewest(<<m, r>>) /\ out[<<m, r>>] = "fail"

Init ==
  /\ status = "PENDING" /\ settled = FALSE
  /\ tally = [completed |-> 0, success |-> 0, failure |-> 0]
  /\ out = [c \in Completion |-> "none"]
  /\ counted = {} /\ routed = {} /\ fired = {}
  /\ proc = [p \in Routers |-> Idle]
  /\ faults = 0
-----------------------------------------------------------------------------
MoveTo(p, pc) == proc' = [proc EXCEPT ![p].pc = pc]
Release(p) == proc' = [proc EXCEPT ![p] = Idle]
Take(p, c) == proc' = [proc EXCEPT ![p] = [pc |-> "handle", of |-> c]]

(* QraftIter.run and QraftBatch.run: total_count, the status and the whole *)
(* fan-out in one transaction.                                             *)
RunAll ==
  /\ ~Started
  /\ status' = "RUNNING"
  /\ out' = [c \in Completion |-> IF c[2] = 1 THEN "open" ELSE "none"]
  /\ UNCHANGED <<settled, tally, counted, routed, proc, fired, faults>>

(* The monitor resolves the last attempt of a member's retry series. *)
Resolve(p, c, o) ==
  /\ proc[p].pc = "idle"
  /\ out[c] = "open"
  /\ out' = [out EXCEPT ![c] = o]
  /\ Take(p, c)
  /\ UNCHANGED <<workflow, routed, fired, faults>>

(* Mutant: only successes are replayed. *)
UnroutedSuccess(c) == out[c] = "ok" /\ c \notin routed

Unrouted(c) == Resolved(c) /\ c \notin routed

(* reaper.replay_unrouted. *)
Replay(p, c) ==
  /\ proc[p].pc = "idle"
  /\ Unrouted(c)
  /\ Take(p, c)
  /\ UNCHANGED <<workflow, out, routed, fired, faults>>

(* Mutant: a member that failed without a policy is not terminal. *)
OnlySuccess(c) == out[c] = "ok"

(* _is_task_terminal, read without a lock. *)
IsTerminal(c) == out[c] = "ok" \/ Dead(c[1])

Handle(p) ==
  /\ proc[p].pc = "handle"
  /\ MoveTo(p, IF IsTerminal(proc[p].of) THEN "count" ELSE "mark")
  /\ UNCHANGED <<workflow, out, routed, fired, faults>>

(* Mutants: the counted flag or the cancellation is not looked at.         *)
AlwaysCounts(c) == status # "CANCELLED"
CountsCancelled(c) == c \notin counted

Counts(c) == status # "CANCELLED" /\ c \notin counted

Added(t, o) ==
  [completed |-> t.completed + 1,
   success |-> t.success + (IF o = "ok" THEN 1 ELSE 0),
   failure |-> t.failure + (IF o = "ok" THEN 0 ELSE 1)]

(* Mutants: off by one; the outcome is that of the last member; a settled  *)
(* workflow settles again.                                                 *)
AlmostComplete(t) == t.completed + 1 >= Total
AnySuccess(t) == IF t.success > 0 THEN "SUCCEEDED" ELSE "FAILED"
AlwaysSettles == TRUE

IsComplete(t) == t.completed >= Total
Verdict(t) == IF t.failure = 0 THEN "SUCCEEDED" ELSE "FAILED"
Settles == ~settled /\ status \notin Terminal

(* _atomic_increment under the locks of the workflow and the attempt, with *)
(* settle_workflow.  The partial case may queue a progress hook, which     *)
(* changes no row.                                                         *)
Count(p) ==
  LET c == proc[p].of
      t == Added(tally, out[c]) IN
  /\ proc[p].pc = "count"
  /\ \/ /\ ~Counts(c)
        /\ MoveTo(p, "mark")
        /\ UNCHANGED workflow
     \/ /\ Counts(c)
        /\ counted' = counted \cup {c}
        /\ tally' = t
        /\ IF IsComplete(t) /\ Settles
           THEN /\ status' = Verdict(t)
                /\ settled' = TRUE
                /\ MoveTo(p, "hook")
           ELSE /\ MoveTo(p, "mark")
                /\ UNCHANGED <<status, settled>>
  /\ UNCHANGED <<out, routed, fired, faults>>

(* _dispatch_workflow_hook, after the commit, by the failure count of the  *)
(* instance as it was settled: the one the status was chosen by.           *)
DispatchHook(p) ==
  /\ proc[p].pc = "hook"
  /\ fired' = fired \cup {IF status = "SUCCEEDED" THEN "success" ELSE "failure"}
  /\ MoveTo(p, "mark")
  /\ UNCHANGED <<workflow, out, routed, faults>>

MarkRouted(p) ==
  /\ proc[p].pc = "mark"
  /\ routed' = routed \cup {proc[p].of}
  /\ Release(p)
  /\ UNCHANGED <<workflow, out, fired, faults>>

(* BaseWorkflow.cancel: a conditional update and the hook, in one          *)
(* transaction.                                                            *)
Cancel ==
  /\ Started \/ Shared
  /\ status \in {"PENDING", "RUNNING"} /\ ~settled
  /\ status' = "CANCELLED"
  /\ settled' = TRUE
  /\ fired' = fired \cup {"cancelled"}
  /\ UNCHANGED <<tally, counted, out, routed, proc, faults>>

(* dlq.requeue of a dead member: its next attempt. *)
Requeue(m, r) ==
  /\ r < MaxRuns
  /\ IsNewest(<<m, r>>) /\ out[<<m, r>>] = "fail"
  /\ out' = [out EXCEPT ![<<m, r + 1>>] = "open"]
  /\ UNCHANGED <<workflow, routed, proc, fired, faults>>

Crash(p) ==
  /\ faults < MaxFaults
  /\ proc[p].pc # "idle"
  /\ faults' = faults + 1
  /\ Release(p)
  /\ UNCHANGED <<workflow, out, routed, fired>>
-----------------------------------------------------------------------------
RouterStep(p) == Handle(p) \/ Count(p) \/ DispatchHook(p) \/ MarkRouted(p)

Next ==
  \/ RunAll
  \/ \E p \in Monitors, c \in Completion, o \in {"ok", "fail"} : Resolve(p, c, o)
  \/ \E p \in Reapers, c \in Completion : Replay(p, c)
  \/ \E p \in Routers : RouterStep(p) \/ Crash(p)
  \/ Cancel
  \/ \E m \in Members, r \in Run : Requeue(m, r)

Spec == Init /\ [][Next]_vars

(* The builder runs the workflow, targets end, monitors and reapers go on. *)
Fairness ==
  /\ WF_vars(RunAll)
  /\ \A p \in Monitors, c \in Completion :
       WF_vars(\E o \in {"ok", "fail"} : Resolve(p, c, o))
  /\ \A p \in Reapers, c \in Completion : WF_vars(Replay(p, c))
  /\ \A p \in Routers : WF_vars(RouterStep(p))

FairSpec == Spec /\ Fairness
-----------------------------------------------------------------------------
(* Properties.                                                             *)

(* The counters are exactly what the counted flags say: no duplicate or    *)
(* concurrent delivery is lost or counted twice.                           *)
CountersMatch ==
  /\ tally.completed = Cardinality(counted)
  /\ tally.success = Cardinality({c \in counted : out[c] = "ok"})
  /\ tally.failure = Cardinality({c \in counted : out[c] = "fail"})

(* A workflow succeeds only if every member has, whatever was requeued and *)
(* counted again meanwhile (ParallelDispatcher._atomic_increment).         *)
SucceededMeansAll ==
  status = "SUCCEEDED" =>
    \A m \in Members : \E r \in Run : out[<<m, r>>] = "ok"

(* One settlement: the workflow queues at most one hook, the one for its   *)
(* final status.                                                           *)
OneHook ==
  /\ Cardinality(fired) <= 1
  /\ "success" \in fired => status = "SUCCEEDED"
  /\ "failure" \in fired => status = "FAILED"
  /\ "cancelled" \in fired <=> status = "CANCELLED"

(* A running workflow always has somebody to wait for: a live member, or a *)
(* completion that is not counted and yet to be routed.                    *)
NothingStranded ==
  status = "RUNNING" =>
    \/ \E m \in Members : Live(m)
    \/ \E c \in Completion : Unrouted(c) /\ c \notin counted

(* Cancelling stops the counting for good (BaseWorkflow.cancel). *)
CancelledIsFinal ==
  [][status = "CANCELLED" => status' = "CANCELLED" /\ tally' = tally]_vars

(* Every workflow that runs settles, whatever crashes. *)
Settled == status = "RUNNING" ~> settled

(* Every completion is routed in the end. *)
CompletionsRouted == \A c \in Completion : Resolved(c) ~> c \in routed

(* A workflow completes only when every member has finished, unless one    *)
(* was requeued after it had been counted and has been counted again       *)
(* (ParallelDispatcher._atomic_increment).                                 *)
CompleteMeansDone ==
  /\ status \in {"SUCCEEDED", "FAILED"}
  /\ \A c, d \in counted : c[1] = d[1] => c = d
  =>
  \A m \in Members : \E r \in Run : Resolved(<<m, r>>)

(* Requeued, cancelled or delivered to a monitor and a reaper at once,     *)
(* each member counts once, and the workflow ends as its members did.      *)
MembersCountOnce ==
  TypeOK /\ CountersMatch /\ SucceededMeansAll /\ OneHook /\ NothingStranded /\ CompleteMeansDone

(* The completion hooks are triggered when all members finish              *)
(* (README.md:202), requeued or not.                                       *)
CompletesWhenAllFinish ==
  fired \cap {"success", "failure"} # {} =>
    \A m \in Members : \E r \in Run : Resolved(<<m, r>>)
=============================================================================
