----------------------------- MODULE Watchdogs -----------------------------
(***************************************************************************)
(* The sweeps that only observe: reaper.flag_stalls on a running attempt   *)
(* and graphs.flag_overdue on a running graph, in the reaper of every      *)
(* cluster.  Each reads the time, then its candidates, and writes later;   *)
(* the attempt reports progress, dies or is resolved meanwhile, the graph  *)
(* parks at a gate, settles or is resumed.                                 *)
(***************************************************************************)
EXTENDS Integers

CONSTANTS
  Reapers,       \* reaper threads, one per cluster
  StallAfter,    \* QraftTask.stall_after
  OverdueAfter,  \* QRAFT_GRAPH_OVERDUE_AFTER
  MaxClock,      \* bound of the clock
  MaxGeneration  \* bound: resumes of the graph

WatchdogsAssumption ==
  /\ StallAfter \in Nat \ {0} /\ OverdueAfter \in Nat \ {0}
  /\ MaxClock \in Nat /\ MaxGeneration \in Nat \ {0}

Time == 0..MaxClock
Null == -1  \* a column that is NULL

VARIABLES
  clock,    \* the time
  attempt,  \* the attempt: outcome, date_started or progress_advanced_at, flag
  graph,    \* the graph: status, date_started, overdue_flagged_at, generation
  sweep,    \* how far each reaper is, with the `now` it read
  told      \* history: stall and overdue signals sent

vars == <<clock, attempt, graph, sweep, told>>

TypeOK ==
  /\ clock \in Time
  /\ attempt \in [open: BOOLEAN, alive: BOOLEAN, moved: Time, flag: Time \cup {Null}]
  /\ graph \in [status: {"RUNNING", "WAITING_APPROVAL", "SETTLED"}, started: Time,
                flag: Time \cup {Null}, generation: 1..MaxGeneration]
  /\ sweep \in [Reapers -> [pc: {"idle", "graphs", "overdue", "rest", "attempts", "stalled"},
                            now: Time]]
  /\ told \in [stall: Nat, overdue: Nat]

(* A running attempt with no graph open, or a running graph: the two       *)
(* sweeps share no row.                                                    *)
Init ==
  /\ clock = 0
  /\ \E open \in BOOLEAN :
       /\ attempt = [open |-> open, alive |-> TRUE, moved |-> 0, flag |-> Null]
       /\ graph = [status |-> IF open THEN "SETTLED" ELSE "RUNNING", started |-> 0,
                   flag |-> Null, generation |-> IF open THEN MaxGeneration ELSE 1]
  /\ sweep = [r \in Reapers |-> [pc |-> "idle", now |-> 0]]
  /\ told = [stall |-> 0, overdue |-> 0]

GoOn(r, pc) == sweep' = [sweep EXCEPT ![r].pc = pc]
ReadClock(r, pc) == sweep' = [sweep EXCEPT ![r] = [pc |-> pc, now |-> clock]]
-----------------------------------------------------------------------------
(* flag_overdue. *)

StartOverdue(r) ==
  /\ sweep[r].pc = "idle"
  /\ ReadClock(r, "graphs")
  /\ UNCHANGED <<clock, attempt, graph, told>>

(* Mutant: only a graph that was never resumed is looked at. *)
OverdueFirstRun(now) ==
  /\ graph.status = "RUNNING" /\ graph.flag = Null /\ graph.generation = 1
  /\ graph.started < now - OverdueAfter

Overdue(now) ==
  /\ graph.status = "RUNNING" /\ graph.flag = Null
  /\ graph.started < now - OverdueAfter

FindOverdue(r) ==
  /\ sweep[r].pc = "graphs"
  /\ GoOn(r, IF Overdue(sweep[r].now) THEN "overdue" ELSE "rest")
  /\ UNCHANGED <<clock, attempt, graph, told>>

(* Mutant: the write does not look at the flag. *)
FlagsAnyGraph == TRUE

(* The write looks at the flag again, and at nothing else. *)
FlagsGraph == graph.flag = Null

FlagOverdue(r) ==
  /\ sweep[r].pc = "overdue"
  /\ IF FlagsGraph
     THEN /\ graph' = [graph EXCEPT !.flag = sweep[r].now]
          /\ told' = [told EXCEPT !.overdue = @ + 1]
     ELSE UNCHANGED <<graph, told>>
  /\ GoOn(r, "rest")
  /\ UNCHANGED <<clock, attempt>>
-----------------------------------------------------------------------------
(* flag_stalls. *)

StartStalls(r) ==
  /\ sweep[r].pc = "rest"
  /\ ReadClock(r, "attempts")
  /\ UNCHANGED <<clock, attempt, graph, told>>

(* Mutant: the age is compared for equality. *)
StalledExactly(now) ==
  /\ attempt.open /\ attempt.alive /\ attempt.flag = Null
  /\ now - attempt.moved = StallAfter

(* A candidate whose last progress is too long ago. *)
Stalled(now) ==
  /\ attempt.open /\ attempt.alive /\ attempt.flag = Null
  /\ now - attempt.moved >= StallAfter

FindStalled(r) ==
  /\ sweep[r].pc = "attempts"
  /\ GoOn(r, IF Stalled(sweep[r].now) THEN "stalled" ELSE "idle")
  /\ UNCHANGED <<clock, attempt, graph, told>>

(* Mutants: the write looks at the flag only, or at the outcome only. *)
FlagsUnflagged == attempt.flag = Null
FlagsOpen == attempt.open

(* The write looks at the flag and at the outcome again. *)
FlagsAttempt == attempt.flag = Null /\ attempt.open

(* Mutant: the flag carries the time of the write. *)
FlagTimeLate(r) == clock

(* The flag carries the time the sweep began. *)
FlagTime(r) == sweep[r].now

FlagStalled(r) ==
  /\ sweep[r].pc = "stalled"
  /\ IF FlagsAttempt
     THEN /\ attempt' = [attempt EXCEPT !.flag = FlagTime(r)]
          /\ told' = [told EXCEPT !.stall = @ + 1]
     ELSE UNCHANGED <<attempt, told>>
  /\ GoOn(r, "idle")
  /\ UNCHANGED <<clock, graph>>
-----------------------------------------------------------------------------
(* What goes on meanwhile.                                                 *)

(* report_progress with a new count. *)
Advance ==
  /\ attempt.open /\ attempt.alive
  /\ attempt' = [attempt EXCEPT !.moved = clock]
  /\ UNCHANGED <<clock, graph, sweep, told>>

(* The attempt is resolved, or its worker dies and its heartbeat ages.     *)
EndAttempt ==
  /\ attempt.open
  /\ \/ attempt' = [attempt EXCEPT !.open = FALSE]
     \/ attempt' = [attempt EXCEPT !.alive = FALSE]
  /\ UNCHANGED <<clock, graph, sweep, told>>

(* _maybe_settle and a gate's approval. *)
MoveGraph ==
  /\ graph.status # "SETTLED"
  /\ \E st \in {"RUNNING", "WAITING_APPROVAL", "SETTLED"} \ {graph.status} :
       graph' = [graph EXCEPT !.status = st]
  /\ UNCHANGED <<clock, attempt, sweep, told>>

(* resume: the flag is cleared and date_started is not. *)
Resume ==
  /\ graph.status = "SETTLED" /\ graph.generation < MaxGeneration
  /\ graph' = [graph EXCEPT !.status = "RUNNING", !.flag = Null, !.generation = @ + 1]
  /\ UNCHANGED <<clock, attempt, sweep, told>>

Tick ==
  /\ clock < MaxClock
  /\ clock' = clock + 1
  /\ UNCHANGED <<attempt, graph, sweep, told>>

Sweep(r) ==
  \/ StartOverdue(r) \/ FindOverdue(r) \/ FlagOverdue(r)
  \/ StartStalls(r) \/ FindStalled(r) \/ FlagStalled(r)

Next == (\E r \in Reapers : Sweep(r)) \/ Advance \/ EndAttempt \/ MoveGraph \/ Resume \/ Tick

Spec == Init /\ [][Next]_vars

(* The reaper threads run and time passes. *)
Fairness == (\A r \in Reapers : WF_vars(Sweep(r))) /\ WF_vars(Tick)
-----------------------------------------------------------------------------
(* Properties.                                                             *)

(* A flagged attempt had stood still for stall_after when the sweep began, *)
(* or its last progress is later than the flag, which the dashboard shows  *)
(* as recovered: a report that lands between the sweep's query and its     *)
(* write never makes the flag a lie (reaper.flag_stalls, dashboard/views). *)
FlagOrRecovered ==
  attempt.flag # Null =>
    attempt.moved >= attempt.flag \/ attempt.flag - attempt.moved >= StallAfter

(* No attempt is flagged once it has its outcome, however late the write   *)
(* of a sweep comes (reaper.flag_stalls).                                  *)
OnlyOpenIsFlagged == [][attempt'.flag # attempt.flag => attempt.open]_vars

(* The reapers of all clusters together tell of a stall once, and of an    *)
(* overdue graph once in each of its generations.                          *)
ToldOnce == told.stall <= 1 /\ told.overdue <= graph.generation

(* What the flags and signals of the watchdogs say is true. *)
FlagsTellTheTruth == TypeOK /\ FlagOrRecovered /\ ToldOnce

(* An attempt that is alive and stands still is flagged in the end.        *)
StallIsSeen ==
  attempt.moved + StallAfter <= MaxClock ~>
    \/ attempt.flag # Null \/ ~attempt.open \/ ~attempt.alive
    \/ attempt.moved + StallAfter > MaxClock

(* A graph that keeps running past its threshold is flagged in the end,    *)
(* also after a resume.                                                    *)
OverdueIsSeen ==
  graph.status = "RUNNING" ~> graph.flag # Null \/ graph.status # "RUNNING"

(* What docs/configuration.md:344 says of a graph at a gate: it is never   *)
(* swept.  flag_overdue's write does not look at the status again.         *)
OnlyRunningIsOverdue ==
  [][graph'.flag \notin {graph.flag, Null} => graph.status = "RUNNING"]_vars
=============================================================================
