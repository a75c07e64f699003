------------------------------ MODULE Handoff ------------------------------
(***************************************************************************)
(* How a scheduled attempt becomes a message and a message finds its       *)
(* attempt: the dispatcher that claims the row, pushes and commits, the    *)
(* worker and the monitor that look an attempt up by q2 task id and, when  *)
(* there is none, by the marker in the task's name, and the sweeps that    *)
(* recover one.  With the ORM broker the push commits with the claim; a    *)
(* broker outside the database (Redis) sees it at once and keeps it when   *)
(* the claim rolls back, so one attempt can have two messages.  So can one *)
(* whose Schedule row predates qraft's own dispatcher.                     *)
(***************************************************************************)
EXTENDS Integers, FiniteSets

CONSTANTS
  Dispatchers,    \* dispatcher threads, one per cluster
  Slots,          \* worker slots
  Installs,       \* kinds of installation, as in `install`
  MaxExecutions,  \* conf.max_executions_per_attempt
  MaxMessages,    \* bound: messages of this attempt
  MaxFaults       \* bound: crashes and broker errors

HandoffAssumption ==
  /\ Installs \subseteq [inDatabase: BOOLEAN, legacy: BOOLEAN]
  /\ MaxExecutions \in Nat \ {0} /\ MaxMessages \in Nat /\ MaxFaults \in Nat

VARIABLES
  install, \* its broker is the ORM one; it had Schedules that may have fired
  status,  \* QraftTask.status
  row,     \* the QraftTaskAttempt row
  locks,   \* dispatchers whose transaction holds the row
  disp,    \* what each dispatcher is doing
  queue,   \* messages the broker holds
  sent,    \* history: messages that ever reached the broker
  slot,    \* what each worker slot, and the monitor after it, is doing
  saved,   \* outcome in the Django-Q2 Task row of each message
  runs,    \* history: times the target was called, up to one too many
  dropped, \* history: a broker without receipts lost an unstarted delivery
  faults   \* crashes and broker errors so far

moves == <<status, row, locks, disp, queue, sent, slot, saved, runs, dropped, faults>>
vars == <<install, moves>>

(* Which broker the attempt's cluster runs is settled by its Q_CLUSTER.    *)
InDatabase == install.inDatabase

Messages == 1..MaxMessages
Outcome == {"none", "ok", "fail"}
Unstarted == {"picked", "unowned", "adopted", "opened", "guard"}

TypeOK ==
  /\ install \in Installs
  /\ status \in {"PENDING", "RUNNING", "SUCCEEDED", "FAILED"}
  /\ row \in [state: {"absent", "SCHEDULED", "QUEUED"}, q2: Messages \cup {0},
              success: Outcome, executions: 0..MaxExecutions,
              heartbeat: {"null", "fresh", "stale"}]
  /\ locks \subseteq Dispatchers
  /\ disp \in [Dispatchers -> [pc: {"idle", "read", "claimed", "pushed"},
                               msg: Messages \cup {0}]]
  /\ queue \subseteq sent /\ sent \subseteq Messages
  /\ slot \in [Slots -> [pc: {"free", "running", "result", "traced", "ack"} \cup Unstarted,
                         msg: Messages \cup {0}, out: Outcome, beats: BOOLEAN]]
  /\ saved \in [Messages -> Outcome]
  /\ runs \in 0..(MaxExecutions + 1)
  /\ dropped \in BOOLEAN /\ faults \in 0..MaxFaults

NewRow(st, m) == [state |-> st, q2 |-> m, success |-> "none", executions |-> 0,
                  heartbeat |-> "null"]
Free == [pc |-> "free", msg |-> 0, out |-> "none", beats |-> FALSE]
Idle == [pc |-> "idle", msg |-> 0]

(* A deferred attempt; a legacy Schedule has fired, with or without a row. *)
Init ==
  /\ install \in Installs
  /\ status = "PENDING"
  /\ \E st \in {"SCHEDULED", "absent"}, fired \in SUBSET (Messages \cap {1}) :
       /\ st = "absent" => fired # {}
       /\ ~install.legacy => fired = {}
       /\ row = NewRow(st, 0)
       /\ queue = fired /\ sent = fired
  /\ locks = {}
  /\ disp = [d \in Dispatchers |-> Idle]
  /\ slot = [s \in Slots |-> Free]
  /\ saved = [m \in Messages |-> "none"]
  /\ runs = 0 /\ dropped = FALSE /\ faults = 0

Unlocked == locks = {}
Open == row.success = "none"
WhenPending(st) == IF status = "PENDING" THEN st ELSE status
-----------------------------------------------------------------------------
(* The dispatcher: scheduler._claim_and_enqueue, whose reads and writes    *)
(* are one transaction: the others see the row as it was until it commits. *)

Read(d) ==
  /\ disp[d].pc = "idle" /\ row.state = "SCHEDULED"
  /\ disp' = [disp EXCEPT ![d].pc = "read"]
  /\ UNCHANGED <<status, row, locks, queue, sent, slot, saved, runs, dropped, faults>>

(* Mutant: what was read decides who owns the row. *)
WonAlways == TRUE

(* The compare-and-swap decides who owns the row. *)
Won == row.state = "SCHEDULED"

Claim(d) ==
  /\ disp[d].pc = "read" /\ Unlocked
  /\ IF Won THEN disp' = [disp EXCEPT ![d].pc = "claimed"] /\ locks' = {d}
            ELSE disp' = [disp EXCEPT ![d] = Idle] /\ UNCHANGED locks
  /\ UNCHANGED <<status, row, queue, sent, slot, saved, runs, dropped, faults>>

(* Mutant: the claim commits first and the message is recorded later. *)
CommitClaim(d) ==
  /\ disp[d].pc = "claimed"
  /\ row' = [row EXCEPT !.state = "QUEUED"]
  /\ locks' = {}
  /\ disp' = [disp EXCEPT ![d] = Idle]
  /\ UNCHANGED <<status, queue, sent, slot, saved, runs, dropped, faults>>

Push(d) ==
  /\ disp[d].pc = "claimed"
  /\ \E m \in Messages \ sent :
       /\ \A n \in Messages \ sent : m <= n
       /\ disp' = [disp EXCEPT ![d] = [pc |-> "pushed", msg |-> m]]
       /\ queue' = IF InDatabase THEN queue ELSE queue \cup {m}
       /\ sent' = IF InDatabase THEN sent ELSE sent \cup {m}
  /\ UNCHANGED <<status, row, locks, slot, saved, runs, dropped, faults>>

Commit(d) ==
  /\ disp[d].pc = "pushed"
  /\ row' = [row EXCEPT !.state = "QUEUED", !.q2 = disp[d].msg]
  /\ status' = WhenPending("RUNNING")
  /\ queue' = IF InDatabase THEN queue \cup {disp[d].msg} ELSE queue
  /\ sent' = sent \cup {disp[d].msg}
  /\ locks' = {}
  /\ disp' = [disp EXCEPT ![d] = Idle]
  /\ UNCHANGED <<slot, saved, runs, dropped, faults>>

Fault == faults < MaxFaults /\ faults' = faults + 1

(* The broker refuses, the save fails or the dispatcher is killed.         *)
Rollback(d) ==
  /\ Fault
  /\ disp[d].pc \in {"claimed", "pushed"}
  /\ locks' = {}
  /\ disp' = [disp EXCEPT ![d] = Idle]
  /\ UNCHANGED <<status, row, queue, sent, slot, saved, runs, dropped>>
-----------------------------------------------------------------------------
(* A delivery.  The ORM broker keeps the message until it is acknowledged  *)
(* and hands it out again; Redis pops it.                                  *)
Deliver(s, m) ==
  /\ m \in queue /\ slot[s].pc = "free"
  /\ slot' = [slot EXCEPT ![s] = [Free EXCEPT !.pc = "picked", !.msg = m]]
  /\ queue' = IF InDatabase THEN queue ELSE queue \ {m}
  /\ UNCHANGED <<status, row, locks, disp, sent, saved, runs, dropped, faults>>

(* Mutant: the execution count is not looked at. *)
AdmitsOpen == Open

(* The filter of lease._claim. *)
Admits == Open /\ row.executions < MaxExecutions

Called == IF runs > MaxExecutions THEN runs ELSE runs + 1
Seen(e) == IF e < MaxExecutions THEN e + 1 ELSE e

(* lease._claim by q2 task id: admitted, refused, or no attempt.  A        *)
(* refused delivery raises RedeliveredAttempt, which becomes its result.   *)
ClaimDelivery(s, beats, unowned) ==
  \/ /\ row.q2 = slot[s].msg /\ Admits
     /\ row' = [row EXCEPT !.executions = Seen(@), !.heartbeat = "fresh"]
     /\ slot' = [slot EXCEPT ![s].pc = "running", ![s].beats = beats]
     /\ runs' = Called
  \/ /\ row.q2 = slot[s].msg /\ ~Admits
     /\ slot' = [slot EXCEPT ![s].pc = "result", ![s].out = "fail"]
     /\ UNCHANGED <<row, runs>>
  \/ /\ row.q2 # slot[s].msg
     /\ slot' = [slot EXCEPT ![s].pc = unowned]
     /\ runs' = IF unowned = "running" THEN Called ELSE runs
     /\ UNCHANGED row

(* _on_pre_execute_lease. *)
ClaimFirst(s) ==
  /\ slot[s].pc = "picked"
  /\ ClaimDelivery(s, TRUE, "unowned")
  /\ UNCHANGED <<status, locks, disp, queue, sent, saved, dropped, faults>>

(* Mutant: an attempt that has another message is left alone. *)
AdoptedIfNew(m) == IF row.state = "absent" THEN NewRow("QUEUED", m) ELSE row

(* hooks.attempt_from_marker: the row is created, or takes the message's   *)
(* id whatever id it had.                                                  *)
Adopted(m) ==
  IF row.state = "absent" THEN NewRow("QUEUED", m)
  ELSE IF row.q2 = m THEN row
  ELSE [row EXCEPT !.q2 = m, !.state = "QUEUED"]

(* Its write waits for a dispatcher's lock. *)
Adopt(s) ==
  /\ slot[s].pc = "unowned" /\ Unlocked
  /\ row' = Adopted(slot[s].msg)
  /\ slot' = [slot EXCEPT ![s].pc = "adopted"]
  /\ UNCHANGED <<status, locks, disp, queue, sent, saved, runs, dropped, faults>>

(* open_marker_lease then marks a PENDING task RUNNING. *)
OpenLease(s) ==
  /\ slot[s].pc = "adopted"
  /\ status' = WhenPending("RUNNING")
  /\ slot' = [slot EXCEPT ![s].pc = "opened"]
  /\ UNCHANGED <<row, locks, disp, queue, sent, saved, runs, dropped, faults>>

(* The second claim; one that still finds no attempt opens no lease. *)
ClaimAgain(s) ==
  /\ slot[s].pc = "opened"
  /\ ClaimDelivery(s, TRUE, "guard")
  /\ UNCHANGED <<status, locks, disp, queue, sent, saved, dropped, faults>>

(* runner.guard_delivery refuses what was refused and runs the rest. *)
Guard(s) ==
  /\ slot[s].pc = "guard"
  /\ ClaimDelivery(s, FALSE, "running")
  /\ UNCHANGED <<status, locks, disp, queue, sent, saved, dropped, faults>>

(* heartbeat_loop ends once touch matches no row. *)
LoseLease(s) ==
  /\ slot[s].pc = "running" /\ slot[s].beats
  /\ ~(row.q2 = slot[s].msg /\ Open)
  /\ slot' = [slot EXCEPT ![s].beats = FALSE]
  /\ UNCHANGED <<status, row, locks, disp, queue, sent, saved, runs, dropped, faults>>

(* The grace passes with nobody refreshing the row. *)
Lapse ==
  /\ row.heartbeat = "fresh"
  /\ ~\E s \in Slots : slot[s].pc = "running" /\ slot[s].beats /\ slot[s].msg = row.q2
  /\ row' = [row EXCEPT !.heartbeat = "stale"]
  /\ UNCHANGED <<status, locks, disp, queue, sent, slot, saved, runs, dropped, faults>>

Return(s) ==
  /\ slot[s].pc = "running"
  /\ \E out \in {"ok", "fail"} :
       slot' = [slot EXCEPT ![s].pc = "result", ![s].out = out, ![s].beats = FALSE]
  /\ UNCHANGED <<status, row, locks, disp, queue, sent, saved, runs, dropped, faults>>
-----------------------------------------------------------------------------
(* The monitor saves the result, a success being kept, and                 *)
(* _resolve_attempt finds the attempt by id or through the marker.         *)
Trace(s) ==
  LET m == slot[s].msg IN
  /\ slot[s].pc = "result"
  /\ row.q2 = m \/ Unlocked
  /\ IF saved[m] = "ok"
     THEN /\ slot' = [slot EXCEPT ![s].pc = "ack"]
          /\ UNCHANGED <<row, saved>>
     ELSE /\ saved' = [saved EXCEPT ![m] = slot[s].out]
          /\ row' = Adopted(m)
          /\ slot' = [slot EXCEPT ![s].pc = "traced"]
  /\ UNCHANGED <<status, locks, disp, queue, sent, runs, dropped, faults>>

(* Mutant: any result is taken. *)
SettleAnyway(out) ==
  /\ row' = [row EXCEPT !.success = out]
  /\ status' = IF out = "ok" THEN "SUCCEEDED" ELSE "FAILED"

(* qraft_hook_handler: only an unresolved attempt is resolved. *)
Settle(out) ==
  IF Open
  THEN /\ row' = [row EXCEPT !.success = out]
       /\ status' = IF out = "ok" THEN "SUCCEEDED" ELSE "FAILED"
  ELSE UNCHANGED <<row, status>>

Resolve(s) ==
  /\ slot[s].pc = "traced" /\ Unlocked
  /\ Settle(slot[s].out)
  /\ slot' = [slot EXCEPT ![s].pc = "ack"]
  /\ UNCHANGED <<locks, disp, queue, sent, saved, runs, dropped, faults>>

Acknowledge(s) ==
  /\ slot[s].pc = "ack"
  /\ queue' = IF InDatabase THEN queue \ {slot[s].msg} ELSE queue
  /\ slot' = [slot EXCEPT ![s] = Free]
  /\ UNCHANGED <<status, row, locks, disp, sent, saved, runs, dropped, faults>>

(* A worker or monitor dies with its delivery. *)
Die(s) ==
  /\ Fault
  /\ slot[s].pc # "free"
  /\ slot' = [slot EXCEPT ![s] = Free]
  /\ dropped' = (dropped \/ (~InDatabase /\ slot[s].pc \in Unstarted))
  /\ UNCHANGED <<status, row, locks, disp, queue, sent, saved, runs>>

(* The broker loses a message nobody holds. *)
Lose(m) ==
  /\ Fault
  /\ m \in queue /\ \A s \in Slots : slot[s].msg # m
  /\ queue' = queue \ {m}
  /\ dropped' = (dropped \/ ~InDatabase)
  /\ UNCHANGED <<status, row, locks, disp, sent, slot, saved, runs>>
-----------------------------------------------------------------------------
(* The reaper.  Whether an attempt that never started is lost is known     *)
(* only of the ORM broker (_queued_q2_task_ids).                           *)

(* Mutant: an attempt that never started is not looked for. *)
VanishedNever == FALSE

Vanished == InDatabase /\ row.q2 \notin queue

Reap ==
  /\ status = "RUNNING" /\ Open /\ Unlocked
  /\ row.state = "QUEUED" /\ row.q2 # 0
  /\ saved[row.q2] = "none"
  /\ row.heartbeat = "stale" \/ (row.heartbeat = "null" /\ Vanished)
  /\ Settle("fail")
  /\ UNCHANGED <<locks, disp, queue, sent, slot, saved, runs, dropped, faults>>

(* reconcile_finished: a saved result nobody handled is handled. *)
Reconcile ==
  /\ status = "RUNNING" /\ Open /\ Unlocked
  /\ row.state = "QUEUED" /\ row.q2 # 0
  /\ saved[row.q2] # "none"
  /\ Settle(saved[row.q2])
  /\ UNCHANGED <<locks, disp, queue, sent, slot, saved, runs, dropped, faults>>

(* What rearm_stuck_claims looks for: a claim without a message. *)
Stuck == row.state = "QUEUED" /\ row.q2 = 0 /\ Open
-----------------------------------------------------------------------------
DispatcherStep(d) == Read(d) \/ Claim(d) \/ Push(d) \/ Commit(d)
WorkerStep(s) ==
  \/ ClaimFirst(s) \/ Adopt(s) \/ OpenLease(s) \/ ClaimAgain(s) \/ Guard(s)
  \/ LoseLease(s) \/ Return(s) \/ Trace(s) \/ Resolve(s) \/ Acknowledge(s)
Sweep == Lapse \/ Reap \/ Reconcile

Next ==
  /\ UNCHANGED install
  /\ \/ \E d \in Dispatchers : DispatcherStep(d) \/ Rollback(d)
     \/ \E s \in Slots : WorkerStep(s) \/ Die(s)
     \/ \E m \in Messages : (\E s \in Slots : Deliver(s, m)) \/ Lose(m)
     \/ Sweep

Spec == Init /\ [][Next]_vars

(* Threads that run; the broker hands out what it holds; time passes.      *)
Fairness ==
  /\ \A d \in Dispatchers : WF_moves(DispatcherStep(d))
  /\ \A s \in Slots : WF_moves(WorkerStep(s))
  /\ WF_moves(\E s \in Slots, m \in Messages : Deliver(s, m))
  /\ WF_moves(Sweep)
-----------------------------------------------------------------------------
(* Properties.                                                             *)

(* No crash leaves a claim without its message: the rows                   *)
(* rearm_stuck_claims looks for are never committed, by any broker.        *)
ClaimsKeepTheirMessage == ~Stuck

(* With the ORM broker a dispatcher killed at any point leaves a scheduled *)
(* attempt with nothing queued, so that it is dispatched once              *)
(* (scheduler._claim_and_enqueue).                                         *)
QueuedWithTheClaim ==
  InDatabase /\ ~install.legacy => /\ Cardinality(sent) <= 1
                                    /\ row.state = "SCHEDULED" => sent = {}

(* However often its one message is delivered, an attempt's target is      *)
(* called no more often than its allowance, and the call that runs holds   *)
(* the row, so that its heartbeats reach it (lease.claim_delivery).        *)
CallsAreAdmitted ==
  Cardinality(sent) <= 1 =>
    /\ runs = row.executions
    /\ \A s \in Slots : slot[s].pc = "running" => row.q2 = slot[s].msg

(* A lookup through the marker never reopens an attempt: once resolved it  *)
(* keeps its outcome, whichever of its messages arrives afterwards         *)
(* (hooks.attempt_from_marker).                                            *)
OutcomeIsKept ==
  [][row.success # "none" => row'.success = row.success /\ status' = status]_vars

(* The attempt settles, whichever broker it goes through and whatever      *)
(* dies, unless a broker without receipts lost it before it started        *)
(* (reaper.reap_orphans, _queued_q2_task_ids).                             *)
AttemptSettles == status = "PENDING" ~> status \in {"SUCCEEDED", "FAILED"} \/ dropped

(* What lease.claim_delivery says: at most max_executions_per_attempt      *)
(* deliveries of an attempt ever run.  Two messages that adopt the row in  *)
(* turn leave one of them without an attempt, and it runs unguarded.       *)
AllowanceHolds == runs <= MaxExecutions
=============================================================================
