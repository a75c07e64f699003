------------------------ MODULE TaskLifecycleProofs ------------------------
(***************************************************************************)
(* Theorems about TaskLifecycle, for every number of monitors and worker   *)
(* slots, every policy, allowance and number of faults.  The ones that     *)
(* rest on Solo hold with one reaper and one operator: with two of either  *)
(* the code breaks them (run "reapers", and the README on two operators).  *)
(***************************************************************************)
EXTENDS TaskLifecycle, FiniteSetTheorems, SequenceTheorems, TLAPS

Solo ==
  /\ \A r, q \in Reapers : r = q
  /\ \A o, q \in Operators : o = q

(* Attempt numbers have no gap.                                            *)
Contiguous == \A a, b \in Attempt : b <= a /\ Exists(a) => Exists(b)

(* A process that is at work knows its attempt.                            *)
AtWork ==
  /\ \A s \in Slots :
       /\ slot[s].pc # "free" => slot[s].att \in Attempt
       /\ slot[s].pc = "result" => slot[s].out # "none"
  /\ \A p \in Handlers :
       /\ proc[p].pc # "loaded"
       /\ proc[p].pc # "idle" => proc[p].att \in Attempt
       /\ proc[p].pc \in {"handle", "hook", "mark"} => proc[p].out # "none"
       /\ proc[p].pc = "reap" => proc[p].out = "fail"
  /\ \A m \in Monitors : proc[m].pc # "reap"
  /\ \A o \in Operators : proc[o].pc \in {"idle", "loaded"}

TInv == TypeOK /\ AtWork

(* An attempt that succeeded is the last of its series.                    *)
SuccessIsLast == \A a \in Attempt : attempt[a].success = "ok" => Latest(a)

SeriesInv ==
  Contiguous /\ OneOpenAttempt /\ StatusMatchesAttempts /\ SuccessIsLast

(* Only an attempt that was dispatched is known outside its row.           *)
OnlyQueuedLeaves ==
  /\ \A a \in Attempt :
       attempt[a].success # "none" \/ row[a] \/ saved[a] # "none"
         => attempt[a].state = "QUEUED"
  /\ \A s \in Slots : slot[s].pc # "free" => attempt[slot[s].att].state = "QUEUED"

(* What a handler read before it takes the lock, or wrote before it let it *)
(* go, still holds when it goes on; a hook it is to dispatch is owed.      *)
HandlerOK(p) ==
  LET pc == proc[p].pc
      a  == proc[p].att IN
  pc # "idle" =>
    /\ attempt[a].state = "QUEUED"
    /\ pc = "handle" => saved[a] # "none"
    /\ pc = "reap" /\ saved[a] = "none" => attempt[a].success = "none"
    /\ pc \in {"hook", "mark"} => proc[p].out = attempt[a].success
    /\ pc \in {"hook", "mark"} /\ proc[p].out = "fail" => died

OperatorOK(o) == proc[o].pc = "loaded" => status \in Dead

(* A failure with post-commit work left has left the task dead.            *)
FailuresKnown ==
  \A a \in Attempt :
    attempt[a].success = "fail" /\ attempt[a].routed = FALSE => died

IInv ==
  /\ TInv /\ SeriesInv /\ OnlyQueuedLeaves
  /\ \A p \in Handlers : HandlerOK(p)
  /\ \A o \in Operators : OperatorOK(o)
  /\ FailuresKnown /\ HooksTellTheTruth
-----------------------------------------------------------------------------
(* Type correctness.                                                       *)

LEMMA FreshRowType ==
  ASSUME NEW st \in {"absent", "SCHEDULED", "QUEUED"}
  PROVE  FreshRow(st) \in AttemptRow
BY ConstantsAssumption DEF FreshRow, AttemptRow, Outcome

LEMMA IdleType == FreeSlot \in SlotState /\ Idle \in ProcState
BY DEF FreeSlot, SlotState, Idle, ProcState, Outcome

(* The single-field writes to a row of attempts.                           *)
LEMMA StampType ==
  ASSUME NEW r \in AttemptRow, NEW b \in BOOLEAN
  PROVE  /\ [r EXCEPT !.committed = b] \in AttemptRow
         /\ [r EXCEPT !.returned = b] \in AttemptRow
         /\ [r EXCEPT !.routed = b] \in AttemptRow
BY DEF AttemptRow

LEMMA OutcomeType ==
  ASSUME NEW r \in AttemptRow, NEW out \in Outcome,
         NEW cause \in {"none", "raised", "OrphanedTask", "ResultLost"}
  PROVE  [r EXCEPT !.success = out, !.cause = cause] \in AttemptRow
BY DEF AttemptRow

LEMMA PutRow ==
  ASSUME attempt \in [Attempt -> AttemptRow],
         NEW a \in Attempt, NEW r \in AttemptRow,
         attempt' = [attempt EXCEPT ![a] = r]
  PROVE  attempt' \in [Attempt -> AttemptRow]
OBVIOUS

LEMMA InitTInv == Init => TInv
<1> SUFFICES ASSUME Init PROVE TInv
  OBVIOUS
<1>1. TypeOK
  <2>1. attempt \in [Attempt -> AttemptRow]
    BY FreshRowType DEF Init
  <2>2. slot \in [Slots -> SlotState] /\ proc \in [Proc -> ProcState]
    BY IdleType DEF Init
  <2>3. row \in [Attempt -> BOOLEAN] /\ died \in BOOLEAN
    BY DEF Init
  <2>4. status \in Status /\ saved \in [Attempt -> Outcome]
    BY DEF Init, Status, Outcome
  <2>5. hooks \subseteq {"success", "failure"} /\ receipt \in Attempt \cup {0}
        /\ faults \in 0..MaxFaults
    BY ConstantsAssumption DEF Init
  <2> QED
    BY <2>1, <2>2, <2>3, <2>4, <2>5 DEF TypeOK
<1>2. AtWork
  BY DEF Init, AtWork, Proc, Handlers, FreeSlot, Idle
<1> QED
  BY <1>1, <1>2 DEF TInv

(* Each action keeps the types and leaves nobody at work without an        *)
(* attempt.  The steps are grouped by the rows they write.                 *)

LEMMA DispatcherTInv ==
  ASSUME TInv, NEW a \in Attempt, Dispatch(a) \/ Lapse(a)
  PROVE  TInv'
<1>1. attempt' \in [Attempt -> AttemptRow]
  <2>1. CASE Dispatch(a)
    BY <2>1 DEF TInv, TypeOK, AttemptRow, Dispatch
  <2>2. CASE Lapse(a)
    BY <2>2 DEF TInv, TypeOK, AttemptRow, Lapse
  <2> QED
    BY <2>1, <2>2
<1>2. status' \in Status /\ row' \in [Attempt -> BOOLEAN]
  BY DEF TInv, TypeOK, Status, Dispatch, Lapse, StatusOnceQueued
<1>3. UNCHANGED <<saved, slot, proc, hooks, receipt, died, faults>>
  BY DEF Dispatch, Lapse
<1> QED
  BY <1>1, <1>2, <1>3 DEF TInv, TypeOK, AtWork

LEMMA WorkerTInv ==
  ASSUME TInv, NEW s \in Slots,
         \/ \E a \in Attempt : Deliver(s, a)
         \/ Claim(s) \/ Beat(s) \/ Publish(s)
         \/ \E out \in {"ok", "fail"} : Return(s, out)
         \/ WorkerDies(s)
  PROVE  TInv'
<1>1. CASE \E a \in Attempt : Deliver(s, a)
  BY <1>1 DEF TInv, TypeOK, AtWork, SlotState, Outcome, Deliver
<1>2. CASE Claim(s)
  <2>1. attempt' \in [Attempt -> AttemptRow]
    BY <1>2, ConstantsAssumption
       DEF TInv, TypeOK, AttemptRow, Claim, MayExecute
  <2> QED
    BY <1>2, <2>1 DEF TInv, TypeOK, AtWork, SlotState, Outcome, Claim
<1>3. CASE Beat(s)
  BY <1>3 DEF TInv, TypeOK, AtWork, AttemptRow, Beat
<1>4. CASE Publish(s)
  <2>1. attempt' \in [Attempt -> AttemptRow]
    <3> DEFINE r == attempt[slot[s].att]
    <3>1. slot[s].att \in Attempt /\ r \in AttemptRow
      BY <1>4 DEF TInv, TypeOK, AtWork, Publish
    <3>2. attempt' = [attempt EXCEPT ![slot[s].att] =
                        [r EXCEPT !.committed = TRUE]]
      BY <1>4, <3>1 DEF TInv, TypeOK, Publish
    <3> QED
      BY <3>1, <3>2, StampType, PutRow DEF TInv, TypeOK
  <2>2. slot' \in [Slots -> SlotState] /\ receipt' \in Attempt \cup {0}
    BY <1>4 DEF TInv, TypeOK, AtWork, SlotState, Outcome, Publish
  <2>3. UNCHANGED <<status, row, saved, proc, hooks, died, faults>>
    BY <1>4 DEF Publish
  <2>4. AtWork'
    BY <1>4, <2>3 DEF TInv, TypeOK, AtWork, SlotState, Publish
  <2> QED
    BY <2>1, <2>2, <2>3, <2>4 DEF TInv, TypeOK
<1>5. CASE \E out \in {"ok", "fail"} : Return(s, out)
  <2>1. attempt' \in [Attempt -> AttemptRow]
    <3> DEFINE r == attempt[slot[s].att]
               b == r.returned \/ r.success = "none"
    <3>1. /\ slot[s].att \in Attempt /\ r \in AttemptRow
          /\ b \in BOOLEAN
      BY <1>5 DEF TInv, TypeOK, AtWork, Return, AttemptRow
    <3>2. attempt' = [attempt EXCEPT ![slot[s].att] = [r EXCEPT !.returned = b]]
      BY <1>5, <3>1 DEF TInv, TypeOK, Return
    <3> QED
      BY <3>1, <3>2, StampType, PutRow DEF TInv, TypeOK
  <2>2. slot' \in [Slots -> SlotState]
    BY <1>5 DEF TInv, TypeOK, SlotState, Outcome, Return
  <2>3. UNCHANGED <<status, row, saved, proc, hooks, receipt, died, faults>>
    BY <1>5 DEF Return
  <2>4. AtWork'
    BY <1>5, <2>3 DEF TInv, TypeOK, AtWork, SlotState, Return
  <2> QED
    BY <2>1, <2>2, <2>3, <2>4 DEF TInv, TypeOK
<1>6. CASE WorkerDies(s)
  BY <1>6, IdleType, ConstantsAssumption
     DEF TInv, TypeOK, AtWork, WorkerDies, Fault, FreeSlot
<1> QED
  BY <1>1, <1>2, <1>3, <1>4, <1>5, <1>6

(* The process left behind by Done, and by a move within the handler.      *)
LEMMA ProcMoves ==
  ASSUME TInv, NEW p \in Handlers, NEW pc, proc[p].pc # "idle",
         \/ Finish(p)
         \/ MoveTo(p, pc) /\ pc \in {"hook", "mark"} /\ proc[p].out # "none"
  PROVE  /\ proc' \in [Proc -> ProcState]
         /\ \A q \in Proc : q # p => proc'[q] = proc[q]
         /\ proc'[p].pc # "idle" => proc'[p].att = proc[p].att
         /\ proc'[p].pc \in {"idle", "ack", pc}
         /\ proc'[p].pc = "ack" => p \in Monitors
         /\ proc'[p].pc \in {"hook", "mark"} => proc'[p].out = proc[p].out
         /\ proc'[p].pc \in {"hook", "mark"} => proc'[p].pc = pc
<1>1. p \in Proc /\ proc[p] \in ProcState
  BY DEF TInv, TypeOK, Proc
<1>2. CASE Finish(p)
  <2>1. /\ Done(p) \in ProcState
        /\ Done(p).pc \in {"idle", "ack"}
        /\ Done(p).pc = "ack" => p \in Monitors /\ Done(p).att = proc[p].att
    BY <1>1 DEF Done, Idle, ProcState, Outcome
  <2> QED
    BY <1>1, <1>2, <2>1 DEF Finish, TInv, TypeOK
<1>3. CASE MoveTo(p, pc) /\ pc \in {"hook", "mark"} /\ proc[p].out # "none"
  <2>1. [proc[p] EXCEPT !.pc = pc] \in ProcState
    BY <1>1, <1>3 DEF ProcState
  <2>2. proc' = [proc EXCEPT ![p] = [proc[p] EXCEPT !.pc = pc]]
    BY <1>1, <1>3 DEF MoveTo, TInv, TypeOK
  <2> QED
    BY <1>1, <1>3, <2>1, <2>2 DEF TInv, TypeOK, ProcState
<1> QED
  BY <1>2, <1>3

LEMMA MovesTInv ==
  ASSUME TInv, NEW p \in Handlers, NEW pc, proc[p].pc # "idle",
         \/ Finish(p)
         \/ MoveTo(p, pc) /\ pc \in {"hook", "mark"} /\ proc[p].out # "none",
         UNCHANGED slot
  PROVE  proc' \in [Proc -> ProcState] /\ AtWork'
<1>1. /\ proc' \in [Proc -> ProcState]
      /\ \A q \in Proc : q # p => proc'[q] = proc[q]
  BY ProcMoves
<1>2. \A s \in Slots :
        /\ slot'[s].pc # "free" => slot'[s].att \in Attempt
        /\ slot'[s].pc = "result" => slot'[s].out # "none"
  BY DEF TInv, AtWork
<1>3. \A o \in Operators : proc'[o].pc \in {"idle", "loaded"}
  BY ProcMoves, ConstantsAssumption DEF TInv, AtWork, Proc, Handlers
<1>4. \A q \in Handlers :
        /\ proc'[q].pc # "loaded"
        /\ proc'[q].pc # "idle" => proc'[q].att \in Attempt
        /\ proc'[q].pc \in {"handle", "hook", "mark"} => proc'[q].out # "none"
        /\ proc'[q].pc = "reap" => proc'[q].out = "fail"
  <2>1. CASE Finish(p)
    <3>1. p \in Proc /\ proc'[p] = Done(p)
      BY <2>1 DEF Finish, TInv, TypeOK, Proc
    <3>2. \/ proc'[p].pc = "idle"
          \/ proc'[p].pc = "ack" /\ proc'[p].att = proc[p].att
      BY <3>1 DEF Done, Idle, TInv, TypeOK, ProcState
    <3> QED
      BY <1>1, <3>2 DEF TInv, AtWork, Proc
  <2>2. CASE MoveTo(p, pc) /\ pc \in {"hook", "mark"} /\ proc[p].out # "none"
    BY <2>2, ProcMoves DEF TInv, AtWork, Proc
  <2> QED
    BY <2>1, <2>2
<1>5. \A m \in Monitors : proc'[m].pc # "reap"
  <2>1. CASE Finish(p)
    <3>1. p \in Proc /\ proc'[p] = Done(p)
      BY <2>1 DEF Finish, TInv, TypeOK, Proc
    <3>2. proc'[p].pc # "reap"
      BY <3>1 DEF Done, Idle, TInv, TypeOK, ProcState
    <3> QED
      BY <1>1, <3>2 DEF TInv, AtWork, Proc, Handlers
  <2>2. CASE MoveTo(p, pc) /\ pc \in {"hook", "mark"} /\ proc[p].out # "none"
    BY <2>2, ProcMoves DEF TInv, AtWork, Proc, Handlers
  <2> QED
    BY <2>1, <2>2
<1> QED
  BY <1>1, <1>2, <1>3, <1>4, <1>5 DEF AtWork

LEMMA VerdictType == \A a \in Attempt : Verdicts(a) \subseteq Status
BY DEF Verdicts, Status, Dead

(* A retry fits the attempts explored: RetryLimit is at most MaxAttempt.   *)
LEMMA RetryFits ==
  \A a \in Attempt : "PENDING" \in Verdicts(a) => a + 1 \in Attempt
BY ConstantsAssumption DEF Verdicts, Attempt

LEMMA SettleTypes ==
  ASSUME TInv, NEW a \in Attempt, NEW verdict \in Verdicts(a),
         NEW cause \in {"raised", "OrphanedTask", "ResultLost"},
         SettleFailed(a, cause, verdict)
  PROVE  attempt' \in [Attempt -> AttemptRow] /\ status' \in Status
         /\ died' \in BOOLEAN
<1> DEFINE b == attempt[a].routed \/ Absorbed(verdict)
           r == [attempt[a] EXCEPT !.success = "fail", !.cause = cause]
<1>0. attempt[a] \in AttemptRow
  BY DEF TInv, TypeOK
<1>1. b \in BOOLEAN /\ r \in AttemptRow
  <2>1. attempt[a].routed \in BOOLEAN
    BY <1>0 DEF AttemptRow
  <2>2. b \in BOOLEAN
    BY <2>1 DEF Absorbed
  <2>3. "fail" \in Outcome
    BY DEF Outcome
  <2>4. r \in AttemptRow
    BY <1>0, <2>3 DEF AttemptRow
  <2> QED
    BY <2>2, <2>4
<1>2. [r EXCEPT !.routed = b] \in AttemptRow
  BY <1>1, StampType
<1>3. [attempt[a] EXCEPT !.success = "fail", !.cause = cause,
                         !.routed = @ \/ Absorbed(verdict)]
        = [r EXCEPT !.routed = b]
  BY DEF TInv, TypeOK, AttemptRow
<1>4. attempt' \in [Attempt -> AttemptRow]
  BY <1>2, <1>3, FreshRowType DEF SettleFailed, TInv, TypeOK
<1> QED
  BY <1>4, VerdictType DEF SettleFailed, TInv, TypeOK, Status

LEMMA FailTInv ==
  ASSUME TInv, NEW p \in Handlers, NEW a \in Attempt, proc[p].pc # "idle",
         proc[p].out = "fail", NEW cause \in {"raised", "OrphanedTask", "ResultLost"},
         Fail(p, a, cause), UNCHANGED <<row, saved, slot, hooks, receipt, faults>>
  PROVE  TInv'
<1>1. PICK verdict \in Verdicts(a) :
        \/ SettleFailed(a, cause, verdict) /\ AfterFailure(p, verdict)
        \/ Finish(p) /\ UNCHANGED <<status, attempt, died>>
  BY DEF Fail
<1>2. attempt' \in [Attempt -> AttemptRow] /\ status' \in Status /\ died' \in BOOLEAN
  BY <1>1, SettleTypes DEF TInv, TypeOK
<1>3. Finish(p) \/ MoveTo(p, "hook")
  BY <1>1 DEF AfterFailure
<1>4. proc' \in [Proc -> ProcState] /\ AtWork'
  BY <1>3, MovesTInv
<1> QED
  BY <1>2, <1>4 DEF TInv, TypeOK

LEMMA MonitorTInv ==
  ASSUME TInv, NEW m \in Monitors,
         \/ \E s \in Slots : SaveResult(m, s) \/ SaveFails(m, s)
         \/ Acknowledge(m)
  PROVE  TInv'
<1>0. m \in Proc /\ m \notin Operators
  BY ConstantsAssumption DEF Proc, Handlers
<1>1. ASSUME NEW s \in Slots, SaveResult(m, s) \/ SaveFails(m, s)
      PROVE  TInv'
  <2>1. slot[s].att \in Attempt /\ slot[s].out \in Outcome /\ slot[s].out # "none"
    BY <1>1 DEF TInv, TypeOK, AtWork, SlotState, SaveResult, SaveFails
  <2>2. slot' = [slot EXCEPT ![s] = FreeSlot]
    BY <1>1 DEF SaveResult, SaveFails
  <2>3. slot' \in [Slots -> SlotState]
    BY <2>2, IdleType DEF TInv, TypeOK
  <2>4. saved' \in [Attempt -> Outcome] /\ faults' \in 0..MaxFaults
    BY <1>1, <2>1, ConstantsAssumption
       DEF TInv, TypeOK, SaveResult, SaveFails, Fault
  <2>5. PICK pc \in {"handle", "ack"} :
          proc' = [proc EXCEPT ![m] = At(pc, slot[s].att, slot[s].out)]
    BY <1>1 DEF SaveResult, SaveFails
  <2>6. /\ At(pc, slot[s].att, slot[s].out) \in ProcState
        /\ At(pc, slot[s].att, slot[s].out).pc = pc
        /\ At(pc, slot[s].att, slot[s].out).att = slot[s].att
        /\ At(pc, slot[s].att, slot[s].out).out = slot[s].out
    BY <2>1 DEF At, Idle, ProcState
  <2>7. proc' \in [Proc -> ProcState]
    BY <2>5, <2>6 DEF TInv, TypeOK
  <2>8. UNCHANGED <<status, attempt, row, hooks, receipt, died>>
    BY <1>1 DEF SaveResult, SaveFails
  <2>9. AtWork'
    BY <1>0, <2>1, <2>2, <2>5, <2>6 DEF TInv, TypeOK, AtWork, FreeSlot, Proc, Handlers
  <2> QED
    BY <2>3, <2>4, <2>7, <2>8, <2>9 DEF TInv, TypeOK
<1>2. CASE Acknowledge(m)
  <2>1. proc' \in [Proc -> ProcState] /\ row' \in [Attempt -> BOOLEAN]
    BY <1>2, IdleType DEF TInv, TypeOK, Acknowledge
  <2>2. AtWork'
    BY <1>0, <1>2 DEF TInv, TypeOK, AtWork, Acknowledge, Idle, Proc, Handlers
  <2> QED
    BY <1>2, <2>1, <2>2 DEF TInv, TypeOK, Acknowledge
<1> QED
  BY <1>1, <1>2

LEMMA HandlerTInv ==
  ASSUME TInv, NEW p \in Handlers, HandlerStep(p)
  PROVE  TInv'
<1>0. p \in Proc /\ proc[p] \in ProcState
  BY DEF TInv, TypeOK, Proc
<1>1. CASE Resolve(p)
  <2> DEFINE a == proc[p].att
  <2>0. a \in Attempt /\ proc[p].pc # "idle" /\ proc[p].out # "none"
    BY <1>0, <1>1 DEF Resolve, TInv, AtWork
  <2>1. CASE Finish(p) /\ UNCHANGED <<status, attempt, died>>
    BY <1>1, <2>0, <2>1, MovesTInv DEF Resolve, TInv, TypeOK
  <2>2. CASE /\ attempt' = [attempt EXCEPT ![a].success = "ok"]
             /\ status' = "SUCCEEDED" /\ MoveTo(p, "hook") /\ UNCHANGED died
    <3>1. attempt' \in [Attempt -> AttemptRow] /\ status' \in Status
      BY <2>0, <2>2 DEF TInv, TypeOK, AttemptRow, Outcome, Status
    <3>2. proc' \in [Proc -> ProcState] /\ AtWork'
      BY <1>1, <2>0, <2>2, MovesTInv DEF Resolve
    <3> QED
      BY <1>1, <2>2, <3>1, <3>2 DEF Resolve, TInv, TypeOK
  <2>3. CASE proc[p].out = "fail" /\ Fail(p, a, "raised")
    BY <1>1, <2>0, <2>3, FailTInv DEF Resolve
  <2> QED
    BY <1>1, <2>1, <2>2, <2>3 DEF Resolve
<1>2. CASE DispatchHook(p)
  <2>1. proc[p].pc # "idle" /\ proc[p].out # "none" /\ MoveTo(p, "mark")
    BY <1>0, <1>2 DEF DispatchHook, TInv, AtWork
  <2>2. proc' \in [Proc -> ProcState] /\ AtWork'
    BY <1>2, <2>1, MovesTInv DEF DispatchHook
  <2>3. hooks' \subseteq {"success", "failure"}
    BY <1>2 DEF DispatchHook, HookOf, TInv, TypeOK
  <2> QED
    BY <1>2, <2>2, <2>3 DEF DispatchHook, TInv, TypeOK
<1>3. CASE MarkRouted(p)
  <2> DEFINE a == proc[p].att
  <2>1. a \in Attempt /\ proc[p].pc # "idle" /\ attempt[a] \in AttemptRow
    BY <1>0, <1>3 DEF MarkRouted, TInv, TypeOK, AtWork
  <2>2. attempt' = [attempt EXCEPT ![a] = [attempt[a] EXCEPT !.routed = TRUE]]
    BY <1>3, <2>1 DEF MarkRouted, TInv, TypeOK
  <2>3. attempt' \in [Attempt -> AttemptRow]
    BY <2>1, <2>2, StampType, PutRow DEF TInv, TypeOK
  <2>4. proc' \in [Proc -> ProcState] /\ AtWork'
    BY <1>3, <2>1, MovesTInv DEF MarkRouted
  <2> QED
    BY <1>3, <2>3, <2>4 DEF MarkRouted, TInv, TypeOK
<1> QED
  BY <1>1, <1>2, <1>3 DEF HandlerStep

LEMMA ReaperTInv ==
  ASSUME TInv, NEW r \in Reapers,
         \/ \E a \in Attempt : Reconcile(r, a) \/ Replay(r, a) \/ Sweep(r, a)
         \/ Reap(r)
  PROVE  TInv'
<1>0. r \in Proc /\ r \in Handlers /\ r \notin Operators /\ r \notin Monitors
      /\ proc[r] \in ProcState
  BY ConstantsAssumption DEF Proc, Handlers, TInv, TypeOK
<1>1. ASSUME NEW a \in Attempt, Reconcile(r, a) \/ Replay(r, a) \/ Sweep(r, a)
      PROVE  TInv'
  <2> DEFINE w == proc'[r]
  <2>1. /\ w \in ProcState /\ proc' = [proc EXCEPT ![r] = w]
        /\ w.att = a /\ w.out # "none"
        /\ w.pc \in {"handle", "hook", "reap"}
        /\ w.pc = "reap" => w.out = "fail"
    <3>1. CASE Reconcile(r, a)
      BY <1>0, <3>1
         DEF Reconcile, Unhandled, At, Idle, TInv, TypeOK, ProcState
    <3>2. CASE Replay(r, a)
      <4>1. attempt[a].success \in Outcome
        BY DEF TInv, TypeOK, AttemptRow
      <4> QED
        BY <1>0, <3>2, <4>1
           DEF Replay, Unrouted, At, Idle, TInv, TypeOK, ProcState
    <3>3. CASE Sweep(r, a)
      <4>1. attempt[a].returned \in BOOLEAN /\ attempt[a].committed \in BOOLEAN
        BY DEF TInv, TypeOK, AttemptRow
      <4> QED
        BY <1>0, <3>3, <4>1 DEF Sweep, TInv, TypeOK, ProcState, Outcome
    <3> QED
      BY <1>1, <3>1, <3>2, <3>3
  <2>2. UNCHANGED <<status, attempt, row, saved, slot, hooks, receipt, died, faults>>
    BY <1>1 DEF Reconcile, Replay, Sweep
  <2>3. AtWork'
    BY <1>0, <2>1, <2>2 DEF TInv, TypeOK, AtWork, Proc, Handlers
  <2> QED
    BY <2>1, <2>2, <2>3 DEF TInv, TypeOK
<1>2. CASE Reap(r)
  <2> DEFINE a == proc[r].att
  <2>0. a \in Attempt /\ proc[r].pc # "idle" /\ proc[r].out = "fail"
    BY <1>0, <1>2 DEF Reap, TInv, AtWork
  <2>1. CASE Finish(r) /\ UNCHANGED <<status, attempt, died>>
    BY <1>0, <1>2, <2>0, <2>1, MovesTInv DEF Reap, TInv, TypeOK
  <2>2. CASE /\ status' = "SUCCEEDED"
             /\ attempt' = [attempt EXCEPT ![a] =
                  [@ EXCEPT !.success = "ok", !.cause = "none", !.routed = TRUE]]
             /\ Finish(r) /\ UNCHANGED died
    <3> DEFINE row1 == [attempt[a] EXCEPT !.success = "ok", !.cause = "none"]
    <3>1. row1 \in AttemptRow
      <4>1. attempt[a] \in AttemptRow /\ "ok" \in Outcome
        BY <2>0 DEF TInv, TypeOK, Outcome
      <4> QED
        BY <4>1, OutcomeType
    <3>2. attempt' = [attempt EXCEPT ![a] = [row1 EXCEPT !.routed = TRUE]]
      <4>1. [row1 EXCEPT !.routed = TRUE]
              = [attempt[a] EXCEPT !.success = "ok", !.cause = "none", !.routed = TRUE]
        BY <2>0 DEF TInv, TypeOK, AttemptRow
      <4> QED
        BY <2>0, <2>2, <4>1 DEF TInv, TypeOK
    <3>3. attempt' \in [Attempt -> AttemptRow] /\ status' \in Status
      BY <2>0, <2>2, <3>1, <3>2, StampType, PutRow DEF TInv, TypeOK, Status
    <3>4. proc' \in [Proc -> ProcState] /\ AtWork'
      BY <1>0, <1>2, <2>0, <2>2, MovesTInv DEF Reap
    <3> QED
      BY <1>2, <2>2, <3>3, <3>4 DEF Reap, TInv, TypeOK
  <2>3. CASE Fail(r, a, ReapCause(r))
    <3>1. ReapCause(r) \in {"raised", "OrphanedTask", "ResultLost"}
      BY DEF ReapCause
    <3> QED
      BY <1>0, <1>2, <2>0, <2>3, <3>1, FailTInv DEF Reap
  <2> QED
    BY <1>2, <2>1, <2>2, <2>3 DEF Reap
<1> QED
  BY <1>1, <1>2

LEMMA OperatorTInv ==
  ASSUME TInv, NEW o \in Operators, Load(o) \/ Requeue(o)
  PROVE  TInv'
<1>0. o \in Proc /\ o \notin Handlers /\ proc[o] \in ProcState
  BY ConstantsAssumption DEF Proc, Handlers, TInv, TypeOK
<1>1. CASE Load(o)
  BY <1>0, <1>1 DEF Load, MoveTo, TInv, TypeOK, AtWork, ProcState, Proc, Handlers
<1>2. CASE Requeue(o)
  <2>1. attempt' \in [Attempt -> AttemptRow] /\ status' \in Status
    BY <1>2, FreshRowType DEF Requeue, TInv, TypeOK, Status
  <2>2. proc' \in [Proc -> ProcState] /\ proc'[o].pc = "idle"
    BY <1>0, <1>2, IdleType DEF Requeue, TInv, TypeOK, Idle
  <2>3. AtWork'
    BY <1>0, <1>2, <2>2 DEF Requeue, TInv, TypeOK, AtWork, Proc, Handlers
  <2> QED
    BY <1>2, <2>1, <2>2, <2>3 DEF Requeue, TInv, TypeOK
<1> QED
  BY <1>1, <1>2

LEMMA FaultTInv ==
  ASSUME TInv,
         \/ \E a \in Attempt : BrokerLoses(a)
         \/ \E p \in Handlers : ProcDies(p) \/ HandlerFails(p)
  PROVE  TInv'
<1>0. Fault => faults' \in 0..MaxFaults
  BY ConstantsAssumption DEF Fault, TInv, TypeOK
<1>1. CASE \E a \in Attempt : BrokerLoses(a)
  BY <1>0, <1>1 DEF BrokerLoses, TInv, TypeOK, AtWork
<1>2. ASSUME NEW p \in Handlers, ProcDies(p) PROVE TInv'
  <2>1. /\ p \in Proc /\ p \notin Operators
        /\ proc' = [proc EXCEPT ![p] = Idle] /\ Idle.pc = "idle"
    BY <1>2, ConstantsAssumption DEF ProcDies, Proc, Handlers, Idle
  <2>2. proc' \in [Proc -> ProcState] /\ AtWork'
    BY <1>2, <2>1, IdleType DEF ProcDies, TInv, TypeOK, AtWork, Proc, Handlers
  <2> QED
    BY <1>0, <1>2, <2>2 DEF ProcDies, TInv, TypeOK
<1>3. ASSUME NEW p \in Handlers, HandlerFails(p) PROVE TInv'
  <2>1. proc' \in [Proc -> ProcState] /\ AtWork'
    BY <1>3, MovesTInv DEF HandlerFails
  <2> QED
    BY <1>0, <1>3, <2>1 DEF HandlerFails, TInv, TypeOK
<1> QED
  BY <1>1, <1>2, <1>3

LEMMA StutterTInv == ASSUME TInv, UNCHANGED vars PROVE TInv'
BY DEF TInv, TypeOK, AtWork, vars

(* Every step keeps the types.                                             *)
LEMMA StepTInv == TInv /\ [Next]_vars => TInv'
<1> SUFFICES ASSUME TInv, [Next]_vars PROVE TInv'
  OBVIOUS
<1>1. CASE \E a \in Attempt : Dispatch(a) \/ Lapse(a) \/ BrokerLoses(a)
  BY <1>1, DispatcherTInv, FaultTInv
<1>2. CASE \/ \E s \in Slots : WorkerStep(s)
           \/ \E s \in Publishers : Publish(s)
  BY <1>2, WorkerTInv DEF WorkerStep, Publishers
<1>3. CASE \E m \in Monitors : MonitorStep(m)
  BY <1>3, MonitorTInv, HandlerTInv DEF MonitorStep, Handlers
<1>4. CASE \E r \in Reapers : ReaperStep(r)
  BY <1>4, ReaperTInv, HandlerTInv DEF ReaperStep, Handlers
<1>5. CASE \E o \in Operators : Load(o) \/ Requeue(o)
  BY <1>5, OperatorTInv
<1>6. CASE \E p \in Handlers : ProcDies(p) \/ HandlerFails(p)
  BY <1>6, FaultTInv
<1>7. CASE UNCHANGED vars
  BY <1>7, StutterTInv
<1> QED
  BY <1>1, <1>2, <1>3, <1>4, <1>5, <1>6, <1>7 DEF Next

LEMMA TInvHolds == Spec => []TInv
BY InitTInv, StepTInv, PTL DEF Spec

(* Every variable keeps its type, for every number of processes, slots,    *)
(* attempts and faults (the rows of models/tasks.py and what the processes *)
(* hold of them).                                                          *)
THEOREM TypeCorrect == Spec => []TypeOK
<1>1. TInv => TypeOK
  BY DEF TInv
<1> QED
  BY <1>1, TInvHolds, PTL
-----------------------------------------------------------------------------
(* The series of attempts.  A step either leaves it alone, dispatches an   *)
(* attempt, resolves one (and may schedule its retry), or requeues; each   *)
(* of the four keeps SeriesInv.                                            *)

SameAt(n) ==
  attempt'[n].state = attempt[n].state /\ attempt'[n].success = attempt[n].success

Quiet == status' = status /\ \A n \in Attempt : SameAt(n)

LEMMA ExistsAt ==
  /\ \A n : n \notin Attempt => ~Exists(n) /\ ~Exists(n)'
  /\ \A n \in Attempt : SameAt(n) => (Exists(n)' <=> Exists(n))
BY DEF Exists, SameAt

LEMMA NewestUnique ==
  ASSUME Contiguous, NEW a \in Attempt, NEW b \in Attempt, Latest(a), Latest(b)
  PROVE  a = b
BY ConstantsAssumption DEF Contiguous, Latest, Exists, Attempt

LEMMA QuietSeries ==
  ASSUME SeriesInv, Quiet
  PROVE  SeriesInv'
<1>1. \A n : Exists(n)' <=> Exists(n)
  BY ExistsAt DEF Quiet
<1>2. \A n \in Attempt : /\ Latest(n)' <=> Latest(n)
                         /\ Unresolved(n)' <=> Unresolved(n)
                         /\ SameAt(n)
  BY <1>1 DEF Latest, Unresolved, Quiet, SameAt
<1>3. Contiguous'
  BY <1>1 DEF SeriesInv, Contiguous
<1>4. OneOpenAttempt'
  BY <1>2 DEF SeriesInv, OneOpenAttempt
<1>5. StatusMatchesAttempts' /\ SuccessIsLast'
  BY <1>2 DEF SeriesInv, StatusMatchesAttempts, SuccessIsLast, Quiet, SameAt
<1> QED
  BY <1>3, <1>4, <1>5 DEF SeriesInv

(* The dispatched attempt was SCHEDULED, so open, so the newest.           *)
LEMMA DispatchSeries ==
  ASSUME TInv, SeriesInv, NEW a \in Attempt,
         attempt[a].state = "SCHEDULED", attempt[a].success = "none",
         attempt'[a].state = "QUEUED", attempt'[a].success = "none",
         \A n \in Attempt \ {a} : SameAt(n),
         status' = StatusOnceQueued
  PROVE  SeriesInv'
<1>1. \A n : Exists(n)' <=> Exists(n)
  BY ExistsAt DEF Exists
<1>2. \A n \in Attempt : /\ Latest(n)' <=> Latest(n)
                         /\ Unresolved(n)' <=> Unresolved(n)
                         /\ attempt'[n].success = attempt[n].success
  BY <1>1 DEF Latest, Unresolved, SameAt
<1>3. Latest(a) /\ status = "PENDING" /\ status' = "RUNNING"
  BY DEF SeriesInv, OneOpenAttempt, StatusMatchesAttempts, Unresolved, Exists,
         StatusOnceQueued
<1>4. Contiguous'
  BY <1>1 DEF SeriesInv, Contiguous
<1>5. OneOpenAttempt' /\ SuccessIsLast'
  BY <1>2 DEF SeriesInv, OneOpenAttempt, SuccessIsLast
<1>6. \A n \in Attempt : Latest(n) => n = a
  BY <1>3, NewestUnique DEF SeriesInv
<1>7. StatusMatchesAttempts'
  BY <1>2, <1>3, <1>6 DEF StatusMatchesAttempts, Unresolved, Exists, Dead
<1> QED
  BY <1>4, <1>5, <1>7 DEF SeriesInv

(* One open attempt is resolved; with a retry, its successor is scheduled. *)
LEMMA ResolveSeries ==
  ASSUME TInv, SeriesInv, NEW a \in Attempt,
         attempt[a].state = "QUEUED", attempt[a].success = "none",
         attempt'[a].state = "QUEUED",
         \/ /\ attempt'[a].success = "ok" /\ status' = "SUCCEEDED"
            /\ \A n \in Attempt \ {a} : SameAt(n)
         \/ /\ attempt'[a].success = "fail" /\ status' \in Dead
            /\ \A n \in Attempt \ {a} : SameAt(n)
         \/ /\ attempt'[a].success = "fail" /\ status' = "PENDING"
            /\ a + 1 \in Attempt
            /\ attempt'[a + 1].state = "SCHEDULED"
            /\ attempt'[a + 1].success = "none"
            /\ \A n \in Attempt \ {a, a + 1} : SameAt(n)
  PROVE  SeriesInv' /\ status = "RUNNING"
<1>0. Latest(a) /\ status = "RUNNING"
  BY DEF SeriesInv, OneOpenAttempt, StatusMatchesAttempts, Unresolved, Exists
<1>1. \A n \in Attempt : Latest(n) => n = a
  BY <1>0, NewestUnique DEF SeriesInv
<1>2. \A n \in Attempt : Exists(n) => n <= a
  BY <1>0, ConstantsAssumption DEF SeriesInv, Contiguous, Latest, Attempt, Exists
<1>3. \A n \in Attempt : n # a => ~Unresolved(n) /\ attempt[n].success # "ok"
  BY <1>1 DEF SeriesInv, OneOpenAttempt, SuccessIsLast
<1>4. CASE \A n \in Attempt \ {a} : SameAt(n)
  <2>1. \A n : Exists(n)' <=> Exists(n)
    BY <1>4, ExistsAt DEF Exists
  <2>2. \A n \in Attempt : Latest(n)' <=> Latest(n)
    BY <2>1 DEF Latest
  <2>3. \A n \in Attempt : ~Unresolved(n)'
    BY <1>3, <1>4, <2>1 DEF Unresolved, SameAt
  <2>4. Contiguous' /\ OneOpenAttempt'
    BY <2>1, <2>3 DEF SeriesInv, Contiguous, OneOpenAttempt
  <2>5. SuccessIsLast'
    BY <1>0, <1>3, <1>4, <2>2 DEF SuccessIsLast, SameAt
  <2>6. status' \in {"SUCCEEDED"} \cup Dead
    BY <1>0, <1>4, ExistsAt DEF Latest, Exists, SameAt
  <2>7. StatusMatchesAttempts'
    BY <1>1, <1>4, <2>2, <2>3, <2>6, ExistsAt
       DEF StatusMatchesAttempts, Latest, Exists, SameAt, Dead
  <2> QED
    BY <1>0, <2>4, <2>5, <2>7 DEF SeriesInv
<1>5. CASE /\ attempt'[a].success = "fail" /\ status' = "PENDING"
           /\ a + 1 \in Attempt
           /\ attempt'[a + 1].state = "SCHEDULED"
           /\ attempt'[a + 1].success = "none"
           /\ \A n \in Attempt \ {a, a + 1} : SameAt(n)
  <2>1. \A n \in Attempt : Exists(n)' <=> Exists(n) \/ n = a + 1
    BY <1>0, <1>5, ExistsAt DEF Latest, Exists
  <2>2. Contiguous' /\ \A n \in Attempt : Exists(n)' <=> n <= a + 1
    BY <1>0, <1>2, <1>5, <2>1, ConstantsAssumption
       DEF SeriesInv, Contiguous, Latest, Attempt
  <2>3. \A n \in Attempt : Latest(n)' => n = a + 1
    BY <1>5, <2>2, ConstantsAssumption DEF Latest, Attempt, Exists
  <2>4. Latest(a + 1)'
    BY <1>5, <2>2, ExistsAt, ConstantsAssumption DEF Latest, Attempt
  <2>5. \A n \in Attempt : n # a + 1 => ~Unresolved(n)' /\ attempt'[n].success # "ok"
    BY <1>3, <1>5, <2>1 DEF Unresolved, SameAt
  <2>6. OneOpenAttempt' /\ SuccessIsLast'
    BY <1>5, <2>4, <2>5 DEF OneOpenAttempt, SuccessIsLast
  <2>7. StatusMatchesAttempts'
    BY <1>5, <2>3 DEF StatusMatchesAttempts, Dead
  <2> QED
    BY <1>0, <2>2, <2>6, <2>7 DEF SeriesInv
<1> QED
  BY <1>4, <1>5

(* A dead task's newest attempt gets a successor.                          *)
LEMMA RequeueSeries ==
  ASSUME TInv, SeriesInv, NEW a \in Attempt, Latest(a), a + 1 \in Attempt,
         status \in Dead, status' = "PENDING",
         attempt'[a + 1].state = "SCHEDULED", attempt'[a + 1].success = "none",
         \A n \in Attempt \ {a + 1} : SameAt(n)
  PROVE  SeriesInv'
<1>0. attempt[a].success = "fail"
  BY DEF SeriesInv, StatusMatchesAttempts
<1>1. \A n \in Attempt : Latest(n) => n = a
  BY NewestUnique DEF SeriesInv
<1>2. \A n \in Attempt : Exists(n) => n <= a
  BY ConstantsAssumption DEF SeriesInv, Contiguous, Latest, Attempt, Exists
<1>3. \A n \in Attempt : ~Unresolved(n) /\ attempt[n].success # "ok"
  BY <1>0, <1>1 DEF SeriesInv, OneOpenAttempt, SuccessIsLast, Unresolved
<1>4. \A n \in Attempt : Exists(n)' <=> Exists(n) \/ n = a + 1
  BY ExistsAt DEF Latest, Exists
<1>5. Contiguous' /\ \A n \in Attempt : Exists(n)' <=> n <= a + 1
  BY <1>2, <1>4, ConstantsAssumption DEF SeriesInv, Contiguous, Latest, Attempt
<1>6. \A n \in Attempt : Latest(n)' => n = a + 1
  BY <1>5, ConstantsAssumption DEF Latest, Attempt, Exists
<1>7. Latest(a + 1)'
  BY <1>5, ExistsAt, ConstantsAssumption DEF Latest, Attempt
<1>8. \A n \in Attempt : n # a + 1 => ~Unresolved(n)' /\ attempt'[n].success # "ok"
  BY <1>3, <1>4 DEF Unresolved, SameAt
<1>9. OneOpenAttempt' /\ SuccessIsLast'
  BY <1>7, <1>8 DEF OneOpenAttempt, SuccessIsLast
<1>10. StatusMatchesAttempts'
  BY <1>6 DEF StatusMatchesAttempts, Dead
<1> QED
  BY <1>5, <1>9, <1>10 DEF SeriesInv
-----------------------------------------------------------------------------
(* What every step leaves standing, and what follows for the processes     *)
(* that take no part in it.                                                *)

Stable ==
  /\ \A n \in Attempt : /\ attempt[n].state = "QUEUED" => attempt'[n].state = "QUEUED"
                        /\ attempt[n].success # "none"
                             => attempt'[n].success = attempt[n].success
                        /\ saved[n] # "none" => saved'[n] # "none"
  /\ died => died'

LEMMA OthersHold ==
  ASSUME IInv, Stable, NEW q \in Handlers, proc'[q] = proc[q],
         proc[q].pc = "reap" =>
           \A n \in Attempt : attempt'[n].success # "none"
                                => attempt[n].success # "none" \/ saved[n] # "none"
  PROVE  HandlerOK(q)'
<1> SUFFICES ASSUME proc[q].pc # "idle" PROVE HandlerOK(q)'
  BY DEF HandlerOK
<1> DEFINE a == proc[q].att
<1>1. a \in Attempt /\ HandlerOK(q)
  BY DEF IInv, TInv, AtWork
<1>2. proc[q].pc \in {"handle", "hook", "mark"} => proc[q].out # "none"
  BY DEF IInv, TInv, AtWork
<1> QED
  BY <1>1, <1>2 DEF HandlerOK, Stable

(* The rows a step did not touch.                                          *)
UntouchedRows ==
  /\ Quiet /\ UNCHANGED <<hooks, died>>
  /\ \A n \in Attempt : attempt'[n].routed = FALSE => attempt[n].routed = FALSE

LEMMA UntouchedInv ==
  ASSUME IInv, UntouchedRows
  PROVE  SeriesInv' /\ FailuresKnown' /\ HooksTellTheTruth'
<1>1. SeriesInv'
  BY QuietSeries DEF IInv, UntouchedRows
<1>2. FailuresKnown'
  BY DEF IInv, UntouchedRows, Quiet, SameAt, FailuresKnown
<1>3. HooksTellTheTruth'
  BY DEF IInv, UntouchedRows, Quiet, HooksTellTheTruth
<1> QED
  BY <1>1, <1>2, <1>3

(* The broker, the workers and the passing of time.                        *)
LEMMA WorkersKeep ==
  ASSUME IInv, TInv',
         \/ \E a \in Attempt : Lapse(a) \/ BrokerLoses(a)
         \/ \E s \in Slots : WorkerStep(s)
         \/ \E s \in Publishers : Publish(s)
  PROVE  IInv'
<1> USE DEF IInv, TInv, TypeOK
<1>1. UNCHANGED <<status, hooks, died, saved, proc>>
  BY DEF Lapse, BrokerLoses, WorkerStep, Deliver, Claim, Beat, Publish, Return,
         WorkerDies
<1>2. \A n \in Attempt : SameAt(n) /\ attempt'[n].routed = attempt[n].routed
  <2>1. CASE UNCHANGED attempt
    BY <2>1 DEF SameAt
  <2>2. ASSUME NEW a, attempt' = [attempt EXCEPT ![a].heartbeat = "stale"]
        PROVE <1>2
    BY <2>2 DEF SameAt, AttemptRow
  <2>3. ASSUME NEW a, attempt' = [attempt EXCEPT ![a].heartbeat = "fresh"]
        PROVE <1>2
    BY <2>3 DEF SameAt, AttemptRow
  <2>4. ASSUME NEW a, attempt' = [attempt EXCEPT ![a].executions = @ + 1,
                                                 ![a].heartbeat = "fresh"]
        PROVE <1>2
    BY <2>4 DEF SameAt, AttemptRow
  <2>5. ASSUME NEW a, attempt' = [attempt EXCEPT ![a].committed = TRUE]
        PROVE <1>2
    BY <2>5 DEF SameAt, AttemptRow
  <2>6. ASSUME NEW a,
               attempt' = [attempt EXCEPT ![a].returned =
                             @ \/ attempt[a].success = "none"]
        PROVE <1>2
    BY <2>6 DEF SameAt, AttemptRow
  <2> QED
    BY <2>1, <2>2, <2>3, <2>4, <2>5, <2>6
       DEF Lapse, BrokerLoses, WorkerStep, Deliver, Claim, Beat, Publish, Return,
           WorkerDies
<1>3. SeriesInv' /\ FailuresKnown' /\ HooksTellTheTruth'
  BY <1>1, <1>2, UntouchedInv DEF UntouchedRows, Quiet
<1>4. \A p \in Handlers : HandlerOK(p)'
  BY <1>1, <1>2, OthersHold DEF Stable, SameAt
<1>5. \A o \in Operators : OperatorOK(o)'
  BY <1>1 DEF OperatorOK
<1>6. OnlyQueuedLeaves'
  <2>1. \A n \in Attempt : row'[n] => row[n]
    BY DEF Lapse, BrokerLoses, WorkerStep, Deliver, Claim, Beat, Publish, Return,
           WorkerDies
  <2>2. \A s \in Slots : slot'[s].pc # "free" =>
          \/ slot[s].pc # "free" /\ slot'[s].att = slot[s].att
          \/ slot'[s].att \in Attempt /\ row[slot'[s].att]
    <3>1. CASE UNCHANGED slot
      BY <3>1
    <3>2. ASSUME NEW t \in Slots, NEW a \in Attempt, Deliver(t, a) PROVE <2>2
      BY <3>2 DEF Deliver
    <3>3. ASSUME NEW t \in Slots, Claim(t) PROVE <2>2
      BY <3>3 DEF Claim, SlotState
    <3>4. ASSUME NEW t \in Slots, Publish(t) PROVE <2>2
      BY <3>4 DEF Publish, SlotState
    <3>5. ASSUME NEW t \in Slots, NEW out \in {"ok", "fail"}, Return(t, out)
          PROVE <2>2
      BY <3>5 DEF Return, SlotState
    <3>6. ASSUME NEW t \in Slots, WorkerDies(t) PROVE <2>2
      BY <3>6 DEF WorkerDies, FreeSlot
    <3> QED
      BY <3>1, <3>2, <3>3, <3>4, <3>5, <3>6
         DEF Lapse, BrokerLoses, WorkerStep, Publishers, Beat
  <2> QED
    BY <1>1, <1>2, <2>1, <2>2 DEF OnlyQueuedLeaves, SameAt, AtWork
<1> QED
  BY <1>3, <1>4, <1>5, <1>6

(* Nothing new leaves an attempt that was never dispatched.                *)
LEMMA LeavesKept ==
  ASSUME IInv, Stable,
         \A n \in Attempt :
           /\ attempt'[n].success # "none" => attempt[n].state = "QUEUED"
           /\ row'[n] => row[n]
           /\ saved'[n] # "none" => attempt[n].state = "QUEUED",
         \A s \in Slots : slot'[s].pc # "free" => slot'[s] = slot[s]
  PROVE  OnlyQueuedLeaves'
BY DEF IInv, TInv, AtWork, Stable, OnlyQueuedLeaves

(* A handler that ends its work on an attempt.                             *)
LEMMA FinishOK ==
  ASSUME IInv, Stable, NEW p \in Handlers, proc[p].pc # "idle", Finish(p)
  PROVE  /\ HandlerOK(p)'
         /\ \A q \in Proc : q # p => proc'[q] = proc[q]
<1>1. p \in Proc /\ proc[p] \in ProcState /\ proc[p].att \in Attempt
  BY DEF IInv, TInv, TypeOK, AtWork, Proc
<1>2. proc'[p] = Done(p) /\ \A q \in Proc : q # p => proc'[q] = proc[q]
  BY <1>1 DEF Finish, IInv, TInv, TypeOK
<1>3. \/ Done(p).pc = "idle"
      \/ Done(p).pc = "ack" /\ Done(p).att = proc[p].att
  BY <1>1 DEF Done, Idle, ProcState
<1> QED
  BY <1>1, <1>2, <1>3 DEF HandlerOK, IInv, Stable

(* A handler's step that changes no outcome.                               *)
LEMMA OneMoves ==
  ASSUME IInv, TInv', UntouchedRows, Stable, OnlyQueuedLeaves', NEW p \in Handlers,
         HandlerOK(p)', \A q \in Proc : q # p => proc'[q] = proc[q]
  PROVE  IInv'
<1>1. SeriesInv' /\ FailuresKnown' /\ HooksTellTheTruth'
  BY UntouchedInv
<1>2. ASSUME NEW q \in Handlers PROVE HandlerOK(q)'
  <2>1. CASE q = p
    BY <2>1
  <2>2. CASE q # p
    <3>1. proc'[q] = proc[q]
      BY <2>2 DEF Proc
    <3>2. \A n \in Attempt : attempt'[n].success = attempt[n].success
      BY DEF UntouchedRows, Quiet, SameAt
    <3> QED
      BY <3>1, <3>2, OthersHold
  <2> QED
    BY <2>1, <2>2
<1>3. \A o \in Operators : OperatorOK(o)'
  BY ConstantsAssumption DEF IInv, OperatorOK, UntouchedRows, Quiet, Proc
<1> QED
  BY <1>1, <1>2, <1>3 DEF IInv

(* The same, when the step leaves every row alone.                         *)
LEMMA IdleMoves ==
  ASSUME IInv, TInv', NEW p \in Handlers,
         UNCHANGED <<status, attempt, row, saved, slot, hooks, died>>,
         HandlerOK(p)', \A q \in Proc : q # p => proc'[q] = proc[q]
  PROVE  IInv'
<1>1. UntouchedRows /\ Stable
  BY DEF UntouchedRows, Quiet, SameAt, Stable
<1>2. OnlyQueuedLeaves'
  BY DEF IInv, OnlyQueuedLeaves
<1> QED
  BY <1>1, <1>2, OneMoves

LEMMA MonitorKeeps ==
  ASSUME IInv, TInv', NEW m \in Monitors,
         \/ \E s \in Slots : SaveResult(m, s) \/ SaveFails(m, s)
         \/ Acknowledge(m)
  PROVE  IInv'
<1>0. m \in Handlers /\ m \in Proc
  BY DEF Handlers, Proc
<1>1. UNCHANGED <<status, attempt, hooks, died>>
  BY DEF SaveResult, SaveFails, Acknowledge
<1>2. UntouchedRows
  BY <1>1 DEF UntouchedRows, Quiet, SameAt
<1>3. ASSUME NEW s \in Slots, SaveResult(m, s) \/ SaveFails(m, s)
      PROVE  IInv'
  <2> DEFINE a == slot[s].att
  <2>1. a \in Attempt /\ slot[s].out # "none" /\ attempt[a].state = "QUEUED"
    BY <1>3 DEF SaveResult, SaveFails, IInv, TInv, AtWork, OnlyQueuedLeaves
  <2>2. slot' = [slot EXCEPT ![s] = FreeSlot] /\ row' = row
    BY <1>3 DEF SaveResult, SaveFails
  <2>3. \/ saved' = [saved EXCEPT ![a] = slot[s].out]
             /\ proc' = [proc EXCEPT ![m] = At("handle", a, slot[s].out)]
        \/ saved' = saved /\ proc' = [proc EXCEPT ![m] = At("ack", a, slot[s].out)]
    BY <1>3 DEF SaveResult, SaveFails
  <2>4. Stable
    BY <1>1, <2>1, <2>3 DEF Stable, IInv, TInv, TypeOK
  <2>5. OnlyQueuedLeaves'
    <3>1. \A n \in Attempt : saved'[n] # "none" => attempt[n].state = "QUEUED"
      BY <2>1, <2>3 DEF IInv, TInv, TypeOK, OnlyQueuedLeaves
    <3>2. \A t \in Slots : slot'[t].pc # "free" => slot'[t] = slot[t]
      BY <2>2 DEF IInv, TInv, TypeOK, FreeSlot
    <3> QED
      BY <1>1, <2>2, <2>4, <3>1, <3>2, LeavesKept DEF IInv, OnlyQueuedLeaves
  <2>6. HandlerOK(m)' /\ \A q \in Proc : q # m => proc'[q] = proc[q]
    <3>1. \A pc : /\ At(pc, a, slot[s].out).pc = pc
                  /\ At(pc, a, slot[s].out).att = a
      BY DEF At, Idle
    <3> QED
      BY <1>0, <1>1, <2>1, <2>3, <3>1 DEF HandlerOK, IInv, TInv, TypeOK
  <2> QED
    BY <1>0, <1>2, <2>4, <2>5, <2>6, OneMoves
<1>4. CASE Acknowledge(m)
  <2>1. Stable
    BY <1>4 DEF Acknowledge, Stable
  <2>2. OnlyQueuedLeaves'
    <3>1. \A n \in Attempt : row'[n] => row[n]
      BY <1>4 DEF Acknowledge, IInv, TInv, TypeOK
    <3> QED
      BY <1>4, <2>1, <3>1, LeavesKept DEF Acknowledge, IInv, OnlyQueuedLeaves
  <2>3. HandlerOK(m)' /\ \A q \in Proc : q # m => proc'[q] = proc[q]
    BY <1>0, <1>4 DEF Acknowledge, HandlerOK, Idle, IInv, TInv, TypeOK
  <2> QED
    BY <1>0, <1>2, <2>1, <2>2, <2>3, OneMoves
<1> QED
  BY <1>3, <1>4

(* The reaper's three ways to take up an attempt.                          *)
LEMMA SweepKeeps ==
  ASSUME IInv, TInv', NEW r \in Reapers, NEW a \in Attempt,
         Reconcile(r, a) \/ Replay(r, a) \/ Sweep(r, a)
  PROVE  IInv'
<1>0. r \in Handlers /\ r \in Proc
  BY DEF Handlers, Proc
<1>1. UNCHANGED <<status, attempt, row, saved, slot, hooks, died>>
  BY DEF Reconcile, Replay, Sweep
<1>2. \A q \in Proc : q # r => proc'[q] = proc[q]
  BY <1>0 DEF Reconcile, Replay, Sweep, IInv, TInv, TypeOK
<1>3. HandlerOK(r)'
  <2>1. CASE Reconcile(r, a)
    BY <1>0, <1>1, <2>1
       DEF Reconcile, Unhandled, At, Idle, HandlerOK, IInv, TInv, TypeOK
  <2>2. CASE Replay(r, a)
    <3>1. attempt[a].success # "none" /\ attempt[a].routed = FALSE
          /\ attempt[a].state = "QUEUED"
      BY <2>2 DEF Replay, Unrouted, IInv, TInv, TypeOK, AttemptRow, OnlyQueuedLeaves
    <3>2. attempt[a].success = "fail" => died
      BY <3>1 DEF IInv, FailuresKnown
    <3> QED
      BY <1>0, <1>1, <2>2, <3>1, <3>2
         DEF Replay, At, Idle, HandlerOK, IInv, TInv, TypeOK
  <2>3. CASE Sweep(r, a)
    BY <1>0, <1>1, <2>3
       DEF Sweep, Orphaned, Unresolved, HandlerOK, IInv, TInv, TypeOK
  <2> QED
    BY <2>1, <2>2, <2>3
<1> QED
  BY <1>0, <1>1, <1>2, <1>3, IdleMoves
-----------------------------------------------------------------------------
(* The two ways an attempt is resolved.  The handler or reaper at work on  *)
(* it finds it unresolved.                                                 *)

Resolving(p) ==
  /\ p \in Handlers
  /\ proc[p].pc \in {"handle", "reap"}
  /\ attempt[proc[p].att].success = "none"

LEMMA ResolvingFacts ==
  ASSUME IInv, Solo, NEW p, Resolving(p)
  PROVE  /\ p \in Proc /\ proc[p] \in ProcState
         /\ proc[p].att \in Attempt /\ attempt[proc[p].att] \in AttemptRow
         /\ attempt[proc[p].att].state = "QUEUED"
         /\ \A q \in Handlers :
              q # p /\ proc[q].pc = "reap" => saved[proc[p].att] # "none"
<1>1. p \in Proc /\ proc[p] \in ProcState /\ proc[p].att \in Attempt
      /\ attempt[proc[p].att] \in AttemptRow /\ HandlerOK(p)
  BY DEF Resolving, IInv, TInv, TypeOK, AtWork, Proc
<1>2. proc[p].pc = "handle" => saved[proc[p].att] # "none"
  BY <1>1 DEF HandlerOK
<1>3. \A q \in Handlers : proc[q].pc = "reap" => q \in Reapers
  BY DEF IInv, TInv, AtWork, Handlers
<1> QED
  BY <1>1, <1>2, <1>3 DEF Resolving, Solo, HandlerOK

LEMMA OthersResolve ==
  ASSUME IInv, Solo, Stable, NEW p, Resolving(p),
         \A q \in Proc : q # p => proc'[q] = proc[q],
         \A n \in Attempt : attempt'[n].success # "none"
                              => attempt[n].success # "none" \/ n = proc[p].att
  PROVE  \A q \in Handlers : q # p => HandlerOK(q)'
<1> SUFFICES ASSUME NEW q \in Handlers, q # p PROVE HandlerOK(q)'
  OBVIOUS
<1>1. proc'[q] = proc[q]
  BY DEF Proc
<1>2. proc[q].pc = "reap" =>
        \A n \in Attempt : attempt'[n].success # "none"
                             => attempt[n].success # "none" \/ saved[n] # "none"
  BY ResolvingFacts
<1> QED
  BY <1>1, <1>2, OthersHold

(* Once a task is RUNNING no operator holds it as dead.                    *)
LEMMA OperatorsIdle ==
  ASSUME IInv, NEW p \in Handlers, status = "RUNNING",
         \A q \in Proc : q # p => proc'[q] = proc[q]
  PROVE  \A o \in Operators : OperatorOK(o)'
<1> SUFFICES ASSUME NEW o \in Operators PROVE OperatorOK(o)'
  OBVIOUS
<1>1. proc'[o] = proc[o]
  BY ConstantsAssumption DEF Proc, Handlers
<1> QED
  BY <1>1 DEF OperatorOK, IInv, Dead

LEMMA SuccessKeeps ==
  ASSUME IInv, TInv', Solo, NEW p, Resolving(p),
         UNCHANGED <<row, saved, slot, hooks, died>>,
         status' = "SUCCEEDED",
         LET a == proc[p].att IN
         /\ attempt'[a].state = attempt[a].state
         /\ attempt'[a].success = "ok"
         /\ \A n \in Attempt \ {a} : attempt'[n] = attempt[n],
         \/ Finish(p)
         \/ MoveTo(p, "hook") /\ proc[p].out = "ok"
  PROVE  IInv'
<1> DEFINE a == proc[p].att
<1>1. /\ p \in Proc /\ p \in Handlers /\ proc[p] \in ProcState /\ a \in Attempt
      /\ attempt[a].state = "QUEUED" /\ attempt[a].success = "none"
      /\ proc[p].pc # "idle"
  BY ResolvingFacts DEF Resolving
<1>2. SeriesInv' /\ status = "RUNNING"
  <2>1. \A n \in Attempt \ {a} : SameAt(n)
    BY DEF SameAt
  <2> QED
    BY <1>1, <2>1, ResolveSeries DEF IInv
<1>3. Stable
  BY <1>1 DEF Stable
<1>4. OnlyQueuedLeaves'
  <2>1. \A n \in Attempt : attempt'[n].success # "none" => attempt[n].state = "QUEUED"
    BY <1>1 DEF IInv, OnlyQueuedLeaves
  <2> QED
    BY <1>3, <2>1, LeavesKept DEF IInv, OnlyQueuedLeaves
<1>5. HandlerOK(p)' /\ \A q \in Proc : q # p => proc'[q] = proc[q]
  <2>1. CASE Finish(p)
    BY <1>1, <1>3, <2>1, FinishOK
  <2>2. CASE MoveTo(p, "hook") /\ proc[p].out = "ok"
    BY <1>1, <2>2 DEF MoveTo, HandlerOK, IInv, TInv, TypeOK, ProcState
  <2> QED
    BY <2>1, <2>2
<1>6. \A q \in Handlers : HandlerOK(q)'
  BY <1>3, <1>5, OthersResolve
<1>7. \A o \in Operators : OperatorOK(o)'
  BY <1>1, <1>2, <1>5, OperatorsIdle
<1>8. FailuresKnown'
  BY <1>1 DEF IInv, FailuresKnown
<1>9. HooksTellTheTruth'
  BY DEF IInv, HooksTellTheTruth
<1> QED
  BY <1>2, <1>4, <1>6, <1>7, <1>8, <1>9 DEF IInv

LEMMA FailKeeps ==
  ASSUME IInv, TInv', Solo, NEW p, Resolving(p), proc[p].out = "fail",
         NEW cause, Fail(p, proc[p].att, cause),
         UNCHANGED <<row, saved, slot, hooks>>
  PROVE  IInv'
<1> DEFINE a == proc[p].att
<1>1. /\ p \in Proc /\ p \in Handlers /\ proc[p] \in ProcState /\ a \in Attempt
      /\ attempt[a] \in AttemptRow
      /\ attempt[a].state = "QUEUED" /\ attempt[a].success = "none"
      /\ proc[p].pc # "idle"
  BY ResolvingFacts DEF Resolving
<1>2. PICK verdict \in Verdicts(a) :
        \/ /\ ~(verdict = "PENDING" /\ Exists(a + 1))
           /\ SettleFailed(a, cause, verdict) /\ AfterFailure(p, verdict)
        \/ Finish(p) /\ UNCHANGED <<status, attempt, died>>
  BY DEF Fail
<1>3. CASE Finish(p) /\ UNCHANGED <<status, attempt, died>>
  <2>1. Stable
    BY <1>3 DEF Stable
  <2> QED
    BY <1>1, <1>3, <2>1, FinishOK, IdleMoves
<1>4. CASE /\ ~(verdict = "PENDING" /\ Exists(a + 1))
           /\ SettleFailed(a, cause, verdict) /\ AfterFailure(p, verdict)
  <2>1. /\ verdict = "PENDING" => a + 1 \in Attempt /\ attempt[a + 1].state = "absent"
                                  /\ attempt[a + 1].success = "none"
        /\ verdict = "PENDING" \/ verdict \in Dead
        /\ status' = verdict /\ died' = (died \/ verdict \in Dead)
    <3>1. verdict = "PENDING" => a + 1 \in Attempt /\ attempt[a + 1].state = "absent"
      BY <1>1, <1>4, RetryFits DEF Exists
    <3>2. verdict = "PENDING" => attempt[a + 1].success = "none"
      BY <3>1 DEF IInv, OnlyQueuedLeaves
    <3> QED
      BY <1>1, <1>4, <3>1, <3>2 DEF SettleFailed, Verdicts, Dead
  <2>2. /\ attempt'[a].state = "QUEUED" /\ attempt'[a].success = "fail"
        /\ attempt'[a].routed = (attempt[a].routed \/ verdict = "PENDING")
        /\ verdict = "PENDING" =>
             /\ attempt'[a + 1].state = "SCHEDULED" /\ attempt'[a + 1].success = "none"
             /\ \A n \in Attempt \ {a, a + 1} : attempt'[n] = attempt[n]
        /\ verdict \in Dead => \A n \in Attempt \ {a} : attempt'[n] = attempt[n]
    <3>1. attempt' = [n \in Attempt |->
            IF n = a
            THEN [attempt[a] EXCEPT !.success = "fail", !.cause = cause,
                                    !.routed = @ \/ verdict = "PENDING"]
            ELSE IF verdict = "PENDING" /\ n = a + 1
            THEN FreshRow("SCHEDULED") ELSE attempt[n]]
      BY <1>4 DEF SettleFailed, Absorbed
    <3>2. attempt'[a] = [attempt[a] EXCEPT !.success = "fail", !.cause = cause,
                                    !.routed = @ \/ verdict = "PENDING"]
      BY <1>1, <3>1
    <3>3. verdict = "PENDING" => attempt'[a + 1] = FreshRow("SCHEDULED")
      BY <1>1, <2>1, <3>1 DEF Attempt
    <3>4. /\ attempt'[a].state = "QUEUED" /\ attempt'[a].success = "fail"
          /\ attempt'[a].routed = (attempt[a].routed \/ verdict = "PENDING")
      BY <1>1, <3>2 DEF AttemptRow
    <3>5. verdict = "PENDING" =>
            /\ attempt'[a + 1].state = "SCHEDULED"
            /\ attempt'[a + 1].success = "none"
      BY <3>3 DEF FreshRow
    <3>6. \A n \in Attempt \ {a} :
            ~(verdict = "PENDING" /\ n = a + 1) => attempt'[n] = attempt[n]
      BY <3>1
    <3> QED
      BY <3>4, <3>5, <3>6 DEF Dead
  <2>3. SeriesInv' /\ status = "RUNNING"
    <3>1. /\ verdict = "PENDING" => \A n \in Attempt \ {a, a + 1} : SameAt(n)
          /\ verdict \in Dead => \A n \in Attempt \ {a} : SameAt(n)
      BY <2>2 DEF SameAt
    <3> QED
      BY <1>1, <2>1, <2>2, <3>1, ResolveSeries DEF IInv
  <2>4. Stable
    BY <1>1, <2>1, <2>2 DEF Stable
  <2>5. \A n \in Attempt : attempt'[n].success # "none"
                             => attempt[n].success # "none" \/ n = a
    BY <2>1, <2>2
  <2>6. OnlyQueuedLeaves'
    <3>1. \A n \in Attempt : attempt'[n].success # "none" => attempt[n].state = "QUEUED"
      BY <1>1, <2>5 DEF IInv, OnlyQueuedLeaves
    <3> QED
      BY <2>4, <3>1, LeavesKept DEF IInv, OnlyQueuedLeaves
  <2>7. HandlerOK(p)' /\ \A q \in Proc : q # p => proc'[q] = proc[q]
    <3>1. CASE verdict = "PENDING"
      BY <1>1, <1>4, <2>4, <3>1, FinishOK DEF AfterFailure
    <3>2. CASE verdict \in Dead
      <4>1. MoveTo(p, "hook")
        BY <1>4, <3>2 DEF AfterFailure, Dead
      <4> QED
        BY <1>1, <2>1, <2>2, <3>2, <4>1
           DEF MoveTo, HandlerOK, IInv, TInv, TypeOK, ProcState
    <3> QED
      BY <2>1, <3>1, <3>2
  <2>8. \A q \in Handlers : HandlerOK(q)'
    BY <2>4, <2>5, <2>7, OthersResolve
  <2>9. \A o \in Operators : OperatorOK(o)'
    BY <1>1, <2>3, <2>7, OperatorsIdle
  <2>10. FailuresKnown'
    <3>1. ASSUME NEW n \in Attempt, attempt'[n].success = "fail",
                 attempt'[n].routed = FALSE
          PROVE  died'
      <4>1. CASE n = a
        BY <2>1, <2>2, <3>1, <4>1
      <4>2. CASE n # a
        <5>1. attempt'[n] = attempt[n]
          BY <2>1, <2>2, <3>1, <4>2
        <5> QED
          BY <2>1, <3>1, <5>1 DEF IInv, FailuresKnown
      <4> QED
        BY <4>1, <4>2
    <3> QED
      BY <3>1 DEF FailuresKnown
  <2>11. HooksTellTheTruth'
    BY <2>1, <2>3 DEF IInv, HooksTellTheTruth
  <2> QED
    BY <2>3, <2>6, <2>8, <2>9, <2>10, <2>11 DEF IInv
<1> QED
  BY <1>2, <1>3, <1>4

(* qraft_hook_handler: its commit, the hook, the routed flag.              *)
LEMMA HandlerKeeps ==
  ASSUME IInv, TInv', Solo, NEW p \in Handlers, HandlerStep(p)
  PROVE  IInv'
<1> DEFINE a == proc[p].att
<1>0. p \in Proc /\ proc[p] \in ProcState
  BY DEF Proc, IInv, TInv, TypeOK
<1>1. CASE Resolve(p)
  <2>0. proc[p].pc = "handle" /\ UNCHANGED <<row, saved, slot, hooks, faults>>
    BY <1>1 DEF Resolve
  <2>1. CASE Finish(p) /\ UNCHANGED <<status, attempt, died>>
    <3>1. Stable
      BY <2>0, <2>1 DEF Stable
    <3> QED
      BY <2>0, <2>1, <3>1, FinishOK, IdleMoves
  <2>2. CASE /\ Resolvable(a) /\ proc[p].out = "ok"
             /\ attempt' = [attempt EXCEPT ![a].success = "ok"]
             /\ status' = "SUCCEEDED" /\ MoveTo(p, "hook") /\ UNCHANGED died
    <3>1. Resolving(p)
      BY <2>0, <2>2 DEF Resolving, Resolvable
    <3>2. /\ attempt'[a].state = attempt[a].state
          /\ attempt'[a].success = "ok"
          /\ \A n \in Attempt \ {a} : attempt'[n] = attempt[n]
      BY <2>2, <3>1, ResolvingFacts DEF IInv, TInv, TypeOK, AttemptRow
    <3> QED
      BY <2>0, <2>2, <3>1, <3>2, SuccessKeeps
  <2>3. CASE Resolvable(a) /\ proc[p].out = "fail" /\ Fail(p, a, "raised")
    <3>1. Resolving(p)
      BY <2>0, <2>3 DEF Resolving, Resolvable
    <3> QED
      BY <2>0, <2>3, <3>1, FailKeeps
  <2> QED
    BY <1>1, <2>1, <2>2, <2>3 DEF Resolve
<1>2. CASE DispatchHook(p)
  <2>0. /\ UNCHANGED <<status, attempt, row, saved, slot, died>>
        /\ proc[p].pc = "hook" /\ MoveTo(p, "mark") /\ a \in Attempt
    BY <1>0, <1>2 DEF DispatchHook, IInv, TInv, AtWork
  <2>1. proc'[p].pc = "mark" /\ proc'[p].att = a /\ proc'[p].out = proc[p].out
        /\ \A q \in Proc : q # p => proc'[q] = proc[q]
    BY <1>0, <2>0 DEF MoveTo, IInv, TInv, TypeOK, ProcState
  <2>2. Stable /\ \A n \in Attempt : SameAt(n)
    BY <2>0 DEF Stable, SameAt
  <2>3. SeriesInv' /\ FailuresKnown' /\ OnlyQueuedLeaves'
    BY <2>0, <2>2, QuietSeries DEF IInv, FailuresKnown, OnlyQueuedLeaves, Quiet
  <2>4. HandlerOK(p) /\ HandlerOK(p)'
    BY <2>0, <2>1 DEF IInv, HandlerOK
  <2>5. \A q \in Handlers : HandlerOK(q)'
    <3> SUFFICES ASSUME NEW q \in Handlers, q # p PROVE HandlerOK(q)'
      BY <2>4
    <3>1. proc'[q] = proc[q]
      BY <2>1 DEF Proc
    <3> QED
      BY <2>0, <2>2, <3>1, OthersHold
  <2>6. \A o \in Operators : OperatorOK(o)'
    BY <2>0, <2>1, ConstantsAssumption DEF IInv, OperatorOK, Proc
  <2>7. HooksTellTheTruth'
    <3>1. proc[p].out = attempt[a].success /\ proc[p].out # "none"
          /\ (proc[p].out = "fail" => died)
      BY <2>0, <2>4 DEF HandlerOK, IInv, TInv, AtWork
    <3>2. proc[p].out = "ok" => status = "SUCCEEDED"
      BY <2>0, <3>1 DEF IInv, SeriesInv, SuccessIsLast, StatusMatchesAttempts
    <3>3. proc[p].out \in {"ok", "fail"}
      BY <1>0, <3>1 DEF ProcState, Outcome
    <3>4. \A h \in hooks' : h \in hooks \/ h = HookOf(proc[p].out)
      BY <1>2 DEF DispatchHook
    <3> QED
      BY <2>0, <3>1, <3>2, <3>3, <3>4 DEF IInv, HooksTellTheTruth, HookOf
  <2> QED
    BY <2>3, <2>5, <2>6, <2>7 DEF IInv
<1>3. CASE MarkRouted(p)
  <2>0. /\ UNCHANGED <<status, row, saved, slot, hooks, died>> /\ Finish(p)
        /\ proc[p].pc # "idle"
        /\ attempt' = [attempt EXCEPT ![a].routed = TRUE]
    BY <1>3 DEF MarkRouted
  <2>1. \A n \in Attempt : /\ SameAt(n)
                           /\ attempt'[n].routed = FALSE => attempt[n].routed = FALSE
    BY <2>0 DEF SameAt, IInv, TInv, TypeOK, AttemptRow
  <2>2. UntouchedRows /\ Stable
    BY <2>0, <2>1 DEF UntouchedRows, Quiet, Stable, SameAt
  <2>3. OnlyQueuedLeaves'
    BY <2>0, <2>1 DEF IInv, TInv, AtWork, OnlyQueuedLeaves, SameAt
  <2> QED
    BY <2>0, <2>2, <2>3, FinishOK, OneMoves
<1> QED
  BY <1>1, <1>2, <1>3 DEF HandlerStep

LEMMA ReapKeeps ==
  ASSUME IInv, TInv', Solo, NEW r \in Reapers, Reap(r)
  PROVE  IInv'
<1> DEFINE a == proc[r].att
<1>0. /\ r \in Handlers /\ r \in Proc
      /\ proc[r].pc = "reap" /\ proc[r].out = "fail" /\ a \in Attempt
      /\ HandlerOK(r) /\ UNCHANGED <<row, saved, slot, hooks, faults>>
  BY DEF Reap, Handlers, Proc, IInv, TInv, AtWork
<1>1. CASE Finish(r) /\ UNCHANGED <<status, attempt, died>>
  <2>1. Stable
    BY <1>0, <1>1 DEF Stable
  <2> QED
    BY <1>0, <1>1, <2>1, FinishOK, IdleMoves
<1>2. StillLost(a) => Resolving(r)
  BY <1>0 DEF StillLost, Resolving, HandlerOK
<1>3. CASE /\ StillLost(a) /\ status' = "SUCCEEDED"
           /\ attempt' = [attempt EXCEPT ![a] =
                [@ EXCEPT !.success = "ok", !.cause = "none", !.routed = TRUE]]
           /\ Finish(r) /\ UNCHANGED died
  <2>1. /\ attempt'[a].state = attempt[a].state
        /\ attempt'[a].success = "ok"
        /\ \A n \in Attempt \ {a} : attempt'[n] = attempt[n]
    BY <1>0, <1>3 DEF IInv, TInv, TypeOK, AttemptRow
  <2> QED
    BY <1>0, <1>2, <1>3, <2>1, SuccessKeeps
<1>4. CASE StillLost(a) /\ Fail(r, a, ReapCause(r))
  BY <1>0, <1>2, <1>4, FailKeeps
<1> QED
  BY <1>1, <1>3, <1>4 DEF Reap

(* A process of a cluster dies, or its handler raises: it forgets.         *)
LEMMA DeathKeeps ==
  ASSUME IInv, TInv', NEW p \in Handlers, ProcDies(p) \/ HandlerFails(p)
  PROVE  IInv'
<1>0. p \in Proc /\ proc[p].pc # "idle"
      /\ UNCHANGED <<status, attempt, row, saved, slot, hooks, died>>
  BY DEF Proc, ProcDies, HandlerFails
<1>1. HandlerOK(p)' /\ \A q \in Proc : q # p => proc'[q] = proc[q]
  <2>1. CASE ProcDies(p)
    BY <1>0, <2>1 DEF ProcDies, HandlerOK, Idle, IInv, TInv, TypeOK
  <2>2. CASE HandlerFails(p)
    <3>1. Stable
      BY <1>0 DEF Stable
    <3> QED
      BY <1>0, <2>2, <3>1, FinishOK DEF HandlerFails
  <2> QED
    BY <2>1, <2>2
<1> QED
  BY <1>0, <1>1, IdleMoves

LEMMA DispatchKeeps ==
  ASSUME IInv, TInv', NEW a \in Attempt, Dispatch(a)
  PROVE  IInv'
<1>1. /\ attempt[a].state = "SCHEDULED" /\ attempt[a].success = "none"
      /\ ~row[a] /\ saved[a] = "none"
      /\ UNCHANGED <<saved, slot, proc, hooks, died>>
      /\ row' = [row EXCEPT ![a] = TRUE]
  BY DEF Dispatch, IInv, OnlyQueuedLeaves
<1>2. /\ attempt'[a].state = "QUEUED"
      /\ \A n \in Attempt : /\ attempt'[n].success = attempt[n].success
                            /\ attempt'[n].routed = attempt[n].routed
      /\ \A n \in Attempt \ {a} : SameAt(n)
  BY DEF Dispatch, SameAt, IInv, TInv, TypeOK, AttemptRow
<1>3. SeriesInv'
  BY <1>1, <1>2, DispatchSeries DEF Dispatch, IInv
<1>4. Stable
  BY <1>1, <1>2 DEF Stable, SameAt
<1>5. OnlyQueuedLeaves'
  BY <1>1, <1>2 DEF IInv, TInv, TypeOK, AtWork, OnlyQueuedLeaves, SameAt
<1>6. \A q \in Handlers : HandlerOK(q)'
  BY <1>1, <1>2, <1>4, OthersHold
<1>7. status = "PENDING"
  BY <1>1 DEF IInv, SeriesInv, OneOpenAttempt, StatusMatchesAttempts, Unresolved, Exists
<1>8. \A o \in Operators : OperatorOK(o)'
  BY <1>1, <1>7 DEF IInv, OperatorOK, Dead
<1>9. FailuresKnown' /\ HooksTellTheTruth'
  BY <1>1, <1>2, <1>7 DEF IInv, FailuresKnown, HooksTellTheTruth
<1> QED
  BY <1>3, <1>5, <1>6, <1>8, <1>9 DEF IInv

LEMMA OperatorKeeps ==
  ASSUME IInv, TInv', Solo, NEW o \in Operators, Load(o) \/ Requeue(o)
  PROVE  IInv'
<1>0. /\ o \in Proc /\ UNCHANGED <<row, saved, slot, hooks, died>>
      /\ \A q \in Handlers : proc'[q] = proc[q]
  BY ConstantsAssumption
     DEF Load, Requeue, MoveTo, Proc, Handlers, IInv, TInv, TypeOK
<1>1. CASE Load(o)
  <2>1. UntouchedRows /\ Stable /\ \A n \in Attempt : SameAt(n)
    BY <1>1 DEF Load, UntouchedRows, Quiet, SameAt, Stable
  <2>2. \A q \in Handlers : HandlerOK(q)'
    BY <1>0, <1>1, <2>1, OthersHold DEF Load
  <2>3. \A q \in Operators : OperatorOK(q)'
    BY <1>1 DEF Load, IsDead, Solo, OperatorOK
  <2>4. OnlyQueuedLeaves'
    BY <1>1 DEF Load, IInv, OnlyQueuedLeaves
  <2> QED
    BY <2>1, <2>2, <2>3, <2>4, UntouchedInv DEF IInv
<1>2. CASE Requeue(o)
  <2>1. PICK a \in Attempt :
          /\ Latest(a) /\ a + 1 \in Attempt
          /\ attempt' = [attempt EXCEPT ![a + 1] = FreshRow("SCHEDULED")]
    BY <1>2 DEF Requeue
  <2>2. status \in Dead /\ status' = "PENDING" /\ proc'[o].pc = "idle"
    BY <1>0, <1>2 DEF Requeue, Idle, IInv, OperatorOK, TInv, TypeOK
  <2>3. attempt[a + 1].state = "absent" /\ attempt[a + 1].success = "none"
    BY <2>1 DEF Latest, Exists, IInv, OnlyQueuedLeaves
  <2>4. /\ attempt'[a + 1].state = "SCHEDULED" /\ attempt'[a + 1].success = "none"
        /\ \A n \in Attempt \ {a + 1} : SameAt(n) /\ attempt'[n] = attempt[n]
    BY <2>1 DEF SameAt, FreshRow, IInv, TInv, TypeOK
  <2>5. SeriesInv'
    BY <2>1, <2>2, <2>4, RequeueSeries DEF IInv
  <2>6. Stable
    BY <1>0, <2>3, <2>4 DEF Stable
  <2>7. OnlyQueuedLeaves'
    <3>1. \A n \in Attempt : attempt'[n].success # "none" => attempt[n].state = "QUEUED"
      BY <2>4 DEF IInv, OnlyQueuedLeaves
    <3> QED
      BY <1>0, <2>6, <3>1, LeavesKept DEF IInv, OnlyQueuedLeaves
  <2>8. \A q \in Handlers : HandlerOK(q)'
    BY <1>0, <2>4, <2>6, OthersHold
  <2>9. \A q \in Operators : OperatorOK(q)'
    BY <2>2 DEF Solo, OperatorOK
  <2>10. FailuresKnown' /\ HooksTellTheTruth'
    BY <1>0, <2>2, <2>4 DEF IInv, FailuresKnown, HooksTellTheTruth, Dead
  <2> QED
    BY <2>5, <2>7, <2>8, <2>9, <2>10 DEF IInv
<1> QED
  BY <1>1, <1>2

LEMMA StutterKeeps ==
  ASSUME IInv, UNCHANGED vars
  PROVE  IInv'
<1>1. TInv'
  BY StutterTInv DEF IInv
<1>2. UntouchedRows /\ Stable
  BY DEF vars, UntouchedRows, Quiet, SameAt, Stable
<1>3. OnlyQueuedLeaves' /\ \A o \in Operators : OperatorOK(o)'
  BY DEF vars, IInv, OnlyQueuedLeaves, OperatorOK
<1>4. \A q \in Handlers : HandlerOK(q)'
  BY <1>2, OthersHold DEF vars
<1> QED
  BY <1>1, <1>2, <1>3, <1>4, UntouchedInv DEF IInv

LEMMA InitIInv == Init => IInv
<1> SUFFICES ASSUME Init PROVE IInv
  OBVIOUS
<1>1. TInv
  BY InitTInv
<1>2. PICK st \in {"SCHEDULED", "QUEUED"} :
        /\ attempt = [n \in Attempt |-> FreshRow(IF n = 1 THEN st ELSE "absent")]
        /\ row = [n \in Attempt |-> n = 1 /\ st = "QUEUED"]
        /\ status = IF st = "QUEUED" THEN "RUNNING" ELSE "PENDING"
  BY DEF Init
<1>3. \A n \in Attempt : /\ attempt[n].state = IF n = 1 THEN st ELSE "absent"
                         /\ attempt[n].success = "none"
                         /\ row[n] => n = 1 /\ st = "QUEUED"
                         /\ saved[n] = "none"
  BY <1>2 DEF FreshRow, Init
<1>4. /\ \A n \in Attempt : Exists(n) <=> n = 1
      /\ \A n : n \notin Attempt => ~Exists(n)
  BY <1>3 DEF Exists
<1>5. SeriesInv
  <2>1. Latest(1) /\ \A n \in Attempt : Latest(n) \/ Unresolved(n) => n = 1
    BY <1>4, ConstantsAssumption DEF Latest, Unresolved, Exists, Attempt
  <2>2. Contiguous /\ OneOpenAttempt /\ SuccessIsLast
    BY <1>3, <1>4, <2>1, ConstantsAssumption
       DEF Contiguous, OneOpenAttempt, SuccessIsLast, Attempt
  <2>3. StatusMatchesAttempts
    BY <1>2, <1>3, <1>4, <2>1 DEF StatusMatchesAttempts, Unresolved, Dead
  <2> QED
    BY <2>2, <2>3 DEF SeriesInv
<1>6. OnlyQueuedLeaves
  BY <1>3 DEF Init, FreeSlot, OnlyQueuedLeaves
<1>7. /\ \A p \in Handlers : HandlerOK(p)
      /\ \A o \in Operators : OperatorOK(o)
  BY DEF Init, Idle, Proc, HandlerOK, OperatorOK
<1>8. FailuresKnown /\ HooksTellTheTruth
  BY <1>3 DEF Init, FailuresKnown, HooksTellTheTruth
<1> QED
  BY <1>1, <1>5, <1>6, <1>7, <1>8 DEF IInv

LEMMA StepIInv == ASSUME Solo, IInv, [Next]_vars PROVE IInv'
<1>0. TInv'
  BY StepTInv DEF IInv
<1>1. CASE \E a \in Attempt : Dispatch(a) \/ Lapse(a) \/ BrokerLoses(a)
  BY <1>0, <1>1, DispatchKeeps, WorkersKeep
<1>2. CASE \/ \E s \in Slots : WorkerStep(s)
           \/ \E s \in Publishers : Publish(s)
  BY <1>0, <1>2, WorkersKeep
<1>3. CASE \E m \in Monitors : MonitorStep(m)
  BY <1>0, <1>3, MonitorKeeps, HandlerKeeps DEF MonitorStep, Handlers
<1>4. CASE \E r \in Reapers : ReaperStep(r)
  BY <1>0, <1>4, SweepKeeps, ReapKeeps, HandlerKeeps DEF ReaperStep, Handlers
<1>5. CASE \E o \in Operators : Load(o) \/ Requeue(o)
  BY <1>0, <1>5, OperatorKeeps
<1>6. CASE \E p \in Handlers : ProcDies(p) \/ HandlerFails(p)
  BY <1>0, <1>6, DeathKeeps
<1>7. CASE UNCHANGED vars
  BY <1>7, StutterKeeps
<1> QED
  BY <1>1, <1>2, <1>3, <1>4, <1>5, <1>6, <1>7 DEF Next
-----------------------------------------------------------------------------
LEMMA IInvHolds == ASSUME Solo PROVE Spec => []IInv
<1>1. IInv /\ [Next]_vars => IInv'
  BY StepIInv
<1> QED
  BY <1>1, InitIInv, PTL DEF Spec

(* Retries and requeues never leave two attempts of a task open at once:   *)
(* the row lock and the resolution's compare-and-set of                    *)
(* qraft_hook_handler, with one reaper and one operator.                   *)
THEOREM AttemptsAreSequential == ASSUME Solo PROVE Spec => []OneOpenAttempt
<1>1. IInv => OneOpenAttempt
  BY DEF IInv, SeriesInv
<1> QED
  BY <1>1, IInvHolds, PTL

(* QraftTask.status agrees with the newest attempt after every             *)
(* transaction of the dispatcher, handler, reaper and requeue.             *)
THEOREM StatusIsTrue == ASSUME Solo PROVE Spec => []StatusMatchesAttempts
<1>1. IInv => StatusMatchesAttempts
  BY DEF IInv, SeriesInv
<1> QED
  BY <1>1, IInvHolds, PTL

(* Whatever crashes and whatever is replayed, a success hook is dispatched *)
(* only for a task that has succeeded and a failure hook only for one that *)
(* has died (HookDispatcher, replay_unrouted).                             *)
THEOREM HooksAreTrue == ASSUME Solo PROVE Spec => []HooksTellTheTruth
<1>1. IInv => HooksTellTheTruth
  BY DEF IInv
<1> QED
  BY <1>1, IInvHolds, PTL

(* The outcome of one resolved attempt in one step.                        *)
OutcomeStays(n) ==
  attempt'[n].success = attempt[n].success /\ attempt'[n].cause = attempt[n].cause

(* No step of a handler, reaper or operator touches a resolved attempt.    *)
LEMMA FailOutcome ==
  ASSUME IInv, Solo, NEW p, Resolving(p), NEW cause, Fail(p, proc[p].att, cause),
         NEW n \in Attempt, attempt[n].success # "none"
  PROVE  OutcomeStays(n)
<1>1. n # proc[p].att
  BY DEF Resolving
<1>2. Exists(n)
  BY DEF Exists, IInv, OnlyQueuedLeaves
<1>3. CASE UNCHANGED attempt
  BY <1>3 DEF OutcomeStays
<1>4. ASSUME NEW verdict \in Verdicts(proc[p].att),
             ~(verdict = "PENDING" /\ Exists(proc[p].att + 1)),
             SettleFailed(proc[p].att, cause, verdict)
      PROVE  OutcomeStays(n)
  <2>1. attempt'[n] = attempt[n]
    BY <1>1, <1>2, <1>4 DEF SettleFailed
  <2> QED
    BY <2>1 DEF OutcomeStays
<1> QED
  BY <1>3, <1>4 DEF Fail

LEMMA HandlerOutcome ==
  ASSUME IInv, Solo, NEW p \in Handlers, HandlerStep(p) \/ Reap(p),
         NEW n \in Attempt, attempt[n].success # "none"
  PROVE  OutcomeStays(n)
<1> DEFINE a == proc[p].att
<1>1. HandlerOK(p)
  BY DEF IInv
<1>2. CASE UNCHANGED attempt
  BY <1>2 DEF OutcomeStays
<1>3. CASE MarkRouted(p)
  BY <1>3 DEF MarkRouted, OutcomeStays, IInv, TInv, TypeOK, AttemptRow
<1>4. CASE Resolve(p) /\ Resolvable(a)
  <2>1. Resolving(p) /\ n # a
    BY <1>4 DEF Resolve, Resolvable, Resolving
  <2>2. CASE attempt' = [attempt EXCEPT ![a].success = "ok"]
    BY <2>1, <2>2 DEF OutcomeStays, IInv, TInv, TypeOK
  <2>3. CASE Fail(p, a, "raised")
    BY <2>1, <2>3, FailOutcome
  <2> QED
    BY <1>4, <2>2, <2>3 DEF Resolve
<1>5. CASE Reap(p) /\ StillLost(a)
  <2>1. Resolving(p) /\ n # a
    BY <1>1, <1>5 DEF Reap, StillLost, HandlerOK, Resolving
  <2>2. CASE attempt' = [attempt EXCEPT ![a] =
               [@ EXCEPT !.success = "ok", !.cause = "none", !.routed = TRUE]]
    BY <2>1, <2>2 DEF OutcomeStays, IInv, TInv, TypeOK
  <2>3. CASE Fail(p, a, ReapCause(p))
    BY <2>1, <2>3, FailOutcome
  <2> QED
    BY <1>5, <2>2, <2>3 DEF Reap
<1> QED
  BY <1>2, <1>3, <1>4, <1>5 DEF HandlerStep, Resolve, Reap, DispatchHook

LEMMA OtherOutcome ==
  ASSUME IInv, NEW n \in Attempt, attempt[n].success # "none",
         \/ \E a \in Attempt : Dispatch(a) \/ Lapse(a) \/ BrokerLoses(a)
         \/ \E s \in Slots : WorkerStep(s)
         \/ \E s \in Publishers : Publish(s)
         \/ \E o \in Operators : Load(o) \/ Requeue(o)
  PROVE  OutcomeStays(n)
<1> USE DEF IInv, TInv, TypeOK
<1>1. ASSUME NEW a \in Attempt, Dispatch(a) \/ Lapse(a) PROVE OutcomeStays(n)
  BY <1>1 DEF Dispatch, Lapse, OutcomeStays, AttemptRow
<1>2. ASSUME NEW s \in Slots, Claim(s) PROVE OutcomeStays(n)
  BY <1>2 DEF Claim, OutcomeStays, AttemptRow
<1>3. ASSUME NEW s \in Slots, Beat(s) PROVE OutcomeStays(n)
  BY <1>3 DEF Beat, OutcomeStays, AttemptRow
<1>4. ASSUME NEW s \in Slots, Publish(s) PROVE OutcomeStays(n)
  BY <1>4 DEF Publish, OutcomeStays, AttemptRow
<1>5. ASSUME NEW s \in Slots, NEW out, Return(s, out) PROVE OutcomeStays(n)
  BY <1>5 DEF Return, OutcomeStays, AttemptRow
<1>6. ASSUME NEW o \in Operators, Requeue(o) PROVE OutcomeStays(n)
  BY <1>6 DEF Requeue, Latest, Exists, OnlyQueuedLeaves, OutcomeStays
<1>7. CASE UNCHANGED attempt
  BY <1>7 DEF OutcomeStays
<1> QED
  BY <1>1, <1>2, <1>3, <1>4, <1>5, <1>6, <1>7
     DEF WorkerStep, Publishers, Deliver, WorkerDies, BrokerLoses, Load

LEMMA StepOutcome ==
  ASSUME Solo, IInv, [Next]_vars, NEW n \in Attempt, attempt[n].success # "none"
  PROVE  OutcomeStays(n)
<1>1. CASE UNCHANGED attempt
  BY <1>1 DEF OutcomeStays
<1>2. ASSUME NEW p \in Handlers, HandlerStep(p) PROVE OutcomeStays(n)
  BY <1>2, HandlerOutcome
<1>3. ASSUME NEW r \in Reapers, Reap(r) PROVE OutcomeStays(n)
  BY <1>3, HandlerOutcome DEF Handlers
<1>4. CASE \/ \E a \in Attempt : Dispatch(a) \/ Lapse(a) \/ BrokerLoses(a)
           \/ \E s \in Slots : WorkerStep(s)
           \/ \E s \in Publishers : Publish(s)
           \/ \E o \in Operators : Load(o) \/ Requeue(o)
  BY <1>4, OtherOutcome
<1>5. CASE \E m \in Monitors : MonitorStep(m)
  BY <1>1, <1>2, <1>5 DEF MonitorStep, SaveResult, SaveFails, Acknowledge, Handlers
<1>6. CASE \E r \in Reapers : ReaperStep(r)
  BY <1>1, <1>2, <1>3, <1>6 DEF ReaperStep, Reconcile, Replay, Sweep, Handlers
<1>7. CASE \E p \in Handlers : ProcDies(p) \/ HandlerFails(p)
  BY <1>1, <1>7 DEF ProcDies, HandlerFails
<1>8. CASE UNCHANGED vars
  BY <1>1, <1>8 DEF vars
<1> QED
  BY <1>4, <1>5, <1>6, <1>7, <1>8 DEF Next

(* A resolved attempt keeps its outcome and its cause for ever: late       *)
(* results, replays and reaps drop out on the compare-and-set of           *)
(* qraft_hook_handler and the re-checks of _reap_one.                      *)
THEOREM OutcomesAreFinal == ASSUME Solo PROVE Spec => ResolvedOnce
<1>1. IInv /\ [Next]_vars =>
        \A n \in Attempt : attempt[n].success # "none" => OutcomeStays(n)
  BY StepOutcome
<1>2. IInv /\ [Next]_vars =>
        [\A a \in Attempt : attempt[a].success # "none" =>
           /\ attempt'[a].success = attempt[a].success
           /\ attempt'[a].cause = attempt[a].cause]_vars
  BY <1>1 DEF OutcomeStays
<1> QED
  BY <1>2, IInvHolds, PTL DEF Spec, ResolvedOnce

LEMMA StepSucceeded ==
  ASSUME Solo, IInv, [Next]_vars, status = "SUCCEEDED"
  PROVE  status' = "SUCCEEDED"
<1>1. \A n \in Attempt : ~Unresolved(n)
  BY DEF IInv, SeriesInv, OneOpenAttempt, StatusMatchesAttempts, Unresolved, Exists,
         TInv, TypeOK, AttemptRow
<1>2. CASE UNCHANGED status
  BY <1>2
<1>3. ASSUME NEW a \in Attempt, Dispatch(a) PROVE status' = "SUCCEEDED"
  BY <1>3 DEF Dispatch, StatusOnceQueued
<1>4. ASSUME NEW p \in Handlers, Resolve(p) PROVE status' = "SUCCEEDED"
  <2>1. proc[p].att \in Attempt /\ attempt[proc[p].att].state = "QUEUED"
    BY <1>4 DEF Resolve, IInv, TInv, AtWork, HandlerOK
  <2>2. ~Resolvable(proc[p].att)
    BY <1>1, <2>1 DEF Resolvable, Unresolved, Exists
  <2> QED
    BY <1>4, <2>2 DEF Resolve
<1>5. ASSUME NEW r \in Reapers, Reap(r) PROVE status' = "SUCCEEDED"
  BY <1>5 DEF Reap, StillLost
<1>6. ASSUME NEW o \in Operators, Requeue(o) PROVE status' = "SUCCEEDED"
  BY <1>6 DEF Requeue, IInv, OperatorOK, Dead
<1> QED
  BY <1>2, <1>3, <1>4, <1>5, <1>6
     DEF Next, vars, Lapse, BrokerLoses, WorkerStep, Deliver, Claim, Beat, Publish,
         Return, WorkerDies, MonitorStep, ReaperStep, HandlerStep, SaveResult,
         SaveFails, Acknowledge, DispatchHook, MarkRouted, Reconcile, Replay, Sweep,
         Load, ProcDies, HandlerFails, Handlers

(* A SUCCEEDED task is never taken back.                                   *)
THEOREM SuccessIsFinal == ASSUME Solo PROVE Spec => SucceededIsFinal
<1>1. IInv /\ [Next]_vars => (status = "SUCCEEDED" => status' = "SUCCEEDED")
  BY StepSucceeded
<1>2. IInv /\ [Next]_vars => [status = "SUCCEEDED" => status' = "SUCCEEDED"]_vars
  BY <1>1
<1> QED
  BY <1>2, IInvHolds, PTL DEF Spec, SucceededIsFinal
-----------------------------------------------------------------------------
(* The lease.  A row that exists counts the executions it has admitted,    *)
(* and only a message that exists is delivered.                            *)

Running(a) == {s \in Slots : slot[s].pc = "running" /\ slot[s].att = a}

LeaseInv ==
  /\ \A a \in Attempt : row[a] => Exists(a)
  /\ \A s \in Slots : slot[s].pc # "free" => attempt[slot[s].att].state # "absent"
  /\ \A a \in Attempt : Cardinality(Running(a)) <= attempt[a].executions

(* A row, once it exists, stays and loses no execution.                    *)
RowsKept ==
  \A a \in Attempt : Exists(a) =>
    /\ Exists(a)' /\ attempt'[a].executions = attempt[a].executions
    /\ attempt[a].state = "QUEUED" => attempt'[a].state = "QUEUED"

(* No slot starts to run; one that takes up an attempt had its message.    *)
SlotsKept ==
  \A s \in Slots : slot'[s].pc # "free" =>
    \/ /\ slot[s].pc # "free" /\ slot'[s].att = slot[s].att
       /\ slot'[s].pc = "running" => slot[s].pc = "running"
    \/ /\ slot'[s].att \in Attempt /\ row[slot'[s].att]
       /\ slot'[s].pc # "running"

(* A message is queued for a row that exists.                              *)
MessagesKept == \A a \in Attempt : row'[a] => row[a] \/ Exists(a)

LEMMA ExecutionsType ==
  ASSUME TInv, TInv', NEW a \in Attempt
  PROVE  attempt[a].executions \in Nat /\ attempt'[a].executions \in Nat
BY ConstantsAssumption DEF TInv, TypeOK, AttemptRow

LEMMA RunningFinite ==
  ASSUME NEW a \in Attempt
  PROVE  /\ IsFiniteSet(Running(a)) /\ Cardinality(Running(a)) \in Nat
         /\ Running(a)' \subseteq Running(a) =>
              Cardinality(Running(a)') <= Cardinality(Running(a))
<1>1. Running(a) \in SUBSET Slots
  BY DEF Running
<1>2. IsFiniteSet(Running(a))
  BY <1>1, ConstantsAssumption, FS_Subset
<1> QED
  BY <1>2, FS_Subset, FS_CardinalityType

LEMMA LeaseKept ==
  ASSUME TInv, TInv', LeaseInv, RowsKept, SlotsKept, MessagesKept
  PROVE  LeaseInv'
<1>1. \A a \in Attempt : row'[a] => Exists(a)'
  BY DEF LeaseInv, MessagesKept, RowsKept
<1>2. ASSUME NEW s \in Slots, slot'[s].pc # "free"
      PROVE  attempt'[slot'[s].att].state # "absent"
  <2>1. PICK n \in Attempt : n = slot'[s].att
    BY <1>2 DEF TInv, AtWork
  <2>2. Exists(n)
    BY <1>2, <2>1 DEF LeaseInv, SlotsKept, Exists
  <2> QED
    BY <2>1, <2>2 DEF RowsKept, Exists
<1>3. ASSUME NEW a \in Attempt
      PROVE  Cardinality(Running(a)') <= attempt'[a].executions
  <2>1. Running(a)' \subseteq Running(a)
    BY DEF SlotsKept, Running
  <2>2. attempt[a].executions \in Nat /\ attempt'[a].executions \in Nat
    BY ExecutionsType
  <2>3. CASE Exists(a)
    <3>1. Cardinality(Running(a)') <= Cardinality(Running(a))
      BY <2>1, RunningFinite
    <3>2. /\ Cardinality(Running(a)) \in Nat
          /\ Cardinality(Running(a)) <= attempt[a].executions
          /\ attempt'[a].executions = attempt[a].executions
      BY <2>3, RunningFinite DEF LeaseInv, RowsKept
    <3>3. Running(a)' \in SUBSET Running(a)
      BY <2>1
    <3>4. Cardinality(Running(a)') \in Nat
      BY <3>3, RunningFinite, FS_Subset, FS_CardinalityType
    <3> HIDE DEF Running
    <3> QED
      BY <2>2, <3>1, <3>2, <3>4
  <2>4. CASE ~Exists(a)
    <3>1. Running(a)' = {}
      BY <2>1, <2>4 DEF LeaseInv, Running, Exists
    <3> QED
      BY <2>2, <3>1, FS_EmptySet
  <2> QED
    BY <2>3, <2>4
<1> QED
  BY <1>1, <1>2, <1>3 DEF LeaseInv

(* The broker and the workers, but for the execution a claim begins.       *)
LEMMA WorkersKept ==
  ASSUME TInv,
         \/ \E a \in Attempt : Dispatch(a) \/ Lapse(a) \/ BrokerLoses(a)
         \/ \E s \in Slots : \/ \E a \in Attempt : Deliver(s, a)
                             \/ Claim(s) /\ UNCHANGED attempt
                             \/ Beat(s)
                             \/ \E out \in {"ok", "fail"} : Return(s, out)
                             \/ WorkerDies(s)
         \/ \E s \in Publishers : Publish(s)
  PROVE  RowsKept /\ SlotsKept /\ MessagesKept
<1>0. /\ attempt \in [Attempt -> AttemptRow] /\ row \in [Attempt -> BOOLEAN]
      /\ slot \in [Slots -> SlotState]
  BY DEF TInv, TypeOK
<1>1. ASSUME NEW a \in Attempt, Dispatch(a)
      PROVE  RowsKept /\ SlotsKept /\ MessagesKept
  <2>1. attempt' = [attempt EXCEPT ![a].state = "QUEUED"] /\ slot' = slot
        /\ attempt[a].state = "SCHEDULED" /\ row' = [row EXCEPT ![a] = TRUE]
    BY <1>1 DEF Dispatch
  <2>2. RowsKept
    BY <1>0, <2>1 DEF RowsKept, Exists, AttemptRow
  <2>3. SlotsKept
    BY <2>1 DEF SlotsKept
  <2>4. MessagesKept
    BY <1>0, <2>1 DEF MessagesKept, Exists
  <2> QED
    BY <2>2, <2>3, <2>4
<1>2. ASSUME NEW a \in Attempt, Lapse(a) \/ BrokerLoses(a)
      PROVE  RowsKept /\ SlotsKept /\ MessagesKept
  <2>1. /\ attempt' = [attempt EXCEPT ![a].heartbeat = "stale"] \/ attempt' = attempt
        /\ row' = row \/ row' = [row EXCEPT ![a] = FALSE]
        /\ slot' = slot
    BY <1>2 DEF Lapse, BrokerLoses
  <2>2. RowsKept
    BY <1>0, <2>1 DEF RowsKept, Exists, AttemptRow
  <2>3. SlotsKept
    BY <2>1 DEF SlotsKept
  <2>4. MessagesKept
    BY <1>0, <2>1 DEF MessagesKept
  <2> QED
    BY <2>2, <2>3, <2>4
<1>3. ASSUME NEW s \in Slots, NEW a \in Attempt, Deliver(s, a)
      PROVE  RowsKept /\ SlotsKept /\ MessagesKept
  <2>1. attempt' = attempt /\ row' = row /\ row[a]
        /\ slot' = [slot EXCEPT ![s] = [pc |-> "picked", att |-> a, out |-> "none"]]
    BY <1>3 DEF Deliver
  <2>2. SlotsKept
    BY <1>0, <2>1 DEF SlotsKept
  <2> QED
    BY <2>1, <2>2 DEF RowsKept, MessagesKept, Exists
<1>4. ASSUME NEW s \in Slots, Claim(s), UNCHANGED attempt
      PROVE  RowsKept /\ SlotsKept /\ MessagesKept
  <2>1. PICK a \in Attempt : a = slot[s].att
    BY <1>4 DEF Claim, TInv, AtWork
  <2>2. attempt' = attempt /\ row' = row /\ slot[s].pc = "picked"
    BY <1>4 DEF Claim
  <2>3. attempt' # [attempt EXCEPT ![a].executions = @ + 1, ![a].heartbeat = "fresh"]
    BY <1>0, <2>2, ConstantsAssumption DEF AttemptRow
  <2>4. slot' = [slot EXCEPT ![s].pc = "result", ![s].out = "fail"]
    BY <1>4, <2>1, <2>3 DEF Claim
  <2>5. SlotsKept
    BY <1>0, <2>2, <2>4 DEF SlotsKept, SlotState
  <2> QED
    BY <2>2, <2>5 DEF RowsKept, MessagesKept, Exists
<1>5. ASSUME NEW s \in Slots, Beat(s)
      PROVE  RowsKept /\ SlotsKept /\ MessagesKept
  <2>1. PICK a : a = slot[s].att
    OBVIOUS
  <2>2. attempt' = [attempt EXCEPT ![a].heartbeat = "fresh"] /\ row' = row /\ slot' = slot
    BY <1>5, <2>1 DEF Beat
  <2>3. RowsKept
    BY <1>0, <2>2 DEF RowsKept, Exists, AttemptRow
  <2> QED
    BY <2>2, <2>3 DEF SlotsKept, MessagesKept
<1>6. ASSUME NEW s \in Slots, NEW out \in {"ok", "fail"}, Return(s, out)
      PROVE  RowsKept /\ SlotsKept /\ MessagesKept
  <2>1. PICK a, b : a = slot[s].att
                    /\ attempt' = [attempt EXCEPT ![a].returned = b]
    BY <1>6 DEF Return
  <2>2. /\ attempt' = [attempt EXCEPT ![a].returned = b] /\ row' = row
        /\ slot' = [slot EXCEPT ![s].pc = "result", ![s].out = out]
        /\ slot[s].pc = "running"
    BY <1>6, <2>1 DEF Return
  <2>3. RowsKept
    BY <1>0, <2>2 DEF RowsKept, Exists, AttemptRow
  <2>4. SlotsKept
    BY <1>0, <2>2 DEF SlotsKept, SlotState
  <2> QED
    BY <2>2, <2>3, <2>4 DEF MessagesKept
<1>7. ASSUME NEW s \in Slots, Publish(s)
      PROVE  RowsKept /\ SlotsKept /\ MessagesKept
  <2>1. PICK a : a = slot[s].att
    OBVIOUS
  <2>2. /\ attempt' = [attempt EXCEPT ![a].committed = TRUE] /\ row' = row
        /\ slot' = [slot EXCEPT ![s].out = "ok"]
    BY <1>7, <2>1 DEF Publish
  <2>3. RowsKept
    BY <1>0, <2>2 DEF RowsKept, Exists, AttemptRow
  <2>4. SlotsKept
    BY <1>0, <2>2 DEF SlotsKept, SlotState
  <2> QED
    BY <2>2, <2>3, <2>4 DEF MessagesKept
<1>8. ASSUME NEW s \in Slots, WorkerDies(s)
      PROVE  RowsKept /\ SlotsKept /\ MessagesKept
  <2>1. attempt' = attempt /\ row' = row /\ slot' = [slot EXCEPT ![s] = FreeSlot]
    BY <1>8 DEF WorkerDies
  <2>2. SlotsKept
    BY <1>0, <2>1 DEF SlotsKept, FreeSlot
  <2> QED
    BY <2>1, <2>2 DEF RowsKept, MessagesKept, Exists
<1> QED
  BY <1>1, <1>2, <1>3, <1>4, <1>5, <1>6, <1>7, <1>8 DEF Publishers

LEMMA FailRowsKept ==
  ASSUME TInv, NEW p, NEW a \in Attempt, NEW cause, Fail(p, a, cause)
  PROVE  RowsKept
<1>1. CASE UNCHANGED attempt
  BY <1>1 DEF RowsKept, Exists
<1>2. ASSUME NEW verdict \in Verdicts(a), ~(verdict = "PENDING" /\ Exists(a + 1)),
             SettleFailed(a, cause, verdict)
      PROVE  RowsKept
  <2>1. attempt'[a].state = attempt[a].state
        /\ attempt'[a].executions = attempt[a].executions
    <3>1. PICK b : attempt'[a] = [attempt[a] EXCEPT !.success = "fail", !.cause = cause,
                                                    !.routed = b]
      BY <1>2 DEF SettleFailed
    <3>2. attempt[a] \in AttemptRow
      BY DEF TInv, TypeOK
    <3> QED
      BY <3>1, <3>2 DEF AttemptRow
  <2>2. \A n \in Attempt : n # a /\ Exists(n) => attempt'[n] = attempt[n]
    BY <1>2 DEF SettleFailed
  <2> QED
    BY <2>1, <2>2 DEF RowsKept, Exists
<1> QED
  BY <1>1, <1>2 DEF Fail

(* The handlers, the reaper and the operators begin no execution.          *)
LEMMA OthersKept ==
  ASSUME TInv,
         \/ \E m \in Monitors : MonitorStep(m)
         \/ \E r \in Reapers : ReaperStep(r)
         \/ \E o \in Operators : Load(o) \/ Requeue(o)
         \/ \E p \in Handlers : ProcDies(p) \/ HandlerFails(p)
  PROVE  RowsKept /\ SlotsKept /\ MessagesKept
<1> USE DEF TInv, TypeOK
<1>1. CASE UNCHANGED <<attempt, slot>> /\ \A a \in Attempt : row'[a] => row[a]
  BY <1>1 DEF RowsKept, SlotsKept, MessagesKept, Exists
<1>2. ASSUME UNCHANGED <<slot, row>>, RowsKept
      PROVE  RowsKept /\ SlotsKept /\ MessagesKept
  BY <1>2 DEF SlotsKept, MessagesKept
<1>3. ASSUME NEW m \in Monitors, NEW s \in Slots, SaveResult(m, s) \/ SaveFails(m, s)
      PROVE  RowsKept /\ SlotsKept /\ MessagesKept
  BY <1>3
     DEF SaveResult, SaveFails, FreeSlot, RowsKept, SlotsKept, MessagesKept, Exists
<1>4. ASSUME NEW p \in Handlers, Resolve(p) PROVE RowsKept
  <2>1. proc[p].att \in Attempt
    BY <1>4 DEF Resolve, AtWork
  <2>2. CASE attempt' = [attempt EXCEPT ![proc[p].att].success = "ok"]
    BY <2>1, <2>2 DEF RowsKept, Exists, AttemptRow
  <2>3. CASE UNCHANGED attempt
    BY <2>3 DEF RowsKept, Exists
  <2> QED
    BY <1>4, <2>1, <2>2, <2>3, FailRowsKept DEF Resolve
<1>5. ASSUME NEW p \in Handlers, MarkRouted(p) PROVE RowsKept
  BY <1>5 DEF MarkRouted, RowsKept, Exists, AttemptRow
<1>6. ASSUME NEW r \in Reapers, Reap(r) PROVE RowsKept
  <2>1. proc[r].att \in Attempt
    BY <1>6 DEF Reap, AtWork, Handlers
  <2>2. CASE attempt' = [attempt EXCEPT ![proc[r].att] =
               [@ EXCEPT !.success = "ok", !.cause = "none", !.routed = TRUE]]
    BY <2>1, <2>2 DEF RowsKept, Exists, AttemptRow
  <2>3. CASE UNCHANGED attempt
    BY <2>3 DEF RowsKept, Exists
  <2> QED
    BY <1>6, <2>1, <2>2, <2>3, FailRowsKept DEF Reap
<1>7. ASSUME NEW o \in Operators, Requeue(o) PROVE RowsKept
  <2>1. PICK a \in Attempt :
          /\ Latest(a) /\ a + 1 \in Attempt
          /\ attempt' = [attempt EXCEPT ![a + 1] = FreshRow("SCHEDULED")]
    BY <1>7 DEF Requeue
  <2>2. \A n \in Attempt : Exists(n) => attempt'[n] = attempt[n]
    BY <2>1 DEF Latest
  <2> QED
    BY <2>2 DEF RowsKept, Exists
<1>8. ASSUME NEW p \in Handlers, HandlerStep(p)
      PROVE  RowsKept /\ SlotsKept /\ MessagesKept
  BY <1>1, <1>2, <1>4, <1>5, <1>8 DEF HandlerStep, Resolve, MarkRouted, DispatchHook
<1>9. ASSUME NEW m \in Monitors, Acknowledge(m) PROVE \A a \in Attempt : row'[a] => row[a]
  BY <1>9 DEF Acknowledge
<1>10. CASE \E m \in Monitors : MonitorStep(m)
  BY <1>1, <1>3, <1>8, <1>9, <1>10 DEF MonitorStep, Acknowledge, Handlers
<1>11. CASE \E r \in Reapers : ReaperStep(r)
  BY <1>1, <1>2, <1>6, <1>8, <1>11
     DEF ReaperStep, Reconcile, Replay, Sweep, Reap, Handlers
<1>12. CASE \E o \in Operators : Load(o) \/ Requeue(o)
  BY <1>1, <1>2, <1>7, <1>12 DEF Load, Requeue
<1>13. CASE \E p \in Handlers : ProcDies(p) \/ HandlerFails(p)
  BY <1>1, <1>13 DEF ProcDies, HandlerFails
<1> QED
  BY <1>10, <1>11, <1>12, <1>13

(* A claim that is admitted counts its execution first.                    *)
LEMMA ClaimLease ==
  ASSUME TInv, TInv', LeaseInv, NEW s \in Slots, Claim(s)
  PROVE  LeaseInv'
<1>1. CASE UNCHANGED attempt
  BY <1>1, WorkersKept, LeaseKept
<1>2. ASSUME NEW a \in Attempt, a = slot[s].att, MayExecute(a),
             attempt' = [attempt EXCEPT ![a].executions = @ + 1,
                                        ![a].heartbeat = "fresh"],
             slot' = [slot EXCEPT ![s].pc = "running"]
      PROVE  LeaseInv'
  <2>1. /\ \A n \in Attempt : /\ attempt'[n].state = attempt[n].state
                              /\ n # a => attempt'[n].executions
                                            = attempt[n].executions
        /\ attempt'[a].executions = attempt[a].executions + 1
    <3>1. attempt \in [Attempt -> AttemptRow]
      BY DEF TInv, TypeOK
    <3> QED
      BY <1>2, <3>1 DEF AttemptRow
  <2>2. /\ slot'[s].pc = "running" /\ \A t \in Slots : slot'[t].att = slot[t].att
        /\ \A t \in Slots \ {s} : slot'[t] = slot[t]
    BY <1>2 DEF TInv, TypeOK, SlotState
  <2>3. row' = row /\ slot[s].pc = "picked"
    BY DEF Claim
  <2>4. \A n \in Attempt : row'[n] => Exists(n)'
    BY <2>1, <2>3 DEF LeaseInv, Exists
  <2>5. \A t \in Slots : slot'[t].pc # "free" => attempt'[slot'[t].att].state # "absent"
    BY <2>1, <2>2, <2>3 DEF LeaseInv, TInv, AtWork
  <2>6. ASSUME NEW n \in Attempt
        PROVE  Cardinality(Running(n)') <= attempt'[n].executions
    <3>1. attempt[n].executions \in Nat /\ attempt'[n].executions \in Nat
      BY ExecutionsType
    <3>2. /\ IsFiniteSet(Running(n)) /\ Cardinality(Running(n)) \in Nat
          /\ Cardinality(Running(n)) <= attempt[n].executions
      BY RunningFinite DEF LeaseInv
    <3>3. CASE n = a
      <4>1. Running(n)' = Running(n) \cup {s} /\ s \notin Running(n)
        BY <1>2, <2>2, <2>3, <3>3 DEF Running
      <4>2. Cardinality(Running(n)') = Cardinality(Running(n)) + 1
        BY <3>2, <4>1, FS_AddElement
      <4> HIDE DEF Running
      <4> QED
        BY <2>1, <3>1, <3>2, <3>3, <4>2
    <3>4. CASE n # a
      <4>1. Running(n)' = Running(n)
        BY <1>2, <2>2, <2>3, <3>4 DEF Running
      <4> QED
        BY <2>1, <3>2, <3>4, <4>1
    <3> QED
      BY <3>3, <3>4
  <2> QED
    BY <2>4, <2>5, <2>6 DEF LeaseInv
<1>3. slot[s].att \in Attempt
  BY DEF Claim, TInv, AtWork
<1> QED
  BY <1>1, <1>2, <1>3 DEF Claim

LEMMA StepLease ==
  ASSUME TInv, LeaseInv, [Next]_vars
  PROVE  LeaseInv'
<1>0. TInv'
  BY StepTInv
<1>1. CASE \E s \in Slots : Claim(s)
  BY <1>0, <1>1, ClaimLease
<1>2. CASE \/ \E a \in Attempt : Dispatch(a) \/ Lapse(a) \/ BrokerLoses(a)
           \/ \E s \in Slots : WorkerStep(s) /\ ~Claim(s)
           \/ \E s \in Publishers : Publish(s)
  BY <1>0, <1>2, WorkersKept, LeaseKept DEF WorkerStep
<1>3. CASE \/ \E m \in Monitors : MonitorStep(m)
           \/ \E r \in Reapers : ReaperStep(r)
           \/ \E o \in Operators : Load(o) \/ Requeue(o)
           \/ \E p \in Handlers : ProcDies(p) \/ HandlerFails(p)
  BY <1>0, <1>3, OthersKept, LeaseKept
<1>4. CASE UNCHANGED vars
  <2>1. RowsKept /\ SlotsKept /\ MessagesKept
    BY <1>4 DEF vars, RowsKept, SlotsKept, MessagesKept, Exists
  <2> QED
    BY <1>0, <2>1, LeaseKept
<1> QED
  BY <1>1, <1>2, <1>3, <1>4 DEF Next, WorkerStep

LEMMA InitLease == Init => LeaseInv
<1> SUFFICES ASSUME Init PROVE LeaseInv
  OBVIOUS
<1>1. ASSUME NEW a \in Attempt, row[a] PROVE Exists(a)
  <2>1. PICK st \in {"SCHEDULED", "QUEUED"} :
          /\ attempt = [n \in Attempt |-> FreshRow(IF n = 1 THEN st ELSE "absent")]
          /\ row = [n \in Attempt |-> n = 1 /\ st = "QUEUED"]
    BY DEF Init
  <2>2. attempt[a] = FreshRow("QUEUED")
    BY <1>1, <2>1
  <2> QED
    BY <2>2 DEF Exists, FreshRow
<1>2. \A s \in Slots : slot[s].pc = "free"
  BY DEF Init, FreeSlot
<1>3. \A a \in Attempt : attempt[a].executions = 0
  BY DEF Init, FreshRow
<1>4. \A a \in Attempt : Running(a) = {}
  BY <1>2 DEF Running
<1> QED
  BY <1>1, <1>2, <1>3, <1>4, FS_EmptySet DEF LeaseInv

(* The compare-and-swap of lease._claim bounds the executions that go on   *)
(* side by side, for any number of clusters: it holds without Solo, for no *)
(* transaction resets a count that a worker relies on.                     *)
THEOREM DeliveriesAreAdmitted == Spec => []AdmittedDeliveries
<1>1. TInv /\ LeaseInv => AdmittedDeliveries
  <2> SUFFICES ASSUME TInv, LeaseInv, NEW a \in Attempt
               PROVE  Cardinality(Running(a)) <= MaxExecutions
    BY DEF AdmittedDeliveries, Running
  <2>1. attempt[a].executions \in 0..MaxExecutions
    BY DEF TInv, TypeOK, AttemptRow
  <2>2. Cardinality(Running(a)) <= attempt[a].executions
    BY DEF LeaseInv
  <2>3. Cardinality(Running(a)) \in Nat
    BY RunningFinite
  <2> QED
    BY <2>1, <2>2, <2>3, ConstantsAssumption
<1>2. TInv /\ LeaseInv /\ [Next]_vars => LeaseInv'
  BY StepLease
<1> QED
  BY <1>1, <1>2, InitLease, TInvHolds, PTL DEF Spec
-----------------------------------------------------------------------------
(* Clusters that race.  With nobody requeueing and nothing published, any  *)
(* number of reapers may act on what they read before the lock: a stale    *)
(* reap can rewrite a failure, but it opens no attempt.                    *)

WithinPolicy == \A a \in Attempt : Exists(a) => a = 1 \/ a <= RetryLimit

SuccessCloses == status = "SUCCEEDED" => \A a \in Attempt : ~Unresolved(a)

RaceSeries == Contiguous /\ OneOpenAttempt /\ SuccessCloses /\ WithinPolicy

(* An attempt a process is at work on, or that has an outcome, exists.     *)
Known ==
  /\ \A p \in Handlers : proc[p].pc # "idle" => attempt[proc[p].att].state # "absent"
  /\ \A a \in Attempt : attempt[a].success # "none" => Exists(a)

Unpublished ==
  /\ \A a \in Attempt : attempt[a].committed = FALSE
  /\ \A p \in Handlers : proc[p].pc # "idle" => proc[p].committed = FALSE

WorkInv == TInv /\ LeaseInv /\ Known /\ Unpublished

RaceInv == WorkInv /\ RaceSeries

(* What a step may do to the series of attempts: nothing, resolve the open *)
(* attempt with a success, or record a failure and schedule the next.      *)
SeriesStays ==
  /\ \A n \in Attempt : /\ Exists(n)' <=> Exists(n)
                        /\ attempt'[n].success = attempt[n].success
  /\ status' = status \/ (status # "SUCCEEDED" /\ status' # "SUCCEEDED")

Succeeds(a) ==
  /\ Unresolved(a) /\ status' = "SUCCEEDED"
  /\ attempt'[a].state = attempt[a].state /\ attempt'[a].success = "ok"
  /\ \A n \in Attempt \ {a} : SameAt(n)

FailureRecorded(a) ==
  /\ Exists(a) /\ status # "SUCCEEDED" /\ status' # "SUCCEEDED"
  /\ attempt'[a].state = attempt[a].state /\ attempt'[a].success = "fail"
  /\ \/ \A n \in Attempt \ {a} : SameAt(n)
     \/ /\ a + 1 \in Attempt /\ ~Exists(a + 1) /\ a < RetryLimit
        /\ attempt'[a + 1].state = "SCHEDULED" /\ attempt'[a + 1].success = "none"
        /\ \A n \in Attempt \ {a, a + 1} : SameAt(n)

RaceStep ==
  \/ SeriesStays
  \/ \E a \in Attempt : Succeeds(a) \/ FailureRecorded(a)

LEMMA RaceStaysKeeps ==
  ASSUME RaceSeries, SeriesStays
  PROVE  RaceSeries' /\ (status = "SUCCEEDED" => status' = "SUCCEEDED")
<1>1. \A n : Exists(n)' <=> Exists(n)
  <2> SUFFICES ASSUME NEW n PROVE Exists(n)' <=> Exists(n)
    OBVIOUS
  <2>1. CASE n \in Attempt
    BY <2>1 DEF SeriesStays
  <2>2. CASE n \notin Attempt
    BY <2>2 DEF Exists
  <2> QED
    BY <2>1, <2>2
<1>2. \A n \in Attempt : /\ Unresolved(n)' <=> Unresolved(n)
                         /\ Latest(n)' <=> Latest(n)
  BY <1>1 DEF Unresolved, Latest, SeriesStays
<1>3. Contiguous' /\ OneOpenAttempt' /\ WithinPolicy'
  BY <1>1, <1>2 DEF RaceSeries, Contiguous, OneOpenAttempt, WithinPolicy
<1>4. SuccessCloses'
  BY <1>2 DEF RaceSeries, SuccessCloses, SeriesStays
<1> QED
  BY <1>3, <1>4 DEF RaceSeries, SeriesStays

LEMMA RaceSucceedsKeeps ==
  ASSUME RaceSeries, NEW a \in Attempt, Succeeds(a)
  PROVE  RaceSeries'
<1>1. Latest(a)
  BY DEF Succeeds, RaceSeries, OneOpenAttempt
<1>2. \A n : Exists(n)' <=> Exists(n)
  BY ExistsAt DEF Succeeds, Exists
<1>3. \A n \in Attempt : ~Unresolved(n)'
  <2> SUFFICES ASSUME NEW n \in Attempt, n # a, Unresolved(n)' PROVE FALSE
    BY DEF Succeeds, Unresolved
  <2>1. Unresolved(n)
    BY <1>2 DEF Unresolved, Succeeds, SameAt
  <2>2. Latest(n)
    BY <2>1 DEF RaceSeries, OneOpenAttempt
  <2> QED
    BY <1>1, <2>2, NewestUnique DEF RaceSeries
<1> QED
  BY <1>2, <1>3
     DEF RaceSeries, Contiguous, OneOpenAttempt, SuccessCloses, WithinPolicy

LEMMA RaceFailureKeeps ==
  ASSUME RaceSeries, NEW a \in Attempt, FailureRecorded(a)
  PROVE  RaceSeries'
<1>0. SuccessCloses'
  BY DEF FailureRecorded, SuccessCloses
<1>1. CASE \A n \in Attempt \ {a} : SameAt(n)
  <2>1. \A n : Exists(n)' <=> Exists(n)
    BY <1>1, ExistsAt DEF FailureRecorded, Exists
  <2>2. \A n \in Attempt : /\ Unresolved(n)' => Unresolved(n)
                           /\ Latest(n)' <=> Latest(n)
    BY <1>1, <2>1 DEF FailureRecorded, Unresolved, Latest, SameAt
  <2> QED
    BY <1>0, <2>1, <2>2 DEF RaceSeries, Contiguous, OneOpenAttempt, WithinPolicy
<1>2. CASE /\ a + 1 \in Attempt /\ ~Exists(a + 1) /\ a < RetryLimit
           /\ attempt'[a + 1].state = "SCHEDULED" /\ attempt'[a + 1].success = "none"
           /\ \A n \in Attempt \ {a, a + 1} : SameAt(n)
  <2>1. \A n \in Attempt : Exists(n)' <=> Exists(n) \/ n = a + 1
    BY <1>2, ExistsAt DEF FailureRecorded, Exists
  <2>2. Latest(a) /\ \A n \in Attempt : Latest(n) => n = a
    BY <1>2, NewestUnique DEF FailureRecorded, Latest, RaceSeries
  <2>3. \A n \in Attempt : Exists(n) => n <= a
    BY <2>2, ConstantsAssumption DEF RaceSeries, Contiguous, Latest, Attempt, Exists
  <2>4. \A n \in Attempt : Exists(n)' <=> n <= a + 1
    BY <2>1, <2>2, <2>3, ConstantsAssumption DEF RaceSeries, Contiguous, Latest, Attempt
  <2>5. Contiguous'
    BY <2>4, ConstantsAssumption DEF Contiguous, Attempt
  <2>6. Latest(a + 1)'
    <3>1. ~Exists(a + 1 + 1)'
      BY <2>4, ExistsAt, ConstantsAssumption DEF Attempt
    <3> QED
      BY <1>2, <2>1, <3>1 DEF Latest
  <2>7. \A n \in Attempt : Unresolved(n)' => n = a + 1
    <3> SUFFICES ASSUME NEW n \in Attempt, n # a + 1, Unresolved(n)' PROVE FALSE
      OBVIOUS
    <3>1. n # a /\ SameAt(n)
      BY <1>2 DEF FailureRecorded, Unresolved
    <3>2. Unresolved(n)
      BY <2>1, <3>1 DEF Unresolved, SameAt
    <3> QED
      BY <2>2, <3>1, <3>2 DEF RaceSeries, OneOpenAttempt
  <2>8. OneOpenAttempt'
    BY <2>6, <2>7 DEF OneOpenAttempt
  <2>9. WithinPolicy'
    BY <1>2, <2>1, ConstantsAssumption DEF RaceSeries, WithinPolicy, Attempt
  <2> QED
    BY <1>0, <2>5, <2>8, <2>9 DEF RaceSeries
<1> QED
  BY <1>1, <1>2 DEF FailureRecorded

LEMMA RaceStepKeeps ==
  ASSUME RaceSeries, RaceStep
  PROVE  RaceSeries' /\ (status = "SUCCEEDED" => status' = "SUCCEEDED")
<1>1. CASE SeriesStays
  BY <1>1, RaceStaysKeeps
<1>2. ASSUME NEW a \in Attempt, Succeeds(a)
      PROVE  RaceSeries' /\ status' = "SUCCEEDED"
  BY <1>2, RaceSucceedsKeeps DEF Succeeds
<1>3. ASSUME NEW a \in Attempt, FailureRecorded(a)
      PROVE  RaceSeries' /\ status # "SUCCEEDED"
  BY <1>3, RaceFailureKeeps DEF FailureRecorded
<1> QED
  BY <1>1, <1>2, <1>3 DEF RaceStep

(* One failure transaction of a handler or reaper.                         *)
LEMMA RaceFail ==
  ASSUME RaceInv, NEW p, NEW a \in Attempt, Exists(a), status # "SUCCEEDED",
         NEW cause, Fail(p, a, cause)
  PROVE  RaceStep
<1>1. CASE UNCHANGED <<status, attempt>>
  BY <1>1 DEF RaceStep, SeriesStays, Exists
<1>2. ASSUME NEW verdict \in Verdicts(a), ~(verdict = "PENDING" /\ Exists(a + 1)),
             SettleFailed(a, cause, verdict)
      PROVE  FailureRecorded(a)
  <2>1. attempt'[a].state = attempt[a].state /\ attempt'[a].success = "fail"
    BY <1>2 DEF SettleFailed, RaceInv, WorkInv, TInv, TypeOK, AttemptRow
  <2>2. status' = verdict /\ verdict # "SUCCEEDED"
    BY <1>2 DEF SettleFailed, Verdicts
  <2>3. CASE verdict # "PENDING"
    <3>1. \A n \in Attempt \ {a} : SameAt(n)
      BY <1>2, <2>3 DEF SettleFailed, SameAt
    <3> QED
      BY <2>1, <2>2, <3>1 DEF FailureRecorded
  <2>4. CASE verdict = "PENDING"
    <3>1. a + 1 \in Attempt /\ a < RetryLimit
      BY <2>4, RetryFits, ConstantsAssumption DEF Verdicts, Attempt
    <3>2. attempt'[a + 1] = FreshRow("SCHEDULED")
      BY <1>2, <2>4, <3>1, ConstantsAssumption DEF SettleFailed, Attempt
    <3>3. \A n \in Attempt \ {a, a + 1} : SameAt(n)
      BY <1>2 DEF SettleFailed, SameAt
    <3>4. attempt'[a + 1].state = "SCHEDULED" /\ attempt'[a + 1].success = "none"
      BY <3>2 DEF FreshRow
    <3>5. ~Exists(a + 1)
      BY <1>2, <2>4
    <3> QED
      BY <2>1, <2>2, <2>4, <3>1, <3>3, <3>4, <3>5 DEF FailureRecorded
  <2> QED
    BY <2>3, <2>4
<1> QED
  BY <1>1, <1>2 DEF Fail, RaceStep

LEMMA RaceHandlers ==
  ASSUME RaceInv, NEW p \in Handlers, HandlerStep(p) \/ Reap(p)
  PROVE  RaceStep
<1> DEFINE a == proc[p].att
<1>1. CASE UNCHANGED <<status, attempt>>
  BY <1>1 DEF RaceStep, SeriesStays, Exists
<1>2. CASE MarkRouted(p)
  BY <1>2 DEF MarkRouted, RaceStep, SeriesStays, Exists, RaceInv, WorkInv, TInv, TypeOK,
              AttemptRow
<1>3. CASE Resolve(p) /\ Resolvable(a)
  <2>1. a \in Attempt /\ Exists(a) /\ Unresolved(a)
    BY <1>3 DEF Resolve, Resolvable, RaceInv, WorkInv, TInv, AtWork, Known, Exists, Unresolved
  <2>2. status # "SUCCEEDED"
    BY <2>1 DEF RaceInv, WorkInv, RaceSeries, SuccessCloses
  <2>3. CASE attempt' = [attempt EXCEPT ![a].success = "ok"] /\ status' = "SUCCEEDED"
    <3>1. Succeeds(a)
      BY <2>1, <2>3 DEF Succeeds, SameAt, RaceInv, WorkInv, TInv, TypeOK, AttemptRow
    <3> QED
      BY <2>1, <3>1 DEF RaceStep
  <2>4. CASE Fail(p, a, "raised")
    BY <2>1, <2>2, <2>4, RaceFail
  <2> QED
    BY <1>3, <2>3, <2>4 DEF Resolve
<1>4. CASE Reap(p) /\ StillLost(a)
  <2>1. a \in Attempt /\ Exists(a) /\ status # "SUCCEEDED" /\ ~Published(p)
    BY <1>4 DEF Reap, StillLost, Published, RaceInv, WorkInv, TInv, AtWork, Known, Exists,
                Unpublished
  <2> QED
    BY <1>4, <2>1, RaceFail DEF Reap
<1> QED
  BY <1>1, <1>2, <1>3, <1>4 DEF HandlerStep, Resolve, Reap, DispatchHook

LEMMA RaceWorkers ==
  ASSUME WorkInv,
         \/ \E a \in Attempt : Dispatch(a) \/ Lapse(a) \/ BrokerLoses(a)
         \/ \E s \in Slots : WorkerStep(s)
  PROVE  SeriesStays /\ Unpublished' /\ proc' = proc
<1> DEFINE Committed == \A n \in Attempt : attempt'[n].committed = attempt[n].committed
<1>0. attempt \in [Attempt -> AttemptRow]
  BY DEF WorkInv, TInv, TypeOK
<1>1. proc' = proc
  BY DEF Dispatch, Lapse, BrokerLoses, WorkerStep, Deliver, Claim, Beat, Return,
         WorkerDies
<1>2. ASSUME NEW a \in Attempt, Dispatch(a) PROVE SeriesStays /\ Committed
  <2>1. status' = status \/ (status # "SUCCEEDED" /\ status' # "SUCCEEDED")
    BY <1>2 DEF Dispatch, StatusOnceQueued
  <2>2. attempt[a].state = "SCHEDULED"
        /\ attempt' = [attempt EXCEPT ![a].state = "QUEUED"]
    BY <1>2 DEF Dispatch
  <2> QED
    BY <1>0, <2>1, <2>2 DEF SeriesStays, Exists, AttemptRow
<1>3. ASSUME UNCHANGED status,
             \/ \E a : attempt' = [attempt EXCEPT ![a].heartbeat = "stale"]
             \/ \E a : attempt' = [attempt EXCEPT ![a].heartbeat = "fresh"]
             \/ \E a : attempt' = [attempt EXCEPT ![a].executions = @ + 1,
                                                  ![a].heartbeat = "fresh"]
             \/ \E a, b : attempt' = [attempt EXCEPT ![a].returned = b]
             \/ UNCHANGED attempt
      PROVE  SeriesStays /\ Committed
  <2>1. \A n \in Attempt : /\ attempt'[n].state = attempt[n].state
                           /\ attempt'[n].success = attempt[n].success
                           /\ attempt'[n].committed = attempt[n].committed
    <3>1. CASE \E a : attempt' = [attempt EXCEPT ![a].heartbeat = "stale"]
      BY <1>0, <3>1 DEF AttemptRow
    <3>2. CASE \E a : attempt' = [attempt EXCEPT ![a].heartbeat = "fresh"]
      BY <1>0, <3>2 DEF AttemptRow
    <3>3. CASE \E a : attempt' = [attempt EXCEPT ![a].executions = @ + 1,
                                                ![a].heartbeat = "fresh"]
      BY <1>0, <3>3 DEF AttemptRow
    <3>4. CASE \E a, b : attempt' = [attempt EXCEPT ![a].returned = b]
      BY <1>0, <3>4 DEF AttemptRow
    <3> QED
      BY <1>3, <3>1, <3>2, <3>3, <3>4
  <2> QED
    BY <1>3, <2>1 DEF SeriesStays, Exists
<1>4. ASSUME \/ \E a \in Attempt : Lapse(a) \/ BrokerLoses(a)
             \/ \E s \in Slots : WorkerStep(s)
      PROVE  SeriesStays /\ Committed
  <2>1. ASSUME NEW a \in Attempt, Lapse(a) \/ BrokerLoses(a)
        PROVE  SeriesStays /\ Committed
    BY <1>3, <2>1 DEF Lapse, BrokerLoses
  <2>2. ASSUME NEW s \in Slots, WorkerStep(s) PROVE SeriesStays /\ Committed
    <3>1. CASE (\E a \in Attempt : Deliver(s, a)) \/ WorkerDies(s)
      BY <1>3, <3>1 DEF Deliver, WorkerDies
    <3>2. CASE Claim(s)
      <4>1. PICK a : a = slot[s].att
        OBVIOUS
      <4>2. /\ UNCHANGED status
            /\ \/ attempt' = [attempt EXCEPT ![a].executions = @ + 1,
                                            ![a].heartbeat = "fresh"]
               \/ UNCHANGED attempt
        BY <3>2, <4>1 DEF Claim
      <4> QED
        BY <1>3, <4>2
    <3>3. CASE Beat(s)
      <4>1. PICK a : a = slot[s].att
        OBVIOUS
      <4> QED
        BY <1>3, <3>3, <4>1 DEF Beat
    <3>4. CASE \E out \in {"ok", "fail"} : Return(s, out)
      <4>1. PICK a, b : a = slot[s].att
                        /\ attempt' = [attempt EXCEPT ![a].returned = b]
        BY <3>4 DEF Return
      <4>2. UNCHANGED status
        BY <3>4 DEF Return
      <4> QED
        BY <1>3, <4>1, <4>2
    <3> QED
      BY <2>2, <3>1, <3>2, <3>3, <3>4 DEF WorkerStep
  <2> QED
    BY <1>4, <2>1, <2>2
<1>5. SeriesStays /\ Committed
  BY <1>2, <1>4
<1> QED
  BY <1>1, <1>5 DEF WorkInv, Unpublished

(* What a handler is at work on after a step.                              *)
WorkKept ==
  \A q \in Handlers : proc'[q].pc # "idle" =>
    \/ /\ proc[q].pc # "idle" /\ proc'[q].att = proc[q].att
       /\ proc'[q].committed = proc[q].committed
    \/ /\ proc'[q].att \in Attempt /\ attempt[proc'[q].att].state # "absent"
       /\ proc'[q].committed = FALSE

LEMMA RaceMoves ==
  ASSUME TInv, NEW p \in Handlers, NEW pc, proc[p].pc # "idle",
         Finish(p) \/ MoveTo(p, pc) \/ proc' = [proc EXCEPT ![p] = Idle]
  PROVE  WorkKept
<1>1. p \in Proc /\ proc[p] \in ProcState /\ \A q \in Handlers : q \in Proc
  BY DEF TInv, TypeOK, Proc
<1>2. CASE Finish(p)
  BY <1>1, <1>2 DEF Finish, Done, Idle, WorkKept, TInv, TypeOK, ProcState
<1>3. CASE MoveTo(p, pc)
  BY <1>1, <1>3 DEF MoveTo, WorkKept, TInv, TypeOK, ProcState
<1>4. CASE proc' = [proc EXCEPT ![p] = Idle]
  BY <1>1, <1>4 DEF Idle, WorkKept, TInv, TypeOK
<1> QED
  BY <1>2, <1>3, <1>4

LEMMA RaceHandlersMove ==
  ASSUME TInv, NEW p \in Handlers,
         HandlerStep(p) \/ Reap(p) \/ ProcDies(p) \/ HandlerFails(p)
  PROVE  WorkKept
<1>1. proc[p].pc # "idle"
  BY DEF HandlerStep, Resolve, DispatchHook, MarkRouted, Reap, ProcDies, HandlerFails
<1>2. \/ Finish(p) \/ MoveTo(p, "hook") \/ MoveTo(p, "mark")
      \/ proc' = [proc EXCEPT ![p] = Idle]
  BY DEF HandlerStep, Resolve, DispatchHook, MarkRouted, Reap, ProcDies, HandlerFails,
         Fail, AfterFailure
<1> QED
  BY <1>1, <1>2, RaceMoves

(* What a failure or a success leaves of the receipts.                     *)
LEMMA FailUnpublished ==
  ASSUME WorkInv, NEW p, NEW a \in Attempt, NEW cause, Fail(p, a, cause),
         NEW n \in Attempt
  PROVE  attempt'[n].committed = FALSE
<1>1. CASE UNCHANGED attempt
  BY <1>1 DEF WorkInv, Unpublished
<1>2. ASSUME NEW verdict \in Verdicts(a), SettleFailed(a, cause, verdict)
      PROVE  attempt'[n].committed = FALSE
  <2>1. attempt[n] \in AttemptRow /\ attempt[n].committed = FALSE
    BY DEF WorkInv, Unpublished, TInv, TypeOK
  <2>2. \/ n = a /\ attempt'[n] = [attempt[n] EXCEPT !.success = "fail", !.cause = cause,
                                              !.routed = @ \/ Absorbed(verdict)]
        \/ attempt'[n] = FreshRow("SCHEDULED")
        \/ attempt'[n] = attempt[n]
    BY <1>2 DEF SettleFailed
  <2>3. FreshRow("SCHEDULED").committed = FALSE
    BY DEF FreshRow
  <2>4. CASE n = a /\ attempt'[n] = [attempt[n] EXCEPT !.success = "fail", !.cause = cause,
                                              !.routed = @ \/ Absorbed(verdict)]
    BY <2>1, <2>4 DEF AttemptRow
  <2> QED
    BY <2>1, <2>2, <2>3, <2>4
<1> QED
  BY <1>1, <1>2 DEF Fail

LEMMA RaceUnpublished ==
  ASSUME WorkInv, NEW p \in Handlers, HandlerStep(p) \/ Reap(p), NEW n \in Attempt
  PROVE  attempt'[n].committed = FALSE
<1> USE DEF WorkInv, TInv, TypeOK, AttemptRow, Unpublished
<1>1. CASE UNCHANGED attempt
  BY <1>1
<1>2. CASE MarkRouted(p)
  BY <1>2 DEF MarkRouted
<1>3. CASE Resolve(p)
  <2>1. proc[p].att \in Attempt
    BY <1>3 DEF Resolve, AtWork
  <2>2. CASE attempt' = [attempt EXCEPT ![proc[p].att].success = "ok"]
    BY <2>1, <2>2
  <2> QED
    BY <1>1, <1>3, <2>1, <2>2, FailUnpublished DEF Resolve
<1>4. CASE Reap(p)
  <2>1. proc[p].att \in Attempt
    BY <1>4 DEF Reap, AtWork
  <2>2. CASE attempt' = [attempt EXCEPT ![proc[p].att] =
               [@ EXCEPT !.success = "ok", !.cause = "none", !.routed = TRUE]]
    BY <2>1, <2>2
  <2> QED
    BY <1>1, <1>4, <2>1, <2>2, FailUnpublished DEF Reap
<1> QED
  BY <1>1, <1>2, <1>3, <1>4 DEF HandlerStep, DispatchHook

LEMMA RaceOthers ==
  ASSUME WorkInv,
         \/ \E m \in Monitors : \/ \E s \in Slots : SaveResult(m, s) \/ SaveFails(m, s)
                                \/ Acknowledge(m)
         \/ \E r \in Reapers, a \in Attempt :
              Reconcile(r, a) \/ Replay(r, a) \/ Sweep(r, a)
  PROVE  WorkKept /\ UNCHANGED <<status, attempt>>
<1> USE DEF WorkInv, TInv, TypeOK
<1>1. UNCHANGED <<status, attempt>>
  BY DEF SaveResult, SaveFails, Acknowledge, Reconcile, Replay, Sweep
<1>2. ASSUME NEW m \in Monitors, NEW s \in Slots, SaveResult(m, s) \/ SaveFails(m, s)
      PROVE  WorkKept
  <2>1. slot[s].att \in Attempt /\ attempt[slot[s].att].state # "absent"
    BY <1>2 DEF SaveResult, SaveFails, AtWork, LeaseInv
  <2>2. PICK pc : proc' = [proc EXCEPT ![m] = At(pc, slot[s].att, slot[s].out)]
    BY <1>2 DEF SaveResult, SaveFails
  <2> QED
    BY <2>1, <2>2 DEF At, Idle, WorkKept, Proc
<1>3. ASSUME NEW m \in Monitors, Acknowledge(m) PROVE WorkKept
  BY <1>3 DEF Acknowledge, Idle, WorkKept, Proc
<1>4. ASSUME NEW r \in Reapers, NEW a \in Attempt,
             Reconcile(r, a) \/ Replay(r, a) \/ Sweep(r, a)
      PROVE  WorkKept
  <2>1. attempt[a].state # "absent"
    BY <1>4 DEF Reconcile, Unhandled, Replay, Unrouted, Sweep, Orphaned, Known,
                Unresolved, Exists
  <2>2. \A pc, out : At(pc, a, out).att = a /\ At(pc, a, out).committed = FALSE
    BY DEF At, Idle
  <2>3. PICK w : proc' = [proc EXCEPT ![r] = w] /\ w.att = a /\ w.committed = FALSE
    <3>1. CASE Reconcile(r, a) \/ Replay(r, a)
      <4>1. PICK pc, out : proc' = [proc EXCEPT ![r] = At(pc, a, out)]
        BY <3>1 DEF Reconcile, Replay
      <4> QED
        BY <2>2, <4>1
    <3>2. CASE Sweep(r, a)
      <4> DEFINE w == [pc |-> "reap", att |-> a, out |-> "fail",
                       returned |-> attempt[a].returned,
                       committed |-> attempt[a].committed]
      <4>1. proc' = [proc EXCEPT ![r] = w]
        BY <3>2 DEF Sweep
      <4>2. w.att = a /\ w.committed = FALSE
        BY DEF Unpublished
      <4> HIDE DEF w
      <4> QED
        BY <4>1, <4>2
    <3> QED
      BY <1>4, <3>1, <3>2
  <2> QED
    BY <2>1, <2>3 DEF WorkKept, Proc
<1> QED
  BY <1>1, <1>2, <1>3, <1>4

LEMMA KnownKept ==
  ASSUME RaceInv, TInv', RaceStep, WorkKept
  PROVE  Known'
<1>0. \A n \in Attempt : Exists(n) => Exists(n)'
  BY ExistsAt DEF RaceStep, SeriesStays, Succeeds, FailureRecorded, Exists, SameAt
<1>1. ASSUME NEW p \in Handlers, proc'[p].pc # "idle"
      PROVE  attempt'[proc'[p].att].state # "absent"
  <2>1. PICK a \in Attempt : a = proc'[p].att
    BY <1>1 DEF TInv, AtWork
  <2>2. Exists(a)
    BY <1>1, <2>1 DEF WorkKept, RaceInv, WorkInv, Known, Exists
  <2> QED
    BY <1>0, <2>1, <2>2 DEF Exists
<1>2. ASSUME NEW n \in Attempt, attempt'[n].success # "none"
      PROVE  Exists(n)'
  <2>1. CASE SeriesStays
    BY <1>2, <2>1 DEF SeriesStays, RaceInv, WorkInv, Known
  <2>2. ASSUME NEW a \in Attempt, Succeeds(a) \/ FailureRecorded(a)
        PROVE  Exists(n)
    BY <1>2, <2>2
       DEF Succeeds, FailureRecorded, Unresolved, SameAt, RaceInv, WorkInv, Known
  <2> QED
    BY <1>0, <2>1, <2>2 DEF RaceStep
<1> QED
  BY <1>1, <1>2 DEF Known

LEMMA StepRace ==
  ASSUME Operators = {}, ~NodeTask, RaceInv, [Next]_vars
  PROVE  RaceInv' /\ (status = "SUCCEEDED" => status' = "SUCCEEDED")
<1> WorkInv /\ TInv
  BY DEF RaceInv, WorkInv
<1>0. TInv' /\ LeaseInv'
  BY StepTInv, StepLease DEF WorkInv
<1> DEFINE Fine == RaceStep /\ WorkKept /\ Unpublished'
<1>1. ASSUME \/ \E a \in Attempt : Dispatch(a) \/ Lapse(a) \/ BrokerLoses(a)
             \/ \E s \in Slots : WorkerStep(s)
      PROVE  Fine
  BY <1>1, RaceWorkers DEF RaceStep, WorkKept
<1>2. ASSUME NEW p \in Handlers, HandlerStep(p) \/ Reap(p)
      PROVE  Fine
  <2>1. RaceStep /\ WorkKept
    BY <1>2, RaceHandlers, RaceHandlersMove DEF RaceInv, WorkInv
  <2>2. \A n \in Attempt : attempt'[n].committed = FALSE
    BY <1>2, RaceUnpublished
  <2>3. \A q \in Handlers : proc'[q].pc # "idle" => proc'[q].committed = FALSE
    BY <2>1 DEF WorkKept, RaceInv, WorkInv, Unpublished
  <2> QED
    BY <2>1, <2>2, <2>3 DEF Unpublished
<1>3. ASSUME WorkKept, UNCHANGED <<status, attempt>> PROVE Fine
  BY <1>3 DEF RaceStep, SeriesStays, Exists, WorkKept, RaceInv, WorkInv, Unpublished
<1>4. ASSUME NEW p \in Handlers, ProcDies(p) \/ HandlerFails(p) PROVE Fine
  BY <1>3, <1>4, RaceHandlersMove DEF ProcDies, HandlerFails, RaceInv, WorkInv
<1>5. ASSUME \E m \in Monitors : MonitorStep(m) PROVE Fine
  BY <1>2, <1>3, <1>5, RaceOthers DEF MonitorStep, Handlers
<1>6. ASSUME \E r \in Reapers : ReaperStep(r) PROVE Fine
  BY <1>2, <1>3, <1>6, RaceOthers DEF ReaperStep, Handlers
<1>7. ASSUME UNCHANGED vars PROVE Fine
  BY <1>3, <1>7 DEF vars, WorkKept
<1>8. Publishers = {}
  BY DEF Publishers
<1>9. Fine
  BY <1>1, <1>4, <1>5, <1>6, <1>7, <1>8 DEF Next
<1>10. RaceSeries' /\ (status = "SUCCEEDED" => status' = "SUCCEEDED")
  BY <1>9, RaceStepKeeps DEF RaceInv, WorkInv
<1>11. Known'
  BY <1>0, <1>9, KnownKept
<1> QED
  BY <1>0, <1>9, <1>10, <1>11 DEF RaceInv, WorkInv

LEMMA InitRace == Init => RaceInv
<1> SUFFICES ASSUME Init PROVE RaceInv
  OBVIOUS
<1>1. TInv /\ LeaseInv
  BY InitTInv, InitLease
<1>2. IInv
  BY InitIInv
<1>3. \A a \in Attempt : /\ attempt[a].success = "none"
                         /\ attempt[a].committed = FALSE
                         /\ attempt[a].state # "absent" => a = 1
  BY DEF Init, FreshRow
<1>4. status # "SUCCEEDED" /\ \A p \in Handlers : proc[p].pc = "idle"
  BY DEF Init, Idle, Proc
<1>5. RaceSeries
  BY <1>2, <1>3, <1>4
     DEF IInv, SeriesInv, RaceSeries, SuccessCloses, WithinPolicy, Exists
<1> QED
  BY <1>1, <1>3, <1>4, <1>5 DEF RaceInv, WorkInv, Known, Unpublished

(* Without requeues and receipts, any number of clusters, monitors and     *)
(* reapers keep a series within its retry policy and never take a success  *)
(* back: the unique attempt number absorbs the second retry of a stale     *)
(* reap (scheduler.schedule_attempt), the status re-check under the lock a *)
(* reap that comes after the success (reaper._reap_one).                   *)
THEOREM RacingClustersAreSound ==
  ASSUME Operators = {}, ~NodeTask
  PROVE  Spec => SeriesIsSound
<1>1. RaceInv /\ [Next]_vars => RaceInv'
  BY StepRace
<1>2. RaceInv => AttemptsWithinPolicy
  BY DEF RaceInv, WorkInv, RaceSeries, WithinPolicy, AttemptsWithinPolicy
<1>3. RaceInv /\ [Next]_vars => [status = "SUCCEEDED" => status' = "SUCCEEDED"]_vars
  BY StepRace
<1> QED
  BY <1>1, <1>2, <1>3, InitRace, PTL DEF Spec, SeriesIsSound, SucceededIsFinal
-----------------------------------------------------------------------------
(* routed.  A resolution either leaves it unset, for the handler to set    *)
(* last, or has already scheduled the attempt that takes over.             *)

RoutedOK ==
  /\ \A a \in Attempt : attempt[a].routed => attempt[a].success # "none"
  /\ \A p \in Handlers : proc[p].pc = "mark" => HookOf(proc[p].out) \in hooks
  /\ RoutedMeansDispatched

(* What holds of a step, except for what it routes or marks itself.        *)
RoutedStays(a) ==
  attempt'[a].routed => attempt[a].routed /\ attempt'[a].success = attempt[a].success

MarkStays(p) ==
  proc'[p].pc = "mark" => proc[p].pc = "mark" /\ proc'[p].out = proc[p].out

LEMMA ExistsStays ==
  ASSUME TInv, [Next]_vars
  PROVE  \A n : Exists(n) => Exists(n)'
<1>1. ASSUME RowsKept PROVE \A n : Exists(n) => Exists(n)'
  BY <1>1 DEF RowsKept, Exists
<1>2. ASSUME NEW s \in Slots, Claim(s) PROVE \A n : Exists(n) => Exists(n)'
  BY <1>2 DEF Claim, Exists, TInv, TypeOK, AttemptRow
<1>3. CASE UNCHANGED vars
  BY <1>3 DEF vars, Exists
<1> QED
  BY <1>1, <1>2, <1>3, WorkersKept, OthersKept DEF Next, WorkerStep

LEMMA RoutedKept ==
  ASSUME RoutedOK, \A n : Exists(n) => Exists(n)', hooks \subseteq hooks',
         \A a \in Attempt :
           \/ RoutedStays(a)
           \/ /\ attempt'[a].success # "none"
              /\ Exists(a + 1)' \/ HookOf(attempt'[a].success) \in hooks',
         \A p \in Handlers : MarkStays(p) \/ HookOf(proc'[p].out) \in hooks'
  PROVE  RoutedOK'
<1>1. ASSUME NEW a \in Attempt, attempt'[a].routed
      PROVE  /\ attempt'[a].success # "none"
             /\ Exists(a + 1)' \/ HookOf(attempt'[a].success) \in hooks'
  BY <1>1 DEF RoutedOK, RoutedMeansDispatched, RoutedStays
<1>2. ASSUME NEW p \in Handlers, proc'[p].pc = "mark"
      PROVE  HookOf(proc'[p].out) \in hooks'
  BY <1>2 DEF RoutedOK, MarkStays
<1> QED
  BY <1>1, <1>2 DEF RoutedOK, RoutedMeansDispatched, HookOf

LEMMA RoutedWorkers ==
  ASSUME TInv, NEW n \in Attempt,
         \/ \E a \in Attempt : Dispatch(a) \/ Lapse(a) \/ BrokerLoses(a)
         \/ \E s \in Slots : WorkerStep(s)
         \/ \E s \in Publishers : Publish(s)
         \/ \E o \in Operators : Load(o) \/ Requeue(o)
  PROVE  RoutedStays(n)
<1> USE DEF TInv, TypeOK, AttemptRow
<1>1. ASSUME NEW a \in Attempt, Dispatch(a) \/ Lapse(a) PROVE RoutedStays(n)
  BY <1>1 DEF Dispatch, Lapse, RoutedStays
<1>2. ASSUME NEW s \in Slots, Claim(s) PROVE RoutedStays(n)
  BY <1>2 DEF Claim, RoutedStays
<1>3. ASSUME NEW s \in Slots, Beat(s) PROVE RoutedStays(n)
  BY <1>3 DEF Beat, RoutedStays
<1>4. ASSUME NEW s \in Slots, Publish(s) PROVE RoutedStays(n)
  BY <1>4 DEF Publish, RoutedStays
<1>5. ASSUME NEW s \in Slots, NEW out, Return(s, out) PROVE RoutedStays(n)
  BY <1>5 DEF Return, RoutedStays
<1>6. ASSUME NEW o \in Operators, Requeue(o) PROVE RoutedStays(n)
  <2>1. attempt'[n] = attempt[n] \/ attempt'[n] = FreshRow("SCHEDULED")
    BY <1>6 DEF Requeue
  <2> QED
    BY <2>1 DEF FreshRow, RoutedStays
<1>7. CASE UNCHANGED attempt
  BY <1>7 DEF RoutedStays
<1> QED
  BY <1>1, <1>2, <1>3, <1>4, <1>5, <1>6, <1>7
     DEF WorkerStep, Publishers, Deliver, WorkerDies, BrokerLoses, Load

LEMMA RoutedFail ==
  ASSUME IInv, Solo, RoutedOK, NEW p, Resolving(p), NEW cause,
         Fail(p, proc[p].att, cause), NEW n \in Attempt
  PROVE  \/ RoutedStays(n)
         \/ attempt'[n].success # "none" /\ Exists(n + 1)'
<1> DEFINE a == proc[p].att
<1>0. /\ a \in Attempt /\ attempt[a] \in AttemptRow /\ attempt[a].success = "none"
      /\ attempt[a].routed = FALSE
  <2>1. a \in Attempt /\ attempt[a] \in AttemptRow /\ attempt[a].success = "none"
    BY ResolvingFacts DEF Resolving
  <2> QED
    BY <2>1 DEF RoutedOK, AttemptRow
<1>1. CASE UNCHANGED attempt
  BY <1>1 DEF RoutedStays
<1>2. ASSUME NEW verdict \in Verdicts(a), ~(verdict = "PENDING" /\ Exists(a + 1)),
             SettleFailed(a, cause, verdict)
      PROVE  \/ RoutedStays(n)
             \/ attempt'[n].success # "none" /\ Exists(n + 1)'
  <2>1. CASE n = a
    <3>1. /\ attempt'[a].success = "fail"
          /\ attempt'[a].routed = (verdict = "PENDING")
      BY <1>0, <1>2 DEF SettleFailed, Absorbed, AttemptRow
    <3>2. CASE verdict = "PENDING"
      <4>1. a + 1 \in Attempt /\ a + 1 # a
        BY <1>0, <3>2, RetryFits DEF Attempt
      <4>2. attempt'[a + 1] = FreshRow("SCHEDULED")
        BY <1>2, <3>2, <4>1 DEF SettleFailed
      <4> QED
        BY <2>1, <3>1, <4>1, <4>2 DEF FreshRow, Exists
    <3> QED
      BY <2>1, <3>1, <3>2 DEF RoutedStays
  <2>2. CASE n # a
    <3>1. attempt'[n] = attempt[n] \/ attempt'[n] = FreshRow("SCHEDULED")
      BY <1>2, <2>2 DEF SettleFailed
    <3> QED
      BY <3>1 DEF FreshRow, RoutedStays
  <2> QED
    BY <2>1, <2>2
<1> QED
  BY <1>1, <1>2 DEF Fail

LEMMA RoutedHandlers ==
  ASSUME IInv, Solo, Unpublished, RoutedOK, NEW p \in Handlers,
         HandlerStep(p) \/ Reap(p), NEW n \in Attempt
  PROVE  \/ RoutedStays(n)
         \/ /\ attempt'[n].success # "none"
            /\ Exists(n + 1)' \/ HookOf(attempt'[n].success) \in hooks'
<1> DEFINE a == proc[p].att
<1>0. HandlerOK(p) /\ (proc[p].pc # "idle" => a \in Attempt)
  BY DEF IInv, TInv, AtWork
<1>1. CASE UNCHANGED attempt
  BY <1>1 DEF RoutedStays
<1>2. CASE MarkRouted(p)
  <2>1. /\ proc[p].pc = "mark" /\ a \in Attempt /\ proc[p].out = attempt[a].success
        /\ proc[p].out # "none" /\ HookOf(proc[p].out) \in hooks
    BY <1>0, <1>2 DEF MarkRouted, HandlerOK, RoutedOK, IInv, TInv, AtWork
  <2>2. /\ attempt'[n].success = attempt[n].success
        /\ n # a => attempt'[n] = attempt[n]
        /\ hooks' = hooks
    BY <1>2 DEF MarkRouted, IInv, TInv, TypeOK, AttemptRow
  <2> QED
    BY <2>1, <2>2 DEF RoutedStays
<1>3. CASE Resolve(p) /\ Resolvable(a)
  <2>1. Resolving(p) /\ a \in Attempt
    BY <1>0, <1>3 DEF Resolve, Resolvable, Resolving
  <2>2. CASE attempt' = [attempt EXCEPT ![a].success = "ok"]
    <3>1. attempt[a].routed = FALSE /\ attempt'[a].routed = attempt[a].routed
      BY <1>3, <2>1, <2>2 DEF Resolvable, RoutedOK, IInv, TInv, TypeOK, AttemptRow
    <3>2. n # a => attempt'[n] = attempt[n]
      BY <2>2 DEF IInv, TInv, TypeOK
    <3> QED
      BY <3>1, <3>2 DEF RoutedStays
  <2> QED
    BY <1>3, <2>1, <2>2, RoutedFail DEF Resolve
<1>4. CASE Reap(p) /\ StillLost(a)
  <2>1. Resolving(p) /\ ~Published(p)
    BY <1>0, <1>4 DEF Reap, StillLost, Resolving, HandlerOK, Published, Unpublished
  <2> QED
    BY <1>4, <2>1, RoutedFail DEF Reap
<1> QED
  BY <1>1, <1>2, <1>3, <1>4 DEF HandlerStep, Resolve, Reap, DispatchHook

(* Only the dispatch of its hook brings a handler to the routed flag.      *)
LEMMA Marks ==
  ASSUME TInv, ~HookMayFail, NEW q \in Handlers, [Next]_vars
  PROVE  MarkStays(q) \/ HookOf(proc'[q].out) \in hooks'
<1> USE DEF TInv, TypeOK, Proc, Handlers
<1>1. CASE proc'[q] = proc[q]
  BY <1>1 DEF MarkStays
<1>2. ASSUME NEW p \in Handlers,
             \/ Finish(p) \/ MoveTo(p, "hook")
             \/ proc' = [proc EXCEPT ![p] = Idle]
      PROVE  MarkStays(q)
  BY <1>2 DEF Finish, Done, MoveTo, Idle, MarkStays, ProcState
<1>3. ASSUME NEW p \in Handlers, DispatchHook(p)
      PROVE  MarkStays(q) \/ HookOf(proc'[q].out) \in hooks'
  <2>1. q # p => proc'[q] = proc[q]
    BY <1>3 DEF DispatchHook, MoveTo
  <2>2. HookOf(proc[p].out) \in hooks'
    BY <1>3 DEF DispatchHook
  <2>3. proc'[p].out = proc[p].out
    BY <1>3 DEF DispatchHook, MoveTo, ProcState
  <2> QED
    BY <1>1, <2>1, <2>2, <2>3
<1>4. ASSUME NEW p \in Handlers, NEW a, NEW out, NEW pc \in {"handle", "hook", "ack"},
             proc' = [proc EXCEPT ![p] = At(pc, a, out)]
      PROVE  MarkStays(q)
  BY <1>4 DEF At, Idle, MarkStays
<1>5. ASSUME NEW r \in Reapers, NEW a \in Attempt, Sweep(r, a)
      PROVE  MarkStays(q)
  BY <1>5 DEF Sweep, MarkStays
<1>6. ASSUME NEW p \in Handlers, HandlerStep(p) \/ Reap(p)
      PROVE  MarkStays(q) \/ HookOf(proc'[q].out) \in hooks'
  BY <1>2, <1>3, <1>6
     DEF HandlerStep, Resolve, MarkRouted, Reap, Fail, AfterFailure
<1>7. ASSUME NEW m \in Monitors, MonitorStep(m)
      PROVE  MarkStays(q) \/ HookOf(proc'[q].out) \in hooks'
  <2>1. ASSUME NEW s \in Slots, SaveResult(m, s) \/ SaveFails(m, s)
        PROVE  MarkStays(q)
    <3>1. \/ proc' = [proc EXCEPT ![m] = At("handle", slot[s].att, slot[s].out)]
          \/ proc' = [proc EXCEPT ![m] = At("ack", slot[s].att, slot[s].out)]
      BY <2>1 DEF SaveResult, SaveFails
    <3> QED
      BY <1>4, <3>1
  <2>2. CASE Acknowledge(m)
    BY <1>2, <2>2 DEF Acknowledge
  <2> QED
    BY <1>6, <1>7, <2>1, <2>2 DEF MonitorStep
<1>8. ASSUME NEW r \in Reapers, ReaperStep(r)
      PROVE  MarkStays(q) \/ HookOf(proc'[q].out) \in hooks'
  BY <1>4, <1>5, <1>6, <1>8 DEF ReaperStep, Reconcile, Replay
<1>9. ASSUME NEW o \in Operators, Load(o) \/ Requeue(o)
      PROVE  proc'[q] = proc[q]
  BY <1>9, ConstantsAssumption DEF Load, Requeue, MoveTo
<1>10. ASSUME NEW p \in Handlers, ProcDies(p) \/ HandlerFails(p)
       PROVE  MarkStays(q)
  BY <1>2, <1>10 DEF ProcDies, HandlerFails
<1>11. CASE UNCHANGED proc
  BY <1>1, <1>11
<1> HIDE DEF TInv, TypeOK, Proc, Handlers
<1> QED
  BY <1>1, <1>7, <1>8, <1>9, <1>10, <1>11
     DEF Next, vars, Dispatch, Lapse, BrokerLoses, WorkerStep, Deliver, Claim, Beat,
         Publish, Return, WorkerDies

(* With nothing published, no step of a task leaves a receipt behind; the  *)
(* lease and the series keep every process on an attempt that exists.      *)
LEMMA KnownFromIInv == IInv => Known
BY DEF IInv, TInv, AtWork, OnlyQueuedLeaves, HandlerOK, Known, Exists

LEMMA StepUnpublished ==
  ASSUME ~NodeTask, WorkInv, [Next]_vars
  PROVE  Unpublished'
<1> USE DEF WorkInv
<1>1. ASSUME NEW p \in Handlers, HandlerStep(p) \/ Reap(p) PROVE Unpublished'
  BY <1>1, RaceUnpublished, RaceHandlersMove DEF WorkKept, Unpublished
<1>2. ASSUME WorkKept, UNCHANGED attempt PROVE Unpublished'
  BY <1>2 DEF WorkKept, Unpublished
<1>3. CASE \/ \E a \in Attempt : Dispatch(a) \/ Lapse(a) \/ BrokerLoses(a)
           \/ \E s \in Slots : WorkerStep(s)
  BY <1>3, RaceWorkers
<1>4. CASE \E m \in Monitors : MonitorStep(m)
  BY <1>1, <1>2, <1>4, RaceOthers DEF MonitorStep, Handlers
<1>5. CASE \E r \in Reapers : ReaperStep(r)
  BY <1>1, <1>2, <1>5, RaceOthers DEF ReaperStep, Handlers
<1>6. ASSUME NEW o \in Operators, Load(o) \/ Requeue(o) PROVE Unpublished'
  <2>1. \A q \in Handlers : proc'[q] = proc[q]
    BY <1>6, ConstantsAssumption
       DEF Load, Requeue, MoveTo, TInv, TypeOK, Proc, Handlers
  <2>2. \A n \in Attempt : \/ attempt'[n] = attempt[n]
                           \/ attempt'[n] = FreshRow("SCHEDULED")
    BY <1>6 DEF Load, Requeue, TInv, TypeOK
  <2> QED
    BY <2>1, <2>2 DEF FreshRow, Unpublished
<1>7. ASSUME NEW p \in Handlers, ProcDies(p) \/ HandlerFails(p) PROVE Unpublished'
  BY <1>2, <1>7, RaceHandlersMove DEF ProcDies, HandlerFails
<1>8. CASE UNCHANGED vars
  BY <1>2, <1>8 DEF vars, WorkKept
<1> QED
  BY <1>3, <1>4, <1>5, <1>6, <1>7, <1>8 DEF Next, Publishers

RoutedInv == IInv /\ LeaseInv /\ Unpublished /\ RoutedOK

LEMMA StepRouted ==
  ASSUME Solo, ~HookMayFail, ~NodeTask, RoutedInv, [Next]_vars
  PROVE  RoutedInv'
<1>1. TInv /\ WorkInv
  BY KnownFromIInv DEF RoutedInv, IInv, WorkInv
<1>2. IInv' /\ LeaseInv' /\ Unpublished'
  BY <1>1, StepIInv, StepLease, StepUnpublished DEF RoutedInv
<1>3. hooks \subseteq hooks'
  BY DEF Next, vars, Dispatch, Lapse, BrokerLoses, WorkerStep, Deliver, Claim, Beat,
         Publish, Return, WorkerDies, MonitorStep, SaveResult, SaveFails, Acknowledge,
         ReaperStep, Reconcile, Replay, Sweep, Reap, HandlerStep, Resolve,
         DispatchHook, MarkRouted, Load, Requeue, ProcDies, HandlerFails
<1>4. ASSUME NEW n \in Attempt
      PROVE  \/ RoutedStays(n)
             \/ /\ attempt'[n].success # "none"
                /\ Exists(n + 1)' \/ HookOf(attempt'[n].success) \in hooks'
  <2>1. CASE \E p \in Handlers : HandlerStep(p) \/ Reap(p)
    BY <2>1, RoutedHandlers DEF RoutedInv
  <2>2. CASE \/ \E a \in Attempt : Dispatch(a) \/ Lapse(a) \/ BrokerLoses(a)
             \/ \E s \in Slots : WorkerStep(s)
             \/ \E s \in Publishers : Publish(s)
             \/ \E o \in Operators : Load(o) \/ Requeue(o)
    BY <1>1, <2>2, RoutedWorkers
  <2>3. CASE UNCHANGED attempt
    BY <2>3 DEF RoutedStays
  <2>4. CASE \E m \in Monitors : MonitorStep(m)
    BY <2>1, <2>3, <2>4 DEF MonitorStep, SaveResult, SaveFails, Acknowledge, Handlers
  <2>5. CASE \E r \in Reapers : ReaperStep(r)
    BY <2>1, <2>3, <2>5 DEF ReaperStep, Reconcile, Replay, Sweep, Handlers
  <2>6. CASE \/ \E p \in Handlers : ProcDies(p) \/ HandlerFails(p)
             \/ UNCHANGED vars
    BY <2>3, <2>6 DEF ProcDies, HandlerFails, vars
  <2> QED
    BY <2>2, <2>4, <2>5, <2>6 DEF Next
<1>5. RoutedOK'
  BY <1>1, <1>3, <1>4, ExistsStays, Marks, RoutedKept DEF RoutedInv
<1> QED
  BY <1>2, <1>5 DEF RoutedInv

LEMMA InitRouted == Init => RoutedInv
<1> SUFFICES ASSUME Init PROVE RoutedInv
  OBVIOUS
<1>1. IInv /\ LeaseInv /\ Unpublished
  BY InitIInv, InitLease, InitRace DEF RaceInv, WorkInv
<1>2. \A a \in Attempt : ~attempt[a].routed
  BY DEF Init, FreshRow
<1>3. \A p \in Handlers : proc[p].pc = "idle"
  BY DEF Init, Idle, Proc
<1> QED
  BY <1>1, <1>2, <1>3 DEF RoutedInv, RoutedOK, RoutedMeansDispatched

(* routed is written last: whatever crashes between the resolving commit   *)
(* and the hook, a routed attempt has had its hook dispatched or has a     *)
(* newer attempt that will (qraft_hook_handler, replay_unrouted).  For a   *)
(* task that cannot publish, with one reaper and one operator, and where   *)
(* enqueueing a hook does not fail.                                        *)
THEOREM RoutedIsDispatched ==
  ASSUME Solo, ~HookMayFail, ~NodeTask
  PROVE  Spec => []RoutedMeansDispatched
<1>1. RoutedInv /\ [Next]_vars => RoutedInv'
  BY StepRouted
<1>2. RoutedInv => RoutedMeansDispatched
  BY DEF RoutedInv, RoutedOK
<1> QED
  BY <1>1, <1>2, InitRouted, PTL DEF Spec
-----------------------------------------------------------------------------
(* A timely cluster.  With one execution to an attempt, no redelivery of   *)
(* what is held and no lapsed lease under a live worker, an attempt is in  *)
(* one pair of hands at a time, and what is reaped is over.                *)

Calm == Solo /\ Timely /\ MaxExecutions = 1

Busy(s) == slot[s].pc # "free"

(* A message is held by one slot, or by a monitor.                         *)
Alone ==
  /\ \A s, t \in Slots : Busy(s) /\ Busy(t) /\ slot[s].att = slot[t].att => s = t
  /\ \A m \in Monitors, s \in Slots :
       proc[m].pc # "idle" /\ Busy(s) => proc[m].att # slot[s].att

(* No execution of the attempt is going on, and none can begin.            *)
Over(a) ==
  /\ \A s \in Slots : slot[s].pc = "running" => slot[s].att # a
  /\ ~MayExecute(a) \/ ~row[a]

SlotOK(s) ==
  LET a == slot[s].att IN
  Busy(s) =>
    /\ row[a]
    /\ slot[s].pc # "picked" => ~MayExecute(a)
    /\ slot[s].pc = "running" => attempt[a].success = "none" /\ saved[a] = "none"

AttemptOK(a) ==
  /\ saved[a] # "none" \/ attempt[a].heartbeat # "null" => ~MayExecute(a)
  /\ attempt[a].heartbeat # "null" => attempt[a].state = "QUEUED"
  /\ attempt[a].heartbeat = "stale" => Over(a)
  /\ attempt[a].cause # "none" => attempt[a].success # "none"

(* What the reaper read in its sweep is still so under the lock.           *)
ReapOK(r) ==
  LET a == proc[r].att IN
  proc[r].pc = "reap" =>
    /\ Over(a)
    /\ proc[r].returned = attempt[a].returned
    /\ proc[r].committed = attempt[a].committed

TimelyInv ==
  /\ IInv /\ LeaseInv /\ Alone
  /\ \A s \in Slots : SlotOK(s)
  /\ \A a \in Attempt : AttemptOK(a)
  /\ \A r \in Reapers : ReapOK(r)
  /\ CauseIsTrue /\ ReceiptOutranksLostResult

(* An execution begins with a claim, and no step allows an attempt more    *)
(* than it had.                                                            *)
LEMMA StartsByClaim ==
  ASSUME TInv, [Next]_vars, NEW s \in Slots, slot'[s].pc = "running"
  PROVE  /\ slot'[s].att = slot[s].att
         /\ \/ slot[s].pc = "running"
            \/ /\ slot[s].pc = "picked" /\ MayExecute(slot[s].att) /\ Claim(s)
               /\ attempt' = [attempt EXCEPT ![slot[s].att].executions = @ + 1,
                                             ![slot[s].att].heartbeat = "fresh"]
<1>1. CASE SlotsKept
  BY <1>1 DEF SlotsKept
<1>2. ASSUME NEW t \in Slots, Claim(t)
      PROVE  /\ slot'[s].att = slot[s].att
             /\ \/ slot[s].pc = "running"
                \/ /\ slot[s].pc = "picked" /\ MayExecute(slot[s].att) /\ Claim(s)
                   /\ attempt' = [attempt EXCEPT ![slot[s].att].executions = @ + 1,
                                                 ![slot[s].att].heartbeat = "fresh"]
  BY <1>2 DEF Claim, TInv, TypeOK, SlotState
<1>3. CASE UNCHANGED vars
  BY <1>3 DEF vars
<1> QED
  BY <1>1, <1>2, <1>3, WorkersKept, OthersKept DEF Next, WorkerStep

LEMMA AllowanceFalls ==
  ASSUME Solo, IInv, [Next]_vars, NEW n \in Attempt, Exists(n), ~MayExecute(n)
  PROVE  ~MayExecute(n)'
<1>1. TInv /\ TInv'
  BY StepTInv DEF IInv
<1>2. attempt[n].success # "none" => attempt'[n].success # "none"
  BY StepOutcome DEF OutcomeStays
<1>3. attempt[n].executions \in Nat /\ attempt'[n].executions \in Nat
  BY <1>1, ExecutionsType
<1>4. attempt'[n].executions >= attempt[n].executions
  <2>1. CASE RowsKept
    BY <1>3, <2>1 DEF RowsKept
  <2>2. ASSUME NEW s \in Slots, Claim(s)
        PROVE  attempt'[n].executions >= attempt[n].executions
    BY <1>1, <1>3, <2>2 DEF Claim, TInv, TypeOK, AttemptRow
  <2>3. CASE UNCHANGED vars
    BY <1>3, <2>3 DEF vars
  <2> QED
    BY <1>1, <2>1, <2>2, <2>3, WorkersKept, OthersKept DEF Next, WorkerStep
<1> QED
  BY <1>2, <1>3, <1>4, ConstantsAssumption DEF MayExecute

(* Only the dispatcher queues a message, for an attempt still SCHEDULED.   *)
LEMMA MessageStaysGone ==
  ASSUME TInv, [Next]_vars, NEW n \in Attempt, attempt[n].state = "QUEUED", ~row[n]
  PROVE  ~row'[n]
<1>1. CASE UNCHANGED row
  BY <1>1
<1>2. ASSUME NEW a \in Attempt, Dispatch(a) PROVE ~row'[n]
  BY <1>2 DEF Dispatch, TInv, TypeOK
<1>3. ASSUME NEW a \in Attempt, BrokerLoses(a) PROVE ~row'[n]
  BY <1>3 DEF BrokerLoses, TInv, TypeOK
<1>4. ASSUME NEW m \in Monitors, Acknowledge(m) PROVE ~row'[n]
  BY <1>4 DEF Acknowledge, TInv, TypeOK
<1> QED
  BY <1>1, <1>2, <1>3, <1>4
     DEF Next, vars, Lapse, WorkerStep, Deliver, Claim, Beat, Publish, Return,
         WorkerDies, MonitorStep, SaveResult, SaveFails, ReaperStep, Reconcile,
         Replay, Sweep, Reap, HandlerStep, Resolve, DispatchHook, MarkRouted,
         Load, Requeue, ProcDies, HandlerFails

(* What is over stays over.                                                *)
LEMMA OverLasts ==
  ASSUME Calm, TimelyInv, [Next]_vars, NEW n \in Attempt,
         attempt[n].state = "QUEUED", Over(n)
  PROVE  Over(n)'
<1>1. TInv /\ IInv
  BY DEF TimelyInv, IInv
<1>2. ASSUME NEW s \in Slots, slot'[s].pc = "running", slot'[s].att = n
      PROVE  FALSE
  <2>1. slot[s].att = n /\ (slot[s].pc = "running" \/ (MayExecute(n) /\ Busy(s)))
    BY <1>1, <1>2, StartsByClaim DEF Busy
  <2>2. SlotOK(s)
    BY DEF TimelyInv
  <2> QED
    BY <2>1, <2>2 DEF SlotOK, Over, Busy
<1>3. ~MayExecute(n) => ~MayExecute(n)'
  BY <1>1, AllowanceFalls DEF Calm, Exists
<1>4. ~row[n] => ~row'[n]
  BY <1>1, MessageStaysGone
<1> QED
  BY <1>2, <1>3, <1>4 DEF Over

LEMMA QueuedStays ==
  ASSUME TInv, [Next]_vars, NEW n \in Attempt, attempt[n].state = "QUEUED"
  PROVE  attempt'[n].state = "QUEUED"
<1>1. CASE RowsKept
  BY <1>1 DEF RowsKept, Exists
<1>2. ASSUME NEW s \in Slots, Claim(s) PROVE attempt'[n].state = "QUEUED"
  BY <1>2 DEF Claim, TInv, TypeOK, AttemptRow
<1>3. CASE UNCHANGED vars
  BY <1>3 DEF vars
<1> QED
  BY <1>1, <1>2, <1>3, WorkersKept, OthersKept DEF Next, WorkerStep

(* What a step leaves of a slot, an attempt, a reaper and a named loss     *)
(* that it takes no part in.                                               *)
SlotKept(s) ==
  LET a == slot[s].att IN
  slot'[s].pc # "free" =>
    /\ Busy(s) /\ slot'[s].att = a /\ row'[a]
    /\ slot'[s].pc # "picked" => slot[s].pc # "picked" \/ ~MayExecute(a)
    /\ slot'[s].pc = "running" =>
         slot[s].pc = "running" /\ attempt'[a].success = "none" /\ saved'[a] = "none"

AttemptKept(n) ==
  /\ attempt'[n].heartbeat \in {attempt[n].heartbeat, "null"}
  /\ saved'[n] # "none" => saved[n] # "none"
  /\ attempt'[n].cause # "none" => attempt'[n].success # "none"

FlagsKept(n) ==
  attempt'[n].returned = attempt[n].returned /\ attempt'[n].committed = attempt[n].committed

ReapKept(r) ==
  proc'[r].pc = "reap" =>
    /\ proc'[r] = proc[r]
    /\ \A n \in Attempt : n = proc[r].att => FlagsKept(n)

CauseKept(n) ==
  attempt'[n].cause # "none" => attempt'[n].cause = attempt[n].cause /\ FlagsKept(n)

CauseOK(n) ==
  /\ attempt[n].cause = "ResultLost" => attempt[n].returned
  /\ attempt[n].cause = "OrphanedTask" => ~attempt[n].returned
  /\ attempt[n].committed => attempt[n].cause \notin {"OrphanedTask", "ResultLost"}

LEMMA SlotKeptOK ==
  ASSUME Calm, TimelyInv, [Next]_vars, NEW s \in Slots, SlotKept(s)
  PROVE  SlotOK(s)'
<1> SUFFICES ASSUME slot'[s].pc # "free" PROVE SlotOK(s)'
  BY DEF SlotOK, Busy
<1>1. PICK a \in Attempt : a = slot[s].att
  BY DEF SlotKept, Busy, TimelyInv, IInv, TInv, AtWork
<1>2. SlotOK(s) /\ IInv /\ Exists(a)
  BY <1>1 DEF TimelyInv, SlotKept, Busy, LeaseInv, Exists
<1>3. ~MayExecute(a) => ~MayExecute(a)'
  BY <1>2, AllowanceFalls DEF Calm
<1>4. Busy(s) /\ slot'[s].att = a
  BY <1>1 DEF SlotKept
<1>5. slot[s].pc # "picked" => ~MayExecute(a)
  BY <1>1, <1>2, <1>4 DEF SlotOK
<1>6. /\ row'[a] /\ (slot'[s].pc # "picked" => ~MayExecute(a))
      /\ slot'[s].pc = "running" => attempt'[a].success = "none" /\ saved'[a] = "none"
  BY <1>1, <1>5 DEF SlotKept
<1> QED
  BY <1>3, <1>4, <1>6 DEF SlotOK, Busy, MayExecute

LEMMA AttemptKeptOK ==
  ASSUME Calm, TimelyInv, [Next]_vars, NEW n \in Attempt, AttemptKept(n)
  PROVE  AttemptOK(n)'
<1>1. AttemptOK(n) /\ IInv /\ TInv
  BY DEF TimelyInv, IInv
<1>2. /\ saved[n] # "none" => attempt[n].state = "QUEUED"
      /\ attempt[n].heartbeat # "null" => attempt[n].state = "QUEUED"
  BY <1>1 DEF AttemptOK, IInv, OnlyQueuedLeaves
<1>3. saved[n] # "none" \/ attempt[n].heartbeat # "null" => ~MayExecute(n)'
  BY <1>1, <1>2, AllowanceFalls DEF AttemptOK, Calm, Exists
<1>4. attempt[n].heartbeat # "null" => attempt'[n].state = "QUEUED"
  BY <1>1, <1>2, QueuedStays
<1>5. attempt[n].heartbeat = "stale" => Over(n)'
  BY <1>1, <1>2, OverLasts DEF AttemptOK
<1> QED
  BY <1>3, <1>4, <1>5 DEF AttemptKept, AttemptOK

LEMMA ReapKeptOK ==
  ASSUME Calm, TimelyInv, [Next]_vars, NEW r \in Reapers, ReapKept(r)
  PROVE  ReapOK(r)'
<1> SUFFICES ASSUME proc'[r].pc = "reap" PROVE ReapOK(r)'
  BY DEF ReapOK
<1>1. proc'[r] = proc[r] /\ ReapOK(r) /\ HandlerOK(r) /\ r \in Handlers
  BY DEF ReapKept, TimelyInv, IInv, Handlers
<1>2. PICK a \in Attempt : a = proc[r].att
  BY <1>1 DEF TimelyInv, IInv, TInv, AtWork
<1>3. Over(a) /\ attempt[a].state = "QUEUED"
  BY <1>1, <1>2 DEF ReapOK, HandlerOK
<1>4. Over(a)' /\ FlagsKept(a)
  BY <1>2, <1>3, OverLasts DEF ReapKept
<1>5. proc[r].returned = attempt[a].returned /\ proc[r].committed = attempt[a].committed
  BY <1>1, <1>2 DEF ReapOK
<1> QED
  BY <1>1, <1>2, <1>4, <1>5 DEF ReapOK, Over, FlagsKept, MayExecute

LEMMA TimelyFrame ==
  ASSUME Calm, TimelyInv, [Next]_vars, Alone',
         \A s \in Slots : SlotKept(s) \/ SlotOK(s)',
         \A n \in Attempt : AttemptKept(n) \/ AttemptOK(n)',
         \A r \in Reapers : ReapKept(r) \/ ReapOK(r)',
         \A n \in Attempt : CauseKept(n) \/ CauseOK(n)'
  PROVE  TimelyInv'
<1>1. IInv' /\ LeaseInv'
  BY StepIInv, StepLease DEF TimelyInv, Calm, IInv
<1>2. \A s \in Slots : SlotOK(s)'
  BY SlotKeptOK
<1>3. \A n \in Attempt : AttemptOK(n)'
  BY AttemptKeptOK
<1>4. \A r \in Reapers : ReapOK(r)'
  BY ReapKeptOK
<1>5. \A n \in Attempt : CauseOK(n)'
  BY DEF CauseKept, CauseOK, FlagsKept, TimelyInv, CauseIsTrue, ReceiptOutranksLostResult
<1>6. CauseIsTrue' /\ ReceiptOutranksLostResult'
  BY <1>5 DEF CauseOK, CauseIsTrue, ReceiptOutranksLostResult
<1> QED
  BY <1>1, <1>2, <1>3, <1>4, <1>6 DEF TimelyInv

HoldersStay ==
  /\ \A s \in Slots : slot'[s].pc # "free" => Busy(s) /\ slot'[s].att = slot[s].att
  /\ \A m \in Monitors :
       proc'[m].pc # "idle" => proc[m].pc # "idle" /\ proc'[m].att = proc[m].att

LEMMA AloneStays == Alone /\ HoldersStay => Alone'
BY DEF Alone, HoldersStay, Busy

(* A slot that a step leaves alone, with its message and its result.       *)
LEMMA SlotUntouched ==
  ASSUME TimelyInv, NEW s \in Slots, slot'[s] = slot[s],
         \A n \in Attempt : Busy(s) /\ n = slot[s].att =>
           /\ row[n] => row'[n]
           /\ slot[s].pc = "running" =>
                saved'[n] = saved[n] /\ attempt'[n].success = attempt[n].success
  PROVE  SlotKept(s)
<1>1. SlotOK(s) /\ (Busy(s) => slot[s].att \in Attempt)
  BY DEF TimelyInv, IInv, TInv, AtWork, Busy
<1> QED
  BY <1>1 DEF SlotOK, SlotKept, Busy

(* A step that changes no process.                                         *)
LEMMA ReapsUntouched ==
  ASSUME proc' = proc, \A n \in Attempt : FlagsKept(n), NEW r \in Reapers
  PROVE  ReapKept(r)
BY DEF ReapKept

LEMMA DispatcherTimely ==
  ASSUME Calm, TimelyInv, [Next]_vars, NEW a \in Attempt, Dispatch(a) \/ Lapse(a)
  PROVE  TimelyInv'
<1> USE DEF TInv, TypeOK
<1>0. IInv /\ TInv /\ UNCHANGED <<slot, proc, saved>>
  BY DEF TimelyInv, IInv, Dispatch, Lapse
<1>1. /\ \A n \in Attempt : /\ FlagsKept(n) /\ (row[n] => row'[n])
                            /\ attempt'[n].success = attempt[n].success
                            /\ attempt'[n].cause = attempt[n].cause
      /\ \A n \in Attempt \ {a} : attempt'[n].heartbeat = attempt[n].heartbeat
  BY <1>0 DEF Dispatch, Lapse, FlagsKept, AttemptRow
<1>2. Alone'
  BY <1>0, AloneStays DEF TimelyInv, HoldersStay, Busy
<1>3. \A s \in Slots : SlotKept(s)
  BY <1>0, <1>1, SlotUntouched
<1>4. \A n \in Attempt : CauseKept(n)
  BY <1>1 DEF CauseKept
<1>5. \A n \in Attempt : attempt[n].cause # "none" => attempt[n].success # "none"
  BY DEF TimelyInv, AttemptOK
<1>6. \A n \in Attempt \ {a} : AttemptKept(n)
  BY <1>0, <1>1, <1>5 DEF AttemptKept
<1>7. AttemptKept(a) \/ AttemptOK(a)'
  <2>1. CASE Dispatch(a)
    BY <1>0, <1>1, <1>5, <2>1 DEF Dispatch, AttemptKept, AttemptRow
  <2>2. CASE Lapse(a)
    <3>1. attempt[a].heartbeat = "fresh" /\ AttemptOK(a) /\ Timely
      BY <2>2 DEF Lapse, TimelyInv, Calm
    <3>2. ~MayExecute(a) /\ attempt[a].state = "QUEUED"
      BY <3>1 DEF AttemptOK
    <3>3. ~MayExecute(a)' /\ attempt'[a].state = "QUEUED"
      BY <1>0, <3>2, AllowanceFalls, QueuedStays DEF Calm, Exists
    <3>4. Over(a)'
      BY <1>0, <2>2, <3>1, <3>3 DEF Lapse, Over
    <3> QED
      BY <1>1, <1>5, <3>3, <3>4 DEF AttemptOK
  <2> QED
    BY <2>1, <2>2
<1> HIDE DEF TInv, TypeOK
<1> QED
  BY <1>0, <1>1, <1>2, <1>3, <1>4, <1>6, <1>7, ReapsUntouched, TimelyFrame

(* The broker: a message is handed to one slot, and lost by none.          *)
LEMMA BrokerTimely ==
  ASSUME Calm, TimelyInv, [Next]_vars, NEW a \in Attempt,
         (\E s \in Slots : Deliver(s, a)) \/ BrokerLoses(a)
  PROVE  TimelyInv'
<1>0. IInv /\ TInv /\ UNCHANGED <<attempt, proc, saved>>
  BY DEF TimelyInv, IInv, Deliver, BrokerLoses
<1>1. ~Held(a)
  BY DEF Deliver, BrokerLoses, Calm
<1>2. \A n \in Attempt : CauseKept(n) /\ FlagsKept(n)
  BY <1>0 DEF CauseKept, FlagsKept
<1>3. \A n \in Attempt : AttemptKept(n)
  BY <1>0 DEF AttemptKept, TimelyInv, AttemptOK
<1>4. ASSUME NEW s \in Slots, slot'[s] = slot[s] PROVE SlotKept(s)
  <2>1. ASSUME NEW n \in Attempt, Busy(s), n = slot[s].att PROVE row'[n] = row[n]
    <3>1. n # a
      BY <1>1, <2>1 DEF Held, Busy
    <3> QED
      BY <1>0, <3>1 DEF Deliver, BrokerLoses, TInv, TypeOK
  <2> QED
    BY <1>0, <1>4, <2>1, SlotUntouched
<1>5. CASE BrokerLoses(a)
  <2>1. slot' = slot
    BY <1>5 DEF BrokerLoses
  <2>2. Alone'
    BY <1>0, <2>1, AloneStays DEF TimelyInv, HoldersStay, Busy
  <2>3. \A s \in Slots : SlotKept(s)
    BY <1>4, <2>1
  <2> QED
    BY <1>0, <1>2, <1>3, <2>2, <2>3, ReapsUntouched, TimelyFrame
<1>6. ASSUME NEW s \in Slots, Deliver(s, a) PROVE TimelyInv'
  <2>1. /\ slot'[s] = [pc |-> "picked", att |-> a, out |-> "none"]
        /\ \A t \in Slots : t # s => slot'[t] = slot[t]
        /\ row[a] /\ row' = row
    BY <1>0, <1>6 DEF Deliver, TInv, TypeOK
  <2>2. Alone'
    BY <1>0, <1>1, <2>1 DEF Alone, Held, Busy, TimelyInv
  <2>3. SlotOK(s)'
    BY <2>1 DEF SlotOK
  <2>4. \A t \in Slots : t # s => SlotKept(t)
    BY <1>4, <2>1
  <2> QED
    BY <1>0, <1>2, <1>3, <2>2, <2>3, <2>4, ReapsUntouched, TimelyFrame
<1> QED
  BY <1>5, <1>6

(* A worker begins the only execution of an attempt, or refuses it.        *)
LEMMA ClaimTimely ==
  ASSUME Calm, TimelyInv, [Next]_vars, NEW s \in Slots, Claim(s)
  PROVE  TimelyInv'
<1>0. IInv /\ TInv /\ Alone /\ UNCHANGED <<proc, saved, row>>
  BY DEF TimelyInv, IInv, Claim
<1>1. PICK a \in Attempt : a = slot[s].att
  BY <1>0 DEF Claim, TInv, AtWork
<1>2. /\ Busy(s) /\ slot'[s].att = a /\ slot'[s].pc # "free" /\ slot[s].pc = "picked"
      /\ \A t \in Slots : t # s => slot'[t] = slot[t]
  BY <1>0, <1>1 DEF Claim, Busy, TInv, TypeOK, SlotState
<1>3. Alone'
  BY <1>0, <1>1, <1>2, AloneStays DEF HoldersStay, Busy
<1>4. SlotOK(s) /\ AttemptOK(a) /\ attempt[a].state = "QUEUED"
  BY <1>0, <1>1, <1>2 DEF TimelyInv, IInv, OnlyQueuedLeaves, Busy
<1>5. CASE ~MayExecute(a)
  <2>1. attempt' = attempt /\ slot'[s].pc = "result"
    BY <1>0, <1>1, <1>5 DEF Claim, TInv, TypeOK, SlotState
  <2>2. \A n \in Attempt : CauseKept(n) /\ FlagsKept(n) /\ AttemptKept(n)
    BY <1>0, <2>1 DEF CauseKept, FlagsKept, AttemptKept, TimelyInv, AttemptOK
  <2>3. SlotKept(s)
    BY <1>0, <1>1, <1>2, <1>4, <1>5, <2>1 DEF SlotKept, SlotOK, Busy
  <2>4. \A t \in Slots : t # s => SlotKept(t)
    BY <1>0, <1>2, <2>1, SlotUntouched
  <2> QED
    BY <1>0, <1>3, <2>2, <2>3, <2>4, ReapsUntouched, TimelyFrame
<1>6. CASE MayExecute(a)
  <2>1. /\ attempt' = [attempt EXCEPT ![a].executions = @ + 1,
                                      ![a].heartbeat = "fresh"]
        /\ slot'[s].pc = "running"
    BY <1>0, <1>1, <1>6 DEF Claim, TInv, TypeOK, SlotState
  <2>2. /\ \A n \in Attempt : n # a => attempt'[n] = attempt[n]
        /\ attempt'[a] = [attempt[a] EXCEPT !.executions = @ + 1,
                                            !.heartbeat = "fresh"]
    BY <1>0, <2>1 DEF TInv, TypeOK
  <2>3. attempt[a] \in AttemptRow
    BY <1>0 DEF TInv, TypeOK
  <2>4. /\ attempt'[a].executions = attempt[a].executions + 1
        /\ attempt'[a].heartbeat = "fresh"
        /\ attempt'[a].state = attempt[a].state
        /\ attempt'[a].success = attempt[a].success
        /\ attempt'[a].cause = attempt[a].cause
        /\ attempt'[a].returned = attempt[a].returned
        /\ attempt'[a].committed = attempt[a].committed
    BY <2>2, <2>3 DEF AttemptRow
  <2>5. ~MayExecute(a)'
    <3>1. attempt[a].executions \in Nat
      BY <2>3, ConstantsAssumption DEF AttemptRow
    <3> QED
      BY <2>4, <3>1 DEF MayExecute, Calm
  <2>6. attempt[a].success = "none" /\ saved[a] = "none" /\ attempt[a].cause = "none"
    BY <1>4, <1>6 DEF MayExecute, AttemptOK
  <2>7. AttemptOK(a)' /\ SlotOK(s)'
    BY <1>0, <1>1, <1>2, <1>4, <2>1, <2>4, <2>5, <2>6
       DEF AttemptOK, SlotOK, Busy, MayExecute
  <2>8. \A n \in Attempt : n # a => AttemptKept(n)
    BY <1>0, <2>2 DEF AttemptKept, TimelyInv, AttemptOK
  <2>9. \A n \in Attempt : CauseKept(n) /\ FlagsKept(n)
    BY <2>2, <2>4 DEF CauseKept, FlagsKept
  <2>10. \A t \in Slots : t # s => SlotKept(t)
    BY <1>0, <1>2, <2>2, <2>4, SlotUntouched
  <2> QED
    BY <1>0, <1>3, <2>7, <2>8, <2>9, <2>10, ReapsUntouched, TimelyFrame
<1> QED
  BY <1>5, <1>6

(* The target publishes, or returns.                                       *)
LEMMA TargetTimely ==
  ASSUME Calm, TimelyInv, [Next]_vars, NEW s \in Slots,
         Publish(s) \/ \E out \in {"ok", "fail"} : Return(s, out)
  PROVE  TimelyInv'
<1>0. IInv /\ TInv /\ Alone /\ UNCHANGED <<proc, saved, row>> /\ slot[s].pc = "running"
  BY DEF TimelyInv, IInv, Publish, Return
<1>1. PICK a \in Attempt : a = slot[s].att
  BY <1>0 DEF TInv, AtWork
<1>2. /\ Busy(s) /\ slot'[s].att = a /\ slot'[s].pc \in {"running", "result"}
      /\ \A t \in Slots : t # s => slot'[t] = slot[t]
  BY <1>0, <1>1 DEF Publish, Return, Busy, TInv, TypeOK, SlotState
<1>3. Alone'
  BY <1>0, <1>1, <1>2, AloneStays DEF HoldersStay, Busy
<1>4. /\ SlotOK(s) /\ AttemptOK(a)
      /\ attempt[a].success = "none" /\ saved[a] = "none" /\ attempt[a].cause = "none"
  BY <1>0, <1>1, <1>2 DEF TimelyInv, SlotOK, AttemptOK, Busy
<1>5. /\ \A n \in Attempt : n # a => attempt'[n] = attempt[n]
      /\ attempt'[a].success = "none" /\ attempt'[a].cause = "none"
      /\ attempt'[a].heartbeat = attempt[a].heartbeat
  <2>1. /\ attempt \in [Attempt -> AttemptRow]
        /\ \/ attempt' = [attempt EXCEPT ![a].committed = TRUE]
           \/ attempt' = [attempt EXCEPT
                ![a].returned = @ \/ attempt[a].success = "none"]
    BY <1>0, <1>1 DEF Publish, Return, TInv, TypeOK
  <2> QED
    BY <1>4, <2>1 DEF AttemptRow
<1>6. \A n \in Attempt : n # a => CauseKept(n) /\ FlagsKept(n)
  BY <1>5 DEF CauseKept, FlagsKept
<1>7. CauseKept(a) /\ \A n \in Attempt : AttemptKept(n)
  BY <1>0, <1>5 DEF CauseKept, AttemptKept, TimelyInv, AttemptOK
<1>8. \A t \in Slots : t # s => SlotKept(t)
  <2>1. ASSUME NEW t \in Slots, t # s, NEW n \in Attempt, Busy(t), n = slot[t].att
        PROVE  n # a
    BY <1>0, <1>1, <1>2, <2>1 DEF Alone
  <2> QED
    BY <1>0, <1>2, <1>5, <2>1, SlotUntouched
<1>9. SlotKept(s)
  BY <1>0, <1>1, <1>2, <1>4, <1>5 DEF SlotKept, SlotOK, Busy
<1>10. ASSUME NEW r \in Reapers PROVE ReapKept(r)
  <2>1. proc[r].pc = "reap" => proc[r].att # a
    BY <1>0, <1>1 DEF TimelyInv, ReapOK, Over
  <2> QED
    BY <1>0, <1>6, <2>1 DEF ReapKept
<1> QED
  BY <1>0, <1>3, <1>6, <1>7, <1>8, <1>9, <1>10, TimelyFrame

(* The lease of a live execution is fresh, and needs no beat; a worker     *)
(* that dies leaves its message to be delivered again.                     *)
LEMMA WorkerTimely ==
  ASSUME Calm, TimelyInv, [Next]_vars, NEW s \in Slots, Beat(s) \/ WorkerDies(s)
  PROVE  TimelyInv'
<1>0. IInv /\ TInv /\ Alone
  BY DEF TimelyInv, IInv
<1>1. CASE Beat(s)
  <2>1. PICK a \in Attempt : a = slot[s].att
    BY <1>0, <1>1 DEF Beat, TInv, AtWork
  <2>2. attempt[a].heartbeat = "stale" /\ slot[s].pc = "running"
    BY <1>1, <2>1 DEF Beat
  <2>3. AttemptOK(a)
    BY DEF TimelyInv
  <2> QED
    BY <2>1, <2>2, <2>3 DEF AttemptOK, Over
<1>2. CASE WorkerDies(s)
  <2>1. /\ UNCHANGED <<attempt, row, saved, proc>>
        /\ slot'[s].pc = "free"
        /\ \A t \in Slots : t # s => slot'[t] = slot[t]
    BY <1>0, <1>2 DEF WorkerDies, FreeSlot, TInv, TypeOK
  <2>2. Alone'
    BY <1>0, <2>1, AloneStays DEF HoldersStay, Busy
  <2>3. \A n \in Attempt : CauseKept(n) /\ FlagsKept(n) /\ AttemptKept(n)
    BY <1>0, <2>1 DEF CauseKept, FlagsKept, AttemptKept, TimelyInv, AttemptOK
  <2>4. \A t \in Slots : SlotKept(t)
    <3>1. SlotKept(s)
      BY <2>1 DEF SlotKept
    <3> QED
      BY <2>1, <3>1, SlotUntouched
  <2> QED
    BY <2>1, <2>2, <2>3, <2>4, ReapsUntouched, TimelyFrame
<1> QED
  BY <1>1, <1>2

(* A monitor takes a result over from its slot: only an execution leaves   *)
(* one, or a refusal.                                                      *)
LEMMA SaveTimely ==
  ASSUME Calm, TimelyInv, [Next]_vars, NEW m \in Monitors, NEW s \in Slots,
         SaveResult(m, s) \/ SaveFails(m, s)
  PROVE  TimelyInv'
<1>0. /\ IInv /\ TInv /\ Alone /\ UNCHANGED <<attempt, row>>
      /\ slot[s].pc = "result" /\ proc[m].pc = "idle"
  BY DEF TimelyInv, IInv, SaveResult, SaveFails
<1>1. PICK a \in Attempt : a = slot[s].att
  BY <1>0 DEF TInv, AtWork
<1>2. /\ slot'[s].pc = "free" /\ proc'[m].att = a
      /\ \A t \in Slots : t # s => slot'[t] = slot[t]
      /\ \A n \in Attempt : n # a => saved'[n] = saved[n]
      /\ \A q \in Handlers : q # m => proc'[q] = proc[q]
  <2>1. slot' = [slot EXCEPT ![s] = FreeSlot]
    BY DEF SaveResult, SaveFails
  <2>2. \A n \in Attempt : n # a => saved'[n] = saved[n]
    BY <1>0, <1>1 DEF SaveResult, SaveFails, TInv, TypeOK
  <2>3. \E pc : proc' = [proc EXCEPT ![m] = At(pc, a, slot[s].out)]
    BY <1>1 DEF SaveResult, SaveFails
  <2>4. proc'[m].att = a /\ \A q \in Handlers : q # m => proc'[q] = proc[q]
    BY <1>0, <2>3 DEF At, Idle, TInv, TypeOK, Proc, Handlers
  <2> QED
    BY <1>0, <2>1, <2>2, <2>4 DEF FreeSlot, TInv, TypeOK
<1>3. \A t \in Slots : Busy(t) /\ t # s => slot[t].att # a
  BY <1>0, <1>1 DEF Alone, Busy
<1>4. Alone'
  <2>1. \A t \in Slots : Busy(t)' => Busy(t) /\ t # s /\ slot'[t].att = slot[t].att
    BY <1>2 DEF Busy
  <2>2. \A q \in Monitors : q # m => proc'[q] = proc[q]
    BY <1>2 DEF Handlers
  <2> QED
    BY <1>0, <1>2, <1>3, <2>1, <2>2 DEF Alone
<1>5. \A t \in Slots : SlotKept(t)
  <2>1. SlotKept(s)
    BY <1>2 DEF SlotKept
  <2>2. ASSUME NEW t \in Slots, t # s PROVE SlotKept(t)
    BY <1>0, <1>2, <1>3, <2>2, SlotUntouched
  <2> QED
    BY <2>1, <2>2
<1>6. \A n \in Attempt : CauseKept(n) /\ FlagsKept(n) /\ (n # a => AttemptKept(n))
  BY <1>0, <1>2 DEF CauseKept, FlagsKept, AttemptKept, TimelyInv, AttemptOK
<1>7. AttemptOK(a)'
  <2>1. SlotOK(s) /\ AttemptOK(a) /\ Busy(s)
    BY <1>0 DEF TimelyInv, Busy
  <2>2. ~MayExecute(a)
    BY <1>0, <1>1, <2>1 DEF SlotOK
  <2>3. attempt[a].heartbeat = "stale" => Over(a)'
    BY <2>1, OverLasts DEF AttemptOK
  <2> QED
    BY <1>0, <2>1, <2>2, <2>3 DEF AttemptOK, MayExecute
<1>8. ASSUME NEW r \in Reapers PROVE ReapKept(r)
  <2>1. proc'[r] = proc[r]
    BY <1>2, ConstantsAssumption DEF Handlers
  <2> QED
    BY <1>6, <2>1 DEF ReapKept
<1> QED
  BY <1>4, <1>5, <1>6, <1>7, <1>8, TimelyFrame

(* It acknowledges what it alone holds.                                    *)
LEMMA AcknowledgeTimely ==
  ASSUME Calm, TimelyInv, [Next]_vars, NEW m \in Monitors, Acknowledge(m)
  PROVE  TimelyInv'
<1>0. IInv /\ TInv /\ Alone /\ UNCHANGED <<attempt, saved, slot>> /\ proc[m].pc = "ack"
  BY DEF TimelyInv, IInv, Acknowledge
<1>1. PICK a \in Attempt : a = proc[m].att
  BY <1>0 DEF TInv, AtWork, Handlers
<1>2. /\ proc'[m].pc = "idle"
      /\ \A q \in Handlers : q # m => proc'[q] = proc[q]
      /\ \A n \in Attempt : n # a => row'[n] = row[n]
  BY <1>0, <1>1 DEF Acknowledge, Idle, TInv, TypeOK, Proc, Handlers
<1>3. Alone'
  BY <1>0, <1>2, AloneStays DEF HoldersStay, Busy, Handlers
<1>4. \A t \in Slots : SlotKept(t)
  <2>1. \A t \in Slots : Busy(t) => slot[t].att # a
    BY <1>0, <1>1 DEF Alone
  <2> QED
    BY <1>0, <1>2, <2>1, SlotUntouched
<1>5. \A n \in Attempt : CauseKept(n) /\ FlagsKept(n) /\ AttemptKept(n)
  BY <1>0 DEF CauseKept, FlagsKept, AttemptKept, TimelyInv, AttemptOK
<1>6. ASSUME NEW r \in Reapers PROVE ReapKept(r)
  <2>1. proc'[r] = proc[r]
    BY <1>2, ConstantsAssumption DEF Handlers
  <2> QED
    BY <1>5, <2>1 DEF ReapKept
<1> QED
  BY <1>3, <1>4, <1>5, <1>6, TimelyFrame

(* A row that a step inserts, and one that it leaves or settles.           *)
NewRow(n) == ~Exists(n) /\ attempt'[n] = FreshRow("SCHEDULED")

OldRow(n) ==
  /\ FlagsKept(n) /\ attempt'[n].heartbeat = attempt[n].heartbeat
  /\ attempt'[n].cause = attempt[n].cause \/ CauseOK(n)'
  /\ attempt'[n].cause # "none" => attempt'[n].success # "none"

(* Running executions are nobody's to settle.                              *)
NotSettled(n) ==
  (\E s \in Slots : slot[s].pc = "running" /\ slot[s].att = n)
    => attempt'[n].success = attempt[n].success

(* A step that leaves the slots, the messages and the results alone.       *)
LEMMA RowsTimely ==
  ASSUME Calm, TimelyInv, [Next]_vars, UNCHANGED <<slot, row, saved>>, HoldersStay,
         \A n \in Attempt : NewRow(n) \/ OldRow(n),
         \A n \in Attempt : NotSettled(n),
         \A r \in Reapers : proc'[r].pc = "reap" => proc'[r] = proc[r] \/ ReapOK(r)'
  PROVE  TimelyInv'
<1>1. Alone'
  BY AloneStays DEF TimelyInv
<1>2. \A t \in Slots : SlotKept(t)
  <2> SUFFICES ASSUME NEW t \in Slots PROVE SlotKept(t)
    OBVIOUS
  <2>1. \A n \in Attempt :
          slot[t].pc = "running" /\ n = slot[t].att
            => attempt'[n].success = attempt[n].success
    BY DEF NotSettled
  <2> QED
    BY <2>1, SlotUntouched
<1>3. \A n \in Attempt : AttemptKept(n)
  BY DEF NewRow, OldRow, AttemptKept, FreshRow
<1>4. \A n \in Attempt : CauseKept(n) \/ CauseOK(n)'
  BY DEF NewRow, OldRow, CauseKept, FreshRow
<1>5. ASSUME NEW r \in Reapers PROVE ReapKept(r) \/ ReapOK(r)'
  <2> SUFFICES ASSUME proc'[r].pc = "reap", proc'[r] = proc[r] PROVE ReapKept(r)
    BY DEF ReapKept
  <2>1. HandlerOK(r) /\ proc[r].att \in Attempt
    BY DEF TimelyInv, IInv, TInv, AtWork, Handlers
  <2>2. PICK a \in Attempt : a = proc[r].att
    BY <2>1
  <2>3. Exists(a)
    BY <2>1, <2>2 DEF HandlerOK, Exists
  <2>4. FlagsKept(a)
    BY <2>3 DEF NewRow, OldRow
  <2> QED
    BY <2>2, <2>4 DEF ReapKept
<1> QED
  BY <1>1, <1>2, <1>3, <1>4, <1>5, TimelyFrame

(* A step that changes no row at all.                                      *)
LEMMA RowsSame ==
  ASSUME TimelyInv, attempt' = attempt, NEW n \in Attempt
  PROVE  OldRow(n) /\ NotSettled(n)
BY DEF OldRow, NotSettled, FlagsKept, TimelyInv, AttemptOK

(* Where a handler goes.                                                   *)
LEMMA HandlerMoves ==
  ASSUME TInv, NEW p \in Handlers,
         HandlerStep(p) \/ Reap(p) \/ ProcDies(p) \/ HandlerFails(p)
  PROVE  /\ \A q \in Handlers : q # p => proc'[q] = proc[q]
         /\ proc'[p].pc # "reap" /\ proc[p].pc # "idle"
         /\ proc'[p].pc # "idle" => proc'[p].att = proc[p].att
<1>1. proc[p].pc # "idle"
  BY DEF HandlerStep, Resolve, DispatchHook, MarkRouted, Reap, ProcDies, HandlerFails
<1>2. \/ Finish(p) \/ MoveTo(p, "hook") \/ MoveTo(p, "mark")
      \/ proc' = [proc EXCEPT ![p] = Idle]
  BY DEF HandlerStep, Resolve, DispatchHook, MarkRouted, Reap, ProcDies, HandlerFails,
         Fail, AfterFailure
<1>3. p \in Proc /\ proc[p] \in ProcState /\ proc \in [Proc -> ProcState]
  BY DEF TInv, TypeOK, Proc
<1>4. \A q \in Handlers : q # p => proc'[q] = proc[q]
  BY <1>2, <1>3 DEF Finish, MoveTo, Proc
<1>5. /\ proc'[p].pc # "reap"
      /\ proc'[p].pc # "idle" => proc'[p].att = proc[p].att
  <2>1. CASE Finish(p)
    <3>1. proc'[p] = Done(p)
      BY <1>3, <2>1 DEF Finish
    <3> QED
      BY <1>3, <3>1 DEF Done, Idle, ProcState
  <2>2. CASE proc' = [proc EXCEPT ![p] = Idle]
    BY <1>3, <2>2 DEF Idle
  <2>3. ASSUME NEW pc \in {"hook", "mark"}, MoveTo(p, pc)
        PROVE  proc'[p].pc # "reap" /\ proc'[p].att = proc[p].att
    BY <1>3, <2>3 DEF MoveTo, ProcState
  <2> QED
    BY <1>2, <2>1, <2>2, <2>3
<1> QED
  BY <1>1, <1>4, <1>5

(* What recording a failure does to the rows.                              *)
LEMMA FailRows ==
  ASSUME TimelyInv, NEW p, NEW a \in Attempt, NEW cause, Fail(p, a, cause),
         cause = "ResultLost" => attempt[a].returned,
         cause = "OrphanedTask" => ~attempt[a].returned,
         attempt[a].committed => cause \notin {"OrphanedTask", "ResultLost"},
         \A s \in Slots : slot[s].pc = "running" => slot[s].att # a,
         NEW n \in Attempt
  PROVE  (NewRow(n) \/ OldRow(n)) /\ NotSettled(n)
<1>0. attempt[n] \in AttemptRow /\ AttemptOK(n)
  BY DEF TimelyInv, IInv, TInv, TypeOK
<1>1. CASE attempt' = attempt
  BY <1>1, RowsSame
<1>2. ASSUME NEW verdict \in Verdicts(a), ~(verdict = "PENDING" /\ Exists(a + 1)),
             SettleFailed(a, cause, verdict)
      PROVE  (NewRow(n) \/ OldRow(n)) /\ NotSettled(n)
  <2>1. CASE n = a
    <3>1. /\ attempt'[n].success = "fail" /\ attempt'[n].cause = cause
          /\ attempt'[n].heartbeat = attempt[n].heartbeat
          /\ attempt'[n].returned = attempt[n].returned
          /\ attempt'[n].committed = attempt[n].committed
      BY <1>0, <1>2, <2>1 DEF SettleFailed, AttemptRow
    <3>2. OldRow(n)
      BY <2>1, <3>1 DEF OldRow, FlagsKept, CauseOK
    <3>3. NotSettled(n)
      BY <2>1 DEF NotSettled
    <3> QED
      BY <3>2, <3>3
  <2>2. CASE n # a /\ verdict = "PENDING" /\ n = a + 1
    <3>1. attempt'[n] = FreshRow("SCHEDULED") /\ ~Exists(n)
      BY <1>2, <2>2 DEF SettleFailed
    <3>2. NotSettled(n)
      BY <3>1 DEF NotSettled, Exists, TimelyInv, LeaseInv
    <3> QED
      BY <3>1, <3>2 DEF NewRow
  <2>3. CASE n # a /\ ~(verdict = "PENDING" /\ n = a + 1)
    <3>1. attempt'[n] = attempt[n]
      BY <1>2, <2>3 DEF SettleFailed
    <3> QED
      BY <1>0, <3>1 DEF OldRow, NotSettled, FlagsKept, AttemptOK
  <2> QED
    BY <2>1, <2>2, <2>3
<1> QED
  BY <1>1, <1>2 DEF Fail

(* A monitor, or the reaper once it has the lock: what it resolves no      *)
(* worker is executing, and the loss it names is the one it read of.       *)
LEMMA HandlerRows ==
  ASSUME Calm, TimelyInv, NEW p \in Handlers, HandlerStep(p) \/ Reap(p),
         NEW n \in Attempt
  PROVE  (NewRow(n) \/ OldRow(n)) /\ NotSettled(n)
<1>0. /\ TInv /\ attempt \in [Attempt -> AttemptRow] /\ attempt[n] \in AttemptRow
      /\ AttemptOK(n) /\ HandlerOK(p)
  BY DEF TimelyInv, IInv, TInv, TypeOK
<1>1. CASE attempt' = attempt
  BY <1>1, RowsSame
<1>2. CASE DispatchHook(p)
  BY <1>1, <1>2 DEF DispatchHook
<1>3. PICK a : a = proc[p].att
  OBVIOUS
<1>4. CASE MarkRouted(p)
  <2>1. attempt' = [attempt EXCEPT ![a].routed = TRUE]
    BY <1>3, <1>4 DEF MarkRouted
  <2>2. /\ attempt'[n].success = attempt[n].success
        /\ attempt'[n].cause = attempt[n].cause
        /\ attempt'[n].heartbeat = attempt[n].heartbeat
        /\ attempt'[n].returned = attempt[n].returned
        /\ attempt'[n].committed = attempt[n].committed
    BY <1>0, <2>1 DEF AttemptRow
  <2> QED
    BY <1>0, <2>2 DEF OldRow, NotSettled, FlagsKept, AttemptOK
<1>5. CASE Resolve(p)
  <2>1. proc[p].pc = "handle" /\ a \in Attempt
    BY <1>0, <1>3, <1>5 DEF Resolve, TInv, AtWork
  <2>2. saved[a] # "none"
    BY <1>0, <1>3, <2>1 DEF HandlerOK
  <2>3. \A s \in Slots : slot[s].pc = "running" => slot[s].att # a
    BY <2>2 DEF TimelyInv, SlotOK, Busy
  <2>4. CASE attempt' = [attempt EXCEPT ![a].success = "ok"]
    <3>1. CASE n = a
      <4>1. /\ attempt'[n].success = "ok"
            /\ attempt'[n].cause = attempt[n].cause
            /\ attempt'[n].heartbeat = attempt[n].heartbeat
            /\ attempt'[n].returned = attempt[n].returned
            /\ attempt'[n].committed = attempt[n].committed
        BY <1>0, <2>4, <3>1 DEF AttemptRow
      <4> QED
        BY <2>3, <3>1, <4>1 DEF OldRow, NotSettled, FlagsKept
    <3>2. CASE n # a
      <4>1. attempt'[n] = attempt[n]
        BY <1>0, <2>4, <3>2
      <4> QED
        BY <1>0, <4>1 DEF OldRow, NotSettled, FlagsKept, AttemptOK
    <3> QED
      BY <3>1, <3>2
  <2>5. CASE Fail(p, a, "raised")
    BY <2>1, <2>3, <2>5, FailRows
  <2> QED
    BY <1>1, <1>3, <1>5, <2>4, <2>5 DEF Resolve
<1>6. CASE Reap(p)
  <2>1. proc[p].pc = "reap" /\ a \in Attempt /\ p \in Reapers
    BY <1>0, <1>3, <1>6 DEF Reap, TInv, AtWork, Handlers
  <2>2. /\ proc[p].returned = attempt[a].returned
        /\ proc[p].committed = attempt[a].committed
        /\ \A s \in Slots : slot[s].pc = "running" => slot[s].att # a
    BY <1>3, <2>1 DEF TimelyInv, ReapOK, Over
  <2>3. CASE attempt' = [attempt EXCEPT
               ![a] = [@ EXCEPT !.success = "ok", !.cause = "none", !.routed = TRUE]]
    <3>1. CASE n = a
      <4>1. /\ attempt'[n].success = "ok" /\ attempt'[n].cause = "none"
            /\ attempt'[n].heartbeat = attempt[n].heartbeat
            /\ attempt'[n].returned = attempt[n].returned
            /\ attempt'[n].committed = attempt[n].committed
        BY <1>0, <2>3, <3>1 DEF AttemptRow
      <4> QED
        BY <2>2, <3>1, <4>1 DEF OldRow, NotSettled, FlagsKept, CauseOK
    <3>2. CASE n # a
      <4>1. attempt'[n] = attempt[n]
        BY <1>0, <2>3, <3>2
      <4> QED
        BY <1>0, <4>1 DEF OldRow, NotSettled, FlagsKept, AttemptOK
    <3> QED
      BY <3>1, <3>2
  <2>4. CASE ~Published(p) /\ Fail(p, a, ReapCause(p))
    <3>1. /\ ReapCause(p) = "ResultLost" => attempt[a].returned
          /\ ReapCause(p) = "OrphanedTask" => ~attempt[a].returned
          /\ ~attempt[a].committed
      BY <2>2, <2>4 DEF ReapCause, Published
    <3>2. Fail(p, a, ReapCause(p))
      BY <2>4
    <3> HIDE DEF ReapCause
    <3> QED
      BY <2>1, <2>2, <3>1, <3>2, FailRows
  <2> QED
    BY <1>1, <1>3, <1>6, <2>3, <2>4 DEF Reap
<1> QED
  BY <1>2, <1>4, <1>5, <1>6 DEF HandlerStep

LEMMA HandlerTimely ==
  ASSUME Calm, TimelyInv, [Next]_vars, NEW p \in Handlers,
         HandlerStep(p) \/ Reap(p) \/ ProcDies(p) \/ HandlerFails(p)
  PROVE  TimelyInv'
<1>0. TInv /\ UNCHANGED <<slot, row, saved>>
  BY DEF TimelyInv, IInv, HandlerStep, Resolve, DispatchHook, MarkRouted, Reap,
         ProcDies, HandlerFails
<1>1. /\ \A q \in Handlers : q # p => proc'[q] = proc[q]
      /\ proc'[p].pc # "reap" /\ proc[p].pc # "idle"
      /\ proc'[p].pc # "idle" => proc'[p].att = proc[p].att
  BY <1>0, HandlerMoves
<1>2. HoldersStay
  BY <1>0, <1>1 DEF HoldersStay, Busy, Handlers
<1>3. \A r \in Reapers : proc'[r].pc = "reap" => proc'[r] = proc[r]
  BY <1>1 DEF Handlers
<1>4. \A n \in Attempt : (NewRow(n) \/ OldRow(n)) /\ NotSettled(n)
  <2>1. CASE HandlerStep(p) \/ Reap(p)
    BY <2>1, HandlerRows
  <2>2. CASE ProcDies(p) \/ HandlerFails(p)
    BY <2>2, RowsSame DEF ProcDies, HandlerFails
  <2> QED
    BY <2>1, <2>2
<1> QED
  BY <1>0, <1>2, <1>3, <1>4, RowsTimely

(* The reaper's three lists: an orphan's lease is stale, which no live     *)
(* execution's is, or its message is gone, which every execution's holds.  *)
LEMMA SweepTimely ==
  ASSUME Calm, TimelyInv, [Next]_vars, NEW r \in Reapers, NEW a \in Attempt,
         Reconcile(r, a) \/ Replay(r, a) \/ Sweep(r, a)
  PROVE  TimelyInv'
<1>0. TInv /\ UNCHANGED <<attempt, slot, row, saved>>
  BY DEF TimelyInv, IInv, Reconcile, Replay, Sweep
<1>1. \A q \in Handlers : q # r => proc'[q] = proc[q]
  BY <1>0 DEF Reconcile, Replay, Sweep, TInv, TypeOK, Proc
<1>2. HoldersStay
  BY <1>0, <1>1, ConstantsAssumption DEF HoldersStay, Busy, Handlers
<1>3. proc'[r].pc = "reap" => ReapOK(r)'
  <2>1. CASE Reconcile(r, a) \/ Replay(r, a)
    BY <1>0, <2>1 DEF Reconcile, Replay, At, Idle, TInv, TypeOK, Proc, Handlers
  <2>2. CASE Sweep(r, a)
    <3>1. /\ proc'[r].att = a
          /\ proc'[r].returned = attempt[a].returned
          /\ proc'[r].committed = attempt[a].committed
      BY <1>0, <2>2 DEF Sweep, TInv, TypeOK, Proc, Handlers
    <3>2. Over(a)
      <4>1. CASE attempt[a].heartbeat = "stale"
        BY <4>1 DEF TimelyInv, AttemptOK
      <4>2. CASE ~row[a]
        BY <4>2 DEF TimelyInv, SlotOK, Busy, Over
      <4> QED
        BY <2>2, <4>1, <4>2 DEF Sweep, Orphaned
    <3>3. Over(a)'
      BY <1>0, <3>2 DEF Over, MayExecute
    <3> QED
      BY <1>0, <3>1, <3>3 DEF ReapOK, Over, MayExecute
  <2> QED
    BY <2>1, <2>2
<1>4. \A q \in Reapers : proc'[q].pc = "reap" => proc'[q] = proc[q] \/ ReapOK(q)'
  BY <1>1, <1>3 DEF Handlers
<1>5. \A n \in Attempt : OldRow(n) /\ NotSettled(n)
  BY <1>0, RowsSame
<1> QED
  BY <1>0, <1>2, <1>4, <1>5, RowsTimely

LEMMA OperatorTimely ==
  ASSUME Calm, TimelyInv, [Next]_vars, NEW o \in Operators, Load(o) \/ Requeue(o)
  PROVE  TimelyInv'
<1>0. TInv /\ UNCHANGED <<slot, row, saved>>
  BY DEF TimelyInv, IInv, Load, Requeue
<1>1. \A q \in Handlers : proc'[q] = proc[q]
  BY <1>0, ConstantsAssumption DEF Load, Requeue, MoveTo, TInv, TypeOK, Proc
<1>2. HoldersStay
  BY <1>0, <1>1 DEF HoldersStay, Busy, Handlers
<1>3. \A r \in Reapers : proc'[r] = proc[r]
  BY <1>1 DEF Handlers
<1>4. ASSUME NEW n \in Attempt PROVE (NewRow(n) \/ OldRow(n)) /\ NotSettled(n)
  <2>1. attempt'[n] = attempt[n] \/ NewRow(n)
    BY <1>0 DEF Load, Requeue, Latest, NewRow, TInv, TypeOK
  <2>2. CASE attempt'[n] = attempt[n]
    BY <2>2 DEF OldRow, NotSettled, FlagsKept, TimelyInv, AttemptOK
  <2>3. CASE NewRow(n)
    BY <2>3 DEF NewRow, NotSettled, Exists, TimelyInv, LeaseInv
  <2> QED
    BY <2>1, <2>2, <2>3
<1> QED
  BY <1>0, <1>2, <1>3, <1>4, RowsTimely

LEMMA StepTimely ==
  ASSUME Calm, TimelyInv, [Next]_vars
  PROVE  TimelyInv'
<1>1. CASE \E a \in Attempt : Dispatch(a) \/ Lapse(a) \/ BrokerLoses(a)
  BY <1>1, DispatcherTimely, BrokerTimely
<1>2. ASSUME NEW s \in Slots, WorkerStep(s) PROVE TimelyInv'
  BY <1>2, BrokerTimely, ClaimTimely, WorkerTimely, TargetTimely DEF WorkerStep
<1>3. CASE \E s \in Publishers : Publish(s)
  BY <1>3, TargetTimely DEF Publishers
<1>4. ASSUME NEW m \in Monitors, MonitorStep(m) PROVE TimelyInv'
  BY <1>4, SaveTimely, AcknowledgeTimely, HandlerTimely DEF MonitorStep, Handlers
<1>5. ASSUME NEW r \in Reapers, ReaperStep(r) PROVE TimelyInv'
  BY <1>5, SweepTimely, HandlerTimely DEF ReaperStep, Handlers
<1>6. CASE \E o \in Operators : Load(o) \/ Requeue(o)
  BY <1>6, OperatorTimely
<1>7. CASE \E p \in Handlers : ProcDies(p) \/ HandlerFails(p)
  BY <1>7, HandlerTimely
<1>8. CASE UNCHANGED vars
  <2>1. UNCHANGED <<attempt, row, saved, slot, proc>>
    BY <1>8 DEF vars
  <2>2. HoldersStay
    BY <2>1 DEF HoldersStay, Busy
  <2> QED
    BY <2>1, <2>2, RowsSame, RowsTimely
<1> QED
  BY <1>1, <1>2, <1>3, <1>4, <1>5, <1>6, <1>7, <1>8 DEF Next

LEMMA InitTimely == Init => TimelyInv
<1> SUFFICES ASSUME Init PROVE TimelyInv
  OBVIOUS
<1>1. IInv /\ LeaseInv
  BY InitIInv, InitLease
<1>2. \A s \in Slots : ~Busy(s)
  BY DEF Init, FreeSlot, Busy
<1>3. \A p \in Handlers : proc[p].pc = "idle"
  BY DEF Init, Idle, Proc
<1>4. \A a \in Attempt : /\ attempt[a].heartbeat = "null" /\ attempt[a].cause = "none"
                         /\ attempt[a].committed = FALSE /\ saved[a] = "none"
  BY DEF Init, FreshRow
<1>5. Alone /\ (\A s \in Slots : SlotOK(s)) /\ \A r \in Reapers : ReapOK(r)
  BY <1>2, <1>3 DEF Alone, SlotOK, ReapOK, Handlers
<1>6. (\A a \in Attempt : AttemptOK(a)) /\ CauseIsTrue /\ ReceiptOutranksLostResult
  BY <1>4 DEF AttemptOK, CauseIsTrue, ReceiptOutranksLostResult
<1> QED
  BY <1>1, <1>5, <1>6 DEF TimelyInv

LEMMA TimelyInvHolds ==
  ASSUME Calm
  PROVE  Spec => []TimelyInv
<1>1. TimelyInv /\ [Next]_vars => TimelyInv'
  BY StepTimely
<1> QED
  BY <1>1, InitTimely, PTL DEF Spec

(* With live workers heartbeating, a broker that does not redeliver what   *)
(* is still held, one execution to an attempt (the default), one reaper    *)
(* and one operator, two attempts of a task never execute side by side,    *)
(* whatever crashes or is lost (lease.claim_delivery, reaper.reap_orphans).*)
THEOREM NeverTwoAtOnce ==
  ASSUME Calm
  PROVE  Spec => []NoOverlap
<1>1. TimelyInv => NoOverlap
  <2> SUFFICES ASSUME TimelyInv, NEW s \in Slots, NEW t \in Slots,
                      slot[s].pc = "running", slot[t].pc = "running"
               PROVE  s = t
    BY DEF NoOverlap
  <2>1. PICK a \in Attempt : a = slot[s].att
    BY DEF TimelyInv, IInv, TInv, AtWork
  <2>2. PICK b \in Attempt : b = slot[t].att
    BY DEF TimelyInv, IInv, TInv, AtWork
  <2>3. Unresolved(a) /\ Unresolved(b)
    BY <2>1, <2>2 DEF TimelyInv, SlotOK, LeaseInv, Busy, Unresolved, Exists
  <2>4. Latest(a) /\ Latest(b) /\ Contiguous
    BY <2>3 DEF TimelyInv, IInv, SeriesInv, OneOpenAttempt
  <2>5. a = b
    BY <2>4, NewestUnique
  <2> QED
    BY <2>1, <2>2, <2>5 DEF TimelyInv, Alone, Busy
<1> QED
  BY <1>1, TimelyInvHolds, PTL

(* In the same cluster the reaper names every loss for what it was, though *)
(* it read the row before it had the lock: ResultLost only of a target     *)
(* that ran to its end, OrphanedTask only of one that did not, and neither *)
(* of an attempt that has published (reaper._reap_one).                    *)
THEOREM LossesAreNamedRight ==
  ASSUME Calm
  PROVE  Spec => []LossIsNamedRight
<1>1. TimelyInv => LossIsNamedRight
  BY DEF TimelyInv, LossIsNamedRight
<1> QED
  BY <1>1, TimelyInvHolds, PTL
-----------------------------------------------------------------------------
(* The lifecycle implements the contract of TaskContract.  The attempts    *)
(* that exist are numbered from 1 without a gap, so the series a caller    *)
(* sees is as long as the newest attempt's number.                         *)

Shown == {"open", "ok", "fail"}
Show(a) == IF attempt[a].success = "none" THEN "open" ELSE attempt[a].success

Length(k) == k \in Attempt /\ \A n \in Attempt : Exists(n) <=> n <= k

RefineInv == IInv /\ \E k \in Attempt : Length(k)

Implements == [Contract!Next]_(Contract!vars)

LEMMA CountIs ==
  ASSUME NEW k \in Attempt, NEW S \in SUBSET Attempt, \A n \in Attempt : n \in S <=> n <= k
  PROVE  Cardinality(S) = k
<1>1. k \in Nat /\ k >= 1
  BY ConstantsAssumption DEF Attempt
<1>2. ASSUME NEW n \in S PROVE n \in 1..k
  <2>1. n \in Attempt /\ n <= k
    OBVIOUS
  <2> QED
    BY <1>1, <2>1, ConstantsAssumption DEF Attempt
<1>3. ASSUME NEW n \in 1..k PROVE n \in S
  <2>1. n \in Attempt /\ n <= k
    BY <1>1, <1>3, ConstantsAssumption DEF Attempt
  <2> QED
    BY <2>1
<1>4. S = 1..k
  BY <1>2, <1>3
<1> QED
  BY <1>1, <1>4, FS_Interval

LEMMA SeriesIs ==
  ASSUME TInv, NEW k, Length(k)
  PROVE  /\ SeriesOf \in [1..k -> Shown] /\ k \in Nat \ {0} /\ 1..k \subseteq Attempt
         /\ \A i \in 1..k : SeriesOf[i] = Show(i)
<1>1. k \in Attempt /\ k \in Nat \ {0} /\ 1..k \subseteq Attempt
  BY ConstantsAssumption DEF Length, Attempt
<1>2. Cardinality({n \in Attempt : Exists(n)}) = k
  <2> DEFINE S == {n \in Attempt : Exists(n)}
  <2>1. S \in SUBSET Attempt /\ \A n \in Attempt : n \in S <=> n <= k
    BY DEF Length
  <2> HIDE DEF S
  <2> QED
    BY <1>1, <2>1, CountIs DEF S
<1>3. SeriesOf = [a \in 1..k |-> Show(a)]
  BY <1>2 DEF SeriesOf, Show
<1>4. \A a \in Attempt : Show(a) \in Shown
  BY DEF TInv, TypeOK, AttemptRow, Outcome, Show, Shown
<1> QED
  BY <1>1, <1>3, <1>4

LEMMA SeriesNext ==
  ASSUME TInv', NEW k, Length(k)'
  PROVE  /\ SeriesOf' \in [1..k -> Shown] /\ k \in Nat \ {0} /\ 1..k \subseteq Attempt
         /\ \A i \in 1..k : SeriesOf'[i] = Show(i)'
<1>1. k \in Attempt /\ k \in Nat \ {0} /\ 1..k \subseteq Attempt
  BY ConstantsAssumption DEF Length, Attempt
<1>2. Cardinality({n \in Attempt : Exists(n)'}) = k
  <2> DEFINE S == {n \in Attempt : Exists(n)'}
  <2>1. S \in SUBSET Attempt /\ \A n \in Attempt : n \in S <=> n <= k
    BY DEF Length
  <2> HIDE DEF S
  <2> QED
    BY <1>1, <2>1, CountIs DEF S
<1>3. SeriesOf' = [a \in 1..k |-> Show(a)']
  BY <1>2 DEF SeriesOf, Show
<1>4. \A a \in Attempt : Show(a)' \in Shown
  BY DEF TInv, TypeOK, AttemptRow, Outcome, Show, Shown
<1> QED
  BY <1>1, <1>3, <1>4

LEMMA ShownLen ==
  ASSUME NEW k \in Nat, NEW s \in [1..k -> Shown]
  PROVE  s \in Seq(Shown) /\ Len(s) = k
<1>1. s \in Seq(Shown)
  OBVIOUS
<1> QED
  BY <1>1, LenProperties

(* A step that neither adds nor settles an attempt.                        *)
LEMMA QuietRefines ==
  ASSUME TInv, TInv', NEW k, Length(k), \A n \in Attempt : SameAt(n)
  PROVE  Length(k)' /\ SeriesOf' = SeriesOf
<1>1. \A n \in Attempt : Exists(n)' <=> Exists(n)
  BY ExistsAt
<1>2. Length(k)'
  BY <1>1 DEF Length
<1>3. \A n \in Attempt : Show(n)' = Show(n)
  BY DEF Show, SameAt
<1> QED
  BY <1>2, <1>3, SeriesIs, SeriesNext

(* The open attempt is the newest, and its task RUNNING if it is QUEUED.   *)
LEMMA OpenIsNewest ==
  ASSUME IInv, NEW k, Length(k), NEW a \in Attempt, Unresolved(a)
  PROVE  /\ a = k
         /\ attempt[a].state = "QUEUED" => status = "RUNNING"
<1>1. Latest(a)
  BY DEF IInv, SeriesInv, OneOpenAttempt
<1>2. a = k
  BY <1>1, ConstantsAssumption DEF Latest, Length, Attempt, Exists
<1> QED
  BY <1>1, <1>2 DEF IInv, SeriesInv, StatusMatchesAttempts

LEMMA SettledSeries ==
  ASSUME TInv, TInv', NEW k, Length(k), NEW out \in {"ok", "fail"},
         attempt'[k].state = attempt[k].state, attempt'[k].success = out,
         \A n \in Attempt \ {k} : SameAt(n)
  PROVE  Length(k)' /\ SeriesOf' = [SeriesOf EXCEPT ![Len(SeriesOf)] = out]
<1>1. \A n \in Attempt : Exists(n)' <=> Exists(n)
  BY ExistsAt DEF Length, Exists
<1>2. Length(k)'
  BY <1>1 DEF Length
<1>3. \A n \in Attempt : Show(n)' = IF n = k THEN out ELSE Show(n)
  BY DEF Show, SameAt
<1>4. Len(SeriesOf) = k
  BY SeriesIs, ShownLen
<1>5. SeriesOf' = [SeriesOf EXCEPT ![k] = out]
  BY <1>2, <1>3, SeriesIs, SeriesNext
<1> QED
  BY <1>2, <1>4, <1>5

LEMMA ExtendedSeries ==
  ASSUME TInv, TInv', NEW k, Length(k), k + 1 \in Attempt,
         attempt'[k].state = attempt[k].state,
         \/ attempt'[k].success = attempt[k].success
         \/ attempt'[k].success = "fail",
         attempt'[k + 1].state = "SCHEDULED", attempt'[k + 1].success = "none",
         \A n \in Attempt \ {k, k + 1} : SameAt(n)
  PROVE  /\ Length(k + 1)'
         /\ attempt'[k].success = "fail" =>
              SeriesOf' = Append([SeriesOf EXCEPT ![Len(SeriesOf)] = "fail"], "open")
         /\ attempt'[k].success = attempt[k].success =>
              SeriesOf' = Append(SeriesOf, "open")
<1>0. k \in Attempt /\ k \in Nat /\ k >= 1 /\ k + 1 \in Nat
  BY ConstantsAssumption DEF Length, Attempt
<1>1. \A n \in Attempt : Exists(n)' <=> Exists(n) \/ n = k + 1
  BY ExistsAt DEF Length, Exists
<1>2. Length(k + 1)'
  BY <1>0, <1>1, ConstantsAssumption DEF Length, Attempt
<1>3. \A n \in Attempt : n \notin {k, k + 1} => Show(n)' = Show(n)
  BY DEF Show, SameAt
<1>4. Show(k + 1)' = "open"
  BY DEF Show
<1>5. /\ SeriesOf \in [1..k -> Shown] /\ 1..k \subseteq Attempt
      /\ \A i \in 1..k : SeriesOf[i] = Show(i)
  BY SeriesIs
<1>6. /\ SeriesOf' \in [1..(k + 1) -> Shown] /\ 1..(k + 1) \subseteq Attempt
      /\ \A i \in 1..(k + 1) : SeriesOf'[i] = Show(i)'
  BY <1>2, SeriesNext
<1>7. ASSUME NEW s \in [1..k -> Shown],
             \A i \in 1..k : s[i] = Show(i)'
      PROVE  SeriesOf' = Append(s, "open")
  <2>1. s \in Seq(Shown) /\ Len(s) = k
    BY <1>0, ShownLen
  <2>2. SeriesOf' \in Seq(Shown) /\ Len(SeriesOf') = k + 1
    BY <1>0, <1>6, ShownLen
  <2>3. /\ Append(s, "open") \in Seq(Shown) /\ Len(Append(s, "open")) = k + 1
        /\ \A i \in 1..k : Append(s, "open")[i] = s[i]
        /\ Append(s, "open")[k + 1] = "open"
    BY <2>1, AppendProperties DEF Shown
  <2>4. ASSUME NEW i \in 1..(k + 1) PROVE SeriesOf'[i] = Append(s, "open")[i]
    <3>1. CASE i = k + 1
      BY <1>4, <1>6, <2>3, <3>1
    <3>2. CASE i \in 1..k
      BY <1>6, <1>7, <2>3, <3>2
    <3> QED
      BY <1>0, <3>1, <3>2
  <2> QED
    BY <2>2, <2>3, <2>4, SeqEqual
<1>8. ASSUME attempt'[k].success = "fail"
      PROVE  SeriesOf' = Append([SeriesOf EXCEPT ![Len(SeriesOf)] = "fail"], "open")
  <2>1. Len(SeriesOf) = k
    BY <1>0, <1>5, ShownLen
  <2>2. Show(k)' = "fail"
    BY <1>8 DEF Show
  <2>3. [SeriesOf EXCEPT ![k] = "fail"] \in [1..k -> Shown]
    BY <1>5 DEF Shown
  <2>4. \A i \in 1..k : [SeriesOf EXCEPT ![k] = "fail"][i] = Show(i)'
    BY <1>0, <1>3, <1>5, <2>2
  <2> QED
    BY <1>7, <2>1, <2>3, <2>4
<1>9. ASSUME attempt'[k].success = attempt[k].success
      PROVE  SeriesOf' = Append(SeriesOf, "open")
  <2>1. \A i \in 1..k : SeriesOf[i] = Show(i)'
    BY <1>0, <1>3, <1>5, <1>9 DEF Show
  <2> QED
    BY <1>5, <1>7, <2>1
<1> QED
  BY <1>2, <1>8, <1>9

(* The two ways an open attempt is settled.                                *)
LEMMA SuccessRefines ==
  ASSUME IInv, TInv', NEW k, Length(k), NEW a \in Attempt,
         attempt[a].state = "QUEUED", attempt[a].success = "none",
         status' = "SUCCEEDED", UNCHANGED <<died, hooks>>,
         attempt'[a].state = attempt[a].state, attempt'[a].success = "ok",
         \A n \in Attempt \ {a} : SameAt(n)
  PROVE  Implements /\ Length(k)'
<1>1. a = k /\ status = "RUNNING" /\ TInv
  BY OpenIsNewest DEF Unresolved, Exists, IInv
<1>2. Length(k)' /\ SeriesOf' = [SeriesOf EXCEPT ![Len(SeriesOf)] = "ok"]
  BY <1>1, SettledSeries
<1>3. Contract!Succeed
  BY <1>1, <1>2 DEF Contract!Succeed, Contract!Newest
<1> QED
  BY <1>2, <1>3 DEF Implements, Contract!Next

LEMMA FailRefines ==
  ASSUME IInv, TInv', NEW k, Length(k), NEW p, NEW a \in Attempt, NEW cause,
         attempt[a].state = "QUEUED", attempt[a].success = "none",
         Fail(p, a, cause), UNCHANGED hooks
  PROVE  Implements /\ \E j \in Attempt : Length(j)'
<1>1. a = k /\ status = "RUNNING" /\ TInv /\ k \in Attempt
  BY OpenIsNewest DEF Unresolved, Exists, IInv, Length
<1>2. CASE UNCHANGED <<status, attempt, died>>
  <2>1. Length(k)' /\ SeriesOf' = SeriesOf
    BY <1>1, <1>2, QuietRefines DEF SameAt
  <2> QED
    BY <1>1, <1>2, <2>1 DEF Implements, Contract!vars
<1>3. ASSUME NEW verdict \in Verdicts(a), ~(verdict = "PENDING" /\ Exists(a + 1)),
             SettleFailed(a, cause, verdict)
      PROVE  Implements /\ \E j \in Attempt : Length(j)'
  <2>1. /\ status' = verdict /\ died' = (died \/ verdict \in Dead)
        /\ verdict = "PENDING" \/ verdict \in Dead
    BY <1>3 DEF SettleFailed, Verdicts, Dead
  <2>2. /\ attempt'[a].state = attempt[a].state
        /\ attempt'[a].success = "fail"
    <3>1. PICK b : attempt'[a] = [attempt[a] EXCEPT !.success = "fail", !.cause = cause,
                                                    !.routed = b]
      BY <1>3 DEF SettleFailed
    <3>2. attempt[a] \in AttemptRow
      BY <1>1 DEF TInv, TypeOK
    <3> QED
      BY <3>1, <3>2 DEF AttemptRow
  <2>3. CASE verdict \in Dead
    <3>1. \A n \in Attempt \ {a} : SameAt(n)
      BY <1>3, <2>3 DEF SettleFailed, SameAt, Dead
    <3>2. Length(k)' /\ SeriesOf' = [SeriesOf EXCEPT ![Len(SeriesOf)] = "fail"]
      BY <1>1, <2>2, <3>1, SettledSeries
    <3>3. Contract!GiveUp
      BY <1>1, <2>1, <2>3, <3>2
         DEF Contract!GiveUp, Contract!Newest, Contract!Dead, Dead
    <3> QED
      BY <1>1, <3>2, <3>3 DEF Implements, Contract!Next
  <2>4. CASE verdict = "PENDING"
    <3>1. a + 1 \in Attempt
      BY <1>3, <2>4, RetryFits
    <3>2. attempt'[a + 1] = FreshRow("SCHEDULED")
      BY <1>3, <2>4, <3>1, ConstantsAssumption DEF SettleFailed, Attempt
    <3>3. attempt'[a + 1].state = "SCHEDULED" /\ attempt'[a + 1].success = "none"
      BY <3>2 DEF FreshRow
    <3>4. \A n \in Attempt \ {a, a + 1} : SameAt(n)
      BY <1>3 DEF SettleFailed, SameAt
    <3>5. /\ Length(k + 1)'
          /\ SeriesOf' = Append([SeriesOf EXCEPT ![Len(SeriesOf)] = "fail"], "open")
      BY <1>1, <2>2, <3>1, <3>3, <3>4, ExtendedSeries
    <3>6. died' = died
      BY <1>1, <2>1, <2>4 DEF Dead, TInv, TypeOK
    <3>7. Contract!Retry
      BY <1>1, <2>1, <2>4, <3>5, <3>6 DEF Contract!Retry, Contract!Newest
    <3> QED
      BY <1>1, <3>1, <3>5, <3>7 DEF Implements, Contract!Next
  <2> QED
    BY <2>1, <2>3, <2>4
<1> QED
  BY <1>2, <1>3 DEF Fail

LEMMA HandlerRefines ==
  ASSUME Solo, IInv, TInv', NEW k, Length(k), NEW p \in Handlers,
         HandlerStep(p) \/ Reap(p)
  PROVE  Implements /\ \E j \in Attempt : Length(j)'
<1>0. TInv /\ HandlerOK(p) /\ k \in Attempt
  BY DEF IInv, Length
<1>1. PICK a : a = proc[p].att
  OBVIOUS
<1>2. CASE UNCHANGED <<status, attempt, died, hooks>>
  <2>1. Length(k)' /\ SeriesOf' = SeriesOf
    BY <1>0, <1>2, QuietRefines DEF SameAt
  <2> QED
    BY <1>0, <1>2, <2>1 DEF Implements, Contract!vars
<1>3. CASE MarkRouted(p)
  <2>1. \A n \in Attempt : SameAt(n)
    BY <1>0, <1>3 DEF MarkRouted, SameAt, TInv, TypeOK, AttemptRow
  <2>2. Length(k)' /\ SeriesOf' = SeriesOf
    BY <1>0, <2>1, QuietRefines
  <2> QED
    BY <1>0, <1>3, <2>2 DEF MarkRouted, Implements, Contract!vars
<1>4. CASE Resolve(p) /\ Resolvable(a)
  <2>1. Resolving(p)
    BY <1>1, <1>4 DEF Resolve, Resolvable, Resolving
  <2>2. a \in Attempt /\ attempt[a].state = "QUEUED" /\ attempt[a].success = "none"
    BY <1>1, <2>1, ResolvingFacts DEF Resolving
  <2>3. CASE /\ attempt' = [attempt EXCEPT ![a].success = "ok"]
             /\ status' = "SUCCEEDED" /\ UNCHANGED <<died, hooks>>
    <3>1. /\ attempt'[a].state = attempt[a].state /\ attempt'[a].success = "ok"
          /\ \A n \in Attempt \ {a} : SameAt(n)
      BY <1>0, <2>2, <2>3 DEF SameAt, TInv, TypeOK, AttemptRow
    <3> QED
      BY <1>0, <2>2, <2>3, <3>1, SuccessRefines
  <2>4. CASE Fail(p, a, "raised") /\ UNCHANGED hooks
    BY <2>2, <2>4, FailRefines
  <2> QED
    BY <1>1, <1>4, <2>3, <2>4 DEF Resolve
<1>5. CASE Reap(p) /\ StillLost(a)
  <2>1. Resolving(p)
    BY <1>0, <1>1, <1>5 DEF Reap, StillLost, Resolving, HandlerOK
  <2>2. a \in Attempt /\ attempt[a].state = "QUEUED" /\ attempt[a].success = "none"
    BY <1>1, <2>1, ResolvingFacts DEF Resolving
  <2>3. CASE /\ attempt' = [attempt EXCEPT ![a] =
                  [@ EXCEPT !.success = "ok", !.cause = "none", !.routed = TRUE]]
             /\ status' = "SUCCEEDED" /\ UNCHANGED <<died, hooks>>
    <3>1. /\ attempt'[a].state = attempt[a].state /\ attempt'[a].success = "ok"
          /\ \A n \in Attempt \ {a} : SameAt(n)
      BY <1>0, <2>2, <2>3 DEF SameAt, TInv, TypeOK, AttemptRow
    <3> QED
      BY <1>0, <2>2, <2>3, <3>1, SuccessRefines
  <2>4. CASE Fail(p, a, ReapCause(p)) /\ UNCHANGED hooks
    BY <2>2, <2>4, FailRefines
  <2> QED
    BY <1>1, <1>5, <2>3, <2>4 DEF Reap
<1>6. CASE DispatchHook(p)
  <2>1. Length(k)' /\ SeriesOf' = SeriesOf /\ UNCHANGED <<status, died>>
    BY <1>0, <1>6, QuietRefines DEF SameAt, DispatchHook
  <2>2. ASSUME NEW h, hooks' = hooks \cup {h}, h \notin hooks PROVE Implements
    <3>1. IInv'
      BY <1>6, HandlerKeeps DEF HandlerStep
    <3>2. h \in {"success", "failure"}
      BY <2>2 DEF TInv, TypeOK
    <3>3. (h = "success" => status = "SUCCEEDED") /\ (h = "failure" => died)
      BY <2>1, <2>2, <3>1 DEF IInv, HooksTellTheTruth
    <3>4. Contract!Fire(h)
      BY <2>1, <2>2, <3>3 DEF Contract!Fire
    <3> QED
      BY <3>2, <3>4 DEF Implements, Contract!Next
  <2>3. CASE hooks' = hooks
    BY <1>0, <2>1, <2>3 DEF Implements, Contract!vars
  <2>4. hooks' = hooks \/ \E h : hooks' = hooks \cup {h} /\ h \notin hooks
    BY <1>6 DEF DispatchHook
  <2> QED
    BY <1>0, <2>1, <2>2, <2>3, <2>4
<1> QED
  BY <1>1, <1>2, <1>3, <1>4, <1>5, <1>6 DEF HandlerStep, Resolve, Reap

(* Neither the broker, the workers nor what a process reads shows.         *)
LEMMA UnseenSteps ==
  ASSUME TInv,
         \/ \E a \in Attempt : Lapse(a) \/ BrokerLoses(a)
         \/ \E s \in Slots : WorkerStep(s) \/ Publish(s)
         \/ \E m \in Monitors : \/ \E s \in Slots : SaveResult(m, s) \/ SaveFails(m, s)
                                \/ Acknowledge(m)
         \/ \E r \in Reapers, a \in Attempt : Reconcile(r, a) \/ Replay(r, a) \/ Sweep(r, a)
         \/ \E o \in Operators : Load(o)
         \/ \E p \in Handlers : ProcDies(p) \/ HandlerFails(p)
         \/ UNCHANGED vars
  PROVE  UNCHANGED <<status, died, hooks>> /\ \A n \in Attempt : SameAt(n)
<1> DEFINE Same == UNCHANGED <<status, died, hooks>>
<1>1. Same
  <2>1. ASSUME NEW a \in Attempt, Lapse(a) \/ BrokerLoses(a)
        PROVE  Same
    BY <2>1 DEF Lapse, BrokerLoses
  <2>2. ASSUME NEW s \in Slots, WorkerStep(s) \/ Publish(s)
        PROVE  Same
    BY <2>2 DEF WorkerStep, Deliver, Claim, Beat, Publish, Return, WorkerDies
  <2>3. ASSUME NEW m \in Monitors, NEW s \in Slots, SaveResult(m, s) \/ SaveFails(m, s)
        PROVE  Same
    BY <2>3 DEF SaveResult, SaveFails
  <2>4. ASSUME NEW r \in Reapers, NEW a \in Attempt,
             Reconcile(r, a) \/ Replay(r, a) \/ Sweep(r, a)
        PROVE  Same
    BY <2>4 DEF Reconcile, Replay, Sweep
  <2>5. ASSUME NEW m \in Monitors, Acknowledge(m) PROVE Same
    BY <2>5 DEF Acknowledge
  <2>6. ASSUME NEW o \in Operators, Load(o) PROVE Same
    BY <2>6 DEF Load
  <2>7. ASSUME NEW p \in Handlers, ProcDies(p) \/ HandlerFails(p) PROVE Same
    BY <2>7 DEF ProcDies, HandlerFails
  <2>8. CASE UNCHANGED vars
    BY <2>8 DEF vars
  <2> HIDE DEF Same
  <2> QED
    BY <2>1, <2>2, <2>3, <2>4, <2>5, <2>6, <2>7, <2>8
<1>2. ASSUME attempt' = attempt PROVE \A n \in Attempt : SameAt(n)
  BY <1>2 DEF SameAt
<1>3. ASSUME NEW a \in Attempt, Lapse(a) PROVE \A n \in Attempt : SameAt(n)
  BY <1>3 DEF Lapse, SameAt, TInv, TypeOK, AttemptRow
<1>4. ASSUME NEW s \in Slots, Claim(s) PROVE \A n \in Attempt : SameAt(n)
  BY <1>4 DEF Claim, SameAt, TInv, TypeOK, AttemptRow
<1>5. ASSUME NEW s \in Slots, Beat(s) PROVE \A n \in Attempt : SameAt(n)
  BY <1>5 DEF Beat, SameAt, TInv, TypeOK, AttemptRow
<1>6. ASSUME NEW s \in Slots, Publish(s) PROVE \A n \in Attempt : SameAt(n)
  BY <1>6 DEF Publish, SameAt, TInv, TypeOK, AttemptRow
<1>7. ASSUME NEW s \in Slots, NEW out, Return(s, out) PROVE \A n \in Attempt : SameAt(n)
  BY <1>7 DEF Return, SameAt, TInv, TypeOK, AttemptRow
<1> QED
  BY <1>1, <1>2, <1>3, <1>4, <1>5, <1>6, <1>7
     DEF BrokerLoses, WorkerStep, Deliver, WorkerDies, SaveResult, SaveFails,
         Acknowledge, Reconcile, Replay, Sweep, Load, ProcDies, HandlerFails, vars

LEMMA DispatchRefines ==
  ASSUME IInv, TInv', NEW k, Length(k), NEW a \in Attempt, Dispatch(a)
  PROVE  Implements /\ Length(k)'
<1>1. TInv /\ Unresolved(a)
  BY DEF Dispatch, Unresolved, Exists, IInv, OnlyQueuedLeaves
<1>2. status = "PENDING"
  BY <1>1 DEF Dispatch, IInv, SeriesInv, OneOpenAttempt, StatusMatchesAttempts
<1>3. \A n \in Attempt : Exists(n)' <=> Exists(n)
  BY <1>1 DEF Dispatch, Exists, TInv, TypeOK, AttemptRow
<1>4. \A n \in Attempt : Show(n)' = Show(n)
  BY <1>1 DEF Dispatch, Show, TInv, TypeOK, AttemptRow
<1>5. Length(k)'
  BY <1>3 DEF Length
<1>6. SeriesOf' = SeriesOf
  BY <1>1, <1>4, <1>5, SeriesIs, SeriesNext
<1>7. Contract!Start
  BY <1>2, <1>6 DEF Dispatch, StatusOnceQueued, Contract!Start
<1> QED
  BY <1>5, <1>7 DEF Implements, Contract!Next

LEMMA RequeueRefines ==
  ASSUME IInv, TInv', NEW k, Length(k), NEW o \in Operators, Requeue(o)
  PROVE  Implements /\ \E j \in Attempt : Length(j)'
<1>0. TInv
  BY DEF IInv
<1>1. PICK a \in Attempt :
        /\ Latest(a) /\ a + 1 \in Attempt
        /\ attempt' = [attempt EXCEPT ![a + 1] = FreshRow("SCHEDULED")]
  BY DEF Requeue
<1>2. a = k
  BY <1>1, ConstantsAssumption DEF Latest, Length, Attempt, Exists
<1>3. status \in Dead /\ status' = "PENDING" /\ UNCHANGED <<died, hooks>>
  BY DEF Requeue, IInv, OperatorOK
<1>4. /\ attempt'[k + 1] = FreshRow("SCHEDULED")
      /\ \A n \in Attempt \ {k + 1} : attempt'[n] = attempt[n]
  BY <1>0, <1>1, <1>2 DEF TInv, TypeOK
<1>5. /\ attempt'[k + 1].state = "SCHEDULED" /\ attempt'[k + 1].success = "none"
      /\ attempt'[k] = attempt[k]
      /\ \A n \in Attempt \ {k, k + 1} : SameAt(n)
  BY <1>1, <1>2, <1>4, ConstantsAssumption DEF FreshRow, SameAt, Attempt
<1>6. Length(k + 1)' /\ SeriesOf' = Append(SeriesOf, "open")
  BY <1>0, <1>1, <1>2, <1>5, ExtendedSeries
<1>7. Contract!Requeue
  BY <1>3, <1>6 DEF Contract!Requeue, Contract!Dead, Dead
<1> QED
  BY <1>1, <1>2, <1>6, <1>7 DEF Implements, Contract!Next

LEMMA StepRefines ==
  ASSUME Solo, RefineInv, [Next]_vars
  PROVE  Implements /\ RefineInv'
<1>1. IInv /\ IInv' /\ TInv /\ TInv'
  BY StepIInv DEF RefineInv, IInv
<1>2. PICK k \in Attempt : Length(k)
  BY DEF RefineInv
<1>3. ASSUME UNCHANGED <<status, died, hooks>>, \A n \in Attempt : SameAt(n)
      PROVE  Implements /\ \E j \in Attempt : Length(j)'
  <2>1. Length(k)' /\ SeriesOf' = SeriesOf
    BY <1>1, <1>2, <1>3, QuietRefines
  <2> QED
    BY <1>2, <1>3, <2>1 DEF Implements, Contract!vars
<1>4. Implements /\ \E j \in Attempt : Length(j)'
  <2>1. CASE \E a \in Attempt : Dispatch(a) \/ Lapse(a) \/ BrokerLoses(a)
    BY <1>1, <1>2, <1>3, <2>1, DispatchRefines, UnseenSteps
  <2>2. CASE (\E s \in Slots : WorkerStep(s)) \/ \E s \in Publishers : Publish(s)
    BY <1>1, <1>3, <2>2, UnseenSteps DEF Publishers
  <2>3. CASE \E m \in Monitors : MonitorStep(m)
    BY <1>1, <1>2, <1>3, <2>3, HandlerRefines, UnseenSteps DEF MonitorStep, Handlers
  <2>4. CASE \E r \in Reapers : ReaperStep(r)
    BY <1>1, <1>2, <1>3, <2>4, HandlerRefines, UnseenSteps DEF ReaperStep, Handlers
  <2>5. CASE \E o \in Operators : Load(o) \/ Requeue(o)
    BY <1>1, <1>2, <1>3, <2>5, RequeueRefines, UnseenSteps
  <2>6. CASE (\E p \in Handlers : ProcDies(p) \/ HandlerFails(p)) \/ UNCHANGED vars
    BY <1>1, <1>3, <2>6, UnseenSteps
  <2> QED
    BY <2>1, <2>2, <2>3, <2>4, <2>5, <2>6 DEF Next
<1> QED
  BY <1>1, <1>4 DEF RefineInv

LEMMA InitRefines == Init => RefineInv /\ Contract!Init
<1> SUFFICES ASSUME Init PROVE RefineInv /\ Contract!Init
  OBVIOUS
<1>1. IInv /\ TInv /\ 1 \in Attempt
  BY InitIInv, ConstantsAssumption DEF IInv, Attempt
<1>2. \A n \in Attempt : /\ Exists(n) <=> n = 1
                         /\ attempt[n].success = "none"
  BY DEF Init, FreshRow, Exists
<1>3. Length(1)
  BY <1>1, <1>2, ConstantsAssumption DEF Length, Attempt
<1>4. SeriesOf = <<"open">>
  <2>1. SeriesOf \in [1..1 -> Shown] /\ SeriesOf[1] = "open"
    <3>1. /\ SeriesOf \in [1..1 -> Shown]
          /\ \A i \in 1..1 : SeriesOf[i] = Show(i)
      BY <1>1, <1>3, SeriesIs
    <3>2. Show(1) = "open"
      BY <1>1, <1>2 DEF Show
    <3> QED
      BY <3>1, <3>2
  <2>2. SeriesOf \in Seq(Shown) /\ Len(SeriesOf) = 1
    BY <2>1, ShownLen
  <2>3. <<"open">> \in Seq(Shown) /\ Len(<<"open">>) = 1 /\ <<"open">>[1] = "open"
    BY DEF Shown
  <2> QED
    BY <2>1, <2>2, <2>3, SeqEqual
<1> QED
  BY <1>1, <1>3, <1>4 DEF Init, RefineInv, Contract!Init

(* Whatever the broker redelivers, the processes crash over and the reaper *)
(* takes back, a caller sees only a series of attempts of which the newest *)
(* alone can be open, each settled once, each hook at most once and only   *)
(* for an outcome the task has had: the lifecycle implements TaskContract  *)
(* with one reaper and one operator.                                       *)
THEOREM TaskKeepsItsContract == ASSUME Solo PROVE Spec => KeepsContract
<1>1. RefineInv /\ [Next]_vars => Implements /\ RefineInv'
  BY StepRefines
<1>2. Implements => [Contract!Next]_(Contract!vars)
  BY DEF Implements
<1>3. Init => RefineInv /\ Contract!Init
  BY InitRefines
<1> QED
  BY <1>1, <1>2, <1>3, PTL DEF Spec, KeepsContract, Contract!Spec
=============================================================================
