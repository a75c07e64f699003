----------------------------- MODULE AliveProofs -----------------------------
(***************************************************************************)
(* An attempt on its way to a worker keeps its message, its allowance and  *)
(* its outcome, through a broker of either kind, for any number of         *)
(* dispatchers, workers, messages and crashes; and what the watchdogs say  *)
(* is true for any number of reapers, any thresholds and any resumes.      *)
(***************************************************************************)
EXTENDS Alive, FiniteSetTheorems, TLAPS

(***************************************************************************)
(* The handoff.                                                            *)
(*                                                                         *)
(* A row is scheduled and untouched until it is queued, by the dispatcher  *)
(* that holds it or through a marker, and from then on it has the id of a  *)
(* message that was sent.  With one message there is only one id to have,  *)
(* and that is why its deliveries are counted.                             *)
(***************************************************************************)

(* One dispatcher holds the row, and while it does nobody queues it.       *)
LocksInv ==
  /\ \A d \in Dispatchers : disp[d].pc \in {"claimed", "pushed"} <=> d \in locks
  /\ \A d, e \in locks : d = e
  /\ locks # {} => row.state = "SCHEDULED"
  /\ \A d \in Dispatchers : disp[d].pc = "pushed" => disp[d].msg \in Messages

RowInv ==
  /\ row.state = "QUEUED" => row.q2 \in sent
  /\ row.state # "QUEUED" => row = NewRow(row.state, 0)
  /\ row.success # "none" => status \in {"SUCCEEDED", "FAILED"}

Owned == {"adopted", "opened", "guard", "running", "traced"}
SlotInv ==
  /\ \A s \in Slots : slot[s].pc # "free" => slot[s].msg \in sent
  /\ \A s \in Slots : slot[s].pc \in Owned => row.state = "QUEUED"

Lone == \A m, n \in sent : m = n

ClaimInv ==
  InDatabase /\ ~install.legacy => Lone /\ (row.state = "SCHEDULED" => sent = {})

CountInv == Lone => runs = row.executions

HandInv == TypeOK /\ LocksInv /\ RowInv /\ SlotInv /\ ClaimInv /\ CountInv

Rows == [state: {"absent", "SCHEDULED", "QUEUED"}, q2: Messages \cup {0}, success: Outcome,
         executions: 0..MaxExecutions, heartbeat: {"null", "fresh", "stale"}]
Disps == [pc: {"idle", "read", "claimed", "pushed"}, msg: Messages \cup {0}]
Deliveries == [pc: {"free", "running", "result", "traced", "ack"} \cup Unstarted,
               msg: Messages \cup {0}, out: Outcome, beats: BOOLEAN]
-----------------------------------------------------------------------------
(* One message is as many as the messages sent are.                        *)
LEMMA LoneIsOne ==
  ASSUME HandoffAssumption, TypeOK
  PROVE  Lone <=> Cardinality(sent) <= 1
<1>1. IsFiniteSet(sent)
  <2>1. IsFiniteSet(Messages)
    BY FS_Interval DEF Messages, HandoffAssumption
  <2>2. sent \in SUBSET Messages
    BY DEF TypeOK
  <2> QED
    BY <2>1, <2>2, FS_Subset
<1>2. ASSUME Lone PROVE Cardinality(sent) <= 1
  <2>1. CASE sent = {}
    BY <2>1, FS_EmptySet
  <2>2. CASE sent # {}
    <3>1. PICK m \in sent : sent = {m}
      BY <1>2, <2>2 DEF Lone
    <3> QED
      BY <3>1, FS_Singleton
  <2> QED
    BY <2>1, <2>2
<1>3. ASSUME Cardinality(sent) <= 1, NEW m \in sent, NEW n \in sent, m # n PROVE FALSE
  <2>1. {m} \in SUBSET sent /\ {m} # sent
    BY <1>3
  <2>2. Cardinality({m}) <= Cardinality(sent) /\ Cardinality(sent) # Cardinality({m})
    BY <1>1, <2>1, FS_Subset
  <2>3. Cardinality({m}) = 1 /\ Cardinality(sent) \in Nat
    BY <1>1, FS_Singleton, FS_CardinalityType
  <2> QED
    BY <1>3, <2>2, <2>3
<1> QED
  BY <1>2, <1>3 DEF Lone

LEMMA StartHandoff ==
  ASSUME HandoffAssumption, Init
  PROVE  HandInv
<1>1. PICK st \in {"SCHEDULED", "absent"}, begun \in SUBSET (Messages \cap {1}) :
        /\ st = "absent" => begun # {}
        /\ ~install.legacy => begun = {}
        /\ row = NewRow(st, 0) /\ queue = begun /\ sent = begun
  BY DEF Init
<1>2. TypeOK
  <2>1. row \in Rows
    BY <1>1 DEF NewRow, Rows, Outcome, HandoffAssumption
  <2>2. disp \in [Dispatchers -> Disps] /\ slot \in [Slots -> Deliveries]
    BY DEF Init, Idle, Disps, Free, Deliveries, Outcome
  <2>3. queue \subseteq sent /\ sent \subseteq Messages /\ saved \in [Messages -> Outcome]
    BY <1>1 DEF Init, Outcome
  <2>4. runs \in 0..(MaxExecutions + 1) /\ faults \in 0..MaxFaults
    BY DEF Init, HandoffAssumption
  <2>5. install \in Installs /\ status = "PENDING" /\ locks = {} /\ dropped = FALSE
    BY DEF Init
  <2> QED
    BY <2>1, <2>2, <2>3, <2>4, <2>5 DEF TypeOK, Rows, Disps, Deliveries
<1>3. LocksInv /\ RowInv /\ SlotInv
  BY <1>1 DEF Init, LocksInv, RowInv, SlotInv, NewRow, Idle, Free, Owned
<1>4. ClaimInv /\ CountInv
  BY <1>1 DEF Init, ClaimInv, CountInv, Lone, NewRow
<1> QED
  BY <1>2, <1>3, <1>4 DEF HandInv
-----------------------------------------------------------------------------
(* The dispatcher.                                                         *)

LEMMA DispatcherKeeps ==
  ASSUME HandoffAssumption, HandInv, UNCHANGED install, NEW d \in Dispatchers,
         DispatcherStep(d) \/ Rollback(d)
  PROVE  HandInv'
<1> USE DEF HandInv
<1>1. CASE Read(d)
  <2>1. /\ disp'[d].pc = "read" /\ disp[d].pc = "idle" /\ disp' \in [Dispatchers -> Disps]
        /\ \A e \in Dispatchers \ {d} : disp'[e] = disp[e]
        /\ UNCHANGED <<install, status, row, locks, queue, sent, slot, saved, runs, dropped,
                       faults>>
    BY <1>1 DEF Read, TypeOK, Disps
  <2>2. TypeOK' /\ LocksInv'
    BY <2>1 DEF TypeOK, Disps, LocksInv
  <2>3. RowInv' /\ SlotInv' /\ ClaimInv' /\ CountInv'
    BY <2>1 DEF RowInv, SlotInv, ClaimInv, CountInv, Lone, InDatabase
  <2> QED
    BY <2>2, <2>3
<1>2. CASE Claim(d)
  <2>1. /\ locks = {} /\ disp' \in [Dispatchers -> Disps]
        /\ \A e \in Dispatchers \ {d} : disp'[e] = disp[e]
        /\ \/ row.state = "SCHEDULED" /\ disp'[d].pc = "claimed" /\ locks' = {d}
           \/ disp'[d].pc = "idle" /\ locks' = locks
        /\ UNCHANGED <<install, status, row, queue, sent, slot, saved, runs, dropped, faults>>
    BY <1>2 DEF Claim, TypeOK, Disps, Won, Unlocked, Idle
  <2> HIDE DEF HandInv
  <2> QED
    BY <2>1 DEF HandInv, TypeOK, Disps, InDatabase, LocksInv, RowInv, SlotInv, ClaimInv, CountInv,
                Lone
<1>3. CASE Push(d)
  <2>1. PICK m \in Messages \ sent :
          /\ disp' = [disp EXCEPT ![d] = [pc |-> "pushed", msg |-> m]]
          /\ queue' = IF InDatabase THEN queue ELSE queue \cup {m}
          /\ sent' = IF InDatabase THEN sent ELSE sent \cup {m}
          /\ UNCHANGED <<status, row, locks, slot, saved, runs, dropped, faults>>
    BY <1>3 DEF Push
  <2>2. /\ d \in locks /\ disp' \in [Dispatchers -> Disps]
        /\ disp'[d].pc = "pushed" /\ disp'[d].msg = m
        /\ \A e \in Dispatchers \ {d} : disp'[e] = disp[e]
    BY <1>3, <2>1 DEF Push, TypeOK, Disps, LocksInv
  <2>3. TypeOK' /\ LocksInv'
    BY <2>1, <2>2 DEF TypeOK, Disps, LocksInv
  <2>4. RowInv' /\ SlotInv' /\ CountInv'
    BY <2>1 DEF RowInv, SlotInv, CountInv, Lone, NewRow, TypeOK
  <2>5. ClaimInv'
    BY <2>1 DEF ClaimInv, Lone, InDatabase
  <2> QED
    BY <2>3, <2>4, <2>5
<1>4. CASE Commit(d)
  <2>1. /\ d \in locks /\ locks = {d} /\ row.state = "SCHEDULED" /\ row = NewRow("SCHEDULED", 0)
        /\ disp[d].msg \in Messages
    BY <1>4 DEF Commit, LocksInv, RowInv
  <2>2. PICK m \in Messages : m = disp[d].msg
    BY <2>1
  <2>3. /\ row' = NewRow("QUEUED", m) /\ status' = WhenPending("RUNNING")
        /\ queue' = (IF InDatabase THEN queue \cup {m} ELSE queue) /\ sent' = sent \cup {m}
        /\ locks' = {} /\ disp' \in [Dispatchers -> Disps] /\ disp'[d].pc = "idle"
        /\ \A e \in Dispatchers \ {d} : disp'[e] = disp[e]
        /\ UNCHANGED <<slot, saved, runs, dropped, faults>>
    BY <1>4, <2>1, <2>2 DEF Commit, NewRow, TypeOK, Disps, Idle
  <2>4. TypeOK'
    BY <2>3 DEF TypeOK, Disps, NewRow, WhenPending, Outcome, HandoffAssumption
  <2>5. LocksInv' /\ RowInv' /\ SlotInv'
    BY <2>1, <2>3 DEF LocksInv, RowInv, SlotInv, NewRow, WhenPending, TypeOK
  <2>6. ClaimInv'
    BY <2>1, <2>3 DEF ClaimInv, Lone, InDatabase, NewRow
  <2>7. CountInv'
    BY <2>1, <2>3 DEF CountInv, Lone, NewRow
  <2> QED
    BY <2>4, <2>5, <2>6, <2>7
<1>5. CASE Rollback(d)
  <2>1. /\ locks = {d} /\ locks' = {} /\ disp' \in [Dispatchers -> Disps] /\ disp'[d].pc = "idle"
        /\ \A e \in Dispatchers \ {d} : disp'[e] = disp[e]
        /\ faults' \in 0..MaxFaults
        /\ UNCHANGED <<status, row, queue, sent, slot, saved, runs, dropped>>
    BY <1>5 DEF Rollback, Fault, LocksInv, TypeOK, Disps, Idle, HandoffAssumption
  <2> HIDE DEF HandInv
  <2> QED
    BY <2>1 DEF HandInv, TypeOK, Disps, InDatabase, LocksInv, RowInv, SlotInv, ClaimInv, CountInv,
                Lone
<1> QED
  BY <1>1, <1>2, <1>3, <1>4, <1>5 DEF DispatcherStep
-----------------------------------------------------------------------------
(* The worker.                                                             *)

(* A step of a worker that leaves the row and the messages alone.          *)
LEMMA SlotMoves ==
  ASSUME HandoffAssumption, HandInv, UNCHANGED install, NEW s \in Slots, NEW del \in Deliveries,
         slot' = [slot EXCEPT ![s] = del],
         del.pc # "free" => del.msg \in sent,
         del.pc \in Owned => row.state = "QUEUED",
         queue' \subseteq sent, status' \in {status, WhenPending("RUNNING")},
         dropped' \in BOOLEAN, faults' \in 0..MaxFaults,
         UNCHANGED <<row, locks, disp, sent, saved, runs>>
  PROVE  HandInv'
<1> USE DEF HandInv
<1>1. TypeOK'
  BY DEF TypeOK, Deliveries, WhenPending
<1>2. LocksInv' /\ ClaimInv' /\ CountInv'
  BY DEF LocksInv, ClaimInv, CountInv, Lone, InDatabase
<1>3. RowInv'
  BY DEF RowInv, NewRow, WhenPending
<1>4. SlotInv'
  BY DEF SlotInv, TypeOK
<1> QED
  BY <1>1, <1>2, <1>3, <1>4

LEMMA ClaimKeeps ==
  ASSUME HandoffAssumption, HandInv, UNCHANGED install, NEW s \in Slots, NEW beats \in BOOLEAN,
         NEW unowned \in {"unowned", "guard", "running"},
         slot[s].pc \in Unstarted,
         unowned # "unowned" => slot[s].pc \in Owned,
         ClaimDelivery(s, beats, unowned),
         UNCHANGED <<status, locks, disp, queue, sent, saved, dropped, faults>>
  PROVE  HandInv'
<1>0. slot \in [Slots -> Deliveries] /\ slot[s] \in Deliveries /\ slot[s].msg \in sent
      /\ row \in Rows /\ runs \in 0..(MaxExecutions + 1)
  BY DEF HandInv, TypeOK, Deliveries, Rows, SlotInv, Unstarted
<1>1. CASE /\ row.q2 = slot[s].msg /\ Admits
           /\ row' = [row EXCEPT !.executions = Seen(@), !.heartbeat = "fresh"]
           /\ slot' = [slot EXCEPT ![s].pc = "running", ![s].beats = beats]
           /\ runs' = Called
  <2>1. row.state = "QUEUED" /\ row.success = "none" /\ row.executions < MaxExecutions
    BY <1>0, <1>1 DEF HandInv, RowInv, NewRow, TypeOK, Messages, Admits, Open
  <2>2. /\ row' \in Rows /\ row'.state = "QUEUED" /\ row'.q2 = row.q2 /\ row'.success = "none"
        /\ row'.executions = row.executions + 1
    <3>1. PICK n \in 0..MaxExecutions : n = Seen(row.executions) /\ n = row.executions + 1
      BY <1>0, <2>1 DEF Rows, Seen, HandoffAssumption
    <3>2. row' = [row EXCEPT !.executions = n, !.heartbeat = "fresh"]
      BY <1>1, <3>1, Zenon
    <3> QED
      BY <1>0, <2>1, <3>1, <3>2 DEF Rows
  <2>3. /\ slot' \in [Slots -> Deliveries] /\ slot'[s].pc = "running" /\ slot'[s].msg = slot[s].msg
        /\ \A t \in Slots \ {s} : slot'[t] = slot[t]
    BY <1>0, <1>1 DEF Deliveries
  <2>4. runs' \in 0..(MaxExecutions + 1) /\ (runs = row.executions => runs' = runs + 1)
    BY <1>0, <1>1, <2>1 DEF Called, HandoffAssumption
  <2>5. TypeOK'
    BY <2>2, <2>3, <2>4 DEF HandInv, TypeOK, Rows, Deliveries
  <2>6. LocksInv' /\ RowInv' /\ ClaimInv'
    BY <2>1, <2>2 DEF HandInv, LocksInv, RowInv, ClaimInv, Lone, InDatabase
  <2>7. SlotInv'
    BY <1>0, <2>2, <2>3 DEF HandInv, SlotInv
  <2>8. CountInv'
    BY <2>2, <2>4 DEF HandInv, CountInv, Lone
  <2> QED
    BY <2>5, <2>6, <2>7, <2>8 DEF HandInv
<1>2. CASE /\ row.q2 = slot[s].msg /\ ~Admits
           /\ slot' = [slot EXCEPT ![s].pc = "result", ![s].out = "fail"]
           /\ UNCHANGED <<row, runs>>
  <2>1. PICK del \in Deliveries : del = [slot[s] EXCEPT !.pc = "result", !.out = "fail"]
    BY <1>0 DEF Deliveries, Outcome
  <2>2. slot' = [slot EXCEPT ![s] = del] /\ del.msg = slot[s].msg /\ del.pc = "result"
    BY <1>0, <1>2, <2>1 DEF Deliveries
  <2>3. queue' \subseteq sent /\ dropped' \in BOOLEAN /\ faults' \in 0..MaxFaults
    BY DEF HandInv, TypeOK
  <2> QED
    BY <1>0, <1>2, <2>2, <2>3, SlotMoves DEF Owned
<1>3. CASE /\ row.q2 # slot[s].msg
           /\ slot' = [slot EXCEPT ![s].pc = unowned]
           /\ runs' = IF unowned = "running" THEN Called ELSE runs
           /\ UNCHANGED row
  <2>1. PICK del \in Deliveries : del = [slot[s] EXCEPT !.pc = unowned]
    BY <1>0 DEF Deliveries, Unstarted
  <2>2. slot' = [slot EXCEPT ![s] = del] /\ del.msg = slot[s].msg /\ del.pc = unowned
    BY <1>0, <1>3, <2>1 DEF Deliveries
  <2>3. queue' \subseteq sent /\ dropped' \in BOOLEAN /\ faults' \in 0..MaxFaults
    BY DEF HandInv, TypeOK
  <2>4. unowned # "unowned" => row.state = "QUEUED" /\ ~Lone
    BY <1>0, <1>3 DEF HandInv, SlotInv, RowInv, Lone
  <2>5. CASE unowned # "running"
    BY <1>0, <1>3, <2>2, <2>3, <2>4, <2>5, SlotMoves DEF Owned
  <2>6. CASE unowned = "running"
    <3>1. runs' \in 0..(MaxExecutions + 1) /\ ~Lone /\ UNCHANGED <<row, sent>>
      BY <1>0, <1>3, <2>4, <2>6 DEF Called, HandoffAssumption
    <3>2. TypeOK'
      BY <2>2, <2>3, <3>1 DEF HandInv, TypeOK, Deliveries
    <3>3. LocksInv' /\ RowInv' /\ ClaimInv' /\ CountInv'
      BY <1>3, <3>1 DEF HandInv, LocksInv, RowInv, ClaimInv, CountInv, Lone, InDatabase, NewRow
    <3>4. SlotInv'
      BY <1>0, <2>2, <2>4, <2>6, <3>1 DEF HandInv, SlotInv
    <3> QED
      BY <3>2, <3>3, <3>4 DEF HandInv
  <2> QED
    BY <2>5, <2>6
<1> QED
  BY <1>1, <1>2, <1>3 DEF ClaimDelivery

(* A lookup through the marker leaves the row with its message.            *)
LEMMA AdoptedIs ==
  ASSUME HandoffAssumption, HandInv, NEW m \in Messages
  PROVE  /\ Adopted(m) \in Rows /\ Adopted(m).state = "QUEUED" /\ Adopted(m).q2 = m
         /\ Adopted(m).success = row.success /\ Adopted(m).executions = row.executions
<1>1. row \in Rows /\ m # 0 /\ m \in Nat
  BY DEF HandInv, TypeOK, Rows, Messages, HandoffAssumption
<1>2. CASE row.state # "QUEUED"
  <2>1. PICK zero \in 0..MaxExecutions : zero = 0
    BY DEF HandoffAssumption
  <2>2. row = NewRow(row.state, 0)
    BY <1>2 DEF HandInv, RowInv
  <2>3. CASE row.state = "absent"
    <3>1. Adopted(m) = NewRow("QUEUED", m)
      BY <2>3 DEF Adopted
    <3>2. row.success = "none" /\ row.executions = 0
      BY <2>2 DEF NewRow
    <3>3. NewRow("QUEUED", m) = [state |-> "QUEUED", q2 |-> m, success |-> "none",
                                 executions |-> zero, heartbeat |-> "null"]
      BY <2>1 DEF NewRow
    <3> QED
      BY <2>1, <3>1, <3>2, <3>3 DEF Rows, Outcome
  <2>4. CASE row.state # "absent"
    <3>1. row.q2 = 0
      BY <2>2 DEF NewRow
    <3>2. Adopted(m) = [row EXCEPT !.q2 = m, !.state = "QUEUED"]
      BY <1>1, <2>4, <3>1 DEF Adopted
    <3> QED
      BY <1>1, <3>2 DEF Rows
  <2> QED
    BY <2>3, <2>4
<1>3. CASE row.state = "QUEUED"
  BY <1>1, <1>3 DEF Adopted, Rows
<1> QED
  BY <1>2, <1>3

(* A step that may queue the row for a message, or settle it.              *)
LEMMA RowMoves ==
  ASSUME HandoffAssumption, HandInv, UNCHANGED install,
         row' \in Rows, row'.executions = row.executions,
         \/ row'.state = row.state /\ row'.q2 = row.q2
         \/ row'.state = "QUEUED" /\ row'.q2 \in sent,
         row'.state # "QUEUED" => UNCHANGED <<row, status>>,
         locks = {} \/ row'.state = row.state,
         row'.success # "none" => status' \in {"SUCCEEDED", "FAILED"},
         status' \in {"PENDING", "RUNNING", "SUCCEEDED", "FAILED"},
         saved' \in [Messages -> Outcome], queue' \subseteq sent,
         slot' \in [Slots -> Deliveries],
         \A s \in Slots : slot'[s].pc # "free" => slot'[s].msg \in sent,
         \A s \in Slots : slot'[s].pc \in Owned => row'.state = "QUEUED",
         UNCHANGED <<locks, disp, sent, runs, dropped, faults>>
  PROVE  HandInv'
<1>1. TypeOK'
  BY DEF HandInv, TypeOK, Rows, Deliveries
<1>2. LocksInv' /\ SlotInv' /\ CountInv'
  BY DEF HandInv, LocksInv, SlotInv, CountInv, Lone
<1>3. RowInv'
  BY DEF HandInv, RowInv, NewRow
<1>4. ClaimInv'
  BY DEF HandInv, ClaimInv, Lone, InDatabase
<1> QED
  BY <1>1, <1>2, <1>3, <1>4 DEF HandInv

LEMMA SettleIs ==
  ASSUME HandoffAssumption, HandInv, NEW end \in Outcome, Settle(end)
  PROVE  /\ row' \in Rows /\ row'.state = row.state /\ row'.q2 = row.q2
         /\ row'.executions = row.executions
         /\ row'.success # "none" => status' \in {"SUCCEEDED", "FAILED"}
         /\ status' \in {"PENDING", "RUNNING", "SUCCEEDED", "FAILED"}
<1>1. row \in Rows /\ status \in {"PENDING", "RUNNING", "SUCCEEDED", "FAILED"}
      /\ (row.success # "none" => status \in {"SUCCEEDED", "FAILED"})
  BY DEF HandInv, TypeOK, Rows, RowInv
<1>2. CASE Open
  BY <1>1, <1>2 DEF Settle, Rows
<1>3. CASE ~Open
  BY <1>1, <1>3 DEF Settle
<1> QED
  BY <1>2, <1>3

LEMMA WorkerKeeps ==
  ASSUME HandoffAssumption, HandInv, UNCHANGED install, NEW s \in Slots, WorkerStep(s) \/ Die(s)
  PROVE  HandInv'
<1>0. /\ slot \in [Slots -> Deliveries] /\ slot[s] \in Deliveries /\ row \in Rows
      /\ slot[s].pc # "free" => slot[s].msg \in sent /\ slot[s].msg \in Messages
      /\ queue \subseteq sent /\ dropped \in BOOLEAN /\ faults \in 0..MaxFaults
      /\ status \in {"PENDING", "RUNNING", "SUCCEEDED", "FAILED"}
      /\ saved \in [Messages -> Outcome]
      /\ \A t \in Slots : slot[t].pc # "free" => slot[t].msg \in sent
      /\ \A t \in Slots : slot[t].pc \in Owned => row.state = "QUEUED"
      /\ row.success # "none" => status \in {"SUCCEEDED", "FAILED"}
      /\ Free \in Deliveries /\ Free.pc = "free"
  BY DEF HandInv, TypeOK, Deliveries, Rows, SlotInv, RowInv, Free, Outcome
<1>1. CASE ClaimFirst(s)
  BY <1>1, ClaimKeeps DEF ClaimFirst, Unstarted
<1>2. CASE ClaimAgain(s)
  BY <1>2, ClaimKeeps DEF ClaimAgain, Unstarted, Owned
<1>3. CASE Guard(s)
  BY <1>3, ClaimKeeps DEF Guard, Unstarted, Owned
<1>4. CASE Adopt(s)
  <2>1. PICK m \in Messages : m = slot[s].msg /\ m \in sent
    BY <1>0, <1>4 DEF Adopt
  <2>2. PICK del \in Deliveries : del = [slot[s] EXCEPT !.pc = "adopted"]
    BY <1>0 DEF Deliveries, Unstarted
  <2>3. /\ slot' = [slot EXCEPT ![s] = del] /\ del.msg = m
        /\ row' = Adopted(m) /\ locks = {}
        /\ UNCHANGED <<status, locks, disp, queue, sent, saved, runs, dropped, faults>>
    BY <1>0, <1>4, <2>1, <2>2 DEF Adopt, Unlocked, Deliveries
  <2>4. /\ slot' \in [Slots -> Deliveries]
        /\ \A t \in Slots : slot'[t].pc # "free" => slot'[t].msg \in sent
    BY <1>0, <2>1, <2>3
  <2> QED
    BY <1>0, <2>1, <2>3, <2>4, AdoptedIs, RowMoves
<1>5. CASE OpenLease(s)
  <2>1. PICK del \in Deliveries : del = [slot[s] EXCEPT !.pc = "opened"]
    BY <1>0 DEF Deliveries, Unstarted
  <2>2. slot' = [slot EXCEPT ![s] = del] /\ del.msg = slot[s].msg /\ del.pc = "opened"
    BY <1>0, <1>5, <2>1 DEF OpenLease, Deliveries
  <2>3. del.msg \in sent /\ row.state = "QUEUED"
    BY <1>0, <1>5, <2>2 DEF OpenLease, Owned
  <2> QED
    BY <1>0, <1>5, <2>2, <2>3, SlotMoves DEF OpenLease
<1>6. CASE LoseLease(s)
  <2>1. PICK del \in Deliveries : del = [slot[s] EXCEPT !.beats = FALSE]
    BY <1>0 DEF Deliveries
  <2>2. slot' = [slot EXCEPT ![s] = del] /\ del.msg = slot[s].msg /\ del.pc = "running"
    BY <1>0, <1>6, <2>1 DEF LoseLease, Deliveries
  <2>3. del.msg \in sent /\ row.state = "QUEUED"
    BY <1>0, <1>6, <2>2 DEF LoseLease, Owned
  <2> QED
    BY <1>0, <1>6, <2>2, <2>3, SlotMoves DEF LoseLease
<1>7. CASE Return(s)
  <2>1. PICK end \in {"ok", "fail"} :
          slot' = [slot EXCEPT ![s].pc = "result", ![s].out = end, ![s].beats = FALSE]
    BY <1>7 DEF Return
  <2>2. PICK del \in Deliveries : del = [slot[s] EXCEPT !.pc = "result", !.out = end,
                                         !.beats = FALSE]
    BY <1>0 DEF Deliveries, Outcome
  <2>3. slot' = [slot EXCEPT ![s] = del] /\ del.msg = slot[s].msg /\ del.pc = "result"
    BY <1>0, <2>1, <2>2 DEF Deliveries
  <2>4. del.msg \in sent
    BY <1>0, <1>7, <2>3 DEF Return
  <2> QED
    BY <1>0, <1>7, <2>3, <2>4, SlotMoves DEF Return, Owned
<1>8. CASE Trace(s)
  <2>1. PICK m \in Messages : m = slot[s].msg /\ m \in sent
    BY <1>0, <1>8 DEF Trace
  <2>2. CASE saved[m] = "ok"
    <3>1. PICK del \in Deliveries : del = [slot[s] EXCEPT !.pc = "ack"]
      BY <1>0 DEF Deliveries
    <3>2. slot' = [slot EXCEPT ![s] = del] /\ del.msg = m /\ del.pc = "ack"
      BY <1>0, <1>8, <2>1, <2>2, <3>1 DEF Trace, Deliveries
    <3> QED
      BY <1>0, <1>8, <2>1, <2>2, <3>2, SlotMoves DEF Trace, Owned
  <2>3. CASE saved[m] # "ok"
    <3>1. PICK del \in Deliveries : del = [slot[s] EXCEPT !.pc = "traced"]
      BY <1>0 DEF Deliveries
    <3>2. /\ slot' = [slot EXCEPT ![s] = del] /\ del.msg = m /\ del.pc = "traced"
          /\ saved' = [saved EXCEPT ![m] = slot[s].out]
          /\ row' = Adopted(m)
          /\ UNCHANGED <<status, locks, disp, queue, sent, runs, dropped, faults>>
      BY <1>0, <1>8, <2>1, <2>3, <3>1 DEF Trace, Deliveries
    <3>3. /\ slot' \in [Slots -> Deliveries] /\ saved' \in [Messages -> Outcome]
          /\ \A t \in Slots : slot'[t].pc # "free" => slot'[t].msg \in sent
      BY <1>0, <2>1, <3>2 DEF Deliveries
    <3>4. locks = {} \/ row.state = "QUEUED"
      BY <1>8, <2>1 DEF Trace, Unlocked, HandInv, RowInv, NewRow, Messages, HandoffAssumption
    <3> QED
      BY <1>0, <2>1, <3>2, <3>3, <3>4, AdoptedIs, RowMoves
  <2> QED
    BY <2>2, <2>3
<1>9. CASE Resolve(s)
  <2>1. PICK del \in Deliveries : del = [slot[s] EXCEPT !.pc = "ack"]
    BY <1>0 DEF Deliveries
  <2>2. /\ slot' = [slot EXCEPT ![s] = del] /\ del.msg = slot[s].msg /\ del.pc = "ack"
        /\ Settle(slot[s].out) /\ locks = {}
        /\ UNCHANGED <<locks, disp, queue, sent, saved, runs, dropped, faults>>
    BY <1>0, <1>9, <2>1 DEF Resolve, Unlocked, Deliveries
  <2>3. slot[s].out \in Outcome /\ row.state = "QUEUED" /\ del.msg \in sent
    BY <1>0, <1>9, <2>2 DEF Resolve, Owned, Deliveries
  <2>4. /\ slot' \in [Slots -> Deliveries]
        /\ \A t \in Slots : slot'[t].pc # "free" => slot'[t].msg \in sent
    BY <1>0, <2>2, <2>3
  <2> QED
    BY <1>0, <2>2, <2>3, <2>4, SettleIs, RowMoves
<1>10. CASE Acknowledge(s)
  <2>1. slot' = [slot EXCEPT ![s] = Free] /\ queue' \subseteq sent
    BY <1>0, <1>10 DEF Acknowledge
  <2> QED
    BY <1>0, <1>10, <2>1, SlotMoves DEF Acknowledge, Owned
<1>11. CASE Die(s)
  <2>1. slot' = [slot EXCEPT ![s] = Free] /\ dropped' \in BOOLEAN /\ faults' \in 0..MaxFaults
    BY <1>0, <1>11 DEF Die, Fault, HandoffAssumption
  <2> QED
    BY <1>0, <1>11, <2>1, SlotMoves DEF Die, Owned
<1> QED
  BY <1>1, <1>2, <1>3, <1>4, <1>5, <1>6, <1>7, <1>8, <1>9, <1>10, <1>11 DEF WorkerStep
-----------------------------------------------------------------------------
(* The broker and the sweeps.                                              *)

LEMMA BrokerKeeps ==
  ASSUME HandoffAssumption, HandInv, UNCHANGED install, NEW m \in Messages,
         (\E s \in Slots : Deliver(s, m)) \/ Lose(m)
  PROVE  HandInv'
<1>0. queue \subseteq sent /\ dropped \in BOOLEAN /\ faults \in 0..MaxFaults
  BY DEF HandInv, TypeOK
<1>1. ASSUME NEW s \in Slots, Deliver(s, m) PROVE HandInv'
  <2>1. PICK del \in Deliveries : del = [Free EXCEPT !.pc = "picked", !.msg = m]
    BY DEF Deliveries, Free, Unstarted, Outcome
  <2>2. slot' = [slot EXCEPT ![s] = del] /\ del.msg = m /\ del.pc = "picked" /\ m \in sent
        /\ queue' \subseteq sent
    BY <1>0, <1>1, <2>1 DEF Deliver, Free
  <2> QED
    BY <1>0, <1>1, <2>2, SlotMoves DEF Deliver, Owned
<1>2. CASE Lose(m)
  <2>1. queue' \subseteq sent /\ dropped' \in BOOLEAN /\ faults' \in 0..MaxFaults
        /\ UNCHANGED <<status, row, locks, disp, sent, slot, saved, runs>>
    BY <1>0, <1>2 DEF Lose, Fault, HandoffAssumption
  <2> QED
    BY <2>1 DEF HandInv, TypeOK, LocksInv, RowInv, SlotInv, ClaimInv, CountInv, Lone, InDatabase
<1> QED
  BY <1>1, <1>2

LEMMA SweepKeeps ==
  ASSUME HandoffAssumption, HandInv, UNCHANGED install, Sweep
  PROVE  HandInv'
<1>0. /\ row \in Rows /\ saved \in [Messages -> Outcome] /\ slot \in [Slots -> Deliveries]
      /\ queue \subseteq sent
      /\ status \in {"PENDING", "RUNNING", "SUCCEEDED", "FAILED"}
      /\ row.success # "none" => status \in {"SUCCEEDED", "FAILED"}
      /\ \A t \in Slots : slot[t].pc # "free" => slot[t].msg \in sent
      /\ \A t \in Slots : slot[t].pc \in Owned => row.state = "QUEUED"
      /\ row.state = "QUEUED" => row.q2 \in sent
  BY DEF HandInv, TypeOK, Rows, Deliveries, RowInv, SlotInv
<1>1. CASE Lapse
  <2>1. row.state = "QUEUED"
    BY <1>1 DEF Lapse, HandInv, RowInv, NewRow, TypeOK
  <2>2. /\ row' \in Rows /\ row'.state = row.state /\ row'.q2 = row.q2
        /\ row'.success = row.success /\ row'.executions = row.executions
    BY <1>0, <1>1 DEF Lapse, Rows
  <2>3. UNCHANGED <<status, locks, disp, queue, sent, slot, saved, runs, dropped, faults>>
    BY <1>1 DEF Lapse
  <2> QED
    BY <1>0, <2>1, <2>2, <2>3, RowMoves
<1>2. CASE Reap \/ Reconcile
  <2>1. PICK end \in Outcome : Settle(end)
    BY <1>0, <1>2 DEF Reap, Reconcile, Rows, Outcome
  <2>2. /\ row.state = "QUEUED" /\ locks = {}
        /\ UNCHANGED <<locks, disp, queue, sent, slot, saved, runs, dropped, faults>>
    BY <1>2 DEF Reap, Reconcile, Unlocked
  <2> QED
    BY <1>0, <2>1, <2>2, SettleIs, RowMoves
<1> QED
  BY <1>1, <1>2 DEF Sweep

LEMMA HandoffKeeps ==
  ASSUME HandoffAssumption, HandInv, [Next]_vars
  PROVE  HandInv'
<1>1. CASE UNCHANGED vars
  BY <1>1 DEF vars, moves, HandInv, TypeOK, LocksInv, RowInv, SlotInv, ClaimInv, CountInv, Lone,
     InDatabase
<1>2. CASE Next
  BY <1>2, DispatcherKeeps, WorkerKeeps, BrokerKeeps, SweepKeeps DEF Next
<1> QED
  BY <1>1, <1>2

LEMMA HandoffMeans ==
  ASSUME HandoffAssumption, HandInv
  PROVE  TypeOK /\ ClaimsKeepTheirMessage /\ QueuedWithTheClaim /\ CallsAreAdmitted
<1>1. ClaimsKeepTheirMessage
  <2>1. row.state = "QUEUED" => row.q2 \in Messages
    BY DEF HandInv, RowInv, TypeOK
  <2> QED
    BY <2>1 DEF ClaimsKeepTheirMessage, Stuck, Messages, HandoffAssumption
<1>2. QueuedWithTheClaim
  BY LoneIsOne DEF HandInv, ClaimInv, QueuedWithTheClaim
<1>3. CallsAreAdmitted
  <2>1. \A s \in Slots : slot[s].pc = "running" =>
          slot[s].msg \in sent /\ row.q2 \in sent
    BY DEF HandInv, SlotInv, RowInv, Owned
  <2> QED
    BY <2>1, LoneIsOne DEF HandInv, CountInv, Lone, CallsAreAdmitted
<1> QED
  BY <1>1, <1>2, <1>3 DEF HandInv

(* An outcome is written once: what looks for an open attempt writes it,   *)
(* and an attempt that is looked up again is not made anew.                *)
LEMMA OutcomeStays ==
  ASSUME HandoffAssumption, HandInv, [Next]_vars, row.success # "none"
  PROVE  row'.success = row.success /\ status' = status
<1>0. /\ row.state = "QUEUED" /\ row \in Rows /\ status \in {"SUCCEEDED", "FAILED"} /\ locks = {}
      /\ \A st : WhenPending(st) = status
  BY DEF HandInv, RowInv, NewRow, TypeOK, Rows, LocksInv, WhenPending
<1>1. CASE UNCHANGED vars
  BY <1>1 DEF vars, moves
<1>2. ASSUME NEW d \in Dispatchers, DispatcherStep(d) \/ Rollback(d)
      PROVE  UNCHANGED <<row, status>>
  BY <1>0, <1>2 DEF DispatcherStep, Read, Claim, Push, Commit, Rollback, HandInv, LocksInv
<1>3. ASSUME NEW s \in Slots, WorkerStep(s) \/ Die(s)
      PROVE  row'.success = row.success /\ status' = status
  <2>1. slot[s].pc # "free" => slot[s].msg \in Messages
    BY DEF HandInv, SlotInv, TypeOK
  <2>2. CASE Adopt(s)
    BY <1>0, <2>1, <2>2, AdoptedIs DEF Adopt
  <2>3. CASE Trace(s)
    BY <1>0, <2>1, <2>3, AdoptedIs DEF Trace
  <2>4. CASE ClaimFirst(s) \/ ClaimAgain(s) \/ Guard(s)
    <3>1. UNCHANGED row /\ status' = status
      BY <1>0, <2>4 DEF ClaimFirst, ClaimAgain, Guard, ClaimDelivery, Admits, Open
    <3> QED
      BY <3>1
  <2>5. CASE Resolve(s)
    BY <1>0, <2>5 DEF Resolve, Settle, Open
  <2>6. CASE OpenLease(s)
    BY <1>0, <2>6 DEF OpenLease
  <2>7. CASE LoseLease(s) \/ Return(s) \/ Acknowledge(s) \/ Die(s)
    BY <2>7 DEF LoseLease, Return, Acknowledge, Die
  <2> QED
    BY <1>3, <2>2, <2>3, <2>4, <2>5, <2>6, <2>7 DEF WorkerStep
<1>4. ASSUME NEW m \in Messages, (\E s \in Slots : Deliver(s, m)) \/ Lose(m)
      PROVE  UNCHANGED <<row, status>>
  BY <1>4 DEF Deliver, Lose
<1>5. CASE Sweep
  BY <1>0, <1>5 DEF Sweep, Lapse, Reap, Reconcile, Settle, Open, Rows
<1> QED
  BY <1>1, <1>2, <1>3, <1>4, <1>5 DEF Next
-----------------------------------------------------------------------------
(***************************************************************************)
(* The watchdogs.                                                          *)
(*                                                                         *)
(* A sweep writes from what it read earlier, so the invariant says of each *)
(* sweep that is about to flag an attempt what it will say of the flag,    *)
(* and keeps the signals in step with the flags that let them be sent.     *)
(***************************************************************************)

(* Nothing is dated later than now. *)
NothingAhead ==
  /\ w_attempt.moved <= w_clock
  /\ w_attempt.flag # Watch!Null => w_attempt.flag <= w_clock
  /\ \A r \in Sweepers : w_sweep[r].now <= w_clock

(* What a sweep found either still holds or was overtaken by progress.     *)
FoundOrRecovered ==
  \A r \in Sweepers : w_sweep[r].pc = "stalled" =>
    w_attempt.moved >= w_sweep[r].now \/ w_sweep[r].now - w_attempt.moved >= StallAfter

(* A signal goes with a flag; a resume that clears it opens a generation.  *)
SignalsFollowFlags ==
  /\ w_told.stall = IF w_attempt.flag = Watch!Null THEN 0 ELSE 1
  /\ w_graph.flag = Watch!Null => w_told.overdue < w_graph.generation
  /\ w_told.overdue <= w_graph.generation

WatchInv ==
  /\ Watch!TypeOK /\ NothingAhead /\ FoundOrRecovered
  /\ Watch!FlagOrRecovered /\ SignalsFollowFlags
-----------------------------------------------------------------------------
LEMMA WatchStarts ==
  ASSUME Watch!WatchdogsAssumption, Watch!Init
  PROVE  WatchInv
<1>1. Watch!TypeOK
  BY DEF Watch!Init, Watch!TypeOK, Watch!Time, Watch!Null, Watch!WatchdogsAssumption
<1>2. NothingAhead /\ FoundOrRecovered /\ Watch!FlagOrRecovered
  BY DEF Watch!Init, NothingAhead, FoundOrRecovered, Watch!FlagOrRecovered, Watch!Null
<1>3. SignalsFollowFlags
  BY DEF Watch!Init, SignalsFollowFlags, Watch!Null, Watch!WatchdogsAssumption
<1> QED
  BY <1>1, <1>2, <1>3 DEF WatchInv

(* A sweep reads the time and its candidates. *)
LEMMA SweepReads ==
  ASSUME Watch!WatchdogsAssumption, WatchInv, NEW r \in Sweepers,
         Watch!StartOverdue(r) \/ Watch!FindOverdue(r) \/ Watch!StartStalls(r)
         \/ Watch!FindStalled(r)
  PROVE  WatchInv'
<1> USE DEF WatchInv
<1>1. UNCHANGED <<w_clock, w_attempt, w_graph, w_told>>
  BY DEF Watch!StartOverdue, Watch!FindOverdue, Watch!StartStalls, Watch!FindStalled
<1>2. Watch!TypeOK' /\ NothingAhead'
  <2>1. CASE Watch!StartOverdue(r) \/ Watch!StartStalls(r)
    BY <1>1, <2>1
       DEF Watch!StartOverdue, Watch!StartStalls, Watch!ReadClock, Watch!TypeOK, NothingAhead,
           Watch!Time
  <2>2. CASE Watch!FindOverdue(r) \/ Watch!FindStalled(r)
    BY <1>1, <2>2 DEF Watch!FindOverdue, Watch!FindStalled, Watch!GoOn, Watch!TypeOK, NothingAhead
  <2> QED
    BY <2>1, <2>2
<1>3. FoundOrRecovered'
  <2>1. CASE Watch!StartOverdue(r) \/ Watch!StartStalls(r)
    BY <1>1, <2>1
       DEF Watch!StartOverdue, Watch!StartStalls, Watch!ReadClock, Watch!TypeOK, FoundOrRecovered
  <2>2. CASE Watch!FindOverdue(r)
    BY <1>1, <2>2 DEF Watch!FindOverdue, Watch!GoOn, Watch!TypeOK, FoundOrRecovered
  <2>3. CASE Watch!FindStalled(r)
    BY <1>1, <2>3 DEF Watch!FindStalled, Watch!Stalled, Watch!GoOn, Watch!TypeOK, FoundOrRecovered
  <2> QED
    BY <2>1, <2>2, <2>3
<1>4. Watch!FlagOrRecovered' /\ SignalsFollowFlags'
  BY <1>1 DEF Watch!FlagOrRecovered, SignalsFollowFlags
<1> QED
  BY <1>2, <1>3, <1>4

LEMMA FlagOverdueKeeps ==
  ASSUME Watch!WatchdogsAssumption, WatchInv, NEW r \in Sweepers, Watch!FlagOverdue(r)
  PROVE  WatchInv'
<1> USE DEF WatchInv
<1>1. Watch!TypeOK'
  BY DEF Watch!FlagOverdue, Watch!FlagsGraph, Watch!GoOn, Watch!TypeOK
<1>2. NothingAhead' /\ FoundOrRecovered' /\ Watch!FlagOrRecovered'
  BY DEF Watch!FlagOverdue, Watch!GoOn, Watch!TypeOK, NothingAhead, FoundOrRecovered,
         Watch!FlagOrRecovered
<1>3. SignalsFollowFlags'
  BY DEF Watch!FlagOverdue, Watch!FlagsGraph, Watch!TypeOK, SignalsFollowFlags, Watch!Time,
         Watch!Null
<1> QED
  BY <1>1, <1>2, <1>3

LEMMA FlagStalledKeeps ==
  ASSUME Watch!WatchdogsAssumption, WatchInv, NEW r \in Sweepers, Watch!FlagStalled(r)
  PROVE  WatchInv'
<1> USE DEF WatchInv
<1>1. Watch!TypeOK'
  BY DEF Watch!FlagStalled, Watch!FlagsAttempt, Watch!FlagTime, Watch!GoOn, Watch!TypeOK
<1>2. NothingAhead' /\ FoundOrRecovered'
  BY DEF Watch!FlagStalled, Watch!FlagsAttempt, Watch!FlagTime, Watch!GoOn, Watch!TypeOK,
         NothingAhead, FoundOrRecovered
<1>3. Watch!FlagOrRecovered'
  BY DEF Watch!FlagStalled, Watch!FlagsAttempt, Watch!FlagTime, Watch!TypeOK, FoundOrRecovered,
         Watch!FlagOrRecovered
<1>4. SignalsFollowFlags'
  BY DEF Watch!FlagStalled, Watch!FlagsAttempt, Watch!FlagTime, Watch!TypeOK, SignalsFollowFlags,
         Watch!Time, Watch!Null
<1> QED
  BY <1>1, <1>2, <1>3, <1>4

(* What goes on beside the sweeps. *)
LEMMA OthersKeep ==
  ASSUME Watch!WatchdogsAssumption, WatchInv,
         Watch!Advance \/ Watch!EndAttempt \/ Watch!MoveGraph \/ Watch!Resume \/ Watch!Tick
  PROVE  WatchInv'
<1> USE DEF WatchInv
<1>1. CASE Watch!Advance
  BY <1>1 DEF Watch!Advance, Watch!TypeOK, NothingAhead, FoundOrRecovered, Watch!FlagOrRecovered,
              SignalsFollowFlags, Watch!Time, Watch!Null
<1>2. CASE Watch!EndAttempt
  BY <1>2 DEF Watch!EndAttempt, Watch!TypeOK, NothingAhead, FoundOrRecovered, Watch!FlagOrRecovered,
              SignalsFollowFlags
<1>3. CASE Watch!MoveGraph
  BY <1>3 DEF Watch!MoveGraph, Watch!TypeOK, NothingAhead, FoundOrRecovered, Watch!FlagOrRecovered,
              SignalsFollowFlags
<1>4. CASE Watch!Resume
  <2>0. w_graph.generation + 1 \in 1..MaxGeneration
    BY <1>4 DEF Watch!Resume, Watch!TypeOK, Watch!WatchdogsAssumption
  <2>1. Watch!TypeOK'
    BY <1>4, <2>0 DEF Watch!Resume, Watch!TypeOK
  <2>2. NothingAhead' /\ FoundOrRecovered' /\ Watch!FlagOrRecovered'
    BY <1>4 DEF Watch!Resume, NothingAhead, FoundOrRecovered, Watch!FlagOrRecovered
  <2>3. SignalsFollowFlags'
    BY <1>4 DEF Watch!Resume, Watch!TypeOK, SignalsFollowFlags
  <2> QED
    BY <2>1, <2>2, <2>3
<1>5. CASE Watch!Tick
  <2>1. Watch!TypeOK'
    BY <1>5 DEF Watch!Tick, Watch!TypeOK, Watch!Time, Watch!WatchdogsAssumption
  <2>2. NothingAhead' /\ FoundOrRecovered' /\ Watch!FlagOrRecovered' /\ SignalsFollowFlags'
    BY <1>5 DEF Watch!Tick, Watch!TypeOK, NothingAhead, FoundOrRecovered, Watch!FlagOrRecovered,
                SignalsFollowFlags, Watch!Time, Watch!Null
  <2> QED
    BY <2>1, <2>2
<1> QED
  BY <1>1, <1>2, <1>3, <1>4, <1>5

LEMMA WatchKeeps ==
  ASSUME Watch!WatchdogsAssumption, WatchInv, [Watch!Next]_Watch!vars
  PROVE  WatchInv'
<1>1. CASE UNCHANGED Watch!vars
  BY <1>1 DEF Watch!vars, WatchInv, Watch!TypeOK, NothingAhead, FoundOrRecovered,
              Watch!FlagOrRecovered,
              SignalsFollowFlags
<1>2. CASE \E r \in Sweepers : Watch!Sweep(r)
  <2>1. PICK r \in Sweepers : Watch!Sweep(r)
    BY <1>2
  <2> QED
    BY <2>1, SweepReads, FlagOverdueKeeps, FlagStalledKeeps DEF Watch!Sweep
<1>3. CASE Watch!Advance \/ Watch!EndAttempt \/ Watch!MoveGraph \/ Watch!Resume \/ Watch!Tick
  BY <1>3, OthersKeep
<1> QED
  BY <1>1, <1>2, <1>3 DEF Watch!Next
-----------------------------------------------------------------------------
(***************************************************************************)
(* What holds side by side.                                                *)
(***************************************************************************)

SuiteInv == HandInv /\ WatchInv

LEMMA SuiteStarts == SuiteInit => SuiteInv
  BY AliveAssumption, StartHandoff, WatchStarts DEF SuiteInit, SuiteInv

LEMMA SuiteSteps ==
  [SuiteNext]_suite => [Next]_vars /\ (Watch!Next \/ UNCHANGED w_vars)
  BY DEF SuiteNext, suite

LEMMA SuiteKeeps == SuiteInv /\ [SuiteNext]_suite => SuiteInv'
<1>1. UNCHANGED w_vars => UNCHANGED Watch!vars
  BY DEF w_vars, Watch!vars
<1> QED
  BY <1>1, AliveAssumption, SuiteSteps, HandoffKeeps, WatchKeeps DEF SuiteInv

(* However dispatchers, workers, monitors and sweeps of any number crash   *)
(* and interleave, and through a broker of either kind, a claim keeps its  *)
(* message, one message runs no more often than its allowance and holds    *)
(* the row while it does, and an outcome stays (scheduler.py, lease.py,    *)
(* hooks.attempt_from_marker, reaper.py).                                  *)
THEOREM HandoffIsSafe == SuiteSpec => HandoffHolds
<1>1. HandInv => TypeOK /\ ClaimsKeepTheirMessage /\ QueuedWithTheClaim /\ CallsAreAdmitted
  BY AliveAssumption, HandoffMeans
<1>2. SuiteInv /\ [SuiteNext]_suite
      => [row.success # "none" => row'.success = row.success /\ status' = status]_vars
  BY AliveAssumption, SuiteSteps, OutcomeStays DEF SuiteInv
<1>3. SuiteInv => HandInv
  BY DEF SuiteInv
<1> QED
  BY <1>1, <1>2, <1>3, SuiteStarts, SuiteKeeps, PTL DEF SuiteSpec, HandoffHolds, OutcomeIsKept

(* Flags and signals are true, each stall and each overdue generation is   *)
(* told once, however many reapers sweep (reaper.flag_stalls,              *)
(* graphs.flag_overdue).                                                   *)
THEOREM FlagsAreTrue == SuiteSpec => []FlagsTellTheTruth
<1>1. SuiteInv => FlagsTellTheTruth
  BY DEF SuiteInv, WatchInv, FlagsTellTheTruth, Watch!FlagsTellTheTruth, Watch!TypeOK,
         SignalsFollowFlags, Watch!ToldOnce
<1> QED
  BY <1>1, SuiteStarts, SuiteKeeps, PTL DEF SuiteSpec

(* The write of a late sweep leaves a resolved attempt alone               *)
(* (reaper.flag_stalls).                                                   *)
THEOREM FlagsAreForOpenAttempts == SuiteSpec => OnlyOpenIsFlagged
<1>1. ASSUME SuiteInv, [SuiteNext]_suite
      PROVE  [w_attempt'.flag # w_attempt.flag => w_attempt.open]_(Watch!vars)
  <2>1. SUFFICES ASSUME Watch!Next, w_attempt'.flag # w_attempt.flag
                 PROVE  w_attempt.open
    BY <1>1, SuiteSteps DEF w_vars, Watch!vars
  <2>2. CASE \E r \in Sweepers : Watch!Sweep(r)
    BY <2>1, <2>2 DEF Watch!Sweep, Watch!StartOverdue, Watch!FindOverdue, Watch!FlagOverdue,
                      Watch!StartStalls, Watch!FindStalled, Watch!FlagStalled, Watch!FlagsAttempt
  <2>3. CASE Watch!Advance \/ Watch!EndAttempt
    BY <2>3 DEF Watch!Advance, Watch!EndAttempt
  <2>4. CASE Watch!MoveGraph \/ Watch!Resume \/ Watch!Tick
    BY <2>1, <2>4 DEF Watch!MoveGraph, Watch!Resume, Watch!Tick
  <2> QED
    BY <2>1, <2>2, <2>3, <2>4 DEF Watch!Next
<1> QED
  BY <1>1, SuiteStarts, SuiteKeeps, PTL DEF SuiteSpec, OnlyOpenIsFlagged, Watch!OnlyOpenIsFlagged
=============================================================================
