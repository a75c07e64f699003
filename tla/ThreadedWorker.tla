--------------------------- MODULE ThreadedWorker ---------------------------
(***************************************************************************)
(* One threaded worker process and the sentinel that guards it: the main   *)
(* loop, the in-flight semaphore, the pool's threads, the deadline         *)
(* registry behind the shared timer, recycling, and the drain with its     *)
(* grace period.  The sentinel's guard and the process pool are            *)
(* Django-Q2's, modelled from how worker.py uses them.                     *)
(*                                                                         *)
(* A tick of the clock is one guard cycle.  Statements that two threads    *)
(* interleave at are separate actions: the main loop blocks on the         *)
(* semaphore with a task in hand, and a thread puts its result, drops its  *)
(* deadline and releases the semaphore one after the other.                *)
(***************************************************************************)
EXTENDS Integers, Sequences, FiniteSets

CONSTANTS
  Tasks,        \* messages the pusher may put on the task queue
  Threads,      \* size of the pool
  MaxInflight,  \* permits of the semaphore
  Recycle,      \* Conf.RECYCLE: tasks before the process is replaced
  Timeouts,     \* the timeouts tasks may have, buffer included, in ticks
  Grace         \* grace_period in ticks

WorkerAssumption ==
  /\ Threads \in Nat \ {0} /\ MaxInflight \in Nat \ {0}
  /\ Recycle \in Nat \ {0} /\ Grace \in Nat
  /\ Timeouts \subseteq Nat \ {0}

VARIABLES
  inbox,     \* the task queue, a sequence
  loop,      \* what the main loop is doing
  held,      \* the task it has taken and not yet submitted
  permits,   \* permits left in the semaphore
  pool,      \* tasks submitted to the executor, by how far they are
  deadline,  \* the registry: ticks left for each running task
  timer,     \* the value the sentinel watches
  count,     \* tasks this process has taken
  waited,    \* ticks since the drain began
  stopping,  \* the cluster is being stopped: no pusher and no guard any more
  stuck      \* tasks whose target will not return

worker == <<loop, held, permits, pool, deadline, timer, count, waited>>
vars == <<inbox, worker, stopping, stuck>>

IDLE == -1      \* TIMER_IDLE
RECYCLE == -2   \* TIMER_RECYCLE

(* A task is queued in the executor, at work, has its result on the queue, *)
(* or has dropped its deadline too.                                        *)
Stages == {"queued", "running", "reported", "dropped"}

TypeOK ==
  /\ inbox \in Seq(Tasks)
  /\ loop \in {"polling", "holding", "draining", "gone"}
  /\ held \subseteq Tasks /\ Cardinality(held) <= 1
  /\ permits \in 0..MaxInflight
  /\ \E S \in SUBSET Tasks : pool \in [S -> Stages]
  /\ \E S \in SUBSET Tasks : deadline \in [S -> Nat]
  /\ timer \in {RECYCLE, IDLE} \cup Nat
  /\ count \in 0..Recycle /\ waited \in 0..Grace /\ stopping \in BOOLEAN
  /\ stuck \subseteq Tasks

InPool == DOMAIN pool
At(stage) == {t \in InPool : pool[t] = stage}
Waiting == {inbox[i] : i \in DOMAIN inbox}
Occupied == Cardinality(InPool \ At("queued"))

Without(f, t) == [u \in DOMAIN f \ {t} |-> f[u]]
Plus(f, t, v) == [u \in DOMAIN f \cup {t} |-> IF u = t THEN v ELSE f[u]]
Least(f) == CHOOSE v \in {f[t] : t \in DOMAIN f} : \A t \in DOMAIN f : v <= f[t]

NewProcess ==
  /\ loop = "polling" /\ held = {} /\ permits = MaxInflight
  /\ pool = <<>> /\ deadline = <<>> /\ timer = IDLE /\ count = 0 /\ waited = 0

Init ==
  /\ NewProcess
  /\ inbox = <<>> /\ stopping = FALSE /\ stuck = {}
-----------------------------------------------------------------------------
(* Mutant: the newest deadline takes the timer. *)
PublishNewest(d, t) ==
  timer' = IF timer = RECYCLE THEN RECYCLE
           ELSE IF d = <<>> THEN IDLE
           ELSE IF t \in DOMAIN d THEN d[t] ELSE Least(d)

(* Mutant: a task that is removed leaves the timer idle. *)
PublishOnAdd(d, t) ==
  timer' = IF timer = RECYCLE THEN RECYCLE
           ELSE IF t \in DOMAIN d THEN Least(d) ELSE IDLE

(* _DeadlineRegistry._publish: the earliest deadline in flight, unless a   *)
(* recycle signal is already there.                                        *)
Publish(d, t) ==
  timer' = IF timer = RECYCLE THEN RECYCLE
           ELSE IF d = <<>> THEN IDLE ELSE Least(d)

(* The pusher puts a message on the task queue. *)
Push(t) ==
  /\ ~stopping
  /\ t \notin Waiting \cup held \cup InPool
  /\ inbox' = Append(inbox, t)
  /\ UNCHANGED <<worker, stopping, stuck>>

(* threaded_worker takes a task and counts it. *)
Get ==
  /\ loop = "polling" /\ inbox # <<>>
  /\ held' = {Head(inbox)}
  /\ inbox' = Tail(inbox)
  /\ loop' = "holding"
  /\ count' = count + 1
  /\ UNCHANGED <<permits, pool, stuck, deadline, timer, waited, stopping>>

(* Mutant: nothing is waited for. *)
MayAcquireAlways == TRUE

(* The semaphore has a permit. *)
MayAcquire == permits > 0

(* Mutant: the limit is compared with the tasks before this one. *)
RecyclesLate == count > Recycle

(* Enough tasks have been taken. *)
Recycles == count >= Recycle

(* It acquires a permit, submits the task, and signals the sentinel and    *)
(* stops when the recycle limit is reached.                                *)
Submit ==
  /\ loop = "holding"
  /\ MayAcquire
  /\ permits' = IF permits > 0 THEN permits - 1 ELSE 0
  /\ \E t \in held : pool' = Plus(pool, t, "queued")
  /\ held' = {}
  /\ loop' = IF Recycles THEN "draining" ELSE "polling"
  /\ timer' = IF Recycles THEN RECYCLE ELSE timer
  /\ UNCHANGED <<inbox, stuck, deadline, count, waited, stopping>>

(* The sentinel stops: the pusher is gone and the pill is in the queue. *)
Stop ==
  /\ ~stopping
  /\ stopping' = TRUE
  /\ UNCHANGED <<inbox, worker, stuck>>

(* The main loop reads the pill behind the last task and drains. *)
TakePill ==
  /\ stopping /\ loop = "polling" /\ inbox = <<>>
  /\ loop' = "draining"
  /\ UNCHANGED <<inbox, held, permits, pool, stuck, deadline, timer, count, waited,
                 stopping>>

(* A thread of the pool starts a task and registers its deadline; the      *)
(* target may turn out never to return.                                    *)
Begin(t, timeout, hangs) ==
  /\ t \in At("queued") /\ Occupied < Threads
  /\ pool' = [pool EXCEPT ![t] = "running"]
  /\ deadline' = Plus(deadline, t, timeout)
  /\ Publish(deadline', t)
  /\ stuck' = IF hangs THEN stuck \cup {t} ELSE stuck \ {t}
  /\ UNCHANGED <<inbox, loop, held, permits, count, waited, stopping>>

(* The target returns or raises and its result goes to the result queue. *)
Report(t) ==
  /\ t \in At("running") \ stuck
  /\ pool' = [pool EXCEPT ![t] = "reported"]
  /\ UNCHANGED <<inbox, loop, held, permits, stuck, deadline, timer, count, waited, stopping>>

(* The finally block drops the deadline ... *)
DropDeadline(t) ==
  /\ t \in At("reported")
  /\ pool' = [pool EXCEPT ![t] = "dropped"]
  /\ deadline' = Without(deadline, t)
  /\ Publish(deadline', t)
  /\ UNCHANGED <<inbox, loop, held, permits, stuck, count, waited, stopping>>

(* Mutant: only the exceptional path releases the semaphore. *)
NoneBack == permits

(* One permit back. *)
OneBack == permits + 1

(* ... and releases the semaphore. *)
Release(t) ==
  /\ t \in At("dropped")
  /\ pool' = Without(pool, t)
  /\ permits' = OneBack
  /\ UNCHANGED <<inbox, loop, held, stuck, deadline, timer, count, waited, stopping>>

(* What the process had taken dies with it, and its lease lapses. *)
Dies ==
  /\ loop' = "gone" /\ held' = {} /\ permits' = MaxInflight
  /\ pool' = <<>> /\ deadline' = <<>> /\ timer' = IDLE /\ count' = 0 /\ waited' = 0
  /\ UNCHANGED <<inbox, stopping, stuck>>

(* The drain ends once the executor is empty. *)
Drained ==
  /\ loop = "draining" /\ InPool = {}
  /\ Dies

(* Mutant: the drain waits for its threads however long they take. *)
GraceNever == FALSE

(* grace_period is over. *)
GraceOver == waited = Grace

(* After that the process leaves its threads behind. *)
ForceExit ==
  /\ loop = "draining" /\ GraceOver /\ InPool # {}
  /\ Dies

(* Mutant: the guard only looks at processes that are not draining. *)
ExpiredWhilePolling == timer = 0 /\ loop = "polling"

(* The guard's verdict on a living process. *)
Expired == timer = 0

(* The guard terminates a worker whose timer has reached zero. *)
Terminate ==
  /\ ~stopping /\ loop # "gone" /\ Expired
  /\ Dies

(* The guard finds the process dead and puts another in its place. *)
Reincarnate ==
  /\ ~stopping /\ loop = "gone"
  /\ loop' = "polling"
  /\ UNCHANGED <<inbox, held, permits, pool, stuck, deadline, timer, count, waited,
                 stopping>>

(* One guard cycle: time passes for every deadline, a positive timer is    *)
(* counted down, and no worker outlives its timer or its grace.            *)
Tick ==
  /\ timer # 0 \/ stopping
  /\ loop = "draining" => waited < Grace
  /\ timer > 0 \/ loop = "draining"
  /\ deadline' = [t \in DOMAIN deadline |-> IF deadline[t] > 0 THEN deadline[t] - 1 ELSE 0]
  /\ timer' = IF timer > 0 /\ ~stopping THEN timer - 1 ELSE timer
  /\ waited' = IF loop = "draining" THEN waited + 1 ELSE waited
  /\ UNCHANGED <<inbox, loop, held, permits, pool, stuck, count, stopping>>
-----------------------------------------------------------------------------
MainLoop == Get \/ Submit \/ TakePill \/ Drained \/ ForceExit
Pool ==
  \E t \in Tasks :
    \/ \E timeout \in Timeouts, hangs \in BOOLEAN : Begin(t, timeout, hangs)
    \/ Report(t) \/ DropDeadline(t) \/ Release(t)
Sentinel == Terminate \/ Reincarnate \/ Tick

Next == (\E t \in Tasks : Push(t)) \/ MainLoop \/ Pool \/ Sentinel \/ Stop

Spec == Init /\ [][Next]_vars

(* The process runs, its threads run, and the sentinel's guard cycles. *)
Fairness ==
  /\ WF_vars(MainLoop)
  /\ \A t \in Tasks :
       /\ WF_vars(\E timeout \in Timeouts, hangs \in BOOLEAN : Begin(t, timeout, hangs))
       /\ WF_vars(Report(t) \/ DropDeadline(t) \/ Release(t))
  /\ WF_vars(Terminate) /\ WF_vars(Reincarnate) /\ WF_vars(Tick)

FairSpec == Spec /\ Fairness
-----------------------------------------------------------------------------
(* Properties.                                                             *)

(* The semaphore accounts for every task of the pool, through recycling    *)
(* and kills, so backpressure neither leaks nor overbooks                  *)
(* (inflight_semaphore).                                                   *)
PermitsMatch ==
  /\ permits + Cardinality(InPool) = MaxInflight
  /\ Occupied <= Threads

(* The shared timer never hides an overdue task behind a later deadline:   *)
(* while one is at work past its deadline the guard sees zero, or the      *)
(* recycle signal that starts the grace period (_DeadlineRegistry).        *)
OverdueIsSeen ==
  \A t \in At("running") : deadline[t] = 0 /\ ~stopping => timer \in {0, RECYCLE}

(* A running pool is guarded: some deadline is counted down, or the        *)
(* process is on its way out.                                              *)
RunningIsGuarded == At("running") # {} => timer # IDLE

(* A process takes no more tasks than its recycle limit. *)
WithinRecycle == count <= Recycle

(* A hanging target never wedges a guarded worker: whatever the process    *)
(* has taken is reported or given back by its death.                       *)
TakenIsSettled ==
  \A t \in Tasks : t \in held \cup InPool ~> stopping \/ t \notin held \cup InPool

(* Whatever hangs and however often workers recycle, a running cluster     *)
(* serves its queue (QraftSentinel.spawn_process puts every worker in the  *)
(* guarded pool).                                                          *)
QueueIsServed == \A t \in Tasks : t \in Waiting ~> stopping \/ t \notin Waiting

Hanging == At("running") \cap stuck

(* A stop ends within the grace period, unless hanging targets hold every  *)
(* thread or every permit: then the main loop waits for the semaphore with *)
(* a task in hand, never reads the pill, and never starts the drain.       *)
StopEnds ==
  stopping ~> loop = "gone" \/ \E n \in {Threads, MaxInflight} : Cardinality(Hanging) >= n
=============================================================================
