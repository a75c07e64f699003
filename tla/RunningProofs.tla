---------------------------- MODULE RunningProofs ----------------------------
(***************************************************************************)
(* Theorems about what surrounds a running target (Running), for any       *)
(* tasks, threads, timeouts, deliveries, callers and bounds.               *)
(***************************************************************************)
EXTENDS Running, Sequences, FiniteSetTheorems, WellFoundedInduction, TLAPS

(***************************************************************************)
(* The rate limit of throttle.acquire holds for any number of callers, any *)
(* rate, capacity and costs, as long as the clocks of the hosts agree.     *)
(*                                                                         *)
(* The rows of the bucket alone do not carry the proof: what matters is    *)
(* that the level of the bucket and what has been granted in the window    *)
(* add up to no more than a full bucket and what the rate has added by the *)
(* time of the last save, and that the holder of the lock has read the row *)
(* as it is.                                                               *)
(***************************************************************************)
ClocksAgree == \A c \in Callers : Offset[c] = 0

(* The lock has one holder, and the holder has read the row.               *)
LockInv ==
  /\ \A c, d \in holder : c = d
  /\ \A c \in holder :
       /\ pc[c] = "seeded"
       /\ seen[c].tokens = tokens /\ seen[c].stamp = stamp
       /\ seen[c].now >= stamp /\ seen[c].now <= clock
  /\ \A c \in Callers : pc[c] # "idle" => exists

(* The clock does not run back, and the window lies behind it.             *)
TimeInv == stamp <= clock /\ since <= clock

(* Granted and left over is at most what came in.                          *)
LedgerInv ==
  /\ stamp < since => spent = 0
  /\ ~exists => spent = 0
  /\ exists /\ stamp >= since
       => spent + tokens <= Capacity + Rate * (stamp - since)

BucketInv == TypeOK /\ LockInv /\ TimeInv /\ LedgerInv
-----------------------------------------------------------------------------
(* What the rate adds is never negative, and so grows with time.           *)
LEMMA RateAdds ==
  ASSUME NEW r \in Nat, NEW x \in Nat
  PROVE  r * x \in Nat
BY SMT

LEMMA RateGrows ==
  ASSUME NEW r \in Nat, NEW x \in Int, NEW y \in Int, x <= y
  PROVE  r * x <= r * y
<1>1. r * (y - x) \in Nat
  BY RateAdds
<1>2. r * y = r * x + r * (y - x)
  BY SMT
<1> QED
  BY <1>1, <1>2, SMT

(* A refill at n of a level t saved at s keeps the books of the window     *)
(* that began at w, up to any later moment k.                              *)
LEMMA RefillKeepsBooks ==
  ASSUME NEW r \in Nat, NEW cap \in Nat, NEW t \in Nat, NEW s \in Nat,
         NEW n \in Nat,
         NEW k \in Nat, NEW w \in Nat, NEW sp \in Nat, NEW level \in Int,
         s <= n, n <= k, w <= k,
         level <= cap, level <= t + r * (n - s),
         s < w => sp = 0,
         s >= w => sp + t <= cap + r * (s - w)
  PROVE  sp + level <= cap + r * (k - w)
<1>1. CASE s < w
  <2>1. r * (k - w) \in Nat
    BY RateAdds
  <2> QED
    BY <1>1, <2>1, SMT
<1>2. CASE s >= w
  <2>1. r * (n - w) <= r * (k - w)
    BY RateGrows
  <2>2. r * (n - w) = r * (n - s) + r * (s - w)
    BY SMT
  <2>3. r * (n - w) \in Int /\ r * (n - s) \in Int /\ r * (s - w) \in Int
        /\ r * (k - w) \in Int
    BY SMT
  <2> QED
    BY <1>2, <2>1, <2>2, <2>3, SMT
<1> QED
  BY <1>1, <1>2, SMT
-----------------------------------------------------------------------------
LEMMA Start ==
  ASSUME BucketAssumption, Init
  PROVE  BucketInv
<1>1. Unseen \in [tokens: 0..Capacity, stamp: Nat, now: Nat]
  BY DEF Unseen, BucketAssumption
<1>2. TypeOK
  <2>1. exists \in BOOLEAN
    BY DEF Init
  <2>2. tokens \in 0..Capacity /\ clock \in Nat /\ stamp \in Nat
        /\ since \in Nat /\ spent \in Nat
    BY DEF Init, BucketAssumption
  <2>3. /\ holder \subseteq Callers
        /\ seen \in [Callers -> [tokens: 0..Capacity, stamp: Nat, now: Nat]]
        /\ pc \in [Callers -> {"idle", "seeded", "granted", "denied"}]
    BY <1>1 DEF Init
  <2> QED
    BY <2>1, <2>2, <2>3 DEF TypeOK
<1>3. LockInv /\ TimeInv /\ LedgerInv
  BY DEF Init, LockInv, TimeInv, LedgerInv
<1> QED
  BY <1>2, <1>3 DEF BucketInv

LEMMA SeedKeeps ==
  ASSUME BucketAssumption, ClocksAgree, BucketInv, NEW c \in Callers, Seed(c)
  PROVE  BucketInv'
<1> USE DEF BucketInv, Seed, row
<1>1. TimeAt(c) = clock /\ clock \in Nat
  BY DEF ClocksAgree, TimeAt, BucketAssumption, TypeOK
<1>2. c \notin holder
  BY DEF LockInv
<1>3. CASE exists
  <2>1. TypeOK' /\ TimeInv' /\ LedgerInv'
    BY <1>3 DEF TypeOK, TimeInv, LedgerInv
  <2>2. LockInv'
    BY <1>2, <1>3 DEF LockInv, TypeOK
  <2> QED
    BY <2>1, <2>2
<1>4. CASE ~exists
  <2>1. holder = {}
    BY <1>4 DEF LockInv, TypeOK
  <2>2. TypeOK'
    BY <1>1, <1>4 DEF TypeOK, BucketAssumption
  <2>3. LockInv'
    BY <1>4, <2>1 DEF LockInv, TypeOK
  <2>4. TimeInv'
    BY <1>1, <1>4 DEF TimeInv, TypeOK
  <2>5. spent = 0 /\ exists' /\ tokens' = Capacity /\ stamp' = clock
        /\ spent' = 0 /\ since' = since
    BY <1>1, <1>4 DEF LedgerInv
  <2>6. Rate * (clock - since) \in Nat
    BY RateAdds DEF BucketAssumption, TypeOK, TimeInv
  <2>7. LedgerInv'
    BY <2>5, <2>6 DEF LedgerInv, TypeOK, BucketAssumption
  <2> QED
    BY <2>2, <2>3, <2>4, <2>7
<1> QED
  BY <1>3, <1>4

LEMMA LockKeeps ==
  ASSUME BucketAssumption, ClocksAgree, BucketInv, NEW c \in Callers, Lock(c)
  PROVE  BucketInv'
<1> USE DEF BucketInv, Lock, MayLock, row
<1>1. TimeAt(c) = clock /\ clock \in Nat
  BY DEF ClocksAgree, TimeAt, BucketAssumption, TypeOK
<1>2. TypeOK'
  BY <1>1 DEF TypeOK
<1>3. LockInv'
  BY <1>1 DEF LockInv, TypeOK, TimeInv
<1>4. TimeInv' /\ LedgerInv'
  BY DEF TimeInv, LedgerInv
<1> QED
  BY <1>2, <1>3, <1>4

LEMMA WithdrawKeeps ==
  ASSUME BucketAssumption, ClocksAgree, BucketInv, NEW c \in Callers,
         Withdraw(c)
  PROVE  BucketInv'
<1> USE DEF BucketInv
<1> DEFINE level == Refilled(c)
<1>1. TimeAt(c) = clock /\ clock \in Nat /\ since \in Nat /\ stamp \in Nat
      /\ tokens \in Nat /\ spent \in Nat /\ Rate \in Nat /\ Capacity \in Nat
  BY DEF ClocksAgree, TimeAt, BucketAssumption, TypeOK
<1>2. /\ c \in holder /\ pc[c] = "seeded" /\ exists
      /\ seen[c].tokens = tokens /\ seen[c].stamp = stamp
      /\ seen[c].now \in Nat /\ stamp <= seen[c].now /\ seen[c].now <= clock
  BY DEF Withdraw, LockInv, TypeOK
<1>3. /\ level \in 0..Capacity
      /\ level <= tokens + Rate * (seen[c].now - stamp)
  <2>1. Larger(0, seen[c].now - seen[c].stamp) = seen[c].now - stamp
    BY <1>1, <1>2 DEF Larger
  <2>2. Rate * (seen[c].now - stamp) \in Nat
    BY <1>1, <1>2, RateAdds
  <2>3. level = Smaller(Capacity, tokens + Rate * (seen[c].now - stamp))
    BY <1>2, <2>1 DEF Refilled
  <2> HIDE DEF level
  <2>4. tokens + Rate * (seen[c].now - stamp) \in Nat
    BY <1>1, <2>2
  <2> QED
    BY <1>1, <2>3, <2>4 DEF Smaller
<1> HIDE DEF level
<1>4. spent + level <= Capacity + Rate * (clock - since)
  <2>1. stamp < since => spent = 0
    BY DEF LedgerInv
  <2>2. stamp >= since => spent + tokens <= Capacity + Rate * (stamp - since)
    BY <1>2 DEF LedgerInv
  <2>3. since <= clock
    BY DEF TimeInv
  <2> QED
    BY <1>1, <1>2, <1>3, <2>1, <2>2, <2>3, RefillKeepsBooks
<1>5. /\ holder' = holder \ {c} /\ stamp' = clock
         /\ seen' = [seen EXCEPT ![c] = Unseen]
      /\ clock' = clock /\ exists' = exists /\ since' = since
  BY <1>1 DEF Withdraw
<1>6. PICK cost \in Costs :
       IF level >= cost
       THEN /\ tokens' = level - cost
            /\ spent' = spent + cost
            /\ pc' = [pc EXCEPT ![c] = "granted"]
       ELSE /\ tokens' = level
            /\ pc' = [pc EXCEPT ![c] = "denied"]
            /\ spent' = spent
  BY DEF Withdraw, level
<1>7. cost \in Nat
  BY DEF BucketAssumption
<1>8. /\ tokens' \in 0..Capacity /\ spent' \in Nat
      /\ spent' + tokens' = spent + level
      /\ pc' \in [Callers -> {"idle", "seeded", "granted", "denied"}]
      /\ \A d \in Callers \ {c} : pc'[d] = pc[d]
  BY <1>1, <1>3, <1>6, <1>7 DEF TypeOK
<1>9. TypeOK'
  <2>1. Unseen \in [tokens: 0..Capacity, stamp: Nat, now: Nat]
    BY <1>1 DEF Unseen
  <2>2. seen' \in [Callers -> [tokens: 0..Capacity, stamp: Nat, now: Nat]]
    BY <1>5, <2>1 DEF TypeOK
  <2>3. exists' \in BOOLEAN /\ holder' \subseteq Callers
    BY <1>5 DEF TypeOK
  <2> QED
    BY <1>1, <1>5, <1>8, <2>2, <2>3 DEF TypeOK
<1>10. LockInv'
  BY <1>2, <1>5, <1>8 DEF LockInv, TypeOK
<1>11. TimeInv'
  BY <1>1, <1>5 DEF TimeInv
<1>12. LedgerInv'
  <2>1. since' <= stamp' /\ exists'
    BY <1>2, <1>5 DEF TimeInv
  <2>2. spent' + tokens' <= Capacity + Rate * (stamp' - since')
    BY <1>4, <1>5, <1>8
  <2> QED
    BY <1>1, <1>5, <2>1, <2>2 DEF LedgerInv
<1> QED
  BY <1>9, <1>10, <1>11, <1>12

LEMMA AgainKeeps ==
  ASSUME BucketAssumption, BucketInv, NEW c \in Callers, Again(c)
  PROVE  BucketInv'
<1> USE DEF BucketInv, Again, row
<1>1. c \notin holder
  BY DEF LockInv
<1>2. TypeOK' /\ TimeInv' /\ LedgerInv'
  BY DEF TypeOK, TimeInv, LedgerInv
<1>3. LockInv'
  BY <1>1 DEF LockInv, TypeOK
<1> QED
  BY <1>2, <1>3

LEMMA BucketTickKeeps ==
  ASSUME BucketInv, Tick
  PROVE  BucketInv'
<1> USE DEF BucketInv, Tick, row
<1>1. TypeOK' /\ LedgerInv'
  BY DEF TypeOK, LedgerInv
<1>2. LockInv' /\ TimeInv'
  BY DEF LockInv, TimeInv, TypeOK
<1> QED
  BY <1>1, <1>2

(* A window that begins now: the bucket holds a full bucket at most.       *)
LEMMA ObserveKeeps ==
  ASSUME BucketAssumption, BucketInv, Observe
  PROVE  BucketInv'
<1> USE DEF BucketInv, Observe, row
<1>1. TypeOK' /\ LockInv' /\ TimeInv'
  BY DEF TypeOK, LockInv, TimeInv
<1>2. clock \in Nat /\ stamp \in Nat /\ tokens \in 0..Capacity
      /\ Capacity \in Nat /\ Rate \in Nat
      /\ stamp <= clock
  BY DEF TypeOK, BucketAssumption, TimeInv
<1>3. stamp >= clock => Rate * (stamp - clock) \in Nat
  BY <1>2, RateAdds
<1>4. LedgerInv'
  BY <1>2, <1>3 DEF LedgerInv
<1> QED
  BY <1>1, <1>4

LEMMA StepKeeps ==
  ASSUME BucketAssumption, ClocksAgree, BucketInv, [Next]_vars
  PROVE  BucketInv'
<1>1. CASE \E c \in Callers : Call(c)
  BY <1>1, SeedKeeps, LockKeeps, WithdrawKeeps, AgainKeeps DEF Call
<1>2. CASE Tick
  BY <1>2, BucketTickKeeps
<1>3. CASE Observe
  BY <1>3, ObserveKeeps
<1>4. CASE UNCHANGED vars
  BY <1>4 DEF vars, row, BucketInv, TypeOK, LockInv, TimeInv, LedgerInv
<1> QED
  BY <1>1, <1>2, <1>3, <1>4 DEF Next

LEMMA BooksGiveTheRate ==
  ASSUME BucketAssumption, BucketInv
  PROVE  RateHolds
<1>1. clock \in Nat /\ since \in Nat /\ stamp \in Nat /\ tokens \in Nat
      /\ spent \in Nat
      /\ Rate \in Nat /\ Capacity \in Nat /\ stamp <= clock /\ since <= clock
  BY DEF BucketInv, TypeOK, TimeInv, BucketAssumption
<1>2. Rate * (clock - since) \in Nat
  BY <1>1, RateAdds
<1>3. CASE spent = 0
  BY <1>1, <1>2, <1>3 DEF RateHolds
<1>4. CASE spent # 0
  <2>1. spent + tokens <= Capacity + Rate * (stamp - since)
    BY <1>1, <1>4 DEF BucketInv, LedgerInv
  <2>2. Rate * (stamp - since) <= Rate * (clock - since)
    BY <1>1, RateGrows
  <2>3. Rate * (stamp - since) \in Int
    BY <1>1
  <2> QED
    BY <1>1, <1>2, <2>1, <2>2, <2>3 DEF RateHolds
<1> QED
  BY <1>3, <1>4

(* In every window of time the callers of throttle.acquire are granted no  *)
(* more than a full bucket and what the rate adds, when clocks agree.      *)
THEOREM RateIsKept ==
  ASSUME BucketAssumption, ClocksAgree
  PROVE  Spec => []RateHolds
<1>1. Init => BucketInv
  BY Start
<1>2. BucketInv /\ [Next]_vars => BucketInv'
  BY StepKeeps
<1>3. BucketInv => RateHolds
  BY BooksGiveTheRate
<1> QED
  BY <1>1, <1>2, <1>3, PTL DEF Spec
-----------------------------------------------------------------------------
(***************************************************************************)
(* The worker.                                                             *)
(*                                                                         *)
(* Permits and pool add up because a task is in one place only; the timer  *)
(* never hides an overdue task because the registry holds exactly what is  *)
(* at work or has just reported, and the timer is its earliest deadline,   *)
(* the recycle signal, or idle with an empty registry.                     *)
(***************************************************************************)
WorkerTyped ==
  /\ w_inbox \in Seq(Tasks)
  /\ w_loop \in {"polling", "holding", "draining", "gone"}
  /\ w_held = {} \/ \E t \in Tasks : w_held = {t}
  /\ w_permits \in Nat
  /\ Worker!InPool \subseteq Tasks
  /\ w_pool \in [Worker!InPool -> Worker!Stages]
  /\ DOMAIN w_deadline \subseteq Tasks
  /\ w_deadline \in [DOMAIN w_deadline -> Nat]
  /\ w_timer \in {Worker!RECYCLE, Worker!IDLE} \cup Nat
  /\ w_count \in Nat /\ w_waited \in 0..Grace /\ w_stopping \in BOOLEAN
  /\ w_stuck \subseteq Tasks

(* Every task is in one place. *)
PlacesInv ==
  /\ \A i, j \in DOMAIN w_inbox : w_inbox[i] = w_inbox[j] => i = j
  /\ Worker!Waiting \cap w_held = {}
  /\ Worker!Waiting \cap Worker!InPool = {}
  /\ w_held \cap Worker!InPool = {}
  /\ w_loop = "holding" <=> w_held # {}

Busy == Worker!InPool \ Worker!At("queued")

PoolInv ==
  /\ IsFiniteSet(Worker!InPool)
  /\ w_permits + Cardinality(Worker!InPool) = MaxInflight
  /\ Cardinality(Busy) <= Threads

(* The registry holds what is at work, until it is dropped. *)
RegistryInv == DOMAIN w_deadline = Worker!At("running") \cup Worker!At("reported")

(* The timer is the earliest deadline, the recycle signal, or idle; once   *)
(* the cluster stops it may be late.                                       *)
IsEarliest(v) ==
  /\ \E t \in DOMAIN w_deadline : w_deadline[t] = v
  /\ \A t \in DOMAIN w_deadline : v <= w_deadline[t]

TimerInv ==
  /\ w_timer = Worker!IDLE => DOMAIN w_deadline = {}
  /\ w_stopping \/ w_timer \in {Worker!IDLE, Worker!RECYCLE}
     \/ IsEarliest(w_timer)

CountInv ==
  /\ w_count <= Recycle
  /\ w_loop \in {"polling", "gone"} => w_count < Recycle
  /\ w_loop = "gone" => Worker!InPool = {}

WorkerInv ==
  /\ WorkerTyped /\ PlacesInv /\ PoolInv
  /\ RegistryInv /\ TimerInv /\ CountInv
-----------------------------------------------------------------------------
LEMMA LeastOfNumbers ==
  ASSUME NEW S, S \subseteq Nat, S # {}
  PROVE  \E v \in S : \A w \in S : v <= w
<1> DEFINE R == {ss \in Nat \X Nat : ss[1] < ss[2]}
<1>1. IsWellFoundedOn(R, Nat)
  BY NatLessThanWellFounded DEF OpToRel
<1>2. \A v, w \in Nat : <<w, v>> \in R \/ v <= w
  BY SMT
<1> HIDE DEF R
<1>3. \E v \in S : \A w \in S : ~(<<w, v>> \in R)
  BY <1>1, WFMin
<1> QED
  BY <1>2, <1>3

LEMMA LeastIsEarliest ==
  ASSUME NEW f, f \in [DOMAIN f -> Nat], DOMAIN f # {}
  PROVE  /\ \E t \in DOMAIN f : f[t] = Worker!Least(f)
         /\ \A t \in DOMAIN f : Worker!Least(f) <= f[t]
         /\ Worker!Least(f) \in Nat
<1> DEFINE S == {f[t] : t \in DOMAIN f}
<1>1. S \subseteq Nat /\ S # {}
  OBVIOUS
<1>2. \E v \in S : \A w \in S : v <= w
  BY <1>1, LeastOfNumbers
<1>3. \E v \in S : \A t \in DOMAIN f : v <= f[t]
  BY <1>2
<1>4. Worker!Least(f) \in S /\ \A t \in DOMAIN f : Worker!Least(f) <= f[t]
  BY <1>3 DEF Worker!Least
<1> QED
  BY <1>1, <1>4

LEMMA EmptyIs ==
  ASSUME NEW f
  PROVE  (f = <<>>) => DOMAIN f = {}
OBVIOUS

LEMMA EmptyMaps ==
  ASSUME NEW V
  PROVE  <<>> \in [{} -> V]
OBVIOUS

LEMMA EmptyBack ==
  ASSUME NEW S, NEW V, NEW f \in [S -> V], S = {}
  PROVE  f = <<>>
OBVIOUS

LEMMA Appended ==
  ASSUME NEW q \in Seq(Tasks), NEW t \in Tasks,
         t \notin {q[i] : i \in DOMAIN q},
         \A i, j \in DOMAIN q : q[i] = q[j] => i = j
  PROVE  LET p == Append(q, t) IN
         /\ p \in Seq(Tasks)
         /\ {p[i] : i \in DOMAIN p} = {q[i] : i \in DOMAIN q} \cup {t}
         /\ \A i, j \in DOMAIN p : p[i] = p[j] => i = j
<1> DEFINE p == Append(q, t)
<1>1. /\ p \in Seq(Tasks) /\ DOMAIN p = 1..(Len(q) + 1) /\ p[Len(q) + 1] = t
      /\ \A i \in 1..Len(q) : p[i] = q[i]
      /\ DOMAIN q = 1..Len(q) /\ Len(q) \in Nat
  OBVIOUS
<1> HIDE DEF p
<1>2. \A i \in DOMAIN p : i \in DOMAIN q \/ i = Len(q) + 1
  BY <1>1
<1>3. \A i \in DOMAIN q : i \in DOMAIN p /\ p[i] = q[i]
  BY <1>1
<1>4. Len(q) + 1 \in DOMAIN p
  BY <1>1
<1>5. {p[i] : i \in DOMAIN p} = {q[i] : i \in DOMAIN q} \cup {t}
  BY <1>1, <1>2, <1>3, <1>4
<1>6. \A i, j \in DOMAIN p : p[i] = p[j] => i = j
  BY <1>1, <1>2, <1>3
<1> QED
  BY <1>1, <1>5, <1>6 DEF p

LEMMA Taken ==
  ASSUME NEW q \in Seq(Tasks), q # <<>>, \A i,
         j \in DOMAIN q : q[i] = q[j] => i = j
  PROVE  LET p == Tail(q) IN
         /\ p \in Seq(Tasks) /\ Head(q) \in {q[i] : i \in DOMAIN q}
         /\ {p[i] : i \in DOMAIN p} \subseteq {q[i] : i \in DOMAIN q} \ {Head(q)}
         /\ \A i, j \in DOMAIN p : p[i] = p[j] => i = j
<1> DEFINE p == Tail(q)
<1>1. /\ p \in Seq(Tasks) /\ Len(q) \in Nat \ {0} /\ DOMAIN q = 1..Len(q)
      /\ Head(q) = q[1] /\ DOMAIN p = 1..(Len(q) - 1)
      /\ \A i \in DOMAIN p : p[i] = q[i + 1]
  OBVIOUS
<1> HIDE DEF p
<1>2. \A i \in DOMAIN p : i \in Nat /\ i + 1 \in DOMAIN q /\ i + 1 # 1
  BY <1>1
<1>3. 1 \in DOMAIN q
  BY <1>1
<1> QED
  BY <1>1, <1>2, <1>3 DEF p
-----------------------------------------------------------------------------
LEMMA PublishKeeps ==
  ASSUME NEW t, Worker!Publish(w_deadline', t),
         w_deadline' \in [DOMAIN w_deadline' -> Nat]
  PROVE  TimerInv' /\ w_timer' \in {Worker!RECYCLE, Worker!IDLE} \cup Nat
<1>0. Worker!IDLE # Worker!RECYCLE /\ Worker!IDLE \notin Nat
  BY DEF Worker!IDLE, Worker!RECYCLE
<1>1. CASE w_timer = Worker!RECYCLE
  BY <1>0, <1>1 DEF Worker!Publish, TimerInv
<1>2. CASE w_timer # Worker!RECYCLE /\ w_deadline' = <<>>
  <2>1. w_timer' = Worker!IDLE
    BY <1>2 DEF Worker!Publish
  <2>2. DOMAIN w_deadline' = {}
    BY <1>2, EmptyIs
  <2> QED
    BY <2>1, <2>2 DEF TimerInv
<1>3. CASE w_timer # Worker!RECYCLE /\ w_deadline' # <<>>
  <2>1. w_timer' = Worker!Least(w_deadline')
    BY <1>3 DEF Worker!Publish
  <2>2. DOMAIN w_deadline' # {}
    BY <1>3, EmptyBack
  <2>3. /\ \E u \in DOMAIN w_deadline' : w_deadline'[u] = w_timer'
        /\ \A u \in DOMAIN w_deadline' : w_timer' <= w_deadline'[u]
        /\ w_timer' \in Nat
    BY <2>1, <2>2, LeastIsEarliest
  <2>4. IsEarliest(w_timer)'
    BY <2>3 DEF IsEarliest
  <2> QED
    BY <1>0, <2>3, <2>4 DEF TimerInv
<1> QED
  BY <1>1, <1>2, <1>3

LEMMA WorkerStarts ==
  ASSUME Worker!WorkerAssumption, Worker!Init
  PROVE  WorkerInv
<1>1. Worker!InPool = {} /\ DOMAIN w_deadline = {} /\ Worker!Waiting = {}
  BY DEF Worker!Init, Worker!NewProcess, Worker!InPool, Worker!Waiting
<1>2. WorkerTyped
  <2>1. w_pool \in [Worker!InPool -> Worker!Stages]
        /\ w_deadline \in [DOMAIN w_deadline -> Nat]
    BY <1>1, EmptyMaps DEF Worker!Init, Worker!NewProcess
  <2>2. w_inbox \in Seq(Tasks)
    BY DEF Worker!Init
  <2>3. w_permits \in Nat /\ w_count \in Nat /\ w_waited \in 0..Grace
    BY DEF Worker!Init, Worker!NewProcess, Worker!WorkerAssumption
  <2> QED
    BY <1>1, <2>1, <2>2, <2>3 DEF Worker!Init, Worker!NewProcess, WorkerTyped
<1>3. PlacesInv
  BY <1>1 DEF Worker!Init, Worker!NewProcess, PlacesInv
<1>4. PoolInv
  BY <1>1, FS_EmptySet DEF Worker!Init, Worker!NewProcess, PoolInv, Busy,
                           Worker!WorkerAssumption
<1>5. RegistryInv
  BY <1>1 DEF RegistryInv, Worker!At
<1>6. TimerInv
  BY <1>1 DEF Worker!Init, Worker!NewProcess, TimerInv
<1>7. CountInv
  BY <1>1 DEF Worker!Init, Worker!NewProcess, CountInv, Worker!WorkerAssumption
<1> QED
  BY <1>2, <1>3, <1>4, <1>5, <1>6, <1>7 DEF WorkerInv

(* A change of a task's stage keeps the pool.                              *)
LEMMA SameWorker ==
  ASSUME UNCHANGED Worker!worker
  PROVE  /\ Worker!InPool' = Worker!InPool /\ Busy' = Busy
         /\ PoolInv => PoolInv'
         /\ RegistryInv => RegistryInv'
         /\ CountInv => CountInv'
         /\ TimerInv /\ (w_stopping => w_stopping') => TimerInv'
BY DEF Worker!worker, Worker!InPool, Busy, Worker!At, PoolInv, RegistryInv,
       CountInv, TimerInv, IsEarliest

LEMMA PushKeeps ==
  ASSUME Worker!WorkerAssumption, WorkerInv, NEW t \in Tasks, Worker!Push(t)
  PROVE  WorkerInv'
<1> USE DEF WorkerInv
<1>1. /\ t \notin Worker!Waiting /\ t \notin w_held /\ t \notin Worker!InPool
      /\ w_inbox' = Append(w_inbox, t)
         /\ UNCHANGED <<Worker!worker, w_stopping, w_stuck>>
  BY DEF Worker!Push
<1>2. /\ w_inbox' \in Seq(Tasks) /\ Worker!Waiting' = Worker!Waiting \cup {t}
      /\ \A i, j \in DOMAIN w_inbox' : w_inbox'[i] = w_inbox'[j] => i = j
  <2>1. /\ w_inbox \in Seq(Tasks)
           /\ t \notin {w_inbox[i] : i \in DOMAIN w_inbox}
        /\ \A i, j \in DOMAIN w_inbox : w_inbox[i] = w_inbox[j] => i = j
    BY <1>1 DEF WorkerTyped, PlacesInv, Worker!Waiting
  <2>2. /\ Append(w_inbox, t) \in Seq(Tasks)
        /\ {Append(w_inbox, t)[i] : i \in DOMAIN Append(w_inbox, t)}
           = {w_inbox[i] : i \in DOMAIN w_inbox} \cup {t}
        /\ \A i, j \in DOMAIN Append(w_inbox, t) :
             Append(w_inbox, t)[i] = Append(w_inbox, t)[j] => i = j
    BY <2>1, Appended, Zenon
  <2> QED
    BY <1>1, <2>2, Zenon DEF Worker!Waiting
<1>3. Worker!InPool' = Worker!InPool /\ PoolInv' /\ RegistryInv' /\ CountInv'
      /\ TimerInv'
  BY <1>1, SameWorker
<1>4. WorkerTyped'
  BY <1>1, <1>2, <1>3 DEF WorkerTyped, Worker!worker
<1>5. PlacesInv'
  BY <1>1, <1>2, <1>3 DEF PlacesInv, Worker!worker
<1> QED
  BY <1>3, <1>4, <1>5

LEMMA GetKeeps ==
  ASSUME Worker!WorkerAssumption, WorkerInv, Worker!Get
  PROVE  WorkerInv'
<1> USE DEF WorkerInv
<1>1. /\ w_loop = "polling" /\ w_inbox # <<>> /\ w_held' = {Head(w_inbox)}
         /\ w_inbox' = Tail(w_inbox)
      /\ w_loop' = "holding" /\ w_count' = w_count + 1
      /\ UNCHANGED <<w_permits, w_pool, w_stuck, w_deadline, w_timer,
                     w_waited, w_stopping>>
  BY DEF Worker!Get
<1>2. /\ w_inbox' \in Seq(Tasks) /\ Head(w_inbox) \in Worker!Waiting
      /\ Worker!Waiting' \subseteq Worker!Waiting \ {Head(w_inbox)}
      /\ \A i, j \in DOMAIN w_inbox' : w_inbox'[i] = w_inbox'[j] => i = j
  BY <1>1, Taken DEF WorkerTyped, PlacesInv, Worker!Waiting
<1>3. Worker!Waiting \subseteq Tasks
  BY DEF Worker!Waiting, WorkerTyped
<1>4. Worker!InPool' = Worker!InPool /\ Busy' = Busy
      /\ Worker!At("running")' = Worker!At("running")
      /\ Worker!At("reported")' = Worker!At("reported")
  BY <1>1 DEF Worker!InPool, Busy, Worker!At
<1>5. WorkerTyped'
  <2>1. \E t \in Tasks : w_held' = {t}
    BY <1>1, <1>2, <1>3
  <2>2. w_count' \in Nat
    BY <1>1 DEF WorkerTyped
  <2> QED
    BY <1>1, <1>2, <1>4, <2>1, <2>2 DEF WorkerTyped
<1>6. PlacesInv'
  BY <1>1, <1>2, <1>4 DEF PlacesInv
<1>7. PoolInv' /\ RegistryInv'
  BY <1>1, <1>4 DEF PoolInv, RegistryInv
<1>8. TimerInv'
  BY <1>1 DEF TimerInv, IsEarliest
<1>9. CountInv'
  BY <1>1 DEF CountInv, WorkerTyped, Worker!WorkerAssumption
<1> QED
  BY <1>5, <1>6, <1>7, <1>8, <1>9

LEMMA SubmitKeeps ==
  ASSUME Worker!WorkerAssumption, WorkerInv, Worker!Submit
  PROVE  WorkerInv'
<1> USE DEF WorkerInv
<1>1. PICK t \in w_held : w_pool' = Worker!Plus(w_pool, t, "queued")
  BY DEF Worker!Submit
<1>2. /\ w_loop = "holding" /\ w_permits > 0 /\ w_permits' = w_permits - 1
         /\ w_held' = {}
      /\ UNCHANGED <<w_inbox, w_stuck, w_deadline, w_count, w_waited,
                     w_stopping>>
  BY DEF Worker!Submit, Worker!MayAcquire
<1>3. \/ w_count >= Recycle /\ w_loop' = "draining"
         /\ w_timer' = Worker!RECYCLE
      \/ w_count < Recycle /\ w_loop' = "polling" /\ w_timer' = w_timer
  BY DEF Worker!Submit, Worker!Recycles, WorkerTyped, Worker!WorkerAssumption
<1>4. t \in Tasks /\ t \notin Worker!InPool /\ t \notin Worker!Waiting
  BY DEF WorkerTyped, PlacesInv
<1>5. /\ w_pool' \in [Worker!InPool \cup {t} -> Worker!Stages]
         /\ Worker!InPool' = Worker!InPool \cup {t}
      /\ w_pool'[t] = "queued"
         /\ \A u \in Worker!InPool : w_pool'[u] = w_pool[u]
  <2>1. "queued" \in Worker!Stages
    BY DEF Worker!Stages
  <2> QED
    <3>1. w_pool \in [Worker!InPool -> Worker!Stages]
      BY DEF WorkerTyped
    <3>2. /\ w_pool' \in [Worker!InPool \cup {t} -> Worker!Stages]
             /\ DOMAIN w_pool' = Worker!InPool \cup {t}
          /\ w_pool'[t] = "queued" /\ \A u \in Worker!InPool : u # t
               => w_pool'[u] = w_pool[u]
      BY <1>1, <2>1, <3>1 DEF Worker!Plus
    <3> QED
      BY <1>4, <3>2 DEF Worker!InPool
<1>6. /\ Busy' = Busy /\ Worker!At("running")' = Worker!At("running")
         /\ Worker!At("reported")' = Worker!At("reported")
  BY <1>4, <1>5 DEF Busy, Worker!At
<1>7. WorkerTyped'
  BY <1>2, <1>3, <1>4, <1>5 DEF WorkerTyped
<1>8. PlacesInv'
  BY <1>2, <1>3, <1>4, <1>5 DEF PlacesInv, Worker!Waiting
<1>9. PoolInv'
  <2>1. IsFiniteSet(Worker!InPool')
        /\ Cardinality(Worker!InPool') = Cardinality(Worker!InPool) + 1
    BY <1>4, <1>5, FS_AddElement DEF PoolInv
  <2>2. Cardinality(Worker!InPool) \in Nat
    BY FS_CardinalityType DEF PoolInv
  <2> QED
    BY <1>2, <1>6, <2>1, <2>2 DEF PoolInv, WorkerTyped, Worker!WorkerAssumption
<1>10. RegistryInv'
  BY <1>2, <1>6 DEF RegistryInv
<1>11. TimerInv'
  <2>1. Worker!RECYCLE # Worker!IDLE
    BY DEF Worker!RECYCLE, Worker!IDLE
  <2> QED
    BY <1>2, <1>3, <2>1 DEF TimerInv, IsEarliest
<1>12. CountInv'
  BY <1>2, <1>3 DEF CountInv
<1> QED
  BY <1>7, <1>8, <1>9, <1>10, <1>11, <1>12

LEMMA BeginKeeps ==
  ASSUME Worker!WorkerAssumption, WorkerInv, NEW t \in Tasks,
         NEW timeout \in Timeouts, NEW hangs \in BOOLEAN,
         Worker!Begin(t, timeout, hangs)
  PROVE  WorkerInv'
<1> USE DEF WorkerInv
<1>1. /\ t \in Worker!InPool /\ w_pool[t] = "queued"
         /\ Cardinality(Busy) < Threads
      /\ w_pool' = [w_pool EXCEPT ![t] = "running"]
         /\ w_deadline' = Worker!Plus(w_deadline, t, timeout)
      /\ Worker!Publish(w_deadline', t)
      /\ UNCHANGED <<w_inbox, w_loop, w_held, w_permits, w_count, w_waited,
                     w_stopping>>
  BY DEF Worker!Begin, Worker!At, Worker!Occupied, Busy, Worker!Cardinality,
         Cardinality
<1>2. /\ w_pool' \in [Worker!InPool -> Worker!Stages]
         /\ Worker!InPool' = Worker!InPool
      /\ w_pool'[t] = "running" /\ \A u \in Worker!InPool : u # t
           => w_pool'[u] = w_pool[u]
  <2>1. w_pool \in [Worker!InPool -> Worker!Stages]
        /\ "running" \in Worker!Stages
    BY DEF WorkerTyped, Worker!Stages
  <2>2. /\ w_pool' \in [Worker!InPool -> Worker!Stages]
           /\ DOMAIN w_pool' = Worker!InPool
        /\ w_pool'[t] = "running" /\ \A u \in Worker!InPool : u # t
             => w_pool'[u] = w_pool[u]
    BY <1>1, <2>1
  <2> QED
    BY <2>2 DEF Worker!InPool
<1>3. /\ Busy' = Busy \cup {t} /\ t \notin Busy
      /\ Worker!At("running")' = Worker!At("running") \cup {t}
         /\ Worker!At("reported")' = Worker!At("reported")
      /\ t \notin Worker!At("running") /\ t \notin Worker!At("reported")
  BY <1>1, <1>2 DEF Busy, Worker!At
<1>4. /\ w_deadline' \in [DOMAIN w_deadline \cup {t} -> Nat]
      /\ DOMAIN w_deadline' = DOMAIN w_deadline \cup {t}
  <2>1. timeout \in Nat /\ w_deadline \in [DOMAIN w_deadline -> Nat]
    BY DEF Worker!WorkerAssumption, WorkerTyped
  <2> QED
    BY <1>1, <2>1 DEF Worker!Plus
<1>5. TimerInv' /\ w_timer' \in {Worker!RECYCLE, Worker!IDLE} \cup Nat
  BY <1>1, <1>4, PublishKeeps
<1>6. WorkerTyped'
  <2>1. w_stuck' \subseteq Tasks
    BY DEF Worker!Begin, WorkerTyped
  <2> QED
    BY <1>1, <1>2, <1>4, <1>5, <2>1 DEF WorkerTyped
<1>7. PlacesInv'
  BY <1>1, <1>2 DEF PlacesInv, Worker!Waiting
<1>8. PoolInv'
  <2>1. IsFiniteSet(Busy)
    BY FS_Subset DEF PoolInv, Busy
  <2>2. Cardinality(Busy') = Cardinality(Busy) + 1 /\ Cardinality(Busy) \in Nat
    BY <1>3, <2>1, FS_AddElement, FS_CardinalityType
  <2> QED
    BY <1>1, <1>2, <2>2 DEF PoolInv, Worker!WorkerAssumption
<1>9. RegistryInv'
  BY <1>3, <1>4 DEF RegistryInv
<1>10. CountInv'
  BY <1>1, <1>2 DEF CountInv
<1> QED
  BY <1>5, <1>6, <1>7, <1>8, <1>9, <1>10

LEMMA ReportKeeps ==
  ASSUME Worker!WorkerAssumption, WorkerInv, NEW t \in Tasks, Worker!Report(t)
  PROVE  WorkerInv'
<1> USE DEF WorkerInv
<1>1. /\ t \in Worker!InPool /\ w_pool[t] = "running"
         /\ w_pool' = [w_pool EXCEPT ![t] = "reported"]
      /\ UNCHANGED <<w_inbox, w_loop, w_held, w_permits, w_stuck, w_deadline,
                     w_timer, w_count, w_waited, w_stopping>>
  BY DEF Worker!Report, Worker!At
<1>2. /\ w_pool' \in [Worker!InPool -> Worker!Stages]
         /\ Worker!InPool' = Worker!InPool
      /\ w_pool'[t] = "reported" /\ \A u \in Worker!InPool : u # t
           => w_pool'[u] = w_pool[u]
  <2>1. w_pool \in [Worker!InPool -> Worker!Stages]
        /\ "reported" \in Worker!Stages
    BY DEF WorkerTyped, Worker!Stages
  <2>2. /\ w_pool' \in [Worker!InPool -> Worker!Stages]
           /\ DOMAIN w_pool' = Worker!InPool
        /\ w_pool'[t] = "reported" /\ \A u \in Worker!InPool : u # t
             => w_pool'[u] = w_pool[u]
    BY <1>1, <2>1
  <2> QED
    BY <2>2 DEF Worker!InPool
<1>3. /\ Busy' = Busy
      /\ Worker!At("running")' \cup Worker!At("reported")'
         = Worker!At("running") \cup Worker!At("reported")
  BY <1>1, <1>2 DEF Busy, Worker!At
<1>4. WorkerTyped'
  BY <1>1, <1>2 DEF WorkerTyped
<1>5. PlacesInv'
  BY <1>1, <1>2 DEF PlacesInv, Worker!Waiting
<1>6. PoolInv' /\ RegistryInv'
  BY <1>1, <1>2, <1>3 DEF PoolInv, RegistryInv
<1>7. TimerInv' /\ CountInv'
  BY <1>1, <1>2 DEF TimerInv, IsEarliest, CountInv
<1> QED
  BY <1>4, <1>5, <1>6, <1>7

LEMMA DropDeadlineKeeps ==
  ASSUME Worker!WorkerAssumption, WorkerInv, NEW t \in Tasks,
         Worker!DropDeadline(t)
  PROVE  WorkerInv'
<1> USE DEF WorkerInv
<1>1. /\ t \in Worker!InPool /\ w_pool[t] = "reported"
         /\ w_pool' = [w_pool EXCEPT ![t] = "dropped"]
      /\ w_deadline' = Worker!Without(w_deadline, t)
         /\ Worker!Publish(w_deadline', t)
      /\ UNCHANGED <<w_inbox, w_loop, w_held, w_permits, w_stuck, w_count,
                     w_waited, w_stopping>>
  BY DEF Worker!DropDeadline, Worker!At
<1>2. /\ w_pool' \in [Worker!InPool -> Worker!Stages]
         /\ Worker!InPool' = Worker!InPool
      /\ w_pool'[t] = "dropped" /\ \A u \in Worker!InPool : u # t
           => w_pool'[u] = w_pool[u]
  <2>1. w_pool \in [Worker!InPool -> Worker!Stages]
        /\ "dropped" \in Worker!Stages
    BY DEF WorkerTyped, Worker!Stages
  <2>2. /\ w_pool' \in [Worker!InPool -> Worker!Stages]
           /\ DOMAIN w_pool' = Worker!InPool
        /\ w_pool'[t] = "dropped" /\ \A u \in Worker!InPool : u # t
             => w_pool'[u] = w_pool[u]
    BY <1>1, <2>1
  <2> QED
    BY <2>2 DEF Worker!InPool
<1>3. /\ Busy' = Busy
      /\ Worker!At("running")' \cup Worker!At("reported")'
         = (Worker!At("running") \cup Worker!At("reported")) \ {t}
  BY <1>1, <1>2 DEF Busy, Worker!At
<1>4. /\ w_deadline' \in [DOMAIN w_deadline \ {t} -> Nat]
      /\ DOMAIN w_deadline' = DOMAIN w_deadline \ {t}
  <2>1. w_deadline \in [DOMAIN w_deadline -> Nat]
    BY DEF WorkerTyped
  <2> QED
    BY <1>1, <2>1 DEF Worker!Without
<1>5. TimerInv' /\ w_timer' \in {Worker!RECYCLE, Worker!IDLE} \cup Nat
  BY <1>1, <1>4, PublishKeeps
<1>6. WorkerTyped'
  BY <1>1, <1>2, <1>4, <1>5 DEF WorkerTyped
<1>7. PlacesInv'
  BY <1>1, <1>2 DEF PlacesInv, Worker!Waiting
<1>8. PoolInv' /\ RegistryInv'
  BY <1>1, <1>2, <1>3, <1>4 DEF PoolInv, RegistryInv
<1>9. CountInv'
  BY <1>1, <1>2 DEF CountInv
<1> QED
  BY <1>5, <1>6, <1>7, <1>8, <1>9

LEMMA ReleaseKeeps ==
  ASSUME Worker!WorkerAssumption, WorkerInv, NEW t \in Tasks, Worker!Release(t)
  PROVE  WorkerInv'
<1> USE DEF WorkerInv
<1>1. /\ t \in Worker!InPool /\ w_pool[t] = "dropped"
         /\ w_pool' = Worker!Without(w_pool, t)
      /\ w_permits' = w_permits + 1
      /\ UNCHANGED <<w_inbox, w_loop, w_held, w_stuck, w_deadline, w_timer,
                     w_count, w_waited, w_stopping>>
  BY DEF Worker!Release, Worker!At, Worker!OneBack
<1>2. /\ w_pool' \in [Worker!InPool \ {t} -> Worker!Stages]
         /\ Worker!InPool' = Worker!InPool \ {t}
      /\ \A u \in Worker!InPool \ {t} : w_pool'[u] = w_pool[u]
  <2>1. w_pool \in [Worker!InPool -> Worker!Stages]
    BY DEF WorkerTyped
  <2>2. /\ w_pool' \in [Worker!InPool \ {t} -> Worker!Stages]
           /\ DOMAIN w_pool' = Worker!InPool \ {t}
        /\ \A u \in Worker!InPool \ {t} : w_pool'[u] = w_pool[u]
    BY <1>1, <2>1 DEF Worker!Without, Worker!InPool
  <2> QED
    BY <2>2 DEF Worker!InPool
<1>3. /\ Busy' = Busy \ {t}
      /\ Worker!At("running")' = Worker!At("running")
         /\ Worker!At("reported")' = Worker!At("reported")
  BY <1>1, <1>2 DEF Busy, Worker!At
<1>4. WorkerTyped'
  BY <1>1, <1>2 DEF WorkerTyped
<1>5. PlacesInv'
  BY <1>1, <1>2 DEF PlacesInv, Worker!Waiting
<1>6. PoolInv'
  <2>1. /\ IsFiniteSet(Worker!InPool')
           /\ Cardinality(Worker!InPool') = Cardinality(Worker!InPool) - 1
        /\ Cardinality(Worker!InPool) \in Nat
    BY <1>1, <1>2, FS_RemoveElement, FS_CardinalityType DEF PoolInv
  <2>2. IsFiniteSet(Busy) /\ Busy' \subseteq Busy
    BY <1>3, FS_Subset DEF PoolInv, Busy
  <2>3. /\ Cardinality(Busy') <= Cardinality(Busy)
        /\ Cardinality(Busy') \in Nat /\ Cardinality(Busy) \in Nat
    BY <2>2, FS_Subset, FS_CardinalityType
  <2> QED
    BY <1>1, <2>1, <2>3 DEF PoolInv, WorkerTyped, Worker!WorkerAssumption
<1>7. RegistryInv'
  BY <1>1, <1>3 DEF RegistryInv
<1>8. TimerInv' /\ CountInv'
  BY <1>1, <1>2 DEF TimerInv, IsEarliest, CountInv
<1> QED
  BY <1>4, <1>5, <1>6, <1>7, <1>8

LEMMA DeathKeeps ==
  ASSUME Worker!WorkerAssumption, WorkerInv, Worker!Dies
  PROVE  WorkerInv'
<1> USE DEF WorkerInv
<1>1. /\ Worker!InPool' = {} /\ DOMAIN w_deadline' = {}
         /\ Worker!Waiting' = Worker!Waiting
      /\ w_pool' \in [Worker!InPool' -> Worker!Stages]
         /\ w_deadline' \in [DOMAIN w_deadline' -> Nat]
  <2>1. DOMAIN w_pool' = {} /\ DOMAIN w_deadline' = {}
    BY DEF Worker!Dies
  <2>2. w_pool' \in [{} -> Worker!Stages] /\ w_deadline' \in [{} -> Nat]
    BY EmptyMaps DEF Worker!Dies
  <2> QED
    BY <2>1, <2>2 DEF Worker!Dies, Worker!InPool, Worker!Waiting
<1>2. WorkerTyped'
  <2>1. w_permits' \in Nat /\ w_count' \in Nat /\ w_waited' \in 0..Grace
    BY DEF Worker!Dies, Worker!WorkerAssumption
  <2> QED
    BY <1>1, <2>1 DEF Worker!Dies, WorkerTyped
<1>3. PlacesInv'
  BY <1>1 DEF Worker!Dies, PlacesInv
<1>4. PoolInv'
  <2>1. Busy' = {}
    BY <1>1 DEF Busy
  <2> QED
    BY <1>1, <2>1, FS_EmptySet DEF Worker!Dies, PoolInv,
                                   Worker!WorkerAssumption
<1>5. RegistryInv'
  BY <1>1 DEF RegistryInv, Worker!At
<1>6. TimerInv'
  BY <1>1 DEF Worker!Dies, TimerInv
<1>7. CountInv'
  BY <1>1 DEF Worker!Dies, CountInv, Worker!WorkerAssumption
<1> QED
  BY <1>2, <1>3, <1>4, <1>5, <1>6, <1>7

(* What only moves the loop, or stops the cluster. *)
LEMMA LoopKeeps ==
  ASSUME Worker!WorkerAssumption, WorkerInv,
         Worker!TakePill \/ Worker!Stop \/ Worker!Reincarnate
  PROVE  WorkerInv'
<1> USE DEF WorkerInv
<1>1. UNCHANGED <<w_inbox, w_held, w_permits, w_pool, w_stuck, w_deadline,
                  w_timer, w_count, w_waited>>
  BY DEF Worker!TakePill, Worker!Stop, Worker!Reincarnate, Worker!worker
<1>2. /\ Worker!InPool' = Worker!InPool /\ Busy' = Busy
         /\ Worker!Waiting' = Worker!Waiting
      /\ Worker!At("running")' = Worker!At("running")
         /\ Worker!At("reported")' = Worker!At("reported")
  BY <1>1 DEF Worker!InPool, Busy, Worker!Waiting, Worker!At
<1>3. PoolInv' /\ RegistryInv'
  BY <1>1, <1>2 DEF PoolInv, RegistryInv
<1>4. /\ w_loop' \in {"polling", "draining", "gone", "holding"}
         /\ w_stopping' \in BOOLEAN
      /\ w_stopping => w_stopping'
      /\ w_loop' # w_loop
           => w_loop \in {"polling", "gone"}
           /\ w_loop' \in {"draining", "polling"}
  BY DEF Worker!TakePill, Worker!Stop, Worker!Reincarnate, WorkerTyped,
         Worker!worker
<1>5. WorkerTyped'
  BY <1>1, <1>2, <1>4 DEF WorkerTyped
<1>6. PlacesInv'
  BY <1>1, <1>2, <1>4 DEF PlacesInv
<1>7. TimerInv'
  BY <1>1, <1>4 DEF TimerInv, IsEarliest
<1>8. CountInv'
  BY <1>1, <1>2, <1>4 DEF CountInv
<1> QED
  BY <1>3, <1>5, <1>6, <1>7, <1>8

LEMMA TickKeeps ==
  ASSUME Worker!WorkerAssumption, WorkerInv, Worker!Tick
  PROVE  WorkerInv'
<1> USE DEF WorkerInv
<1>1. /\ w_timer # 0 \/ w_stopping
      /\ w_loop = "draining" => w_waited < Grace
      /\ w_deadline' = [t \in DOMAIN w_deadline |->
                        IF w_deadline[t] > 0 THEN w_deadline[t] - 1 ELSE 0]
      /\ w_timer' = IF w_timer > 0 /\ ~w_stopping THEN w_timer - 1 ELSE w_timer
      /\ w_waited' = IF w_loop = "draining" THEN w_waited + 1 ELSE w_waited
      /\ UNCHANGED <<w_inbox, w_loop, w_held, w_permits, w_pool, w_stuck,
                     w_count, w_stopping>>
  BY DEF Worker!Tick
<1>2. /\ Worker!InPool' = Worker!InPool /\ Busy' = Busy
         /\ Worker!Waiting' = Worker!Waiting
      /\ Worker!At("running")' = Worker!At("running")
         /\ Worker!At("reported")' = Worker!At("reported")
  BY <1>1 DEF Worker!InPool, Busy, Worker!Waiting, Worker!At
<1>3. /\ DOMAIN w_deadline' = DOMAIN w_deadline
         /\ w_deadline' \in [DOMAIN w_deadline -> Nat]
      /\ \A t \in DOMAIN w_deadline :
           w_deadline'[t] = IF w_deadline[t] > 0 THEN w_deadline[t] - 1 ELSE 0
  BY <1>1 DEF WorkerTyped
<1>4. w_timer \in Int
      /\ (w_timer > 0 \/ w_timer \in {0, Worker!IDLE, Worker!RECYCLE})
  BY DEF WorkerTyped, Worker!IDLE, Worker!RECYCLE
<1>5. WorkerTyped'
  <2>1. w_waited' \in 0..Grace
    BY <1>1 DEF WorkerTyped, Worker!WorkerAssumption
  <2>2. w_timer' \in {Worker!RECYCLE, Worker!IDLE} \cup Nat
    BY <1>1, <1>4 DEF WorkerTyped
  <2> QED
    BY <1>1, <1>2, <1>3, <2>1, <2>2 DEF WorkerTyped
<1>6. PlacesInv' /\ PoolInv' /\ RegistryInv' /\ CountInv'
  BY <1>1, <1>2, <1>3 DEF PlacesInv, PoolInv, RegistryInv, CountInv
<1>7. TimerInv'
  <2>1. CASE w_stopping \/ w_timer \in {Worker!IDLE, Worker!RECYCLE}
    <3>1. w_timer' = w_timer
      BY <1>1, <2>1 DEF Worker!IDLE, Worker!RECYCLE
    <3> QED
      BY <1>1, <1>3, <2>1, <3>1 DEF TimerInv
  <2>2. CASE ~w_stopping /\ w_timer \notin {Worker!IDLE, Worker!RECYCLE}
    <3>1. w_timer > 0 /\ w_timer' = w_timer - 1 /\ w_timer' \in Nat
      BY <1>1, <1>4, <2>2
    <3>2. IsEarliest(w_timer)
      BY <2>2 DEF TimerInv
    <3>3. \A t \in DOMAIN w_deadline : w_deadline[t] \in Nat
          /\ w_timer <= w_deadline[t]
      BY <3>2 DEF IsEarliest, WorkerTyped
    <3>4. \A t \in DOMAIN w_deadline : w_deadline'[t] = w_deadline[t] - 1
      BY <1>3, <1>4, <3>1, <3>3
    <3>5. PICK t \in DOMAIN w_deadline : w_deadline[t] = w_timer
      BY <3>2 DEF IsEarliest
    <3>6. \A u \in DOMAIN w_deadline' : w_timer' <= w_deadline'[u]
      BY <1>3, <1>4, <3>1, <3>3, <3>4
    <3>7. IsEarliest(w_timer)'
      BY <1>3, <3>1, <3>4, <3>5, <3>6 DEF IsEarliest
    <3> QED
      BY <3>1, <3>7 DEF TimerInv, Worker!IDLE
  <2> QED
    BY <2>1, <2>2
<1> QED
  BY <1>5, <1>6, <1>7

LEMMA WorkerKeeps ==
  ASSUME Worker!WorkerAssumption, WorkerInv, Worker!Next
  PROVE  WorkerInv'
BY PushKeeps, GetKeeps, SubmitKeeps, BeginKeeps, ReportKeeps,
   DropDeadlineKeeps, ReleaseKeeps,
   DeathKeeps, LoopKeeps, TickKeeps
   DEF Worker!Next, Worker!MainLoop, Worker!Pool, Worker!Sentinel,
       Worker!Drained, Worker!ForceExit, Worker!Terminate

LEMMA WorkerRests ==
  ASSUME WorkerInv, UNCHANGED Worker!vars
  PROVE  WorkerInv'
<1>1. UNCHANGED Worker!worker /\ Worker!InPool' = Worker!InPool
      /\ UNCHANGED <<w_inbox, w_stopping, w_stuck>>
  BY SameWorker DEF Worker!vars
<1> QED
  BY <1>1, SameWorker DEF WorkerInv, Worker!worker, WorkerTyped, PlacesInv,
                          Worker!Waiting

LEMMA WorkerMeans ==
  ASSUME Worker!WorkerAssumption, WorkerInv
  PROVE  Worker!TypeOK /\ Worker!PermitsMatch /\ Worker!OverdueIsSeen
         /\ Worker!RunningIsGuarded /\ Worker!WithinRecycle
<1> USE DEF WorkerInv
<1>1. Cardinality(Worker!InPool) \in Nat
  BY FS_CardinalityType DEF PoolInv
<1>2. Worker!PermitsMatch
  BY DEF Worker!PermitsMatch, PoolInv, Worker!Occupied, Busy,
         Worker!Cardinality, Cardinality
<1>3. Worker!TypeOK
  <2>1. Cardinality(w_held) <= 1
    <3>1. CASE w_held = {}
      BY <3>1, FS_EmptySet
    <3>2. ASSUME NEW t, w_held = {t} PROVE Cardinality(w_held) <= 1
      <4>1. Cardinality({t}) = 1
        BY FS_Singleton
      <4> QED
        BY <3>2, <4>1
    <3> QED
      BY <3>1, <3>2 DEF WorkerTyped
  <2>2. w_permits \in 0..MaxInflight
    <3>1. w_permits \in Nat
          /\ w_permits + Cardinality(Worker!InPool) = MaxInflight
             /\ MaxInflight \in Nat
      BY DEF PoolInv, WorkerTyped, Worker!WorkerAssumption
    <3> QED
      BY <1>1, <3>1
  <2>3. w_held \subseteq Tasks
    BY DEF WorkerTyped
  <2>4. /\ \E S \in SUBSET Tasks : w_pool \in [S -> Worker!Stages]
        /\ \E S \in SUBSET Tasks : w_deadline \in [S -> Nat]
    BY DEF WorkerTyped
  <2>5. w_count \in 0..Recycle
    BY DEF WorkerTyped, CountInv, Worker!WorkerAssumption
  <2> QED
    BY <2>1, <2>2, <2>3, <2>4, <2>5 DEF Worker!TypeOK, WorkerTyped,
                                        Worker!Cardinality, Cardinality
<1>4. Worker!OverdueIsSeen
  <2> SUFFICES ASSUME NEW t \in Worker!At("running"), w_deadline[t] = 0,
                      ~w_stopping
               PROVE  w_timer \in {0, Worker!RECYCLE}
    BY DEF Worker!OverdueIsSeen
  <2>1. t \in DOMAIN w_deadline
    BY DEF RegistryInv
  <2>2. w_timer # Worker!IDLE
    BY <2>1 DEF TimerInv
  <2>3. CASE IsEarliest(w_timer)
    <3>1. w_timer \in Nat
      BY <2>3 DEF IsEarliest, WorkerTyped
    <3>2. w_timer <= 0
      BY <2>1, <2>3 DEF IsEarliest
    <3> QED
      BY <3>1, <3>2
  <2> QED
    BY <2>2, <2>3 DEF TimerInv
<1>5. Worker!RunningIsGuarded /\ Worker!WithinRecycle
  BY DEF Worker!RunningIsGuarded, Worker!WithinRecycle, RegistryInv, TimerInv,
         CountInv
<1> QED
  BY <1>2, <1>3, <1>4, <1>5
-----------------------------------------------------------------------------
(***************************************************************************)
(* The rows a target reports to, seen from targets that do whatever either *)
(* system's do, for the longer of the two counts.                          *)
(*                                                                         *)
(* What was read and not yet written back is still so, since whoever could *)
(* change it waits for a lock: the attempt's own row for its usage, the    *)
(* graph's for the budget, and the task's for being the newest attempt.    *)
(***************************************************************************)
AnyDoes == [r \in Targets |-> {"report", "record", "spend"}]
MostUsage == IF MaxUsage < LedgerUsage THEN LedgerUsage ELSE MaxUsage

Any == INSTANCE TaskProgress WITH
  Does <- AnyDoes, MaxUsage <- MostUsage,
  attempts <- t_attempts, row <- t_row, snapshot <- t_snapshot,
  budget <- t_budget, rowLock <- t_rowLock, taskLock <- t_taskLock,
  graphLock <- t_graphLock, call <- t_call, monitor <- t_monitor,
  said <- t_said, recorded <- t_recorded, spent <- t_spent

Places == {"idle", "merged", "locked", "looked", "recording", "declared",
           "charging"}
Calls == [at: Places, current: 0..Goal, read: 0..(MostUsage + Budget),
          newest: BOOLEAN]
AttemptRow == [current: 0..Goal, recent: BOOLEAN, usage: 0..MostUsage,
               resolved: BOOLEAN]

(* What each place of a call holds, and what it has read is still so. *)
CallInv(r) ==
  /\ t_call[r].at # "idle" => Any!Of(r) <= t_attempts
  /\ t_call[r].at \in {"merged", "locked", "looked", "recording"}
       => t_rowLock[Any!Of(r)] = r
  /\ t_call[r].at \in {"locked", "looked"} => t_taskLock = r
  /\ t_call[r].at = "looked" => t_call[r].newest = (t_attempts = Any!Of(r))
  /\ t_call[r].at = "recording" =>
       t_recorded[Any!Of(r)] < MostUsage
       /\ t_call[r].read = t_recorded[Any!Of(r)]
  /\ t_call[r].at = "charging" => t_graphLock = r /\ t_call[r].read = t_budget
  /\ t_call[r].at \notin {"recording", "charging"} => t_call[r].read = 0

CallsInv == \A r \in Targets : CallInv(r)

MonitorInv ==
  /\ t_monitor.at # "idle" => t_taskLock = Any!Monitor
  /\ t_monitor.at = "resolved" => t_rowLock[t_monitor.of] = Any!Monitor

TaskInv == t_snapshot.of <= t_attempts /\ Any!LastWordShows
BooksInv == Any!UsageIsExact /\ Any!BudgetIsExact

Holders == {Any!Free, Any!Monitor} \cup Targets

RowsTyped ==
  /\ t_attempts \in Any!Attempts
  /\ t_row \in [Any!Attempts -> AttemptRow]
  /\ t_snapshot \in [of: 0..MaxAttempts, current: 0..Goal]
  /\ t_budget \in 0..Budget
  /\ t_rowLock \in [Any!Attempts -> Holders]
  /\ t_taskLock \in Holders /\ t_graphLock \in {Any!Free} \cup Targets
  /\ t_call \in [Targets -> Calls]
  /\ t_monitor \in [at: {"idle", "locked", "resolved"}, of: Any!Attempts]
  /\ t_said \in [Any!Attempts -> 0..Goal]
     /\ t_recorded \in [Any!Attempts -> Nat] /\ t_spent \in Nat

RowsInv == RowsTyped /\ CallsInv /\ MonitorInv /\ TaskInv /\ BooksInv
-----------------------------------------------------------------------------
LEMMA HoldersDiffer ==
  ASSUME Any!ProgressAssumption
  PROVE  /\ Any!Free # Any!Monitor
         /\ \A r \in Targets : r # Any!Free /\ r # Any!Monitor
            /\ Any!Of(r) \in Any!Attempts
BY DEF Any!ProgressAssumption, Any!Free, Any!Monitor, Any!Of, Any!Attempts

(* What the ways of writing `call` leave behind. *)
Leaves(r, place, current, read, newest) ==
  /\ t_call' \in [Targets -> Calls]
  /\ t_call'[r].at = place /\ t_call'[r].current = current
  /\ t_call'[r].read = read /\ t_call'[r].newest = newest
  /\ \A q \in Targets : q # r => t_call'[q] = t_call[q]

LEMMA ToLeaves ==
  ASSUME t_call \in [Targets -> Calls], NEW r \in Targets, NEW p \in Places,
         Any!To(r, p)
  PROVE  Leaves(r, p, t_call[r].current, t_call[r].read, t_call[r].newest)
BY DEF Any!To, Leaves, Calls, Places

LEMMA BackLeaves ==
  ASSUME Any!ProgressAssumption, t_call \in [Targets -> Calls],
         NEW r \in Targets, Any!Back(r)
  PROVE  Leaves(r, "idle", 0, 0, FALSE)
BY DEF Any!ProgressAssumption, Any!Back, Any!Idle, Leaves, Calls, Places

LEMMA MergeLeaves ==
  ASSUME Any!ProgressAssumption, t_call \in [Targets -> Calls],
         NEW r \in Targets,
         NEW current \in 0..Goal,
         t_call' = [t_call EXCEPT ![r] = [Any!Idle EXCEPT !.at = "merged",
                                          !.current = current]]
  PROVE  Leaves(r, "merged", current, 0, FALSE)
<1>1. Any!Idle \in Calls /\ Any!Idle.read = 0 /\ Any!Idle.newest = FALSE
  BY DEF Any!ProgressAssumption, Any!Idle, Calls, Places
<1>2. PICK c \in Calls : c = Any!Idle
  BY <1>1
<1>3. PICK d : d = [c EXCEPT !.at = "merged", !.current = current]
  OBVIOUS
<1>4. /\ d \in Calls /\ d.at = "merged" /\ d.current = current
      /\ d.read = c.read /\ d.newest = c.newest
  BY <1>3 DEF Calls, Places
<1>5. t_call' = [t_call EXCEPT ![r] = d]
  BY <1>2, <1>3, Zenon
<1> QED
  BY <1>1, <1>2, <1>4, <1>5 DEF Leaves

LEMMA LookLeaves ==
  ASSUME t_call \in [Targets -> Calls], NEW r \in Targets, NEW n \in BOOLEAN,
         t_call' = [t_call EXCEPT ![r].at = "looked", ![r].newest = n]
  PROVE  Leaves(r, "looked", t_call[r].current, t_call[r].read, n)
BY DEF Leaves, Calls, Places

LEMMA ReadLeaves ==
  ASSUME t_call \in [Targets -> Calls], NEW r \in Targets, NEW p \in Places,
         NEW n \in 0..(MostUsage + Budget),
         t_call' = [t_call EXCEPT ![r].at = p, ![r].read = n]
  PROVE  Leaves(r, p, t_call[r].current, n, t_call[r].newest)
BY DEF Leaves, Calls, Places
(* What the ways of writing `row` leave behind. *)
RowLeaves(a, current, usage) ==
  /\ t_row' \in [Any!Attempts -> AttemptRow]
  /\ t_row'[a].current = current /\ t_row'[a].usage = usage
  /\ \A b \in Any!Attempts : b # a => t_row'[b] = t_row[b]

LEMMA CopyLeaves ==
  ASSUME t_row \in [Any!Attempts -> AttemptRow], NEW a \in Any!Attempts,
         NEW current \in 0..Goal,
         t_row' = [t_row EXCEPT ![a].current = current, ![a].recent = TRUE]
  PROVE  RowLeaves(a, current, t_row[a].usage)
BY DEF RowLeaves, AttemptRow

LEMMA ElapseLeaves ==
  ASSUME t_row \in [Any!Attempts -> AttemptRow], NEW a \in Any!Attempts,
         t_row' = [t_row EXCEPT ![a].recent = FALSE]
  PROVE  RowLeaves(a, t_row[a].current, t_row[a].usage)
BY DEF RowLeaves, AttemptRow

LEMMA CommitLeaves ==
  ASSUME t_row \in [Any!Attempts -> AttemptRow], NEW a \in Any!Attempts,
         t_row' = [t_row EXCEPT ![a].resolved = TRUE]
  PROVE  RowLeaves(a, t_row[a].current, t_row[a].usage)
BY DEF RowLeaves, AttemptRow

LEMMA UsageLeaves ==
  ASSUME t_row \in [Any!Attempts -> AttemptRow], NEW a \in Any!Attempts,
         NEW n \in 0..MostUsage,
         t_row' = [t_row EXCEPT ![a].usage = n]
  PROVE  RowLeaves(a, t_row[a].current, n)
BY DEF RowLeaves, AttemptRow

LEMMA TypedIsTypeOK == RowsTyped => Any!TypeOK
BY DEF RowsTyped, Any!TypeOK, AttemptRow, Calls, Places, Holders

LEMMA ProgressStarts ==
  ASSUME Any!ProgressAssumption, Any!Init
  PROVE  RowsInv
<1>1. RowsTyped
  <2>1. Any!Idle \in Calls /\ 1 \in Any!Attempts /\ 0 \in 0..Goal
    BY DEF Any!ProgressAssumption, Any!Idle, Calls, Places, Any!Attempts
  <2>2. [current |-> 0, recent |-> FALSE, usage |-> 0,
         resolved |-> FALSE] \in AttemptRow
    BY DEF Any!ProgressAssumption, AttemptRow
  <2>3. 0 \in 0..MaxAttempts /\ Budget \in 0..Budget
    BY DEF Any!ProgressAssumption
  <2> QED
    BY <2>1, <2>2, <2>3 DEF Any!Init, RowsTyped, Holders
<1>2. CallsInv /\ MonitorInv
  BY DEF Any!Init, Any!Idle, CallsInv, CallInv, MonitorInv
<1>3. TaskInv
  BY DEF Any!Init, TaskInv, Any!LastWordShows
<1>4. BooksInv
  BY DEF Any!ProgressAssumption, Any!Init, BooksInv, Any!UsageIsExact,
         Any!BudgetIsExact
<1> QED
  BY <1>1, <1>2, <1>3, <1>4 DEF RowsInv
-----------------------------------------------------------------------------
LEMMA MergeKeeps ==
  ASSUME Any!ProgressAssumption, RowsInv, NEW r \in Targets, Any!Merge(r)
  PROVE  RowsInv'
<1> USE DEF RowsInv, Any!history, Any!rows
<1>1. /\ Any!Free # Any!Monitor /\ Any!Of(r) \in Any!Attempts /\ r # Any!Free
         /\ r # Any!Monitor
      /\ \A q \in Targets : q # Any!Free /\ q # Any!Monitor
         /\ Any!Of(q) \in Any!Attempts
  BY HoldersDiffer
<1>2. PICK current \in 0..Goal, force \in BOOLEAN :
       IF Any!Coalesced(r, current, force)
       THEN /\ t_said' = [t_said EXCEPT ![Any!Of(r)] = current]
            /\ UNCHANGED <<t_rowLock, t_call>>
       ELSE
       /\ t_call' = [t_call EXCEPT ![r] = [Any!Idle EXCEPT !.at = "merged",
                                           !.current = current]]
            /\ Any!Held(Any!Of(r), r)
            /\ UNCHANGED t_said
  BY DEF Any!Merge
<1>3. UNCHANGED <<Any!rows, t_taskLock, t_graphLock, t_monitor, t_recorded,
                  t_spent>>
  BY DEF Any!Merge
<1>4. CASE Any!Coalesced(r, current, force)
  <2>1. t_said' = t_said
    BY <1>1, <1>2, <1>4 DEF Any!Coalesced, TaskInv, Any!LastWordShows,
                            RowsTyped
  <2> QED
    BY <1>2, <1>3, <1>4, <2>1 DEF RowsTyped, CallsInv, CallInv, MonitorInv,
                                  TaskInv,
       Any!LastWordShows, BooksInv, Any!UsageIsExact, Any!BudgetIsExact
<1>5. CASE ~Any!Coalesced(r, current, force)
  <2>1. Leaves(r, "merged", current, 0, FALSE)
    BY <1>2, <1>5, MergeLeaves DEF RowsTyped
  <2>2. t_rowLock[Any!Of(r)] = Any!Free
        /\ t_rowLock' = [t_rowLock EXCEPT ![Any!Of(r)] = r] /\ t_said' = t_said
    BY <1>2, <1>5 DEF Any!Merge, Any!RowFree, Any!Held
  <2>3. RowsTyped'
    BY <1>1, <1>3, <2>1, <2>2 DEF RowsTyped, Leaves, Holders
  <2>4. CallsInv'
    <3> SUFFICES ASSUME NEW q \in Targets PROVE CallInv(q)'
      BY DEF CallsInv
    <3>1. CASE q = r
      BY <1>1, <1>3, <2>1, <2>2, <3>1 DEF Any!Merge, Any!May, RowsTyped,
                                          CallInv, Leaves
    <3>2. CASE q # r
      BY <1>1, <1>3, <2>1, <2>2, <3>2 DEF RowsTyped, CallsInv, CallInv, Leaves
    <3> QED
      BY <3>1, <3>2
  <2>5. MonitorInv'
    BY <1>1, <1>3, <2>2 DEF RowsTyped, MonitorInv
  <2> QED
    BY <1>3, <2>2, <2>3, <2>4, <2>5 DEF TaskInv, Any!LastWordShows, BooksInv,
                                        Any!UsageIsExact, Any!BudgetIsExact
<1> QED
  BY <1>4, <1>5

LEMMA LockTaskKeeps ==
  ASSUME Any!ProgressAssumption, RowsInv, NEW r \in Targets, Any!LockTask(r)
  PROVE  RowsInv'
<1> USE DEF RowsInv, Any!history, Any!rows
<1>1. /\ Any!Free # Any!Monitor /\ Any!Of(r) \in Any!Attempts /\ r # Any!Free
         /\ r # Any!Monitor
      /\ \A q \in Targets : q # Any!Free /\ q # Any!Monitor
         /\ Any!Of(q) \in Any!Attempts
  BY HoldersDiffer
<1>2. Leaves(r, "locked", t_call[r].current, t_call[r].read, t_call[r].newest)
  BY ToLeaves DEF Any!LockTask, RowsTyped, Places
<1>3. t_call[r].at = "merged" /\ t_taskLock = Any!Free /\ t_taskLock' = r
  BY DEF Any!LockTask, Any!At, Any!MayLock
<1>4. UNCHANGED <<Any!rows, t_rowLock, t_graphLock, t_monitor, Any!history>>
  BY DEF Any!LockTask
<1>5. RowsTyped'
  BY <1>1, <1>2, <1>3, <1>4 DEF RowsTyped, Leaves, Holders
<1>6. CallsInv'
  <2> SUFFICES ASSUME NEW q \in Targets PROVE CallInv(q)'
    BY DEF CallsInv
  <2>1. CASE q = r
    BY <1>1, <1>2, <1>3, <1>4, <2>1 DEF CallsInv, CallInv, Leaves
  <2>2. CASE q # r
    BY <1>1, <1>2, <1>3, <1>4, <2>2 DEF CallsInv, CallInv, Leaves
  <2> QED
    BY <2>1, <2>2
<1>7. MonitorInv'
  BY <1>1, <1>3, <1>4 DEF MonitorInv
<1> QED
  BY <1>4, <1>5, <1>6, <1>7 DEF TaskInv, Any!LastWordShows, BooksInv,
                                Any!UsageIsExact, Any!BudgetIsExact

LEMMA LookKeeps ==
  ASSUME Any!ProgressAssumption, RowsInv, NEW r \in Targets, Any!Look(r)
  PROVE  RowsInv'
<1> USE DEF RowsInv, Any!history, Any!rows
<1>1. /\ Any!Free # Any!Monitor /\ Any!Of(r) \in Any!Attempts /\ r # Any!Free
         /\ r # Any!Monitor
      /\ \A q \in Targets : q # Any!Free /\ q # Any!Monitor
         /\ Any!Of(q) \in Any!Attempts
  BY HoldersDiffer
<1>2. PICK n \in BOOLEAN : n = (t_attempts = Any!Of(r))
  OBVIOUS
<1>3. Leaves(r, "looked", t_call[r].current, t_call[r].read, n)
  <2>1. t_call' = [t_call EXCEPT ![r].at = "looked", ![r].newest = n]
    BY <1>2, Zenon DEF Any!Look
  <2> QED
    BY <2>1, LookLeaves DEF RowsTyped
<1>4. t_call[r].at = "locked"
      /\ UNCHANGED <<Any!rows, t_rowLock, t_taskLock, t_graphLock, t_monitor,
                     Any!history>>
  BY DEF Any!Look, Any!At
<1>5. RowsTyped'
  BY <1>3, <1>4 DEF RowsTyped, Leaves
<1>6. CallsInv'
  <2> SUFFICES ASSUME NEW q \in Targets PROVE CallInv(q)'
    BY DEF CallsInv
  <2>1. CASE q = r
    BY <1>1, <1>2, <1>3, <1>4, <2>1 DEF CallsInv, CallInv, Leaves
  <2>2. CASE q # r
    BY <1>1, <1>3, <1>4, <2>2 DEF CallsInv, CallInv, Leaves
  <2> QED
    BY <2>1, <2>2
<1> QED
  BY <1>4, <1>5, <1>6 DEF MonitorInv, TaskInv, Any!LastWordShows, BooksInv,
                          Any!UsageIsExact, Any!BudgetIsExact

LEMMA SnapshotKeeps ==
  ASSUME Any!ProgressAssumption, RowsInv, NEW r \in Targets, Any!Snapshot(r)
  PROVE  RowsInv'
<1> USE DEF RowsInv, Any!history, Any!rows
<1>1. /\ Any!Free # Any!Monitor /\ Any!Of(r) \in Any!Attempts /\ r # Any!Free
         /\ r # Any!Monitor
      /\ \A q \in Targets : q # Any!Free /\ q # Any!Monitor
         /\ Any!Of(q) \in Any!Attempts
  BY HoldersDiffer
<1>2. Leaves(r, "idle", 0, 0, FALSE)
  BY BackLeaves DEF Any!Snapshot, RowsTyped
<1>3. /\ t_call[r].at = "looked" /\ t_rowLock[Any!Of(r)] = r
         /\ t_taskLock = r /\ Any!Of(r) <= t_attempts
      /\ t_call[r].newest = (t_attempts = Any!Of(r))
         /\ t_call[r].current \in 0..Goal
  BY DEF Any!Snapshot, Any!At, CallsInv, CallInv, RowsTyped, Calls
<1>4. RowLeaves(Any!Of(r), t_call[r].current, t_row[Any!Of(r)].usage)
  BY <1>1, <1>3, CopyLeaves DEF Any!Snapshot, RowsTyped
<1>5. /\ t_said' = [t_said EXCEPT ![Any!Of(r)] = t_call[r].current]
      /\ t_rowLock' = [t_rowLock EXCEPT ![Any!Of(r)] = Any!Free]
         /\ t_taskLock' = Any!Free
      /\ UNCHANGED <<t_attempts, t_budget, t_graphLock, t_monitor, t_recorded,
                     t_spent>>
  BY <1>3 DEF Any!Snapshot, Any!Held
<1>6. \/ t_attempts = Any!Of(r)
         /\ t_snapshot' = [of |-> Any!Of(r), current |-> t_call[r].current]
      \/ t_attempts # Any!Of(r) /\ t_snapshot' = t_snapshot
  BY <1>3 DEF Any!Snapshot, Any!Copied
<1>7. RowsTyped'
  <2>1. t_snapshot' \in [of: 0..MaxAttempts, current: 0..Goal]
    <3>1. Any!Of(r) \in 0..MaxAttempts
      BY <1>1 DEF Any!Attempts, Any!ProgressAssumption
    <3> QED
      BY <1>3, <1>6, <3>1 DEF RowsTyped
  <2>2. t_rowLock' \in [Any!Attempts -> Holders] /\ t_taskLock' \in Holders
    BY <1>5 DEF RowsTyped, Holders
  <2> QED
    BY <1>1, <1>2, <1>3, <1>4, <1>5, <2>1, <2>2 DEF RowsTyped, Leaves,
                                                    RowLeaves
<1>8. CallsInv'
  <2> SUFFICES ASSUME NEW q \in Targets PROVE CallInv(q)'
    BY DEF CallsInv
  <2>1. CASE q = r
    BY <1>2, <2>1 DEF CallInv, Leaves
  <2>2. CASE q # r
    BY <1>1, <1>2, <1>3, <1>5, <2>2 DEF RowsTyped, CallsInv, CallInv, Leaves
  <2> QED
    BY <2>1, <2>2
<1>9. MonitorInv'
  BY <1>1, <1>3, <1>5 DEF MonitorInv
<1>10. TaskInv'
  <2>1. \A a \in Any!Attempts : t_row'[a].current = t_said'[a]
    BY <1>1, <1>4, <1>5 DEF RowLeaves, TaskInv, Any!LastWordShows, RowsTyped
  <2>2. CASE t_attempts = Any!Of(r)
    BY <1>1, <1>3, <1>5, <1>6, <2>1, <2>2 DEF TaskInv, Any!LastWordShows,
                                              RowsTyped, Any!Attempts
  <2>3. CASE t_attempts # Any!Of(r)
    BY <1>1, <1>3, <1>5, <1>6, <2>1, <2>3 DEF TaskInv, Any!LastWordShows,
                                              RowsTyped
  <2> QED
    BY <2>2, <2>3
<1>11. BooksInv'
  BY <1>1, <1>4, <1>5 DEF RowLeaves, BooksInv, Any!UsageIsExact,
                          Any!BudgetIsExact
<1> QED
  BY <1>7, <1>8, <1>9, <1>10, <1>11

LEMMA ReadUsageKeeps ==
  ASSUME Any!ProgressAssumption, RowsInv, NEW r \in Targets, Any!ReadUsage(r)
  PROVE  RowsInv'
<1> USE DEF RowsInv, Any!history, Any!rows
<1>1. /\ Any!Free # Any!Monitor /\ Any!Of(r) \in Any!Attempts /\ r # Any!Free
         /\ r # Any!Monitor
      /\ \A q \in Targets : q # Any!Free /\ q # Any!Monitor
         /\ Any!Of(q) \in Any!Attempts
  BY HoldersDiffer
<1>2. /\ Any!Of(r) <= t_attempts /\ t_rowLock[Any!Of(r)] = Any!Free
         /\ t_recorded[Any!Of(r)] < MostUsage
      /\ t_rowLock' = [t_rowLock EXCEPT ![Any!Of(r)] = r]
      /\ UNCHANGED <<Any!rows, t_taskLock, t_graphLock, t_monitor,
                     Any!history>>
  BY DEF Any!ReadUsage, Any!May, Any!MayRead, Any!RowFree, Any!Held
<1>3. t_row[Any!Of(r)].usage = t_recorded[Any!Of(r)]
      /\ t_row[Any!Of(r)].usage \in 0..(MostUsage + Budget)
  BY <1>1 DEF BooksInv, Any!UsageIsExact, RowsTyped, AttemptRow,
              Any!ProgressAssumption
<1>4. Leaves(r, "recording", t_call[r].current, t_recorded[Any!Of(r)],
             t_call[r].newest)
  BY <1>3, ReadLeaves DEF Any!ReadUsage, RowsTyped, Places
<1>5. RowsTyped'
  BY <1>1, <1>2, <1>4 DEF RowsTyped, Leaves, Holders
<1>6. CallsInv'
  <2> SUFFICES ASSUME NEW q \in Targets PROVE CallInv(q)'
    BY DEF CallsInv
  <2>1. CASE q = r
    BY <1>1, <1>2, <1>4, <2>1 DEF RowsTyped, CallsInv, CallInv, Leaves
  <2>2. CASE q # r
    BY <1>1, <1>2, <1>4, <2>2 DEF RowsTyped, CallsInv, CallInv, Leaves
  <2> QED
    BY <2>1, <2>2
<1>7. MonitorInv'
  BY <1>1, <1>2 DEF RowsTyped, MonitorInv
<1> QED
  BY <1>2, <1>5, <1>6, <1>7 DEF TaskInv, Any!LastWordShows, BooksInv,
                                Any!UsageIsExact, Any!BudgetIsExact

LEMMA WriteUsageKeeps ==
  ASSUME Any!ProgressAssumption, RowsInv, NEW r \in Targets, Any!WriteUsage(r)
  PROVE  RowsInv'
<1> USE DEF RowsInv, Any!history, Any!rows
<1>1. /\ Any!Free # Any!Monitor /\ Any!Of(r) \in Any!Attempts /\ r # Any!Free
         /\ r # Any!Monitor
      /\ \A q \in Targets : q # Any!Free /\ q # Any!Monitor
         /\ Any!Of(q) \in Any!Attempts
  BY HoldersDiffer
<1>2. /\ t_call[r].at = "recording" /\ t_rowLock[Any!Of(r)] = r
      /\ t_call[r].read = t_recorded[Any!Of(r)]
         /\ t_recorded[Any!Of(r)] < MostUsage
  BY DEF Any!WriteUsage, Any!At, CallsInv, CallInv
<1>3. Leaves(r, "idle", 0, 0, FALSE)
  BY BackLeaves DEF Any!WriteUsage, RowsTyped
<1>4. /\ t_recorded' = [t_recorded EXCEPT ![Any!Of(r)] = t_recorded[Any!Of(r)] + 1]
      /\ t_rowLock' = [t_rowLock EXCEPT ![Any!Of(r)] = Any!Free]
      /\ UNCHANGED <<t_attempts, t_snapshot, t_budget, t_taskLock,
                     t_graphLock, t_monitor, t_said, t_spent>>
  BY <1>2 DEF Any!WriteUsage, Any!Held
<1>5. RowLeaves(Any!Of(r), t_row[Any!Of(r)].current, t_recorded[Any!Of(r)] + 1)
  <2>1. t_recorded[Any!Of(r)] + 1 \in 0..MostUsage
    BY <1>1, <1>2 DEF RowsTyped, Any!ProgressAssumption
  <2>2. t_row' = [t_row EXCEPT ![Any!Of(r)].usage = t_recorded[Any!Of(r)] + 1]
    BY <1>2, Zenon DEF Any!WriteUsage
  <2> QED
    BY <1>1, <2>1, <2>2, UsageLeaves DEF RowsTyped
<1>6. RowsTyped'
  <2>1. t_recorded' \in [Any!Attempts -> Nat]
    BY <1>1, <1>4 DEF RowsTyped
  <2>2. t_rowLock' \in [Any!Attempts -> Holders]
    BY <1>4 DEF RowsTyped, Holders
  <2> QED
    BY <1>3, <1>4, <1>5, <2>1, <2>2 DEF RowsTyped, Leaves, RowLeaves
<1>7. CallsInv'
  <2> SUFFICES ASSUME NEW q \in Targets PROVE CallInv(q)'
    BY DEF CallsInv
  <2>1. CASE q = r
    BY <1>1, <1>3, <2>1 DEF RowsTyped, CallsInv, CallInv, Leaves
  <2>2. CASE q # r
    BY <1>1, <1>2, <1>3, <1>4, <2>2 DEF RowsTyped, CallsInv, CallInv, Leaves
  <2> QED
    BY <2>1, <2>2
<1>8. MonitorInv'
  BY <1>1, <1>2, <1>4 DEF RowsTyped, MonitorInv
<1>9. TaskInv'
  BY <1>1, <1>4, <1>5 DEF RowLeaves, TaskInv, Any!LastWordShows
<1>10. BooksInv'
  BY <1>1, <1>4, <1>5 DEF RowsTyped, RowLeaves, BooksInv, Any!UsageIsExact,
                          Any!BudgetIsExact
<1> QED
  BY <1>6, <1>7, <1>8, <1>9, <1>10

LEMMA DeclaredKeeps ==
  ASSUME Any!ProgressAssumption, RowsInv, NEW r \in Targets, Any!Declared(r)
  PROVE  RowsInv'
<1> USE DEF RowsInv, Any!history, Any!rows
<1>1. /\ Any!Free # Any!Monitor /\ Any!Of(r) \in Any!Attempts /\ r # Any!Free
         /\ r # Any!Monitor
      /\ \A q \in Targets : q # Any!Free /\ q # Any!Monitor
         /\ Any!Of(q) \in Any!Attempts
  BY HoldersDiffer
<1>2. Leaves(r, "declared", t_call[r].current, t_call[r].read,
             t_call[r].newest)
  BY ToLeaves DEF Any!Declared, RowsTyped, Places
<1>3. t_call[r].at = "idle" /\ Any!Of(r) <= t_attempts
  BY DEF Any!Declared, Any!May, Any!At
<1>4. UNCHANGED <<Any!rows, t_rowLock, t_taskLock, t_graphLock, t_monitor,
                  Any!history>>
  BY DEF Any!Declared
<1>5. RowsTyped'
  BY <1>2, <1>4 DEF RowsTyped, Leaves
<1>6. CallsInv'
  <2> SUFFICES ASSUME NEW q \in Targets PROVE CallInv(q)'
    BY DEF CallsInv
  <2>1. CASE q = r
    BY <1>1, <1>2, <1>3, <1>4, <2>1 DEF RowsTyped, CallsInv, CallInv, Leaves
  <2>2. CASE q # r
    BY <1>1, <1>2, <1>4, <2>2 DEF RowsTyped, CallsInv, CallInv, Leaves
  <2> QED
    BY <2>1, <2>2
<1> QED
  BY <1>4, <1>5, <1>6 DEF MonitorInv, TaskInv, Any!LastWordShows, BooksInv,
                          Any!UsageIsExact, Any!BudgetIsExact

LEMMA ReadBudgetKeeps ==
  ASSUME Any!ProgressAssumption, RowsInv, NEW r \in Targets, Any!ReadBudget(r)
  PROVE  RowsInv'
<1> USE DEF RowsInv, Any!history, Any!rows
<1>1. /\ Any!Free # Any!Monitor /\ Any!Of(r) \in Any!Attempts /\ r # Any!Free
         /\ r # Any!Monitor
      /\ \A q \in Targets : q # Any!Free /\ q # Any!Monitor
         /\ Any!Of(q) \in Any!Attempts
  BY HoldersDiffer
<1>2. t_call[r].at = "declared" /\ t_graphLock = Any!Free /\ t_graphLock' = r
  BY DEF Any!ReadBudget, Any!At, Any!MayCharge
<1>3. UNCHANGED <<Any!rows, t_rowLock, t_taskLock, t_monitor, Any!history>>
  BY DEF Any!ReadBudget
<1>4. Leaves(r, "charging", t_call[r].current, t_budget, t_call[r].newest)
  <2>1. t_budget \in 0..(MostUsage + Budget)
    BY DEF RowsTyped, Any!ProgressAssumption
  <2> QED
    BY <2>1, ReadLeaves DEF Any!ReadBudget, RowsTyped, Places
<1>5. RowsTyped'
  BY <1>2, <1>3, <1>4 DEF RowsTyped, Leaves
<1>6. CallsInv'
  <2> SUFFICES ASSUME NEW q \in Targets PROVE CallInv(q)'
    BY DEF CallsInv
  <2>1. CASE q = r
    BY <1>1, <1>2, <1>3, <1>4, <2>1 DEF RowsTyped, CallsInv, CallInv, Leaves
  <2>2. CASE q # r
    BY <1>1, <1>2, <1>3, <1>4, <2>2 DEF RowsTyped, CallsInv, CallInv, Leaves
  <2> QED
    BY <2>1, <2>2
<1> QED
  BY <1>3, <1>5, <1>6 DEF MonitorInv, TaskInv, Any!LastWordShows, BooksInv,
                          Any!UsageIsExact, Any!BudgetIsExact

LEMMA ChargeKeeps ==
  ASSUME Any!ProgressAssumption, RowsInv, NEW r \in Targets, Any!Charge(r)
  PROVE  RowsInv'
<1> USE DEF RowsInv, Any!history, Any!rows
<1>1. /\ Any!Free # Any!Monitor /\ Any!Of(r) \in Any!Attempts /\ r # Any!Free
         /\ r # Any!Monitor
      /\ \A q \in Targets : q # Any!Free /\ q # Any!Monitor
         /\ Any!Of(q) \in Any!Attempts
  BY HoldersDiffer
<1>2. t_call[r].at = "charging" /\ t_graphLock = r /\ t_call[r].read = t_budget
  BY DEF Any!Charge, Any!At, CallsInv, CallInv
<1>3. Leaves(r, "idle", 0, 0, FALSE)
  BY BackLeaves DEF Any!Charge, RowsTyped
<1>4. /\ t_graphLock' = Any!Free
      /\ UNCHANGED <<t_attempts, t_row, t_snapshot, t_rowLock, t_taskLock,
                     t_monitor, t_said, t_recorded>>
  BY <1>2 DEF Any!Charge
<1>5. /\ t_budget' \in 0..Budget /\ t_spent' \in Nat
         /\ t_budget' + t_spent' = Budget
  <2>1. /\ t_budget \in Nat /\ t_budget <= Budget /\ Budget \in Nat
           /\ t_spent \in Nat
        /\ t_budget + t_spent = Budget
    BY DEF RowsTyped, BooksInv, Any!BudgetIsExact, Any!ProgressAssumption
  <2>2. CASE t_budget >= 1
    <3>1. t_budget' = t_budget - 1 /\ t_spent' = t_spent + 1
      BY <1>2, <2>2 DEF Any!Charge
    <3> QED
      BY <2>1, <2>2, <3>1
  <2>3. CASE ~(t_budget >= 1)
    <3>1. t_budget' = t_budget /\ t_spent' = t_spent
      BY <1>2, <2>3 DEF Any!Charge
    <3> QED
      BY <2>1, <3>1
  <2> QED
    BY <2>2, <2>3
<1>6. RowsTyped'
  BY <1>3, <1>4, <1>5 DEF RowsTyped, Leaves
<1>7. CallsInv'
  <2> SUFFICES ASSUME NEW q \in Targets PROVE CallInv(q)'
    BY DEF CallsInv
  <2>1. CASE q = r
    BY <1>1, <1>3, <2>1 DEF RowsTyped, CallsInv, CallInv, Leaves
  <2>2. CASE q # r
    BY <1>1, <1>2, <1>3, <1>4, <2>2 DEF RowsTyped, CallsInv, CallInv, Leaves
  <2> QED
    BY <2>1, <2>2
<1> QED
  BY <1>4, <1>5, <1>6, <1>7 DEF MonitorInv, TaskInv, Any!LastWordShows,
                                BooksInv, Any!UsageIsExact,
     Any!BudgetIsExact

LEMMA DetectKeeps ==
  ASSUME Any!ProgressAssumption, RowsInv, NEW r \in Targets, Any!Detect(r)
  PROVE  RowsInv'
<1> USE DEF RowsInv, Any!history, Any!rows
<1>1. /\ Any!Free # Any!Monitor /\ Any!Of(r) \in Any!Attempts /\ r # Any!Free
         /\ r # Any!Monitor
      /\ \A q \in Targets : q # Any!Free /\ q # Any!Monitor
         /\ Any!Of(q) \in Any!Attempts
  BY HoldersDiffer
<1>2. /\ t_call[r].at = "merged" /\ t_rowLock[Any!Of(r)] = r
         /\ t_taskLock = Any!Monitor
      /\ t_monitor.at = "locked"
  BY DEF Any!Detect, Any!AbortReport, Any!AbortHandler, Any!Deadlocked,
         Any!At, CallsInv, CallInv
<1>3. CASE Any!AbortReport(r)
  <2>1. Leaves(r, "idle", 0, 0, FALSE)
    BY <1>3, BackLeaves DEF Any!AbortReport, RowsTyped
  <2>2. t_rowLock' = [t_rowLock EXCEPT ![Any!Of(r)] = Any!Free]
        /\ UNCHANGED <<Any!rows, t_taskLock, t_graphLock, t_monitor,
                       Any!history>>
    BY <1>3 DEF Any!AbortReport, Any!Held
  <2>3. RowsTyped'
    BY <1>1, <2>1, <2>2 DEF RowsTyped, Leaves, Holders
  <2>4. CallsInv'
    <3> SUFFICES ASSUME NEW q \in Targets PROVE CallInv(q)'
      BY DEF CallsInv
    <3>1. CASE q = r
      BY <2>1, <3>1 DEF CallInv, Leaves
    <3>2. CASE q # r
      BY <1>1, <1>2, <2>1, <2>2, <3>2 DEF RowsTyped, CallsInv, CallInv, Leaves
    <3> QED
      BY <3>1, <3>2
  <2>5. MonitorInv'
    BY <1>1, <1>2, <2>2 DEF RowsTyped, MonitorInv
  <2> QED
    BY <2>2, <2>3, <2>4, <2>5 DEF TaskInv, Any!LastWordShows, BooksInv,
                                  Any!UsageIsExact, Any!BudgetIsExact
<1>4. CASE Any!AbortHandler(r)
  <2>1. /\ t_monitor' = [t_monitor EXCEPT !.at = "idle"]
           /\ t_taskLock' = Any!Free
        /\ UNCHANGED <<Any!rows, t_rowLock, t_graphLock, t_call, Any!history>>
    BY <1>4 DEF Any!AbortHandler
  <2>2. RowsTyped'
    BY <2>1 DEF RowsTyped, Holders
  <2>3. MonitorInv'
    BY <2>1 DEF RowsTyped, MonitorInv
  <2>4. CallsInv'
    BY <1>1, <1>2, <2>1 DEF CallsInv, CallInv
  <2> QED
    BY <2>1, <2>2, <2>3, <2>4 DEF TaskInv, Any!LastWordShows, BooksInv,
                                  Any!UsageIsExact, Any!BudgetIsExact
<1> QED
  BY <1>3, <1>4 DEF Any!Detect

LEMMA AttemptStepsKeep ==
  ASSUME Any!ProgressAssumption, RowsInv, NEW a \in Any!Attempts,
         Any!Elapse(a) \/ Any!Handle(a)
  PROVE  RowsInv'
<1> USE DEF RowsInv, Any!history, Any!rows
<1>1. /\ Any!Free # Any!Monitor
      /\ \A q \in Targets : q # Any!Free /\ q # Any!Monitor
         /\ Any!Of(q) \in Any!Attempts
  BY HoldersDiffer
<1>2. CASE Any!Elapse(a)
  <2>1. RowLeaves(a, t_row[a].current, t_row[a].usage)
    BY <1>2, ElapseLeaves DEF Any!Elapse, RowsTyped
  <2>2. UNCHANGED <<t_attempts, t_snapshot, t_budget, t_rowLock, t_taskLock,
                    t_graphLock, t_call, t_monitor,
                    Any!history>>
    BY <1>2 DEF Any!Elapse
  <2>3. RowsTyped'
    BY <2>1, <2>2 DEF RowsTyped, RowLeaves
  <2>4. TaskInv' /\ BooksInv'
    BY <2>1, <2>2 DEF RowLeaves, TaskInv, Any!LastWordShows, BooksInv,
                      Any!UsageIsExact, Any!BudgetIsExact
  <2> QED
    BY <2>2, <2>3, <2>4 DEF CallsInv, CallInv, MonitorInv
<1>3. CASE Any!Handle(a)
  <2>1. /\ t_taskLock = Any!Free /\ t_taskLock' = Any!Monitor
           /\ t_monitor' = [at |-> "locked", of |-> a]
        /\ UNCHANGED <<Any!rows, t_rowLock, t_graphLock, t_call, Any!history>>
    BY <1>3 DEF Any!Handle
  <2>2. RowsTyped'
    BY <2>1 DEF RowsTyped, Holders
  <2>3. CallsInv'
    BY <1>1, <2>1 DEF CallsInv, CallInv
  <2>4. MonitorInv'
    BY <2>1 DEF MonitorInv
  <2> QED
    BY <2>1, <2>2, <2>3, <2>4 DEF TaskInv, Any!LastWordShows, BooksInv,
                                  Any!UsageIsExact, Any!BudgetIsExact
<1> QED
  BY <1>2, <1>3

LEMMA MonitorStepsKeep ==
  ASSUME Any!ProgressAssumption, RowsInv,
         Any!Resolve \/ Any!Commit \/ Any!Requeue
  PROVE  RowsInv'
<1> USE DEF RowsInv, Any!history, Any!rows
<1>1. /\ Any!Free # Any!Monitor
      /\ \A q \in Targets : q # Any!Free /\ q # Any!Monitor
         /\ Any!Of(q) \in Any!Attempts
  BY HoldersDiffer
<1>2. t_monitor.of \in Any!Attempts
  BY DEF RowsTyped
<1>3. CASE Any!Resolve
  <2>1. /\ t_rowLock[t_monitor.of] = Any!Free /\ t_monitor.at = "locked"
        /\ t_rowLock' = [t_rowLock EXCEPT ![t_monitor.of] = Any!Monitor]
        /\ t_monitor' = [t_monitor EXCEPT !.at = "resolved"]
        /\ UNCHANGED <<Any!rows, t_taskLock, t_graphLock, t_call, Any!history>>
    BY <1>3 DEF Any!Resolve, Any!Held
  <2>2. RowsTyped'
    BY <2>1 DEF RowsTyped, Holders
  <2>3. CallsInv'
    BY <1>1, <1>2, <2>1 DEF RowsTyped, CallsInv, CallInv
  <2>4. MonitorInv'
    BY <1>2, <2>1 DEF RowsTyped, MonitorInv
  <2> QED
    BY <2>1, <2>2, <2>3, <2>4 DEF TaskInv, Any!LastWordShows, BooksInv,
                                  Any!UsageIsExact, Any!BudgetIsExact
<1>4. CASE Any!Commit
  <2>1. /\ t_monitor.at = "resolved" /\ t_taskLock = Any!Monitor
           /\ t_rowLock[t_monitor.of] = Any!Monitor
        /\ t_attempts' \in {t_attempts, t_attempts + 1}
           /\ t_attempts' <= MaxAttempts
        /\ t_rowLock' = [t_rowLock EXCEPT ![t_monitor.of] = Any!Free]
           /\ t_taskLock' = Any!Free
        /\ t_monitor' = [t_monitor EXCEPT !.at = "idle"]
        /\ UNCHANGED <<t_snapshot, t_budget, t_graphLock, t_call, Any!history>>
    BY <1>4 DEF Any!Commit, Any!Held, MonitorInv, RowsTyped, Any!Attempts
  <2>2. RowLeaves(t_monitor.of, t_row[t_monitor.of].current,
                  t_row[t_monitor.of].usage)
    BY <1>2, <1>4, CommitLeaves DEF Any!Commit, RowsTyped
  <2>3. RowsTyped'
    <3>1. t_attempts' \in Any!Attempts
      BY <2>1 DEF RowsTyped, Any!Attempts, Any!ProgressAssumption
    <3>2. t_rowLock' \in [Any!Attempts -> Holders] /\ t_taskLock' \in Holders
      BY <2>1 DEF RowsTyped, Holders
    <3> QED
      BY <2>1, <2>2, <3>1, <3>2 DEF RowsTyped, RowLeaves
  <2>4. CallsInv'
    <3> SUFFICES ASSUME NEW q \in Targets PROVE CallInv(q)'
      BY DEF CallsInv
    <3>1. t_call[q].at \notin {"locked", "looked"}
      BY <1>1, <2>1 DEF CallsInv, CallInv
    <3>2. Any!Of(q) <= t_attempts => Any!Of(q) <= t_attempts'
      BY <1>1, <2>1 DEF RowsTyped, Any!Attempts
    <3> QED
      BY <1>1, <1>2, <2>1, <3>1, <3>2 DEF RowsTyped, CallsInv, CallInv
  <2>5. MonitorInv'
    BY <2>1 DEF RowsTyped, MonitorInv
  <2>6. TaskInv'
    <3>1. \A b \in Any!Attempts : t_row'[b].current = t_said'[b]
      BY <1>2, <2>1, <2>2 DEF RowLeaves, TaskInv, Any!LastWordShows
    <3>2. t_snapshot.of <= t_attempts'
          /\ (t_snapshot.of = t_attempts' => t_attempts' = t_attempts)
      BY <2>1 DEF TaskInv, RowsTyped, Any!Attempts
    <3> QED
      BY <2>1, <3>1, <3>2 DEF TaskInv, Any!LastWordShows
  <2>7. BooksInv'
    BY <2>1, <2>2 DEF RowLeaves, BooksInv, Any!UsageIsExact, Any!BudgetIsExact
  <2> QED
    BY <2>3, <2>4, <2>5, <2>6, <2>7
<1>5. CASE Any!Requeue
  <2>1. /\ t_attempts < MaxAttempts /\ t_taskLock = Any!Free
           /\ t_attempts' = t_attempts + 1
        /\ UNCHANGED <<t_row, t_snapshot, t_budget, t_rowLock, t_taskLock,
                       t_graphLock, t_call, t_monitor,
                       Any!history>>
    BY <1>5 DEF Any!Requeue, Any!MayInsert
  <2>2. RowsTyped'
    <3>1. t_attempts' \in Any!Attempts
      BY <2>1 DEF RowsTyped, Any!Attempts, Any!ProgressAssumption
    <3> QED
      BY <2>1, <3>1 DEF RowsTyped
  <2>3. CallsInv'
    <3> SUFFICES ASSUME NEW q \in Targets PROVE CallInv(q)'
      BY DEF CallsInv
    <3>1. t_call[q].at \notin {"locked", "looked"}
      BY <1>1, <2>1 DEF CallsInv, CallInv
    <3>2. Any!Of(q) <= t_attempts => Any!Of(q) <= t_attempts'
      BY <1>1, <2>1 DEF RowsTyped, Any!Attempts
    <3> QED
      BY <2>1, <3>1, <3>2 DEF CallsInv, CallInv
  <2>4. TaskInv'
    <3>1. t_snapshot.of <= t_attempts'
          /\ (t_snapshot.of = t_attempts' => t_attempts' = t_attempts)
      BY <2>1 DEF TaskInv, RowsTyped, Any!Attempts
    <3> QED
      BY <2>1, <3>1 DEF TaskInv, Any!LastWordShows
  <2> QED
    BY <2>1, <2>2, <2>3, <2>4 DEF MonitorInv, BooksInv, Any!UsageIsExact,
                                  Any!BudgetIsExact
<1> QED
  BY <1>3, <1>4, <1>5

LEMMA ProgressKeeps ==
  ASSUME Any!ProgressAssumption, RowsInv, Any!Next
  PROVE  RowsInv'
BY MergeKeeps, LockTaskKeeps, LookKeeps, SnapshotKeeps, ReadUsageKeeps,
   WriteUsageKeeps,
   DeclaredKeeps, ReadBudgetKeeps, ChargeKeeps, DetectKeeps, AttemptStepsKeep,
   MonitorStepsKeep
   DEF Any!Next, Any!Call, Any!Step

LEMMA ProgressRests ==
  ASSUME RowsInv, UNCHANGED Any!vars
  PROVE  RowsInv'
BY DEF RowsInv, Any!vars, RowsTyped, CallsInv, CallInv, MonitorInv, TaskInv,
       Any!LastWordShows, BooksInv,
   Any!UsageIsExact, Any!BudgetIsExact

(* The snapshot is written while the task's lock keeps further attempts out. *)
LEMMA NewestWrites ==
  ASSUME Any!ProgressAssumption, RowsInv, Any!Next, t_snapshot' # t_snapshot
  PROVE  t_snapshot'.of = t_attempts
<1>1. PICK r \in Targets : Any!Snapshot(r)
  BY DEF Any!Next, Any!Call, Any!Step, Any!Detect, Any!Merge, Any!LockTask,
         Any!Look, Any!ReadUsage, Any!WriteUsage, Any!Declared,
     Any!ReadBudget, Any!Charge, Any!AbortReport, Any!AbortHandler,
     Any!Elapse, Any!Handle, Any!Resolve, Any!Commit, Any!Requeue,
     Any!rows
<1>2. t_call[r].newest
      /\ t_snapshot' = [of |-> Any!Of(r), current |-> t_call[r].current]
  BY <1>1 DEF Any!Snapshot, Any!Copied
<1>3. t_call[r].at = "looked"
  BY <1>1 DEF Any!Snapshot, Any!At
<1> QED
  BY <1>2, <1>3 DEF RowsInv, CallsInv, CallInv
-----------------------------------------------------------------------------
(* Either system takes no other steps.                                     *)
LEMMA AnyAssumed ==
  ASSUME RunningAssumption
  PROVE  Any!ProgressAssumption /\ MaxUsage <= MostUsage
         /\ LedgerUsage <= MostUsage
         /\ MaxUsage \in Nat /\ LedgerUsage \in Nat /\ MostUsage \in Nat
BY DEF RunningAssumption, Progress!ProgressAssumption,
       Ledger!ProgressAssumption,
   Any!ProgressAssumption, AnyDoes, MostUsage

LEMMA ProgressIsAny ==
  ASSUME RunningAssumption, RowsInv, Progress!Next
  PROVE  Any!Next
<1>1. \A r \in Targets :
        /\ Progress!May(r, "report") => Any!May(r, "report")
        /\ Progress!May(r, "record") => Any!May(r, "record")
        /\ Progress!May(r, "spend") => Any!May(r, "spend")
  BY DEF Progress!Of, Progress!At, Progress!May, Any!Of, Any!At, Any!May,
         AnyDoes
<1>2. \A r \in Targets :
        t_recorded[Any!Of(r)] < MaxUsage => t_recorded[Any!Of(r)] < MostUsage
  BY AnyAssumed, HoldersDiffer DEF RowsInv, RowsTyped
<1>3. ASSUME NEW r \in Targets, Progress!Call(r) PROVE Any!Call(r)
  <2>1. Progress!Merge(r) => Any!Merge(r)
    BY <1>1 DEF Progress!rows, Progress!Of, Progress!Free, Progress!Idle,
           Progress!At, Progress!RowFree, Progress!Held, Progress!Coalesced,
           Progress!Merge, Any!rows, Any!Of, Any!Free, Any!Idle, Any!At,
           Any!RowFree, Any!Held, Any!Coalesced, Any!Merge
  <2>2. Progress!ReadUsage(r) => Any!ReadUsage(r)
    BY <1>1, <1>2 DEF Progress!rows, Progress!history, Progress!Of,
                      Progress!Free,
           Progress!At, Progress!RowFree, Progress!Held, Progress!MayRead,
           Progress!ReadUsage, Any!rows, Any!history, Any!Of, Any!Free,
           Any!At, Any!RowFree, Any!Held, Any!MayRead, Any!ReadUsage
  <2>3. Progress!Declared(r) => Any!Declared(r)
    BY <1>1 DEF Progress!rows, Progress!history, Progress!Of, Progress!At,
           Progress!To, Progress!Declared, Any!rows, Any!history, Any!Of,
           Any!At, Any!To, Any!Declared
  <2> QED
    BY <1>3, <2>1, <2>2, <2>3 DEF Progress!Call, Any!Call
<1>4. ASSUME NEW r \in Targets, Progress!Step(r) PROVE Any!Step(r)
  <2>1. Progress!WriteUsage(r) => Any!WriteUsage(r)
    BY <1>2 DEF Progress!Of, Progress!Free, Progress!Idle, Progress!At,
           Progress!Back, Progress!Held, Progress!WriteUsage, Any!Of,
           Any!Free, Any!Idle, Any!At, Any!Back, Any!Held, Any!WriteUsage
  <2>2. /\ Progress!LockTask(r) <=> Any!LockTask(r)
        /\ Progress!Look(r) <=> Any!Look(r)
    BY DEF Progress!rows, Progress!history, Progress!Of, Progress!Free,
           Progress!At, Progress!To, Progress!MayLock, Progress!LockTask,
           Progress!Look, Any!rows, Any!history, Any!Of, Any!Free, Any!At,
           Any!To, Any!MayLock, Any!LockTask, Any!Look
  <2>3. Progress!Snapshot(r) <=> Any!Snapshot(r)
    BY DEF Progress!Of, Progress!Free, Progress!Idle, Progress!At,
           Progress!Back, Progress!Held, Progress!Copied, Progress!Snapshot,
           Any!Of, Any!Free, Any!Idle, Any!At, Any!Back, Any!Held, Any!Copied,
           Any!Snapshot
  <2>4. /\ Progress!ReadBudget(r) <=> Any!ReadBudget(r)
        /\ Progress!Charge(r) <=> Any!Charge(r)
    BY DEF Progress!rows, Progress!history, Progress!Free, Progress!Idle,
           Progress!At, Progress!Back, Progress!MayCharge,
           Progress!ReadBudget, Progress!Charge, Any!rows, Any!history,
           Any!Free, Any!Idle, Any!At, Any!Back, Any!MayCharge,
           Any!ReadBudget, Any!Charge
  <2> QED
    BY <1>4, <2>1, <2>2, <2>3, <2>4 DEF Progress!Step, Any!Step
<1>5. \A r : Progress!Detect(r) <=> Any!Detect(r)
  BY DEF Progress!rows, Progress!history, Progress!Of, Progress!Free,
         Progress!Monitor, Progress!Idle, Progress!At, Progress!Back,
         Progress!Held, Progress!Deadlocked, Progress!AbortReport,
         Progress!AbortHandler, Progress!Detect, Any!rows, Any!history,
         Any!Of, Any!Free, Any!Monitor, Any!Idle, Any!At, Any!Back, Any!Held,
         Any!Deadlocked, Any!AbortReport, Any!AbortHandler, Any!Detect
<1>6. \A a : /\ Progress!Elapse(a) <=> Any!Elapse(a)
             /\ Progress!Handle(a) <=> Any!Handle(a)
  BY DEF Progress!rows, Progress!history, Progress!Free, Progress!Monitor,
         Progress!Elapse, Progress!Handle, Any!rows, Any!history, Any!Free,
         Any!Monitor, Any!Elapse, Any!Handle
<1>7. /\ Progress!Resolve <=> Any!Resolve
      /\ Progress!Commit <=> Any!Commit
      /\ Progress!Requeue <=> Any!Requeue
  BY DEF Progress!rows, Progress!history, Progress!Free, Progress!Monitor,
         Progress!Held, Progress!Resolve, Progress!Commit, Progress!MayInsert,
         Progress!Requeue, Any!rows, Any!history, Any!Free, Any!Monitor,
         Any!Held, Any!Resolve, Any!Commit, Any!MayInsert, Any!Requeue
<1>8. Progress!Attempts = Any!Attempts
  BY DEF Progress!Attempts, Any!Attempts
<1> QED
  BY <1>3, <1>4, <1>5, <1>6, <1>7, <1>8 DEF Progress!Next, Any!Next

LEMMA LedgerIsAny ==
  ASSUME RunningAssumption, RowsInv, Ledger!Next
  PROVE  Any!Next
<1>1. \A r \in Targets :
        /\ Ledger!May(r, "report") => Any!May(r, "report")
        /\ Ledger!May(r, "record") => Any!May(r, "record")
        /\ Ledger!May(r, "spend") => Any!May(r, "spend")
  BY DEF Ledger!Of, Ledger!At, Ledger!May, Any!Of, Any!At, Any!May, AnyDoes
<1>2. \A r \in Targets :
        t_recorded[Any!Of(r)] < LedgerUsage
          => t_recorded[Any!Of(r)] < MostUsage
  BY AnyAssumed, HoldersDiffer DEF RowsInv, RowsTyped
<1>3. ASSUME NEW r \in Targets, Ledger!Call(r) PROVE Any!Call(r)
  <2>1. Ledger!Merge(r) => Any!Merge(r)
    BY <1>1 DEF Ledger!rows, Ledger!Of, Ledger!Free, Ledger!Idle, Ledger!At,
           Ledger!RowFree, Ledger!Held, Ledger!Coalesced, Ledger!Merge,
           Any!rows, Any!Of, Any!Free, Any!Idle, Any!At, Any!RowFree,
           Any!Held, Any!Coalesced, Any!Merge
  <2>2. Ledger!ReadUsage(r) => Any!ReadUsage(r)
    BY <1>1, <1>2 DEF Ledger!rows, Ledger!history, Ledger!Of, Ledger!Free,
                      Ledger!At,
           Ledger!RowFree, Ledger!Held, Ledger!MayRead, Ledger!ReadUsage,
           Any!rows, Any!history, Any!Of, Any!Free, Any!At, Any!RowFree,
           Any!Held, Any!MayRead, Any!ReadUsage
  <2>3. Ledger!Declared(r) => Any!Declared(r)
    BY <1>1 DEF Ledger!rows, Ledger!history, Ledger!Of, Ledger!At, Ledger!To,
           Ledger!Declared, Any!rows, Any!history, Any!Of, Any!At, Any!To,
           Any!Declared
  <2> QED
    BY <1>3, <2>1, <2>2, <2>3 DEF Ledger!Call, Any!Call
<1>4. ASSUME NEW r \in Targets, Ledger!Step(r) PROVE Any!Step(r)
  <2>1. Ledger!WriteUsage(r) => Any!WriteUsage(r)
    BY <1>2 DEF Ledger!Of, Ledger!Free, Ledger!Idle, Ledger!At, Ledger!Back,
           Ledger!Held, Ledger!WriteUsage, Any!Of, Any!Free, Any!Idle, Any!At,
           Any!Back, Any!Held, Any!WriteUsage
  <2>2. /\ Ledger!LockTask(r) <=> Any!LockTask(r)
        /\ Ledger!Look(r) <=> Any!Look(r)
    BY DEF Ledger!rows, Ledger!history, Ledger!Of, Ledger!Free, Ledger!At,
           Ledger!To, Ledger!MayLock, Ledger!LockTask, Ledger!Look, Any!rows,
           Any!history, Any!Of, Any!Free, Any!At, Any!To, Any!MayLock,
           Any!LockTask, Any!Look
  <2>3. Ledger!Snapshot(r) <=> Any!Snapshot(r)
    BY DEF Ledger!Of, Ledger!Free, Ledger!Idle, Ledger!At, Ledger!Back,
           Ledger!Held, Ledger!Copied, Ledger!Snapshot, Any!Of, Any!Free,
           Any!Idle, Any!At, Any!Back, Any!Held, Any!Copied, Any!Snapshot
  <2>4. /\ Ledger!ReadBudget(r) <=> Any!ReadBudget(r)
        /\ Ledger!Charge(r) <=> Any!Charge(r)
    BY DEF Ledger!rows, Ledger!history, Ledger!Free, Ledger!Idle, Ledger!At,
           Ledger!Back, Ledger!MayCharge, Ledger!ReadBudget, Ledger!Charge,
           Any!rows, Any!history, Any!Free, Any!Idle, Any!At, Any!Back,
           Any!MayCharge, Any!ReadBudget, Any!Charge
  <2> QED
    BY <1>4, <2>1, <2>2, <2>3, <2>4 DEF Ledger!Step, Any!Step
<1>5. \A r : Ledger!Detect(r) <=> Any!Detect(r)
  BY DEF Ledger!rows, Ledger!history, Ledger!Of, Ledger!Free, Ledger!Monitor,
         Ledger!Idle, Ledger!At, Ledger!Back, Ledger!Held, Ledger!Deadlocked,
         Ledger!AbortReport, Ledger!AbortHandler, Ledger!Detect, Any!rows,
         Any!history, Any!Of, Any!Free, Any!Monitor, Any!Idle, Any!At,
         Any!Back, Any!Held, Any!Deadlocked, Any!AbortReport,
         Any!AbortHandler, Any!Detect
<1>6. \A a : /\ Ledger!Elapse(a) <=> Any!Elapse(a)
             /\ Ledger!Handle(a) <=> Any!Handle(a)
  BY DEF Ledger!rows, Ledger!history, Ledger!Free, Ledger!Monitor,
         Ledger!Elapse, Ledger!Handle, Any!rows, Any!history, Any!Free,
         Any!Monitor, Any!Elapse, Any!Handle
<1>7. /\ Ledger!Resolve <=> Any!Resolve
      /\ Ledger!Commit <=> Any!Commit
      /\ Ledger!Requeue <=> Any!Requeue
  BY DEF Ledger!rows, Ledger!history, Ledger!Free, Ledger!Monitor,
         Ledger!Held, Ledger!Resolve, Ledger!Commit, Ledger!MayInsert,
         Ledger!Requeue, Any!rows, Any!history, Any!Free, Any!Monitor,
         Any!Held, Any!Resolve, Any!Commit, Any!MayInsert, Any!Requeue
<1>8. Ledger!Attempts = Any!Attempts
  BY DEF Ledger!Attempts, Any!Attempts
<1> QED
  BY <1>3, <1>4, <1>5, <1>6, <1>7, <1>8 DEF Ledger!Next, Any!Next

(* What is recorded stays within either system's bound. *)
UsageWithin(most) == \A a \in Any!Attempts : t_recorded[a] <= most

LEMMA ProgressWithin ==
  ASSUME RunningAssumption, RowsInv, UsageWithin(MaxUsage), Progress!Next
  PROVE  UsageWithin(MaxUsage)'
<1>1. CASE UNCHANGED t_recorded
  BY <1>1 DEF UsageWithin
<1>2. ASSUME NEW r \in Targets, Progress!WriteUsage(r)
      PROVE  UsageWithin(MaxUsage)'
  <2>1. /\ t_recorded[Any!Of(r)] < MaxUsage
        /\ t_recorded' = [t_recorded EXCEPT ![Any!Of(r)] = t_recorded[Any!Of(r)] + 1]
    BY <1>2 DEF Progress!WriteUsage, Progress!Of, Any!Of
  <2>2. t_recorded \in [Any!Attempts -> Nat] /\ Any!Of(r) \in Any!Attempts
    BY AnyAssumed, HoldersDiffer DEF RowsInv, RowsTyped
  <2> QED
    BY <2>1, <2>2, AnyAssumed DEF UsageWithin
<1>3. UNCHANGED t_recorded \/ \E r \in Targets : Progress!WriteUsage(r)
  BY DEF Progress!Next, Progress!Call, Progress!Step, Progress!Detect,
         Progress!Merge,
     Progress!LockTask, Progress!Look, Progress!Snapshot, Progress!ReadUsage,
     Progress!Declared, Progress!ReadBudget, Progress!Charge,
     Progress!AbortReport,
     Progress!AbortHandler, Progress!Elapse, Progress!Handle, Progress!Resolve,
     Progress!Commit, Progress!Requeue, Progress!history
<1> QED
  BY <1>1, <1>2, <1>3

LEMMA LedgerWithin ==
  ASSUME RunningAssumption, RowsInv, UsageWithin(LedgerUsage), Ledger!Next
  PROVE  UsageWithin(LedgerUsage)'
<1>1. CASE UNCHANGED t_recorded
  BY <1>1 DEF UsageWithin
<1>2. ASSUME NEW r \in Targets, Ledger!WriteUsage(r)
      PROVE  UsageWithin(LedgerUsage)'
  <2>1. /\ t_recorded[Any!Of(r)] < LedgerUsage
        /\ t_recorded' = [t_recorded EXCEPT ![Any!Of(r)] = t_recorded[Any!Of(r)] + 1]
    BY <1>2 DEF Ledger!WriteUsage, Ledger!Of, Any!Of
  <2>2. t_recorded \in [Any!Attempts -> Nat] /\ Any!Of(r) \in Any!Attempts
    BY AnyAssumed, HoldersDiffer DEF RowsInv, RowsTyped
  <2> QED
    BY <2>1, <2>2, AnyAssumed DEF UsageWithin
<1>3. UNCHANGED t_recorded \/ \E r \in Targets : Ledger!WriteUsage(r)
  BY DEF Ledger!Next, Ledger!Call, Ledger!Step, Ledger!Detect, Ledger!Merge,
     Ledger!LockTask, Ledger!Look, Ledger!Snapshot, Ledger!ReadUsage,
     Ledger!Declared, Ledger!ReadBudget, Ledger!Charge, Ledger!AbortReport,
     Ledger!AbortHandler, Ledger!Elapse, Ledger!Handle, Ledger!Resolve,
     Ledger!Commit, Ledger!Requeue, Ledger!history
<1> QED
  BY <1>1, <1>2, <1>3

(* A row and a call are within the bound of the system at work. *)
LEMMA UsageSmall ==
  ASSUME RunningAssumption, RowsInv, NEW most \in Nat, UsageWithin(most)
  PROVE  /\ t_row \in [Any!Attempts -> [current: 0..Goal, recent: BOOLEAN,
                                        usage: 0..most, resolved: BOOLEAN]]
         /\ t_call \in [Targets -> [at: Places, current: 0..Goal,
                                    read: 0..(most + Budget), newest: BOOLEAN]]
<1>1. /\ t_row \in [Any!Attempts -> AttemptRow]
         /\ t_call \in [Targets -> Calls]
      /\ t_recorded \in [Any!Attempts -> Nat] /\ t_budget \in 0..Budget
      /\ Budget \in Nat
  BY DEF RowsInv, RowsTyped, RunningAssumption, Progress!ProgressAssumption
<1>2. ASSUME NEW a \in Any!Attempts
      PROVE  t_row[a] \in [current: 0..Goal, recent: BOOLEAN, usage: 0..most,
                           resolved: BOOLEAN]
  <2>1. t_row[a].usage = t_recorded[a]
    BY DEF RowsInv, BooksInv, Any!UsageIsExact
  <2>2. t_row[a].usage \in 0..most
    BY <1>1, <2>1 DEF UsageWithin
  <2>3. t_row[a] \in AttemptRow
    BY <1>1
  <2> QED
    BY <2>2, <2>3 DEF AttemptRow
<1>3. ASSUME NEW r \in Targets
      PROVE  t_call[r] \in [at: Places, current: 0..Goal,
                            read: 0..(most + Budget),
                            newest: BOOLEAN]
  <2>1. Any!Of(r) \in Any!Attempts
    BY AnyAssumed, HoldersDiffer
  <2>2. t_call[r].read \in 0..(most + Budget)
    <3>1. CASE t_call[r].at = "recording"
      <4>1. t_call[r].read = t_recorded[Any!Of(r)]
        BY <3>1 DEF RowsInv, CallsInv, CallInv
      <4>2. t_recorded[Any!Of(r)] \in Nat /\ t_recorded[Any!Of(r)] <= most
        BY <1>1, <2>1 DEF UsageWithin
      <4> QED
        BY <1>1, <4>1, <4>2
    <3>2. CASE t_call[r].at = "charging"
      <4>1. t_call[r].read = t_budget
        BY <3>2 DEF RowsInv, CallsInv, CallInv
      <4> QED
        BY <1>1, <4>1
    <3>3. CASE t_call[r].at \notin {"recording", "charging"}
      <4>1. t_call[r].read = 0
        BY <3>3 DEF RowsInv, CallsInv, CallInv
      <4> QED
        BY <1>1, <4>1
    <3> QED
      BY <3>1, <3>2, <3>3
  <2>3. t_call[r] \in Calls
    BY <1>1
  <2> QED
    BY <2>2, <2>3 DEF Calls
<1> QED
  BY <1>1, <1>2, <1>3

LEMMA ProgressMeans ==
  ASSUME RunningAssumption, RowsInv, UsageWithin(MaxUsage)
  PROVE  /\ Progress!TypeOK /\ Progress!LastWordShows
         /\ Progress!UsageIsExact /\ Progress!BudgetIsExact
<1>1. Progress!TypeOK
  BY AnyAssumed, UsageSmall, Zenon
     DEF RowsInv, RowsTyped, Progress!TypeOK, Places, Holders,
         Progress!Attempts,
     Progress!Free, Progress!Monitor, Any!Attempts, Any!Free, Any!Monitor
<1>2. /\ Progress!LastWordShows <=> Any!LastWordShows
      /\ Progress!UsageIsExact <=> Any!UsageIsExact
      /\ Progress!BudgetIsExact <=> Any!BudgetIsExact
  BY DEF Progress!Attempts, Progress!LastWordShows, Progress!UsageIsExact,
         Progress!BudgetIsExact, Any!Attempts, Any!LastWordShows,
         Any!UsageIsExact, Any!BudgetIsExact
<1> QED
  BY <1>1, <1>2 DEF RowsInv, TaskInv, BooksInv

LEMMA LedgerMeans ==
  ASSUME RunningAssumption, RowsInv, UsageWithin(LedgerUsage)
  PROVE  Ledger!TypeOK /\ Ledger!UsageIsExact
<1>1. Ledger!TypeOK
  BY AnyAssumed, UsageSmall, Zenon
     DEF RowsInv, RowsTyped, Ledger!TypeOK, Places, Holders, Ledger!Attempts,
     Ledger!Free, Ledger!Monitor, Any!Attempts, Any!Free, Any!Monitor
<1>2. Ledger!UsageIsExact <=> Any!UsageIsExact
  BY DEF Ledger!Attempts, Ledger!UsageIsExact, Any!Attempts, Any!UsageIsExact
<1> QED
  BY <1>1, <1>2 DEF RowsInv, BooksInv
-----------------------------------------------------------------------------
(* The suite.                                                              *)
SuiteInv ==
  /\ WorkerInv /\ RowsInv
  /\ which = "progress" => UsageWithin(MaxUsage)
  /\ which = "ledger" => UsageWithin(LedgerUsage)

LEMMA SuiteStarts == RunningAssumption /\ SuiteInit => SuiteInv
<1> SUFFICES ASSUME RunningAssumption, SuiteInit PROVE SuiteInv
  OBVIOUS
<1>1. WorkerInv
  BY WorkerStarts DEF SuiteInit, RunningAssumption
<1>2. Any!Init
  BY DEF SuiteInit, Progress!Attempts, Progress!Free, Progress!Idle,
         Progress!Init,
         Any!Attempts, Any!Free, Any!Idle, Any!Init
<1>3. RowsInv
  BY <1>2, AnyAssumed, ProgressStarts
<1>4. UsageWithin(MaxUsage) /\ UsageWithin(LedgerUsage)
  BY <1>2, AnyAssumed DEF Any!Init, UsageWithin
<1> QED
  BY <1>1, <1>3, <1>4 DEF SuiteInv

LEMMA SuiteKeeps == RunningAssumption /\ SuiteInv /\ [SuiteNext]_suite
  => SuiteInv'
<1> SUFFICES ASSUME RunningAssumption, SuiteInv,
                    [SuiteNext]_suite PROVE SuiteInv'
  OBVIOUS
<1>1. which' = which
  BY DEF SuiteNext, suite
<1>2. WorkerInv'
  <2>1. UNCHANGED w_vars => UNCHANGED Worker!vars
    BY DEF w_vars, Worker!vars, Worker!worker
  <2>2. Worker!Next \/ UNCHANGED w_vars
    BY DEF SuiteNext, suite
  <2> QED
    BY <2>1, <2>2, WorkerKeeps, WorkerRests DEF SuiteInv, RunningAssumption
<1>3. \/ which = "progress" /\ Progress!Next
      \/ which = "ledger" /\ Ledger!Next
      \/ UNCHANGED t_vars
  BY DEF SuiteNext, suite
<1>4. RowsInv'
  <2>1. UNCHANGED t_vars => UNCHANGED Any!vars
    BY DEF t_vars, Any!vars
  <2> QED
    BY <1>3, <2>1, AnyAssumed, ProgressIsAny, LedgerIsAny, ProgressKeeps,
       ProgressRests
       DEF SuiteInv
<1>5. which = "progress" => UsageWithin(MaxUsage)'
  BY <1>3, ProgressWithin DEF SuiteInv, UsageWithin, t_vars
<1>6. which = "ledger" => UsageWithin(LedgerUsage)'
  BY <1>3, LedgerWithin DEF SuiteInv, UsageWithin, t_vars
<1> QED
  BY <1>1, <1>2, <1>4, <1>5, <1>6 DEF SuiteInv

(* While tasks hang, are terminated or forgotten and the cluster stops, a  *)
(* permit, a deadline and a place in the pool belong to the same tasks,    *)
(* what has run over is seen by the guard, and the worker recycles after   *)
(* its limit and no later (worker.py).                                     *)
THEOREM WorkersStayInStep == SuiteSpec => []WorkerStaysInStep
<1>1. SuiteInit => SuiteInv
  BY SuiteStarts, RunningAssumption
<1>2. SuiteInv /\ [SuiteNext]_suite => SuiteInv'
  BY SuiteKeeps, RunningAssumption
<1>3. SuiteInv => WorkerStaysInStep
  BY WorkerMeans, RunningAssumption DEF SuiteInv, WorkerStaysInStep,
                                        RunningAssumption
<1> QED
  BY <1>1, <1>2, <1>3, PTL DEF SuiteSpec

(* The last report, the usage and the budget of a task are exact, whoever  *)
(* writes the snapshot and the shared row at the same time (context.py).   *)
THEOREM ReportsStayExact == SuiteSpec => []ReportsAreExact
<1>1. SuiteInit => SuiteInv
  BY SuiteStarts, RunningAssumption
<1>2. SuiteInv /\ [SuiteNext]_suite => SuiteInv'
  BY SuiteKeeps, RunningAssumption
<1>3. SuiteInv => ReportsAreExact
  BY ProgressMeans, LedgerMeans, RunningAssumption DEF SuiteInv,
                                                       ReportsAreExact
<1> QED
  BY <1>1, <1>2, <1>3, PTL DEF SuiteSpec

(* The snapshot of a task is never handed back to an earlier attempt       *)
(* (context.py, dispatchers.py).                                           *)
THEOREM TheNewestShows == SuiteSpec => NewestShows
<1>1. SuiteInit => SuiteInv
  BY SuiteStarts, RunningAssumption
<1>2. SuiteInv /\ [SuiteNext]_suite => SuiteInv'
  BY SuiteKeeps, RunningAssumption
<1>3. SuiteInv /\ [SuiteNext]_suite
      => [t_snapshot' # t_snapshot
          => t_snapshot'.of = t_attempts]_(Progress!vars)
  <2> SUFFICES ASSUME SuiteInv, [SuiteNext]_suite, t_snapshot' # t_snapshot
               PROVE  t_snapshot'.of = t_attempts
    OBVIOUS
  <2>1. Progress!Next \/ Ledger!Next
    BY DEF SuiteNext, suite, t_vars
  <2>2. Any!Next
    BY <2>1, ProgressIsAny, LedgerIsAny, RunningAssumption DEF SuiteInv
  <2> QED
    BY <2>2, AnyAssumed, NewestWrites, RunningAssumption DEF SuiteInv
<1> QED
  BY <1>1, <1>2, <1>3, PTL DEF SuiteSpec, NewestShows, Progress!NewestShows
=============================================================================
