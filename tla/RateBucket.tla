----------------------------- MODULE RateBucket -----------------------------
(***************************************************************************)
(* One token bucket of throttle.py, shared by tasks in many processes: the *)
(* seeding of the row, the refill and withdrawal under the row lock, and   *)
(* the clock, which moves between the reading of `now` and the stamp that  *)
(* the save puts on the row (updated_at, auto_now).                        *)
(***************************************************************************)
EXTENDS Integers

CONSTANTS
  Callers,   \* throttled task executions
  Rate,      \* tokens per tick
  Capacity,  \* what the bucket holds at most
  Costs,     \* what calls withdraw
  Offset,    \* Offset[c]: how far the clock of c's host is ahead
  MaxClock   \* bound of the clock

BucketAssumption ==
  /\ Rate \in Nat /\ Capacity \in Nat /\ Costs \subseteq Nat /\ MaxClock \in Nat
  /\ Offset \in [Callers -> Nat]

VARIABLES
  clock,   \* the true time
  exists,  \* the RateBucket row is there
  tokens,  \* RateBucket.tokens
  stamp,   \* RateBucket.updated_at
  holder,  \* who holds the row lock, if anyone
  seen,    \* the row and the time as each holder read them
  pc,      \* how far each call is
  since,   \* history: start of an arbitrary window
  spent    \* history: tokens granted in that window

row == <<exists, tokens, stamp>>
vars == <<clock, row, holder, seen, pc, since, spent>>

Unseen == [tokens |-> 0, stamp |-> 0, now |-> 0]

TypeOK ==
  /\ clock \in Nat /\ exists \in BOOLEAN
  /\ tokens \in 0..Capacity /\ stamp \in Nat
  /\ holder \subseteq Callers
  /\ seen \in [Callers -> [tokens: 0..Capacity, stamp: Nat, now: Nat]]
  /\ pc \in [Callers -> {"idle", "seeded", "granted", "denied"}]
  /\ since \in Nat /\ spent \in Nat

Init ==
  /\ clock = 0 /\ exists = FALSE /\ tokens = 0 /\ stamp = 0
  /\ holder = {} /\ seen = [c \in Callers |-> Unseen]
  /\ pc = [c \in Callers |-> "idle"]
  /\ since = 0 /\ spent = 0

TimeAt(c) == clock + Offset[c]

Smaller(x, y) == IF x < y THEN x ELSE y
Larger(x, y) == IF x < y THEN y ELSE x
-----------------------------------------------------------------------------
(* Mutant: the bucket is seeded whether or not the row is there. *)
SeedAnyway(c) ==
  /\ pc[c] = "idle"
  /\ pc' = [pc EXCEPT ![c] = "seeded"]
  /\ exists' = TRUE /\ tokens' = Capacity /\ stamp' = TimeAt(c)
  /\ UNCHANGED <<clock, holder, seen, since, spent>>

(* get_or_create: the first call seeds the bucket full. *)
Seed(c) ==
  /\ pc[c] = "idle"
  /\ pc' = [pc EXCEPT ![c] = "seeded"]
  /\ IF exists THEN UNCHANGED row
     ELSE exists' = TRUE /\ tokens' = Capacity /\ stamp' = TimeAt(c)
  /\ UNCHANGED <<clock, holder, seen, since, spent>>

(* Mutant: no row lock. *)
MayLockAlways(c) == TRUE

(* select_for_update. *)
MayLock(c) == holder = {}

(* The call locks and reads the row, then reads the time. *)
Lock(c) ==
  /\ pc[c] = "seeded" /\ c \notin holder
  /\ MayLock(c)
  /\ holder' = holder \cup {c}
  /\ seen' = [seen EXCEPT ![c] = [tokens |-> tokens, stamp |-> stamp, now |-> TimeAt(c)]]
  /\ UNCHANGED <<clock, row, pc, since, spent>>

(* Mutant: the refill is not capped. *)
RefilledUncapped(c) == seen[c].tokens + Rate * Larger(0, seen[c].now - seen[c].stamp)

(* The level after the refill for the time since the row was touched. *)
Refilled(c) ==
  Smaller(Capacity, seen[c].tokens + Rate * Larger(0, seen[c].now - seen[c].stamp))

(* It withdraws if there is enough, saves either way, and commits. *)
Withdraw(c) ==
  /\ c \in holder
  /\ holder' = holder \ {c}
  /\ stamp' = TimeAt(c)
  /\ seen' = [seen EXCEPT ![c] = Unseen]
  /\ \E cost \in Costs :
       IF Refilled(c) >= cost
       THEN /\ tokens' = Refilled(c) - cost
            /\ spent' = spent + cost
            /\ pc' = [pc EXCEPT ![c] = "granted"]
       ELSE /\ tokens' = Refilled(c)
            /\ pc' = [pc EXCEPT ![c] = "denied"]
            /\ UNCHANGED spent
  /\ UNCHANGED <<clock, exists, since>>

(* throttled: a granted call runs its function, a denied one raises        *)
(* RateLimited and the task is retried; either may call again.             *)
Again(c) ==
  /\ pc[c] \in {"granted", "denied"}
  /\ pc' = [pc EXCEPT ![c] = "idle"]
  /\ UNCHANGED <<clock, row, holder, seen, since, spent>>

Tick ==
  /\ clock < MaxClock
  /\ clock' = clock + 1
  /\ UNCHANGED <<row, holder, seen, pc, since, spent>>

(* The window may begin at any moment. *)
Observe ==
  /\ since' = clock /\ spent' = 0
  /\ UNCHANGED <<clock, row, holder, seen, pc>>

Call(c) == Seed(c) \/ Lock(c) \/ Withdraw(c) \/ Again(c)
Next == (\E c \in Callers : Call(c)) \/ Tick \/ Observe

Spec == Init /\ [][Next]_vars
-----------------------------------------------------------------------------
(* Properties.                                                             *)

(* In every window of time, all callers together are granted no more than  *)
(* a full bucket and what the rate adds in that window (acquire).  It takes *)
(* clocks that agree: a host ahead of another refills the same time twice. *)
RateHolds == spent <= Capacity + Rate * (clock - since)
=============================================================================
