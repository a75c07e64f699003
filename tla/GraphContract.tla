--------------------------- MODULE GraphContract ---------------------------
(***************************************************************************)
(* What a graph promises: each generation ends in one way, only a failed   *)
(* or a succeeded one is followed by another, and the end of a generation  *)
(* is announced at most once, with the outcome it had.                     *)
(***************************************************************************)
EXTENDS Integers

VARIABLES
  phase,     \* "absent", "live" or the outcome of the newest generation
  gen,       \* generations so far
  outcomes,  \* the outcome of each generation that has ended
  announced  \* generations whose hook has been queued

vars == <<phase, gen, outcomes, announced>>

Outcome == {"SUCCEEDED", "FAILED", "CANCELLED"}

Init == phase = "absent" /\ gen = 1 /\ outcomes = {} /\ announced = {}

Open == phase = "absent" /\ phase' = "live" /\ UNCHANGED <<gen, outcomes, announced>>

End(o) ==
  /\ phase = "live"
  /\ phase' = o
  /\ outcomes' = outcomes \cup {[gen |-> gen, outcome |-> o]}
  /\ UNCHANGED <<gen, announced>>

(* A generation may be over as soon as it begins, when nothing in it can   *)
(* start: what was taken back waits for a node that has failed, or for one *)
(* somebody has rejected.                                                  *)
Reopen ==
  /\ phase \in {"FAILED", "SUCCEEDED"}
  /\ gen' = gen + 1
  /\ phase' \in {"live", "FAILED", "CANCELLED"}
  /\ outcomes' =
       IF phase' = "live" THEN outcomes
       ELSE outcomes \cup {[gen |-> gen', outcome |-> phase']}
  /\ UNCHANGED announced

(* The hook may be queued late, even after the next generation has begun. *)
Announce ==
  \E e \in outcomes :
    /\ e.gen \notin announced
    /\ announced' = announced \cup {e.gen}
    /\ UNCHANGED <<phase, gen, outcomes>>

Next == Open \/ (\E o \in Outcome : End(o)) \/ Reopen \/ Announce

Spec == Init /\ [][Next]_vars
=============================================================================
