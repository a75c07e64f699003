--------------------------- MODULE ChainContract ---------------------------
(***************************************************************************)
(* What a chain promises: it goes through its steps in order, waits at     *)
(* gates, and each generation - a run or a resume - ends in one way and    *)
(* queues at most one hook, the one for that end.                          *)
(***************************************************************************)
EXTENDS Integers

CONSTANTS LastStep, Gated

VARIABLES
  phase,  \* the chain's status
  at,     \* the step it has reached
  gen,    \* resumes so far
  fired   \* hooks queued: <<generation, hook>>

vars == <<phase, at, gen, fired>>

Init == phase = "PENDING" /\ at = 0 /\ gen = 0 /\ fired = {}

Enter(s) ==
  /\ at' = s
  /\ phase' = IF s \in Gated THEN "WAITING_APPROVAL" ELSE "RUNNING"
  /\ UNCHANGED <<gen, fired>>

Start == phase = "PENDING" /\ Enter(0)

Advance == phase = "RUNNING" /\ at < LastStep /\ Enter(at + 1)

Approve ==
  /\ phase = "WAITING_APPROVAL"
  /\ phase' = "RUNNING"
  /\ UNCHANGED <<at, gen, fired>>

End ==
  /\ phase = "RUNNING"
  /\ \/ phase' = "FAILED"
     \/ at = LastStep /\ phase' = "SUCCEEDED"
  /\ UNCHANGED <<at, gen, fired>>

Cancel ==
  /\ phase \in {"PENDING", "RUNNING", "WAITING_APPROVAL"}
  /\ phase' = "CANCELLED"
  /\ fired' = fired \cup {<<gen, "cancelled">>}
  /\ UNCHANGED <<at, gen>>

Resume ==
  /\ phase = "FAILED"
  /\ phase' = "RUNNING"
  /\ gen' = gen + 1
  /\ UNCHANGED <<at, fired>>

(* A hook may be queued late, even after the next resume. *)
Fire ==
  \E g \in 0..gen, hook \in {"success", "failure"} :
    /\ \A f \in fired : f[1] # g
    /\ hook = "success" => g = gen /\ phase = "SUCCEEDED"
    /\ hook = "failure" => g < gen \/ phase = "FAILED"
    /\ fired' = fired \cup {<<g, hook>>}
    /\ UNCHANGED <<phase, at, gen>>

Next == Start \/ Advance \/ Approve \/ End \/ Cancel \/ Resume \/ Fire

Spec == Init /\ [][Next]_vars
=============================================================================
