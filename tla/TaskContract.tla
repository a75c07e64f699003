---------------------------- MODULE TaskContract ----------------------------
(***************************************************************************)
(* What a QraftTask promises its caller: a series of attempts of which     *)
(* only the newest can be open, each resolved once; a status that follows  *)
(* the newest attempt; a success that is final; and, for a task with both  *)
(* hooks configured, each hook dispatched at most once and only for an     *)
(* outcome the task has really had.  Nothing here knows of brokers,        *)
(* workers, leases or sweeps.                                              *)
(***************************************************************************)
EXTENDS Sequences, Integers

VARIABLES
  phase,   \* the task's status
  series,  \* outcome of each attempt so far, "open" for the one in progress
  died,    \* the task has been dead at some point
  fired    \* hooks dispatched

vars == <<phase, series, died, fired>>

Dead == {"FAILED", "EXHAUSTED"}

Init ==
  /\ phase \in {"PENDING", "RUNNING"}
  /\ series = <<"open">>
  /\ died = FALSE
  /\ fired = {}

Newest(outcome) == [series EXCEPT ![Len(series)] = outcome]

Start == phase = "PENDING" /\ phase' = "RUNNING" /\ UNCHANGED <<series, died, fired>>

Succeed ==
  /\ phase = "RUNNING"
  /\ phase' = "SUCCEEDED"
  /\ series' = Newest("ok")
  /\ UNCHANGED <<died, fired>>

Retry ==
  /\ phase = "RUNNING"
  /\ phase' = "PENDING"
  /\ series' = Append(Newest("fail"), "open")
  /\ UNCHANGED <<died, fired>>

GiveUp ==
  /\ phase = "RUNNING"
  /\ phase' \in Dead
  /\ series' = Newest("fail")
  /\ died' = TRUE
  /\ UNCHANGED fired

Requeue ==
  /\ phase \in Dead
  /\ phase' = "PENDING"
  /\ series' = Append(series, "open")
  /\ UNCHANGED <<died, fired>>

Fire(hook) ==
  /\ hook \notin fired
  /\ hook = "success" => phase = "SUCCEEDED"
  /\ hook = "failure" => died
  /\ fired' = fired \cup {hook}
  /\ UNCHANGED <<phase, series, died>>

Next ==
  \/ Start \/ Succeed \/ Retry \/ GiveUp \/ Requeue
  \/ \E hook \in {"success", "failure"} : Fire(hook)

Spec == Init /\ [][Next]_vars
=============================================================================
