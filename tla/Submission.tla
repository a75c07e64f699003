----------------------------- MODULE Submission -----------------------------
(***************************************************************************)
(* How work is submitted: async_task with an idempotency key, work         *)
(* correlated to a graph whose subject is bound while it arrives, workflow *)
(* rows made under the graph's lock, the deferred enqueue of the Django    *)
(* Tasks backend, and Graph.start with a request key.                      *)
(*                                                                         *)
(* One key, one graph and one request key; each caller makes one call at a *)
(* time.  A statement or transaction is an action, since what a call reads *)
(* before the transaction that creates its task may be stale by then.      *)
(***************************************************************************)
EXTENDS Integers, FiniteSets

CONSTANTS
  Callers,   \* threads of application code
  MaxTask,   \* bound: tasks created
  Requests   \* which of the calls below they make

Kinds == {"keyed", "retrydead", "correlated", "named", "member", "deferred", "start"}

SubmissionAssumption == MaxTask \in Nat \ {0} /\ Requests \subseteq Kinds

VARIABLES
  task,     \* QraftTask rows, by a number in the order of creation
  graph,    \* the graph work is correlated to: its status and its subject
  started,  \* graphs that exist under the request key
  call,     \* how far each call is
  revived,  \* history: tasks requeued after their death
  taken     \* history: tasks whose key was taken away

vars == <<task, graph, started, call, revived, taken>>

Ids == DOMAIN task
Keyed(kind) == kind \in {"keyed", "retrydead"}
ToGraph(kind) == kind \in {"correlated", "named", "member"}
Dead == {"FAILED", "EXHAUSTED"}     \* _reclaim_dead_task_key
None == 0

Idle == [at |-> "idle", kind |-> "keyed", subject |-> "none", answer |-> None]

(* `born` is the kind of call a task comes from; `attempt` says whether it *)
(* has its first attempt, and with it a message or a place in the          *)
(* dispatcher's queue.                                                     *)
Tasks ==
  [status: {"PENDING", "RUNNING", "SUCCEEDED"} \cup Dead, key: BOOLEAN,
   born: Kinds, subject: {"none", "s"}, attempt: BOOLEAN]

TypeOK ==
  /\ Ids \subseteq 1..MaxTask /\ \A t \in Ids : task[t] \in Tasks
  /\ graph \in [status: {"RUNNING", "SETTLED"}, subject: {"none", "s"}]
  /\ started \in 0..1
  /\ call \in [Callers -> [at: {"idle", "begun", "reclaimed", "looked", "labelled",
                                "collided", "created", "done", "failed"},
                           kind: Kinds, subject: {"none", "s"}, answer: 0..MaxTask]]
  /\ revived \subseteq Ids /\ taken \subseteq Ids

Init ==
  /\ task = <<>>
  /\ graph = [status |-> "RUNNING", subject |-> "none"]
  /\ started = 0
  /\ call = [c \in Callers |-> Idle]
  /\ revived = {} /\ taken = {}
-----------------------------------------------------------------------------
Kind(c) == call[c].kind
At(c, place) == call[c].at = place
To(c, place) == call' = [call EXCEPT ![c].at = place]
Answers(c, t) == call' = [call EXCEPT ![c].at = "done", ![c].answer = t]

Holders == {t \in Ids : task[t].key}

NewId == Cardinality(Ids) + 1
Added(row) == [t \in 1..NewId |-> IF t = NewId THEN row ELSE task[t]]

(* A caller makes a call, or has done with one. *)
Begin(c) ==
  /\ At(c, "idle")
  /\ \E kind \in Requests :
       call' = [call EXCEPT ![c] = [Idle EXCEPT !.at = "begun", !.kind = kind]]
  /\ UNCHANGED <<task, graph, started, revived, taken>>
Return(c) ==
  /\ call[c].at \in {"done", "failed"}
  /\ call' = [call EXCEPT ![c] = Idle]
  /\ UNCHANGED <<task, graph, started, revived, taken>>

(* Mutant: any task gives the key up. *)
ReclaimableAny(t) == task[t].key

(* Only a dead holder gives the key up. *)
Reclaimable(t) == task[t].key /\ task[t].status \in Dead

(* _reclaim_dead_task_key: idempotency_retry_dead takes the key away from  *)
(* a dead task.                                                            *)
Reclaim(c) ==
  /\ At(c, "begun") /\ Kind(c) = "retrydead"
  /\ task' = [t \in Ids |-> IF Reclaimable(t) THEN [task[t] EXCEPT !.key = FALSE] ELSE task[t]]
  /\ taken' = taken \cup {t \in Ids : Reclaimable(t)}
  /\ To(c, "reclaimed")
  /\ UNCHANGED <<graph, started, revived>>

(* _existing_task_for_key: the holder's newest attempt with a message.     *)
Existing == {t \in Holders : task[t].attempt}

(* async_task answers with the task that holds the key. *)
LookUp(c) ==
  /\ At(c, IF Kind(c) = "retrydead" THEN "reclaimed" ELSE "begun") /\ Keyed(Kind(c))
  /\ IF Existing = {} THEN To(c, "looked") ELSE \E t \in Existing : Answers(c, t)
  /\ UNCHANGED <<task, graph, started, revived, taken>>

(* member_labels reads the graph: it has to be running, and work inherits  *)
(* its subject; work that names a subject must name the graph's.           *)
Label(c) ==
  /\ At(c, "begun") /\ Kind(c) \in {"correlated", "named"}
  /\ call' = [call EXCEPT
       ![c].at = IF graph.status # "RUNNING" \/ (Kind(c) = "named" /\ graph.subject # "s")
                 THEN "failed" ELSE "labelled",
       ![c].subject = graph.subject]
  /\ UNCHANGED <<task, graph, started, revived, taken>>

(* correlating: a workflow row gets its labels under the graph's lock, and *)
(* hands them to the members it creates later.                             *)
LabelLocked(c) ==
  /\ At(c, "begun") /\ Kind(c) = "member"
  /\ IF graph.status # "RUNNING" THEN To(c, "failed")
     ELSE call' = [call EXCEPT ![c].at = "labelled", ![c].subject = graph.subject]
  /\ UNCHANGED <<task, graph, started, revived, taken>>

(* Mutant: the label read before the transaction is used as it is. *)
SubjectAsRead(c) == call[c].subject

(* _create_and_enqueue: without a subject, the graph's is read again under *)
(* its lock.                                                               *)
SubjectNow(c) ==
  IF ToGraph(Kind(c)) /\ call[c].subject = "none" THEN graph.subject ELSE call[c].subject

(* Mutant: the unique constraint is not there. *)
CollidesNever(c) == FALSE

(* The unique constraint on idempotency_key refuses the row. *)
Collides(c) == Keyed(Kind(c)) /\ Holders # {}

(* The task, its message and its first attempt, in one transaction. *)
Create(c) ==
  /\ At(c, IF Keyed(Kind(c)) THEN "looked" ELSE "labelled")
  /\ IF Collides(c)
     THEN To(c, "collided") /\ UNCHANGED task
     ELSE /\ NewId <= MaxTask
          /\ task' = Added([status |-> "RUNNING", key |-> Keyed(Kind(c)), born |-> Kind(c),
                            subject |-> SubjectNow(c), attempt |-> TRUE])
          /\ Answers(c, NewId)
  /\ UNCHANGED <<graph, started, revived, taken>>

(* Mutant: the loser of the race gives up. *)
FallBackNever == {}

(* Who the loser's second look finds. *)
FallBack == Existing

(* The IntegrityError leads to a second look, or to the caller. *)
Recover(c) ==
  /\ At(c, "collided")
  /\ IF FallBack = {} THEN To(c, "failed") ELSE \E t \in FallBack : Answers(c, t)
  /\ UNCHANGED <<task, graph, started, revived, taken>>

(* Mutant: the caller has its answer before the attempt is there. *)
DeferAnswered(c) ==
  /\ At(c, "begun") /\ Kind(c) = "deferred" /\ NewId <= MaxTask
  /\ task' = Added([status |-> "PENDING", key |-> FALSE, born |-> "deferred",
                    subject |-> "none", attempt |-> FALSE])
  /\ Answers(c, NewId)
  /\ UNCHANGED <<graph, started, revived, taken>>

(* _enqueue_deferred: the task is a row of its own ... *)
Defer(c) ==
  /\ At(c, "begun") /\ Kind(c) = "deferred" /\ NewId <= MaxTask
  /\ task' = Added([status |-> "PENDING", key |-> FALSE, born |-> "deferred",
                    subject |-> "none", attempt |-> FALSE])
  /\ call' = [call EXCEPT ![c].at = "created", ![c].answer = NewId]
  /\ UNCHANGED <<graph, started, revived, taken>>

(* ... and its SCHEDULED attempt another (schedule_attempt). *)
Schedule(c) ==
  /\ At(c, "created") /\ Kind(c) = "deferred"
  /\ task' = [task EXCEPT ![call[c].answer].attempt = TRUE]
  /\ To(c, "done")
  /\ UNCHANGED <<graph, started, revived, taken>>

(* Graph.start looks its request key up ... *)
LookUpGraph(c) ==
  /\ At(c, "begun") /\ Kind(c) = "start"
  /\ To(c, IF started > 0 THEN "done" ELSE "looked")
  /\ UNCHANGED <<task, graph, started, revived, taken>>

(* ... and creates the graph, which the unique request_key may refuse.     *)
CreateGraph(c) ==
  /\ At(c, "looked") /\ Kind(c) = "start"
  /\ To(c, IF started > 0 THEN "failed" ELSE "done")
  /\ started' = 1
  /\ UNCHANGED <<task, graph, revived, taken>>

(* The process of a caller dies between two statements. *)
Crash(c) ==
  /\ call[c].at \notin {"idle", "done", "failed"}
  /\ call' = [call EXCEPT ![c] = Idle]
  /\ UNCHANGED <<task, graph, started, revived, taken>>

(* What else happens: a keyed task ends, a dead one is requeued (the fate  *)
(* of tasks without a key is of no consequence here) ...                   *)
End(t) ==
  /\ t \in Ids /\ Keyed(task[t].born) /\ task[t].status \in {"PENDING", "RUNNING"}
  /\ \E s \in {"SUCCEEDED", "FAILED"} : task' = [task EXCEPT ![t].status = s]
  /\ UNCHANGED <<graph, started, call, revived, taken>>
Requeue(t) ==
  /\ t \in Ids /\ task[t].status \in Dead
  /\ task' = [task EXCEPT ![t].status = "PENDING"]
  /\ revived' = revived \cup {t}
  /\ UNCHANGED <<graph, started, call, taken>>

(* Mutant: rows that are already there keep no subject. *)
RelabelledNone(t) == FALSE

(* bind_subject relabels the graph's work that has no subject. *)
Relabelled(t) == ToGraph(task[t].born) /\ task[t].subject = "none"

(* ... the graph's subject is bound, once and under its lock ... *)
BindSubject ==
  /\ graph.status = "RUNNING" /\ graph.subject = "none"
  /\ graph' = [graph EXCEPT !.subject = "s"]
  /\ task' = [t \in Ids |-> IF Relabelled(t) THEN [task[t] EXCEPT !.subject = "s"] ELSE task[t]]
  /\ UNCHANGED <<started, call, revived, taken>>

(* ... and the graph settles. *)
Settle ==
  /\ graph.status = "RUNNING"
  /\ graph' = [graph EXCEPT !.status = "SETTLED"]
  /\ UNCHANGED <<task, started, call, revived, taken>>
-----------------------------------------------------------------------------
Call(c) ==
  \/ Begin(c) \/ Return(c) \/ Reclaim(c) \/ LookUp(c) \/ Label(c) \/ LabelLocked(c)
  \/ Create(c) \/ Recover(c) \/ Defer(c) \/ Schedule(c) \/ LookUpGraph(c) \/ CreateGraph(c)
  \/ Crash(c)

Next ==
  \/ \E c \in Callers : Call(c)
  \/ \E t \in Ids : End(t) \/ Requeue(t)
  \/ BindSubject \/ Settle

Spec == Init /\ [][Next]_vars
-----------------------------------------------------------------------------
(* Properties.                                                             *)

Live(t) == task[t].status \in {"PENDING", "RUNNING"}
Born(t) == Keyed(task[t].born)

(* However callers race, two tasks of one key are never live at once,      *)
(* unless an operator has requeued one whose key was taken away            *)
(* (async_task, _reclaim_dead_task_key, the IntegrityError fallback).      *)
OneLivePerKey ==
  \A t, u \in Ids \ (revived \cap taken) : Born(t) /\ Born(u) /\ Live(t) /\ Live(u) => t = u

(* A caller that loses the race is answered with the winner: a keyed call  *)
(* fails only if the key was taken away from a task in the meantime.       *)
LosersAreAnswered ==
  \A c \in Callers : At(c, "failed") /\ Keyed(Kind(c)) => taken # {}

(* Work correlated to a graph carries the graph's subject, whenever it is  *)
(* bound (correlating, member_labels, _create_and_enqueue, bind_subject).  *)
SubjectsAgree ==
  \A t \in Ids : ToGraph(task[t].born) => task[t].subject = graph.subject

(* A caller is only answered with a task that will run: one with an        *)
(* attempt.  A deferred enqueue that dies between its two rows leaves a    *)
(* task nobody was told of (_enqueue_deferred, _existing_task_for_key).    *)
AnswersAreWhole ==
  \A c \in Callers : At(c, "done") /\ call[c].answer # None => task[call[c].answer].attempt

(* start(request_key=...) is idempotent: the same key returns the existing *)
(* graph.                                                                  *)
StartIsIdempotent == \A c \in Callers : Kind(c) = "start" => ~At(c, "failed")

(* Correlating work onto a terminal graph raises. *)
JoinsRunningGraphs ==
  [][\A t \in DOMAIN task' \ Ids : ToGraph(task'[t].born) => graph.status = "RUNNING"]_vars
=============================================================================
