---------------------------- MODULE PriorityLanes ----------------------------
(***************************************************************************)
(* Where an enqueue puts its message and who takes it from there: the      *)
(* choice of a lane and of the target cluster's broker, the construction   *)
(* of that broker under a patched Conf, and QraftOrmBroker's scan of the   *)
(* lanes with its compare-and-swap on the lock of each row.                *)
(*                                                                         *)
(* A lock is a version, bumped by each lease, and whether it has run out.  *)
(* A message may be sent again once its row is gone.                       *)
(***************************************************************************)
EXTENDS Integers, Sequences, FiniteSets

CONSTANTS
  Messages,   \* what callers may send
  Clusters,   \* cluster names
  Own,        \* the cluster the enqueuing process belongs to
  Draining,   \* clusters whose broker class is a QraftOrmBroker
  Requests,   \* what callers ask for: <<cluster, named, priority>>
  Callers,    \* threads of the enqueuing process
  Pushers,    \* cluster processes that dequeue
  Home,       \* Home[p]: the cluster that pusher p serves
  Bulk,       \* Conf.BULK
  MaxLeases   \* leases of one row

LanesAssumption ==
  /\ Own \in Clusters /\ Draining \subseteq Clusters
  /\ Requests \subseteq Clusters \X BOOLEAN \X {"high", "default", "low"}
  /\ Home \in [Pushers -> Clusters]
  /\ Bulk \in Nat \ {0} /\ MaxLeases \in Nat \ {0}

VARIABLES
  row,     \* OrmQ: the row of each message that has one
  conf,    \* the cluster whose values Conf holds
  cache,   \* _broker_cache: the queues a broker has been built for
  call,    \* how far each enqueue is
  scan,    \* how far each dequeue is
  astray,  \* history: messages routed while Conf held another's values
  early    \* history: rows ready when a scan began and not leased since

vars == <<row, conf, cache, call, scan, astray, early>>

Priorities == {"high", "default", "low"}

Gone == -1   \* the lock of a row that is no more

Idle == [at |-> "idle"]
Asleep == [lane |-> 0, batch |-> <<>>, got |-> {}, lost |-> FALSE]

Queued == DOMAIN row
Ready(m) == m \in Queued /\ row[m].ready

(* Mutant: the lanes are polled from the last to the first. *)
LanesBackwards(c) ==
  IF c \in Draining THEN <<"low", "default", "high">> ELSE <<"default">>

(* The lanes a cluster's broker polls, in order (QraftOrmBroker.dequeue).  *)
Lanes(c) == IF c \in Draining THEN <<"high", "default", "low">> ELSE <<"default">>

Rank(lane) == CASE lane = "high" -> 1 [] lane = "default" -> 2 [] lane = "low" -> 3

TypeOK ==
  /\ Queued \subseteq Messages
  /\ \A m \in Queued :
       row[m] \in [cluster: Clusters, lane: Priorities, version: 0..MaxLeases, ready: BOOLEAN]
  /\ conf \in Clusters
  /\ cache \subseteq Clusters \X Priorities
  /\ \A t \in Callers : call[t].at \in {"idle", "routed", "building"}
  /\ \A p \in Pushers :
       /\ scan[p].lane \in 0..Len(Lanes(Home[p]))
       /\ scan[p].got \subseteq Messages /\ scan[p].lost \in BOOLEAN
  /\ astray \subseteq Messages
  /\ early \in [Pushers -> SUBSET Messages]

Init ==
  /\ row = <<>> /\ conf = Own /\ cache = {}
  /\ call = [t \in Callers |-> Idle]
  /\ scan = [p \in Pushers |-> Asleep]
  /\ astray = {} /\ early = [p \in Pushers |-> {}]
-----------------------------------------------------------------------------
(* Mutant: the enqueuing process's own configuration decides. *)
DrainsOwn(cluster, named) == conf \in Draining

(* priority_lanes_available: a named cluster is resolved from the settings, *)
(* the process's own from Conf as it is at the moment.                     *)
Drains(cluster, named) == IF named THEN cluster \in Draining ELSE conf \in Draining

(* priority_list_key. *)
LaneFor(cluster, named, priority) ==
  IF Drains(cluster, named) THEN priority ELSE "default"

Free(m) == m \notin Queued /\ \A t \in Callers : call[t].at # "idle" => call[t].message # m

Patched == \E t \in Callers : call[t].at = "building"

(* broker_for_cluster picks the lane.  `named` is false for cluster=None.  *)
Route(t, m, cluster, named, priority) ==
  /\ call[t] = Idle /\ Free(m)
  /\ named \/ cluster = Own
  /\ call' = [call EXCEPT ![t] = [at |-> "routed", message |-> m, cluster |-> cluster,
                                  lane |-> LaneFor(cluster, named, priority)]]
  /\ astray' = IF ~named /\ Patched THEN astray \cup {m} ELSE astray \ {m}
  /\ UNCHANGED <<row, conf, cache, scan, early>>

BrokerOf(t) == <<call[t].cluster, call[t].lane>>

(* _build_broker patches Conf, one thread at a time ...                    *)
Build(t) ==
  /\ call[t].at = "routed" /\ BrokerOf(t) \notin cache
  /\ ~Patched
  /\ call' = [call EXCEPT ![t].at = "building"]
  /\ conf' = call[t].cluster
  /\ UNCHANGED <<row, cache, scan, astray, early>>

(* Mutant: Conf keeps the values of the last construction. *)
RestoredNever == conf

(* What Conf is afterwards. *)
Restored == Own

(* ... and puts it back.                                                   *)
Built(t) ==
  /\ call[t].at = "building"
  /\ call' = [call EXCEPT ![t].at = "routed"]
  /\ cache' = cache \cup {BrokerOf(t)}
  /\ conf' = Restored
  /\ UNCHANGED <<row, scan, astray, early>>

(* The broker stores the message with a lock in the past. *)
Put(t) ==
  /\ call[t].at = "routed" /\ BrokerOf(t) \in cache
  /\ LET m == call[t].message IN
     row' = [n \in Queued \cup {m} |->
               IF n = m THEN [cluster |-> call[t].cluster, lane |-> call[t].lane,
                              version |-> 0, ready |-> TRUE]
               ELSE row[n]]
  /\ call' = [call EXCEPT ![t] = Idle]
  /\ UNCHANGED <<conf, cache, scan, astray, early>>

(* A settings change drops the brokers built so far (reset_broker_cache);  *)
(* it waits for a construction to end.                                     *)
ResetCache ==
  /\ cache # {} /\ \A t \in Callers : call[t].at = "idle"
  /\ cache' = {}
  /\ UNCHANGED <<row, conf, call, scan, astray, early>>
-----------------------------------------------------------------------------
InLane(c, lane) == {m \in Queued : row[m].cluster = c /\ row[m].lane = lane}
ReadyIn(c, lane) == {m \in InLane(c, lane) : row[m].ready}

LaneAt(p, i) == Lanes(Home[p])[i]

Batches(p, i) ==
  LET ready == ReadyIn(Home[p], LaneAt(p, i))
  IN {S \in SUBSET ready : Cardinality(S) = IF Cardinality(ready) < Bulk
                                            THEN Cardinality(ready) ELSE Bulk}

(* Mutant: a lane with nothing in it ends the dequeue. *)
NextLaneNone(p, i) == 0

(* The lane after the i-th; 0 ends the dequeue. *)
NextLane(p, i) == IF i < Len(Lanes(Home[p])) THEN i + 1 ELSE 0

Moved(p, i) == IF i = 0 THEN Asleep ELSE [scan[p] EXCEPT !.lane = i, !.batch = <<>>]

(* The pusher reads up to Bulk rows of a lane whose lock has run out; an   *)
(* empty lane sends it to the next.                                        *)
Look(p, i) ==
  /\ i = IF scan[p].lane = 0 THEN 1 ELSE scan[p].lane
  /\ scan[p].batch = <<>>
  /\ \E S \in Batches(p, i) :
       scan' = [scan EXCEPT ![p] =
                  IF S = {} THEN Moved(p, NextLane(p, i))
                  ELSE [@ EXCEPT !.lane = i, !.batch = [m \in S |-> row[m].version]]]
  /\ early' = [early EXCEPT ![p] = IF scan'[p].lane = 0 THEN {}
                                   ELSE IF scan[p].lane = 0 THEN {m \in Queued : Ready(m)}
                                   ELSE @]
  /\ UNCHANGED <<row, conf, cache, call, astray>>

(* Mutant: the update is not filtered on the lock. *)
SameLockAny(p, m) == m \in Queued

(* The row still has the lock the pusher read. *)
SameLock(p, m) == m \in Queued /\ row[m].version = scan[p].batch[m]

(* After a batch that got something the dequeue is over; a batch lost      *)
(* entirely sends the pusher to the next lane.                             *)
After(p, rest, got, lost) ==
  IF rest # <<>> THEN [scan[p] EXCEPT !.batch = rest, !.got = got, !.lost = lost]
  ELSE IF got # {} THEN Asleep
  ELSE [Moved(p, NextLane(p, scan[p].lane)) EXCEPT !.lost = NextLane(p, scan[p].lane) # 0]

(* It takes each row of the batch by a conditional update of the lock. *)
Lease(p, m) ==
  /\ m \in DOMAIN scan[p].batch
  /\ LET rest == [n \in DOMAIN scan[p].batch \ {m} |-> scan[p].batch[n]] IN
     IF SameLock(p, m)
     THEN /\ row' = [row EXCEPT ![m].version = @ + 1, ![m].ready = FALSE]
          /\ scan' = [scan EXCEPT ![p] = After(p, rest, scan[p].got \cup {m}, scan[p].lost)]
          /\ early' = [q \in Pushers |-> IF scan'[q].lane = 0 THEN {} ELSE early[q] \ {m}]
     ELSE /\ scan' = [scan EXCEPT ![p] = After(p, rest, scan[p].got, TRUE)]
          /\ early' = [early EXCEPT ![p] = IF scan'[p].lane = 0 THEN {} ELSE @]
          /\ UNCHANGED row
  /\ UNCHANGED <<conf, cache, call, astray>>

(* The worker is done and the monitor acknowledges: the row goes, and no   *)
(* later row has its id.                                                   *)
Acknowledge(m) ==
  /\ m \in Queued /\ row[m].version > 0
  /\ row' = [n \in Queued \ {m} |-> row[n]]
  /\ early' = [q \in Pushers |-> early[q] \ {m}]
  /\ scan' = [q \in Pushers |->
                [scan[q] EXCEPT !.batch = [n \in DOMAIN @ |-> IF n = m THEN Gone ELSE @[n]]]]
  /\ UNCHANGED <<conf, cache, call, astray>>

(* The lock runs out before that and the row is ready again. *)
Lapse(m) ==
  /\ m \in Queued /\ ~row[m].ready /\ row[m].version < MaxLeases
  /\ row' = [row EXCEPT ![m].ready = TRUE]
  /\ UNCHANGED <<conf, cache, call, scan, astray, early>>
-----------------------------------------------------------------------------
Caller(t) ==
  \/ \E m \in Messages, r \in Requests : Route(t, m, r[1], r[2], r[3])
  \/ Build(t) \/ Built(t) \/ Put(t)
Pusher(p) ==
  \/ \E i \in 1..3 : Look(p, i)
  \/ \E m \in Messages : Lease(p, m)

Next ==
  \/ \E t \in Callers : Caller(t)
  \/ \E p \in Pushers : Pusher(p)
  \/ \E m \in Messages : Acknowledge(m) \/ Lapse(m)
  \/ ResetCache

Spec == Init /\ [][Next]_vars

(* Pushers poll, and an enqueue that has begun is carried through. *)
Fairness ==
  /\ \A p \in Pushers : WF_vars(Pusher(p))
  /\ \A t \in Callers : WF_vars(Build(t) \/ Built(t) \/ Put(t))

FairSpec == Spec /\ Fairness
-----------------------------------------------------------------------------
(* Properties.                                                             *)

(* Pollers that read the same row do not both take it: a row is leased     *)
(* only when its lock has run out (QraftOrmBroker.dequeue).                *)
LeasedWhenReady ==
  [][\A m \in Queued : m \in DOMAIN row' /\ row'[m].version # row[m].version
                       => row[m].ready /\ row'[m].version = row[m].version + 1]_vars

LeasesNow(p, m) ==
  /\ m \in DOMAIN scan[p].batch /\ scan'[p] # scan[p]
  /\ m \in Queued /\ m \in DOMAIN row' /\ row'[m].version # row[m].version

Polls(p, lane) == \E i \in DOMAIN Lanes(Home[p]) : LaneAt(p, i) = lane

Passed(p, m) ==
  {n \in early[p] : /\ Ready(n) /\ row[n].cluster = Home[p]
                    /\ Polls(p, row[n].lane) /\ Rank(row[n].lane) < Rank(row[m].lane)}

(* A lower lane is served past a row of a higher one only by a poller that *)
(* lost a race for the higher lane in this dequeue.                        *)
ServedInOrder ==
  \A p \in Pushers, m \in Messages :
    LeasesNow(p, m) /\ scan[p] # Asleep /\ Passed(p, m) # {} => scan[p].lost
LanesInOrder == [][ServedInOrder]_vars

(* A lane is touched only when every lane ahead of it is empty (the module *)
(* docstring of brokers.py).                                               *)
StrictlyInOrder ==
  [][\A p \in Pushers, m \in Messages : LeasesNow(p, m) => Passed(p, m) = {}]_vars

(* No message waits in a lane nobody drains, but for one routed by         *)
(* cluster=None while another thread had Conf patched (priority_list_key,  *)
(* _build_broker).                                                         *)
EveryLaneIsDrained ==
  \A m \in Queued \ astray : row[m].lane = "default" \/ row[m].cluster \in Draining

(* A message somebody should take; other work of its cluster in its lane   *)
(* or one ahead of it.                                                     *)
Waits(m) == m \notin astray /\ Ready(m) /\ \E p \in Pushers : Home[p] = row[m].cluster
Ahead(m) ==
  \E n \in Queued \ {m} :
    row[n].cluster = row[m].cluster /\ Rank(row[n].lane) <= Rank(row[m].lane)

(* A waiting message is leased, unless traffic in its lane or ahead of it  *)
(* keeps coming back: the default and low lanes starve only by load.       *)
LanesDrain ==
  \A m \in Messages : Waits(m) ~> ~Waits(m) \/ Ahead(m)
=============================================================================
