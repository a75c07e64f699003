------------------------------ MODULE MCAlive ------------------------------
(* The TLC instance of Alive: two workers, with the ORM broker and two     *)
(* dispatchers, or with another broker after an upgrade; a task with two   *)
(* attempts, a graph of two nodes, and the reapers of two clusters.        *)
EXTENDS Alive

Kinds == {[inDatabase |-> TRUE, legacy |-> FALSE], [inDatabase |-> FALSE, legacy |-> TRUE]}
OneEdge == {<<1, 2>>}
=============================================================================
