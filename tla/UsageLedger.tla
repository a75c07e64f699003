---------------------------- MODULE UsageLedger ----------------------------
(***************************************************************************)
(* What model calls cost: record_usage prices each call as it is recorded  *)
(* (pricing.usage_entry, context._merge_usage), and every reader adds the  *)
(* entries up again (pricing.cost, context._sum_usage), over one attempt,  *)
(* a task, a workflow, a graph or a subject.  The price table changes, and *)
(* each process keeps the one it first used (get_resolver, lru_cache).     *)
(* There is one model, with one rate; a table may not know it.  Money is   *)
(* an integer, Decimal being exact.                                        *)
(***************************************************************************)
EXTENDS Integers, Sequences, FiniteSetsExt, SequencesExt

CONSTANTS
  Attempts,   \* attempts that record usage
  Tasks,      \* their tasks
  TaskOf,     \* TaskOf[a]: the task of attempt a
  Processes,  \* workers, and processes that report
  Rates,      \* rates the model may have in a table
  Counts,     \* token counts a call may report
  Costs,      \* costs a caller may report
  MaxCalls    \* bound: calls recorded

None == -1  \* a price, a cost or a count that is not a number

LedgerAssumption ==
  /\ IsFiniteSet(Attempts) /\ IsFiniteSet(Tasks)
  /\ TaskOf \in [Attempts -> Tasks]
  /\ Rates \subseteq Nat /\ Counts \subseteq Nat \cup {None}
  /\ Costs \subseteq Nat /\ MaxCalls \in Nat

VARIABLES
  table,   \* the rate in QRAFT_PRICING
  cached,  \* the rate each process goes by
  usage,   \* QraftTaskAttempt.usage
  calls,   \* calls recorded so far
  billed,  \* history: amounts known when their call was recorded
  open,    \* history: tokens recorded without a price
  unnamed  \* history: attempts with a cost that names no model

vars == <<table, cached, usage, calls, billed, open, unnamed>>

Rate == Rates \cup {None}
Empty == [tokens |-> 0, cost |-> None, entries |-> <<>>]

TypeOK ==
  /\ table \in Rate /\ cached \in [Processes -> Rate]
  /\ \A a \in Attempts :
       /\ usage[a].tokens \in Nat \cup {None}
       /\ usage[a].cost \in Nat \cup {None}
       /\ Len(usage[a].entries) <= calls
       /\ \A i \in DOMAIN usage[a].entries :
            usage[a].entries[i].source \in {"caller", "resolver", "none"}
  /\ calls \in 0..MaxCalls
  /\ billed \in [Attempts -> Nat] /\ open \in [Attempts -> Nat]
  /\ unnamed \subseteq Attempts

Init ==
  /\ table \in Rate
  /\ cached = [p \in Processes |-> table]
  /\ usage = [a \in Attempts |-> Empty]
  /\ calls = 0
  /\ billed = [a \in Attempts |-> 0] /\ open = [a \in Attempts |-> 0]
  /\ unnamed = {}
-----------------------------------------------------------------------------
(* Recording.                                                              *)

OrZero(n) == IF n = None THEN 0 ELSE n
Priced(n, rate) == IF rate = None THEN None ELSE OrZero(n) * rate

(* Mutant: the table goes before the caller. *)
EntryByTable(n, cost, rate) ==
  IF rate # None
  THEN [tokens |-> n, amount |-> Priced(n, rate), source |-> "resolver"]
  ELSE [tokens |-> n, amount |-> cost, source |-> IF cost = None THEN "none" ELSE "caller"]

(* usage_entry: the caller's cost, else the table's, else none. *)
Entry(n, cost, rate) ==
  IF cost # None
  THEN [tokens |-> n, amount |-> cost, source |-> "caller"]
  ELSE [tokens |-> n, amount |-> Priced(n, rate),
        source |-> IF rate = None THEN "none" ELSE "resolver"]

(* Numbers add up, anything else is replaced by the latest value.          *)
Accumulated(m, n) == IF m = None \/ n = None THEN n ELSE m + n
Total(m, n) == IF m = None THEN n ELSE IF n = None THEN m ELSE m + n

(* record_usage of a call that names the model, in process p. *)
Record(a, p, n, cost) ==
  LET entry == Entry(n, cost, cached[p]) IN
  /\ calls < MaxCalls
  /\ calls' = calls + 1
  /\ usage' = [usage EXCEPT ![a] =
       [tokens |-> Accumulated(@.tokens, n), cost |-> Total(@.cost, cost),
        entries |-> Append(@.entries, entry)]]
  /\ billed' = [billed EXCEPT
       ![a] = @ + OrZero(IF cost # None THEN cost ELSE Priced(n, cached[p]))]
  /\ open' = [open EXCEPT
       ![a] = @ + IF cost = None /\ cached[p] = None THEN OrZero(n) ELSE 0]
  /\ UNCHANGED <<table, cached, unnamed>>

(* And of one that does not, as before there were entries. *)
RecordUnnamed(a, cost) ==
  /\ calls < MaxCalls
  /\ calls' = calls + 1
  /\ usage' = [usage EXCEPT ![a].cost = Total(@, cost)]
  /\ unnamed' = unnamed \cup {a}
  /\ UNCHANGED <<table, cached, billed, open>>
-----------------------------------------------------------------------------
(* Reading: pricing.cost, by a process that goes by `rate`.                *)

(* Mutant: the reader prices what the table priced before. *)
RepricedAmount(entry, rate) ==
  IF entry.source = "caller" THEN entry.amount ELSE Priced(entry.tokens, rate)

(* What was priced stands; what was not is priced now, if it can be. *)
AmountOf(entry, rate) ==
  IF entry.amount # None THEN entry.amount ELSE Priced(entry.tokens, rate)

(* Mutant: an entry without a price does not count against the coverage. *)
UncoveredNever(entry, rate) == FALSE

Uncovered(entry, rate) == AmountOf(entry, rate) = None /\ OrZero(entry.tokens) > 0

(* A usage without entries has the caller's cost, if it has one.           *)
Amount(u, rate) ==
  IF u.entries = <<>> THEN OrZero(u.cost)
  ELSE FoldLeft(LAMBDA sum, e : sum + OrZero(AmountOf(e, rate)), 0, u.entries)

Costed(u, rate) ==
  IF u.entries = <<>> THEN u.cost # None
  ELSE \E i \in DOMAIN u.entries : AmountOf(u.entries[i], rate) # None

Coverage(u, rate) ==
  IF ~Costed(u, rate) THEN "none"
  ELSE IF \E i \in DOMAIN u.entries : Uncovered(u.entries[i], rate) THEN "partial"
  ELSE "complete"

(* Mutant: a price found at read time is not marked. *)
EstimatedAtRecording(u, rate) ==
  \/ ~Costed(u, rate)
  \/ \E i \in DOMAIN u.entries : u.entries[i].source = "resolver"

Estimated(u, rate) ==
  \/ ~Costed(u, rate)
  \/ \E i \in DOMAIN u.entries :
       AmountOf(u.entries[i], rate) # None /\ u.entries[i].source # "caller"
-----------------------------------------------------------------------------
(* Aggregating: context._sum_usage.                                        *)

Raises == -2  \* TypeError
Plus(m, n) ==
  IF m = Raises \/ (m = None /\ n # None) THEN Raises
  ELSE IF n = None THEN None ELSE m + n

(* Mutant: the summary is stored in the caller's own total. *)
MergedIntoCost(sum, u) ==
  [tokens |-> Plus(sum.tokens, u.tokens),
   cost |-> Total(Total(sum.cost, u.cost), Amount(u, None)),
   entries |-> sum.entries \o u.entries]

Merged(sum, u) ==
  [tokens |-> Plus(sum.tokens, u.tokens), cost |-> Total(sum.cost, u.cost),
   entries |-> sum.entries \o u.entries]

(* Rows that have no usage are passed over. *)
Added(sum, u) == IF u = Empty THEN sum ELSE Merged(sum, u)
SumUsage(us) == FoldLeft(Added, Empty, us)

RowsOf(as) == [i \in DOMAIN SetToSeq(as) |-> usage[SetToSeq(as)[i]]]

(* aggregate_usage of a task, aggregate_workflow_usage of the tasks, and   *)
(* aggregate_graph_usage and aggregate_subject_usage, straight over rows.  *)
TaskUsage(t) == SumUsage(RowsOf({a \in Attempts : TaskOf[a] = t}))
WorkflowUsage == SumUsage([i \in DOMAIN SetToSeq(Tasks) |-> TaskUsage(SetToSeq(Tasks)[i])])
FlatUsage == SumUsage(RowsOf(Attempts))
-----------------------------------------------------------------------------
(* A new table is deployed; a process goes by it once it has restarted.    *)
Deploy(rate) ==
  /\ table' = rate
  /\ UNCHANGED <<cached, usage, calls, billed, open, unnamed>>

Restart(p) ==
  /\ cached' = [cached EXCEPT ![p] = table]
  /\ UNCHANGED <<table, usage, calls, billed, open, unnamed>>

Next ==
  \/ \E a \in Attempts, p \in Processes, n \in Counts, cost \in Costs \cup {None} :
       Record(a, p, n, cost)
  \/ \E a \in Attempts, cost \in Costs : RecordUnnamed(a, cost)
  \/ \E rate \in Rate : Deploy(rate)
  \/ \E p \in Processes : Restart(p)

Spec == Init /\ [][Next]_vars
-----------------------------------------------------------------------------
(* Properties.                                                             *)

(* What was known when a call was recorded is what every reader reports    *)
(* for it, whichever table it goes by: a later table prices only the       *)
(* tokens nobody had priced (docs/ai-workloads.md:239).                    *)
BilledStands ==
  \A a \in Attempts \ unnamed, r \in Rate :
    Amount(usage[a], r) = billed[a] + OrZero(Priced(open[a], r))

(* A complete coverage leaves no recorded token without a price, and a     *)
(* partial one has some (pricing.CostSummary).                             *)
CoverageIsTrue ==
  \A a \in Attempts, r \in Rate :
    LET missing == open[a] > 0 /\ r = None IN
    /\ Coverage(usage[a], r) = "complete" => ~missing
    /\ Coverage(usage[a], r) = "partial" => missing

(* An amount that is not marked as estimated is the callers' own, all of   *)
(* it: the running total kept beside it, unless some of that names no      *)
(* model (pricing.CostSummary).                                            *)
UnestimatedIsBilled ==
  \A a \in Attempts, r \in Rate :
    ~Estimated(usage[a], r) =>
      \/ Amount(usage[a], r) = usage[a].cost
      \/ a \in unnamed /\ usage[a].entries # <<>>

(* A workflow's usage, added up task by task, is that of its attempts      *)
(* taken together, in its totals and under every reader's table, and its   *)
(* cost stays the callers' own total (aggregate_workflow_usage).           *)
NestedIsFlat ==
  /\ WorkflowUsage.tokens = FlatUsage.tokens
  /\ WorkflowUsage.cost = FlatUsage.cost
  /\ \A r \in Rate : /\ Amount(WorkflowUsage, r) = Amount(FlatUsage, r)
                     /\ Coverage(WorkflowUsage, r) = Coverage(FlatUsage, r)

(* What context._sum_usage says of itself: the latest non-numeric value    *)
(* wins.  A number after one raises TypeError instead, in the settlement   *)
(* of the graph as well (graphs.build_summary).                            *)
AggregatesExist == FlatUsage.tokens # Raises
=============================================================================
