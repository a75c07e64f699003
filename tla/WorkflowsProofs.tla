---------------------------- MODULE WorkflowsProofs ----------------------------
(***************************************************************************)
(* An iteration or batch counts each member once and ends as its members   *)
(* did, for any number of members, requeues, monitors and crashes; beside  *)
(* it the chain keeps its contract, and what was cancelled counts no more. *)
(*                                                                         *)
(* What makes the counters right is that a completion is counted under the *)
(* flag of its own attempt; what makes them mean something is the shape of *)
(* a member's series: only a failure is followed by another attempt, so    *)
(* each member has at most one success, and as many successes as members   *)
(* are a success of every member.  That nothing is stranded rests on an    *)
(* account of every routed completion: it was counted, or superseded, or   *)
(* the workflow was cancelled.                                             *)
(***************************************************************************)
EXTENDS Workflows, FiniteSetTheorems, FunctionTheorems, TLAPS

(* Nobody has the workflow's id before run().                              *)
RunsFirst == Shared = FALSE

ProcState == {Idle} \cup [pc: {"handle", "count", "hook", "mark"}, of: Completion]

Typed ==
  /\ status \in Status /\ settled \in BOOLEAN
  /\ tally \in [completed: Nat, success: Nat, failure: Nat]
  /\ out \in [Completion -> {"none", "open", "ok", "fail"}]
  /\ counted \subseteq Completion /\ routed \subseteq Completion
  /\ proc \in [Routers -> ProcState]
  /\ fired \subseteq {"success", "failure", "cancelled"}
  /\ faults \in 0..MaxFaults

(* Only a failure is followed by another attempt.                          *)
SeriesInv ==
  \A m \in Members : \A r, q \in Run :
    r < q /\ out[<<m, r>>] # "fail" => out[<<m, q>>] = "none"

BegunInv ==
  /\ Started => \A m \in Members : \E r \in Run : IsNewest(<<m, r>>)
  /\ ~Started => status = "PENDING" /\ ~settled

(* What is handled, counted or routed has its outcome.                     *)
OutcomeInv ==
  /\ \A c \in counted \cup routed : Resolved(c)
  /\ \A p \in Routers : proc[p].pc # "idle" => Resolved(proc[p].of)

(* Where a completion that is through with its handler has gone.           *)
Accounted(c) == c \in counted \/ status = "CANCELLED" \/ ~IsNewest(c)
AccountInv ==
  /\ \A c \in routed : Accounted(c)
  /\ \A p \in Routers : proc[p].pc \in {"hook", "mark"} => Accounted(proc[p].of)

(* How far the count is in each status, and which hook it has.             *)
FinalInv ==
  /\ settled <=> status \in Terminal
  /\ status = "RUNNING" => Cardinality(counted) < Total
  /\ status \in {"SUCCEEDED", "FAILED"} => Total <= Cardinality(counted)
  /\ \A p \in Routers : proc[p].pc = "hook" => status \in {"SUCCEEDED", "FAILED"}
  /\ status \in {"PENDING", "RUNNING"} => fired = {}
  /\ status = "SUCCEEDED" => fired \subseteq {"success"}
  /\ status = "FAILED" => fired \subseteq {"failure"}
  /\ status = "CANCELLED" => fired = {"cancelled"}

Inv ==
  /\ Typed /\ SeriesInv /\ BegunInv /\ OutcomeInv /\ AccountInv
  /\ CountersMatch /\ FinalInv /\ SucceededMeansAll
-----------------------------------------------------------------------------
(* Counting completions and members.                                       *)

LEMMA Sizes ==
  ASSUME ParallelAssumption
  PROVE  /\ IsFiniteSet(Members) /\ Total \in Nat /\ Total # 0
         /\ IsFiniteSet(Completion) /\ Cardinality(Completion) = Total * MaxRuns
<1>1. IsFiniteSet(Members) /\ Total \in Nat /\ Total # 0
  BY FS_CardinalityType, FS_EmptySet DEF ParallelAssumption, Total
<1>2. IsFiniteSet(Run) /\ Cardinality(Run) = MaxRuns
  BY FS_Interval DEF Run, ParallelAssumption
<1> QED
  BY <1>1, <1>2, FS_Product DEF Completion, Total

LEMMA SubsetSizes ==
  ASSUME ParallelAssumption, NEW S \in SUBSET Completion
  PROVE  IsFiniteSet(S) /\ Cardinality(S) \in Nat /\ Cardinality(S) <= Total * MaxRuns
BY Sizes, FS_Subset, FS_CardinalityType

(* Completions of different members are no more than the members, and      *)
(* if they are as many they are a completion of every member.              *)
LEMMA OneOfEach ==
  ASSUME ParallelAssumption, NEW S \in SUBSET Completion,
         \A c, d \in S : c[1] = d[1] => c = d
  PROVE  /\ Cardinality(S) <= Total
         /\ Total <= Cardinality(S) => \A m \in Members : \E r \in Run : <<m, r>> \in S
<1> DEFINE f == [c \in S |-> c[1]]
<1>1. f \in [S -> Members]
  BY DEF Completion
<1>2. f \in Injection(S, Members)
  BY <1>1, Fun_IsInj
<1>3. /\ Cardinality(S) <= Total
      /\ Cardinality(S) = Total <=> f \in Surjection(S, Members)
  BY <1>2, Sizes, FS_Injection DEF Total
<1>4. ASSUME Total <= Cardinality(S), NEW m \in Members
      PROVE  \E r \in Run : <<m, r>> \in S
  <2>1. f \in Surjection(S, Members)
    BY <1>3, <1>4, Sizes, SubsetSizes
  <2>2. PICK c \in S : f[c] = m
    BY <2>1, Fun_SurjectionProperties
  <2> QED
    BY <2>2 DEF Completion
<1> QED
  BY <1>3, <1>4

(* With a completion of every member in it, a set is as large as Members.  *)
LEMMA AllOfThem ==
  ASSUME ParallelAssumption, NEW S \in SUBSET Completion,
         \A m \in Members : \E r \in Run : <<m, r>> \in S
  PROVE  Total <= Cardinality(S)
<1> DEFINE g == [m \in Members |-> <<m, CHOOSE r \in Run : <<m, r>> \in S>>]
<1>1. g \in [Members -> S] /\ \A m \in Members : g[m][1] = m
  OBVIOUS
<1>2. g \in Injection(Members, S)
  <2> HIDE DEF g
  <2> QED
    BY <1>1, Fun_IsInj
<1> QED
  BY <1>2, SubsetSizes, FS_Injection DEF Total

(* Each member succeeds at most once.                                      *)
LEMMA OneSuccess ==
  ASSUME ParallelAssumption, SeriesInv, NEW S \in SUBSET Completion,
         \A c \in S : out[c] = "ok"
  PROVE  \A c, d \in S : c[1] = d[1] => c = d
<1> SUFFICES ASSUME NEW c \in S, NEW d \in S, c[1] = d[1]
             PROVE  c = d
  OBVIOUS
<1>1. PICK m \in Members, r \in Run, q \in Run : c = <<m, r>> /\ d = <<m, q>>
  BY DEF Completion
<1>2. r \in Int /\ q \in Int
  BY DEF Run, ParallelAssumption
<1>3. ~(r < q) /\ ~(q < r)
  BY <1>1 DEF SeriesInv
<1> QED
  BY <1>1, <1>2, <1>3
-----------------------------------------------------------------------------
LEMMA Start ==
  ASSUME ParallelAssumption, Init
  PROVE  Inv
<1>1. Typed
  <2>1. /\ out \in [Completion -> {"none", "open", "ok", "fail"}]
        /\ proc \in [Routers -> ProcState]
    BY DEF Init, ProcState
  <2>2. tally \in [completed: Nat, success: Nat, failure: Nat]
    BY DEF Init
  <2>3. faults \in 0..MaxFaults
    BY DEF Init, ParallelAssumption
  <2> QED
    BY <2>1, <2>2, <2>3 DEF Init, Typed, Status
<1>2. SeriesInv /\ BegunInv /\ OutcomeInv /\ AccountInv
  <2>1. ~Started
    BY DEF Init, Started
  <2>2. \A m \in Members, r \in Run : out[<<m, r>>] = "none"
    BY DEF Init, Completion
  <2> QED
    BY <2>1, <2>2 DEF Init, SeriesInv, BegunInv, OutcomeInv, AccountInv, Idle
<1>3. CountersMatch
  <2>1. {c \in counted : out[c] = "ok"} = {} /\ {c \in counted : out[c] = "fail"} = {}
    BY DEF Init
  <2> QED
    BY <2>1, FS_EmptySet DEF Init, CountersMatch
<1>4. FinalInv /\ SucceededMeansAll
  BY DEF Init, FinalInv, SucceededMeansAll, Idle, Terminal
<1> QED
  BY <1>1, <1>2, <1>3, <1>4 DEF Inv
-----------------------------------------------------------------------------
(* Steps that move a router, or mark what it is through with.              *)
LEMMA ProcMoves ==
  ASSUME ParallelAssumption, Inv, NEW p \in Routers, NEW q \in ProcState,
         proc' = [proc EXCEPT ![p] = q], UNCHANGED <<workflow, out, fired>>,
         routed' \in SUBSET Completion, faults' \in 0..MaxFaults,
         \A c \in routed' \ routed : Resolved(c) /\ Accounted(c),
         q.pc # "idle" => Resolved(q.of),
         q.pc = "mark" => Accounted(q.of), q.pc # "hook"
  PROVE  Inv'
<1>1. Typed'
  BY DEF Inv, Typed, workflow
<1>2. SeriesInv' /\ BegunInv' /\ CountersMatch' /\ SucceededMeansAll'
  BY DEF Inv, workflow, SeriesInv, BegunInv, Started, IsNewest, CountersMatch, SucceededMeansAll
<1>3. /\ counted' = counted /\ out' = out /\ status' = status
      /\ \A x \in Routers : proc'[x] = IF x = p THEN q ELSE proc[x]
  BY DEF Inv, Typed, workflow
<1>4. OutcomeInv'
  BY <1>3 DEF Inv, OutcomeInv, Resolved
<1>5. AccountInv'
  BY <1>3 DEF Inv, AccountInv, Accounted, IsNewest
<1>6. FinalInv'
  BY DEF Inv, Typed, FinalInv, workflow
<1> QED
  BY <1>1, <1>2, <1>4, <1>5, <1>6 DEF Inv

LEMMA RouterMovesKeep ==
  ASSUME ParallelAssumption, Inv, NEW p \in Routers,
         \/ \E c \in Completion : Replay(p, c)
         \/ Handle(p) \/ MarkRouted(p) \/ Crash(p)
  PROVE  Inv'
<1>1. /\ proc[p] \in ProcState /\ proc \in [Routers -> ProcState]
      /\ routed \in SUBSET Completion /\ faults \in 0..MaxFaults
  BY DEF Inv, Typed
<1>2. proc[p].pc # "idle" =>
        /\ proc[p].of \in Completion /\ Resolved(proc[p].of)
        /\ \A pc \in {"handle", "count", "hook", "mark"} :
             [proc[p] EXCEPT !.pc = pc] = [pc |-> pc, of |-> proc[p].of]
  BY <1>1 DEF Inv, OutcomeInv, ProcState, Idle
<1>3. Idle \in ProcState /\ Idle.pc = "idle"
  BY DEF ProcState, Idle
<1>4. CASE \E c \in Completion : Replay(p, c)
  <2>1. PICK c \in Completion : Replay(p, c)
    BY <1>4
  <2> DEFINE q == [pc |-> "handle", of |-> c]
  <2>2. q \in ProcState
    BY DEF ProcState
  <2> QED
    BY <1>1, <2>1, <2>2, ProcMoves DEF Replay, Take, Unrouted
<1>5. CASE Handle(p)
  <2>1. PICK pc \in {"count", "mark"} :
          /\ MoveTo(p, pc) /\ (pc = "mark" => ~IsTerminal(proc[p].of))
          /\ UNCHANGED <<workflow, out, routed, fired, faults>>
          /\ proc[p].pc = "handle"
    BY <1>5 DEF Handle
  <2> DEFINE q == [pc |-> pc, of |-> proc[p].of]
  <2>2. q \in ProcState /\ proc' = [proc EXCEPT ![p] = q]
    BY <1>1, <1>2, <2>1 DEF ProcState, MoveTo
  <2>3. pc = "mark" => Accounted(proc[p].of)
    <3> SUFFICES ASSUME pc = "mark", IsNewest(proc[p].of)
                 PROVE  FALSE
      BY DEF Accounted
    <3>1. PICK m \in Members, r \in Run : proc[p].of = <<m, r>>
      BY <1>2, <2>1 DEF Completion
    <3>2. out[<<m, r>>] = "fail" /\ ~Dead(m)
      BY <1>2, <2>1, <3>1 DEF IsTerminal, Resolved
    <3> QED
      BY <3>1, <3>2 DEF Dead
  <2> QED
    BY <1>1, <1>2, <2>1, <2>2, <2>3, ProcMoves
<1>6. CASE MarkRouted(p)
  <2>1. Accounted(proc[p].of)
    BY <1>6 DEF MarkRouted, Inv, AccountInv
  <2>2. routed' \in SUBSET Completion /\ proc' = [proc EXCEPT ![p] = Idle]
    BY <1>1, <1>2, <1>6 DEF MarkRouted, Release
  <2> QED
    BY <1>1, <1>2, <1>3, <1>6, <2>1, <2>2, ProcMoves DEF MarkRouted
<1>7. CASE Crash(p)
  <2>1. faults' \in 0..MaxFaults
    BY <1>1, <1>7 DEF Crash, ParallelAssumption
  <2> QED
    BY <1>1, <1>3, <1>7, <2>1, ProcMoves DEF Crash, Release
<1> QED
  BY <1>4, <1>5, <1>6, <1>7
-----------------------------------------------------------------------------
(* Counting, settling and telling.                                         *)

LEMMA AddingOne ==
  ASSUME ParallelAssumption, Inv, NEW c \in Completion, c \notin counted, Resolved(c),
         NEW t, t = Added(tally, out[c])
  PROVE  LET S == counted \cup {c} IN
         /\ t \in [completed: Nat, success: Nat, failure: Nat]
         /\ t.completed = Cardinality(S)
         /\ t.success = Cardinality({x \in S : out[x] = "ok"})
         /\ t.failure = Cardinality({x \in S : out[x] = "fail"})
<1> DEFINE S == counted \cup {c}
           Ok == {x \in counted : out[x] = "ok"}
           Fail == {x \in counted : out[x] = "fail"}
<1>1. counted \in SUBSET Completion /\ Ok \in SUBSET Completion /\ Fail \in SUBSET Completion
  BY DEF Inv, Typed
<1>2. /\ IsFiniteSet(counted) /\ IsFiniteSet(Ok) /\ IsFiniteSet(Fail)
      /\ Cardinality(counted) \in Nat /\ Cardinality(Ok) \in Nat /\ Cardinality(Fail) \in Nat
  BY <1>1, SubsetSizes
<1>3. Cardinality(S) = Cardinality(counted) + 1
  BY <1>2, FS_AddElement
<1>4. /\ tally.completed = Cardinality(counted)
      /\ tally.success = Cardinality(Ok) /\ tally.failure = Cardinality(Fail)
  BY DEF Inv, CountersMatch
<1>5. CASE out[c] = "ok"
  <2>1. {x \in S : out[x] = "ok"} = Ok \cup {c} /\ {x \in S : out[x] = "fail"} = Fail
    BY <1>5
  <2>2. Cardinality(Ok \cup {c}) = Cardinality(Ok) + 1
    BY <1>2, FS_AddElement
  <2>3. t = [completed |-> tally.completed + 1, success |-> tally.success + 1,
             failure |-> tally.failure + 0]
    BY <1>5 DEF Added
  <2>4. t \in [completed: Nat, success: Nat, failure: Nat]
    BY <1>2, <1>4, <2>3
  <2>5. /\ t.completed = Cardinality(S)
        /\ t.success = Cardinality({x \in S : out[x] = "ok"})
        /\ t.failure = Cardinality({x \in S : out[x] = "fail"})
    <3>1. /\ Cardinality({x \in S : out[x] = "ok"}) = Cardinality(Ok) + 1
          /\ Cardinality({x \in S : out[x] = "fail"}) = Cardinality(Fail)
      BY <2>1, <2>2
    <3>2. /\ t.completed = Cardinality(counted) + 1
          /\ t.success = Cardinality(Ok) + 1 /\ t.failure = Cardinality(Fail)
      BY <1>2, <1>4, <2>3
    <3> QED
      BY <1>3, <3>1, <3>2
  <2> QED
    BY <2>4, <2>5
<1>6. CASE out[c] = "fail"
  <2>1. {x \in S : out[x] = "fail"} = Fail \cup {c} /\ {x \in S : out[x] = "ok"} = Ok
    BY <1>6
  <2>2. Cardinality(Fail \cup {c}) = Cardinality(Fail) + 1
    BY <1>2, FS_AddElement
  <2>3. t = [completed |-> tally.completed + 1, success |-> tally.success + 0,
             failure |-> tally.failure + 1]
    BY <1>6 DEF Added
  <2>4. t \in [completed: Nat, success: Nat, failure: Nat]
    BY <1>2, <1>4, <2>3
  <2>5. /\ t.completed = Cardinality(S)
        /\ t.success = Cardinality({x \in S : out[x] = "ok"})
        /\ t.failure = Cardinality({x \in S : out[x] = "fail"})
    <3>1. /\ Cardinality({x \in S : out[x] = "ok"}) = Cardinality(Ok)
          /\ Cardinality({x \in S : out[x] = "fail"}) = Cardinality(Fail) + 1
      BY <2>1, <2>2
    <3>2. /\ t.completed = Cardinality(counted) + 1
          /\ t.success = Cardinality(Ok) /\ t.failure = Cardinality(Fail) + 1
      BY <1>2, <1>4, <2>3
    <3> QED
      BY <1>3, <3>1, <3>2
  <2> QED
    BY <2>4, <2>5
<1> QED
  BY <1>5, <1>6 DEF Resolved

(* As many successes as members are a success of every member.             *)
LEMMA AllSucceeded ==
  ASSUME ParallelAssumption, SeriesInv, NEW S \in SUBSET Completion,
         \A c \in S : out[c] \in {"ok", "fail"}, Total <= Cardinality(S),
         Cardinality({c \in S : out[c] = "fail"}) = 0
  PROVE  \A m \in Members : \E r \in Run : out[<<m, r>>] = "ok"
<1>1. {c \in S : out[c] = "fail"} \in SUBSET Completion
  OBVIOUS
<1>2. {c \in S : out[c] = "fail"} = {}
  BY <1>1, SubsetSizes, FS_EmptySet
<1>3. \A c \in S : out[c] = "ok"
  BY <1>2
<1>4. \A m \in Members : \E r \in Run : <<m, r>> \in S
  BY <1>3, OneSuccess, OneOfEach
<1> QED
  BY <1>3, <1>4

LEMMA CountKeeps ==
  ASSUME ParallelAssumption, Inv, NEW p \in Routers, Count(p)
  PROVE  Inv'
<1> DEFINE c == proc[p].of
           t == Added(tally, out[c])
<1>1. /\ proc[p] \in ProcState /\ proc \in [Routers -> ProcState] /\ proc[p].pc = "count"
      /\ routed \in SUBSET Completion /\ faults \in 0..MaxFaults /\ counted \in SUBSET Completion
  BY DEF Inv, Typed, Count
<1>2. /\ c \in Completion /\ Resolved(c)
      /\ \A pc \in {"handle", "count", "hook", "mark"} :
           [proc[p] EXCEPT !.pc = pc] = [pc |-> pc, of |-> c]
  BY <1>1 DEF Inv, OutcomeInv, ProcState, Idle
<1>3. CASE ~Counts(c) /\ MoveTo(p, "mark") /\ UNCHANGED workflow
  <2> DEFINE q == [pc |-> "mark", of |-> c]
  <2>1. q \in ProcState /\ proc' = [proc EXCEPT ![p] = q]
    BY <1>1, <1>2, <1>3 DEF ProcState, MoveTo
  <2>2. Accounted(c)
    BY <1>3 DEF Counts, Accounted
  <2> QED
    BY <1>1, <1>2, <1>3, <2>1, <2>2, ProcMoves DEF Count
<1>4. CASE ~(~Counts(c) /\ MoveTo(p, "mark") /\ UNCHANGED workflow)
  <2>1. /\ Counts(c) /\ counted' = counted \cup {c} /\ tally' = t
        /\ UNCHANGED <<out, routed, fired, faults>>
        /\ \/ /\ IsComplete(t) /\ Settles
              /\ status' = Verdict(t) /\ settled' = TRUE /\ MoveTo(p, "hook")
           \/ /\ ~(IsComplete(t) /\ Settles)
              /\ MoveTo(p, "mark") /\ UNCHANGED <<status, settled>>
    BY <1>4 DEF Count
  <2>2. PICK pc \in {"hook", "mark"} :
          /\ proc' = [proc EXCEPT ![p] = [pc |-> pc, of |-> c]]
          /\ pc = "hook" => status' = Verdict(t)
    BY <1>2, <2>1 DEF MoveTo
  <2>3. c \notin counted /\ status # "CANCELLED"
    BY <2>1 DEF Counts
  <2>4. /\ t \in [completed: Nat, success: Nat, failure: Nat]
        /\ t.completed = Cardinality(counted')
        /\ t.success = Cardinality({x \in counted' : out[x] = "ok"})
        /\ t.failure = Cardinality({x \in counted' : out[x] = "fail"})
    <3> HIDE DEF c, t
    <3>1. t = Added(tally, out[c])
      BY DEF t
    <3> QED
      BY <1>2, <2>1, <2>3, <3>1, AddingOne
  <2>5. counted' \in SUBSET Completion /\ \A x \in counted' : Resolved(x)
    BY <1>1, <1>2, <2>1 DEF Inv, OutcomeInv
  <2>6. \A x \in Routers : proc'[x] = IF x = p THEN [pc |-> pc, of |-> c] ELSE proc[x]
    BY <1>1, <2>2
  <2> HIDE DEF c, t
  <2>7. Typed'
    <3>1. proc' \in [Routers -> ProcState]
      BY <1>1, <1>2, <2>2 DEF ProcState
    <3>2. status' \in Status /\ settled' \in BOOLEAN
      BY <2>1 DEF Inv, Typed, Status, Verdict
    <3> QED
      BY <2>1, <2>4, <2>5, <3>1, <3>2 DEF Inv, Typed
  <2>8. SeriesInv' /\ BegunInv'
    <3>1. Started
      BY <1>2 DEF Started, Resolved
    <3> QED
      BY <2>1, <3>1 DEF Inv, SeriesInv, BegunInv, Started, IsNewest
  <2>9. OutcomeInv'
    BY <1>2, <2>1, <2>5, <2>6 DEF Inv, OutcomeInv, Resolved
  <2>10. AccountInv'
    BY <2>1, <2>3, <2>6 DEF Inv, AccountInv, Accounted, IsNewest
  <2>11. CountersMatch'
    BY <2>1, <2>4 DEF CountersMatch
  <2>12. Cardinality(counted') \in Nat /\ Cardinality(counted) \in Nat /\ Total \in Nat
         /\ Cardinality(counted') = Cardinality(counted) + 1
    BY <1>1, <1>2, <2>1, <2>3, <2>5, SubsetSizes, Sizes, FS_AddElement
  <2>13. FinalInv'
    <3>1. CASE IsComplete(t) /\ Settles
      <4>1. status' \in {"SUCCEEDED", "FAILED"} /\ settled' = TRUE /\ fired = {}
        BY <2>1, <3>1 DEF Verdict, Settles, Inv, Typed, FinalInv, Status, Terminal
      <4>2. Total <= Cardinality(counted')
        BY <2>4, <3>1 DEF IsComplete
      <4> QED
        BY <2>1, <4>1, <4>2 DEF FinalInv, Terminal
    <3>2. CASE ~(IsComplete(t) /\ Settles)
      <4>1. status' = status /\ settled' = settled /\ pc = "mark"
        BY <1>1, <2>1, <2>2, <3>2 DEF MoveTo
      <4>2. status = "RUNNING" => Cardinality(counted') < Total
        BY <2>4, <2>12, <3>2 DEF IsComplete, Settles, Inv, FinalInv, Terminal
      <4> QED
        BY <2>1, <2>6, <2>12, <4>1, <4>2 DEF Inv, FinalInv
    <3> QED
      BY <3>1, <3>2
  <2>14. SucceededMeansAll'
    <3>1. CASE IsComplete(t) /\ Settles /\ t.failure = 0
      BY <2>1, <2>4, <2>5, <3>1, AllSucceeded
         DEF Inv, SucceededMeansAll, Resolved, IsComplete
    <3>2. CASE ~(IsComplete(t) /\ Settles /\ t.failure = 0)
      BY <2>1, <3>2 DEF Verdict, Inv, SucceededMeansAll
    <3> QED
      BY <3>1, <3>2
  <2> QED
    BY <2>7, <2>8, <2>9, <2>10, <2>11, <2>13, <2>14 DEF Inv
<1> QED
  BY <1>3, <1>4

LEMMA DispatchHookKeeps ==
  ASSUME ParallelAssumption, Inv, NEW p \in Routers, DispatchHook(p)
  PROVE  Inv'
<1>1. /\ proc[p] \in ProcState /\ proc \in [Routers -> ProcState] /\ proc[p].pc = "hook"
      /\ UNCHANGED <<workflow, out, routed, faults>>
  BY DEF Inv, Typed, DispatchHook
<1>2. status \in {"SUCCEEDED", "FAILED"}
  BY <1>1 DEF Inv, FinalInv
<1>3. fired' = fired \cup {IF status = "SUCCEEDED" THEN "success" ELSE "failure"}
  BY DEF DispatchHook
<1> DEFINE q == [pc |-> "mark", of |-> proc[p].of]
<1>4. q \in ProcState /\ proc' = [proc EXCEPT ![p] = q]
  <2>1. proc[p] \in [pc: {"handle", "count", "hook", "mark"}, of: Completion]
    BY <1>1 DEF ProcState, Idle
  <2>2. [proc[p] EXCEPT !.pc = "mark"] = q /\ q \in ProcState
    BY <2>1 DEF ProcState
  <2>3. proc' = [proc EXCEPT ![p].pc = "mark"]
    BY DEF DispatchHook, MoveTo
  <2> QED
    BY <1>1, <2>2, <2>3
<1>5. /\ counted' = counted /\ out' = out /\ status' = status
      /\ \A x \in Routers : proc'[x] = IF x = p THEN q ELSE proc[x]
  BY <1>1, <1>4 DEF workflow
<1>6. Typed'
  BY <1>1, <1>2, <1>3, <1>4 DEF Inv, Typed, workflow
<1>7. SeriesInv' /\ BegunInv' /\ CountersMatch' /\ SucceededMeansAll'
  BY <1>1 DEF Inv, workflow, SeriesInv, BegunInv, Started, IsNewest, CountersMatch, SucceededMeansAll
<1>8. OutcomeInv'
  BY <1>1, <1>5 DEF Inv, OutcomeInv, Resolved
<1>9. AccountInv'
  BY <1>1, <1>5 DEF Inv, AccountInv, Accounted, IsNewest
<1>10. FinalInv'
  BY <1>1, <1>2, <1>3, <1>5 DEF Inv, FinalInv, workflow
<1> QED
  BY <1>6, <1>7, <1>8, <1>9, <1>10 DEF Inv

LEMMA CancelKeeps ==
  ASSUME ParallelAssumption, RunsFirst, Inv, Cancel
  PROVE  Inv'
<1>1. /\ UNCHANGED <<tally, counted, out, routed, proc, faults>> /\ Started
      /\ status' = "CANCELLED" /\ settled' = TRUE /\ fired' = fired \cup {"cancelled"}
      /\ status \in {"PENDING", "RUNNING"}
  BY DEF Cancel, RunsFirst
<1>2. Typed'
  BY <1>1 DEF Inv, Typed, Status
<1>3. SeriesInv' /\ BegunInv' /\ CountersMatch' /\ SucceededMeansAll'
  BY <1>1 DEF Inv, SeriesInv, BegunInv, Started, IsNewest, CountersMatch, SucceededMeansAll
<1>4. OutcomeInv' /\ AccountInv'
  BY <1>1 DEF Inv, OutcomeInv, AccountInv, Resolved, Accounted
<1>5. FinalInv'
  BY <1>1 DEF Inv, FinalInv, Terminal
<1> QED
  BY <1>2, <1>3, <1>4, <1>5 DEF Inv
-----------------------------------------------------------------------------
(* Attempts that begin and end.                                            *)

(* What is counted stays as it was, whatever other attempts do.            *)
LEMMA OutcomesAsBefore ==
  ASSUME ParallelAssumption, Inv, out' \in [Completion -> {"none", "open", "ok", "fail"}],
         \A c \in Completion : Resolved(c) => out'[c] = out[c],
         \A c \in Completion : out'[c] = "none" => out[c] = "none",
         UNCHANGED <<tally, counted, routed>>
  PROVE  /\ CountersMatch'
         /\ \A c \in counted' \cup routed' : out'[c] \in {"ok", "fail"}
         /\ \A c \in Completion : ~IsNewest(c) /\ Resolved(c) =>
              ~(out'[c] # "none" /\ (c[2] < MaxRuns => out'[<<c[1], c[2] + 1>>] = "none"))
<1>1. \A c \in counted \cup routed : c \in Completion /\ Resolved(c) /\ out'[c] = out[c]
  BY DEF Inv, Typed, OutcomeInv
<1>2. /\ {c \in counted' : out'[c] = "ok"} = {c \in counted : out[c] = "ok"}
      /\ {c \in counted' : out'[c] = "fail"} = {c \in counted : out[c] = "fail"}
  BY <1>1
<1>3. CountersMatch'
  BY <1>2 DEF Inv, CountersMatch
<1>4. \A c \in counted' \cup routed' : out'[c] \in {"ok", "fail"}
  BY <1>1 DEF Resolved
<1>5. \A c \in Completion : c[2] < MaxRuns => <<c[1], c[2] + 1>> \in Completion
  BY DEF Completion, Run, ParallelAssumption
<1>6. \A c \in Completion : ~IsNewest(c) /\ Resolved(c) =>
        ~(out'[c] # "none" /\ (c[2] < MaxRuns => out'[<<c[1], c[2] + 1>>] = "none"))
  BY <1>5 DEF IsNewest, Resolved
<1> QED
  BY <1>3, <1>4, <1>6

LEMMA RunAllKeeps ==
  ASSUME ParallelAssumption, RunsFirst, Inv, RunAll
  PROVE  Inv'
<1>1. /\ ~Started /\ status = "PENDING" /\ ~settled /\ status' = "RUNNING"
      /\ UNCHANGED <<settled, tally, counted, routed, proc, fired, faults>>
      /\ out' = [c \in Completion |-> IF c[2] = 1 THEN "open" ELSE "none"]
  BY DEF RunAll, Inv, BegunInv
<1>2. \A c \in Completion : out[c] = "none"
  BY <1>1 DEF Started
<1>3. out' \in [Completion -> {"none", "open", "ok", "fail"}]
  BY <1>1
<1>4. /\ CountersMatch'
      /\ \A c \in counted' \cup routed' : out'[c] \in {"ok", "fail"}
  BY <1>1, <1>2, <1>3, OutcomesAsBefore DEF Resolved
<1>5. \A m \in Members, r \in Run :
        <<m, r>> \in Completion /\ out'[<<m, r>>] = IF r = 1 THEN "open" ELSE "none"
  BY <1>1 DEF Completion
<1>6. Typed'
  BY <1>1, <1>3 DEF Inv, Typed, Status
<1>7. SeriesInv'
  BY <1>5 DEF SeriesInv, Run, ParallelAssumption
<1>8. BegunInv'
  <2>1. 1 \in Run /\ (1 < MaxRuns => 2 \in Run)
    BY DEF Run, ParallelAssumption
  <2>2. \A m \in Members : IsNewest(<<m, 1>>)'
    BY <1>5, <2>1 DEF IsNewest
  <2>3. PICK m \in Members : TRUE
    BY DEF ParallelAssumption
  <2>4. Started'
    BY <1>5, <2>1, <2>3 DEF Started
  <2> QED
    BY <2>1, <2>2, <2>4 DEF BegunInv
<1>9. counted = {} /\ routed = {} /\ \A p \in Routers : proc[p].pc = "idle"
  <2>1. \A c \in Completion : ~Resolved(c)
    BY <1>2 DEF Resolved
  <2>2. counted = {} /\ routed = {}
    BY <2>1 DEF Inv, Typed, OutcomeInv
  <2>3. \A p \in Routers : proc[p] \in ProcState
    BY DEF Inv, Typed
  <2>4. \A p \in Routers : proc[p].pc # "idle" => proc[p].of \in Completion
    BY <2>3 DEF ProcState, Idle
  <2> QED
    BY <2>1, <2>2, <2>4 DEF Inv, OutcomeInv
<1>10. OutcomeInv' /\ AccountInv'
  BY <1>1, <1>9 DEF OutcomeInv, AccountInv
<1>11. FinalInv'
  <2>1. Cardinality(counted) < Total
    BY <1>9, Sizes, FS_EmptySet
  <2> QED
    BY <1>1, <1>9, <2>1 DEF Inv, FinalInv, Terminal
<1>12. SucceededMeansAll'
  BY <1>1 DEF SucceededMeansAll
<1> QED
  BY <1>4, <1>6, <1>7, <1>8, <1>10, <1>11, <1>12 DEF Inv

LEMMA ResolveKeeps ==
  ASSUME ParallelAssumption, Inv, NEW p \in Routers, NEW c \in Completion,
         NEW o \in {"ok", "fail"}, Resolve(p, c, o)
  PROVE  Inv'
<1> DEFINE q == [pc |-> "handle", of |-> c]
<1>1. /\ proc[p].pc = "idle" /\ out[c] = "open" /\ out' = [out EXCEPT ![c] = o]
      /\ proc' = [proc EXCEPT ![p] = q]
      /\ UNCHANGED <<workflow, routed, fired, faults>>
  BY DEF Resolve, Take
<1>2. out \in [Completion -> {"none", "open", "ok", "fail"}]
  BY DEF Inv, Typed
<1>3. \A x \in Completion : out'[x] = IF x = c THEN o ELSE out[x]
  BY <1>1, <1>2
<1>4. out' \in [Completion -> {"none", "open", "ok", "fail"}]
  BY <1>1, <1>2
<1>5. /\ \A x \in Completion : Resolved(x) => out'[x] = out[x]
      /\ \A x \in Completion : out'[x] = "none" <=> out[x] = "none"
  BY <1>1, <1>3 DEF Resolved
<1>6. /\ CountersMatch'
      /\ \A x \in counted' \cup routed' : out'[x] \in {"ok", "fail"}
      /\ \A x \in Completion : ~IsNewest(x) /\ Resolved(x) =>
           ~(out'[x] # "none" /\ (x[2] < MaxRuns => out'[<<x[1], x[2] + 1>>] = "none"))
  BY <1>1, <1>4, <1>5, OutcomesAsBefore DEF workflow
<1>7. /\ q \in ProcState /\ proc \in [Routers -> ProcState]
      /\ \A x \in Routers : proc'[x] = IF x = p THEN q ELSE proc[x]
  BY <1>1 DEF ProcState, Inv, Typed
<1>8. Typed'
  BY <1>1, <1>4, <1>7 DEF Inv, Typed, workflow
<1>9. \A m \in Members, r \in Run : <<m, r>> \in Completion
  BY DEF Completion
<1>10. SeriesInv'
  <2> SUFFICES ASSUME NEW m \in Members, NEW r \in Run, NEW k \in Run, r < k,
                      out'[<<m, r>>] # "fail"
               PROVE  out'[<<m, k>>] = "none"
    BY DEF SeriesInv
  <2>1. out[<<m, r>>] # "fail"
    BY <1>1, <1>3, <1>9
  <2>2. out[<<m, k>>] = "none"
    BY <2>1 DEF Inv, SeriesInv
  <2> QED
    BY <1>5, <1>9, <2>2
<1>11. BegunInv'
  <2>1. Started
    BY <1>1 DEF Started
  <2>2. \A m \in Members : \E r \in Run : IsNewest(<<m, r>>)
    BY <2>1 DEF Inv, BegunInv
  <2>3. \A m \in Members, r \in Run : r < MaxRuns => <<m, r + 1>> \in Completion
    BY DEF Completion, Run, ParallelAssumption
  <2>4. \A m \in Members, r \in Run : IsNewest(<<m, r>>) => IsNewest(<<m, r>>)'
    BY <1>5, <1>9, <2>3 DEF IsNewest
  <2>5. Started'
    BY <1>3 DEF Started
  <2> QED
    BY <2>2, <2>4, <2>5 DEF BegunInv
<1>12. \A x \in Routers : proc[x].pc # "idle" => proc[x].of \in Completion
  BY <1>7 DEF ProcState, Idle
<1>13. OutcomeInv'
  BY <1>3, <1>6, <1>7, <1>12 DEF Inv, OutcomeInv, Resolved
<1>14. AccountInv'
  <2>1. \A x \in Completion : Resolved(x) /\ Accounted(x) => Accounted(x)'
    BY <1>1, <1>6 DEF Accounted, IsNewest, workflow
  <2>2. routed' = routed /\ \A x \in routed : x \in Completion /\ Resolved(x) /\ Accounted(x)
    BY <1>1 DEF Inv, Typed, OutcomeInv, AccountInv
  <2>3. \A x \in Routers : proc[x].pc \in {"hook", "mark"} => Accounted(proc[x].of)
    BY DEF Inv, AccountInv
  <2>4. \A x \in Routers : proc[x].pc \in {"hook", "mark"} =>
          proc[x].of \in Completion /\ Resolved(proc[x].of)
    BY <1>12 DEF Inv, OutcomeInv
  <2>5. \A x \in Routers : proc'[x].pc \in {"hook", "mark"} => proc'[x] = proc[x]
    BY <1>7
  <2> QED
    BY <1>1, <1>6, <2>1, <2>2, <2>3, <2>4, <2>5 DEF AccountInv, Accounted, IsNewest, workflow
<1>15. FinalInv'
  BY <1>1, <1>7 DEF Inv, FinalInv, workflow
<1>16. SucceededMeansAll'
  BY <1>1, <1>5, <1>9 DEF Inv, SucceededMeansAll, Resolved, workflow
<1> QED
  BY <1>6, <1>8, <1>10, <1>11, <1>13, <1>14, <1>15, <1>16 DEF Inv

LEMMA RequeueKeeps ==
  ASSUME ParallelAssumption, Inv, NEW m \in Members, NEW r \in Run, Requeue(m, r)
  PROVE  Inv'
<1> DEFINE c == <<m, r + 1>>
<1>1. /\ r < MaxRuns /\ out[<<m, r>>] = "fail" /\ out[c] = "none"
      /\ out' = [out EXCEPT ![c] = "open"]
      /\ UNCHANGED <<workflow, routed, proc, fired, faults>>
  BY DEF Requeue, IsNewest
<1>2. out \in [Completion -> {"none", "open", "ok", "fail"}]
  BY DEF Inv, Typed
<1>3. r + 1 \in Run /\ c \in Completion
  BY <1>1 DEF Completion, Run, ParallelAssumption
<1>4. \A x \in Completion : out'[x] = IF x = c THEN "open" ELSE out[x]
  BY <1>1, <1>2
<1>5. /\ out' \in [Completion -> {"none", "open", "ok", "fail"}]
      /\ \A x \in Completion : Resolved(x) => out'[x] = out[x]
      /\ \A x \in Completion : out'[x] = "none" => out[x] = "none"
  BY <1>1, <1>2, <1>4 DEF Resolved
<1>6. /\ CountersMatch'
      /\ \A x \in counted' \cup routed' : out'[x] \in {"ok", "fail"}
      /\ \A x \in Completion : ~IsNewest(x) /\ Resolved(x) =>
           ~(out'[x] # "none" /\ (x[2] < MaxRuns => out'[<<x[1], x[2] + 1>>] = "none"))
  BY <1>1, <1>5, OutcomesAsBefore DEF workflow
<1>7. Typed'
  BY <1>1, <1>5 DEF Inv, Typed, workflow
<1>8. \A n \in Members, k \in Run : <<n, k>> \in Completion
  BY DEF Completion
<1>9. \A k \in Run : r + 1 < k => out[<<m, k>>] = "none"
  BY <1>1, <1>3 DEF Inv, SeriesInv
<1>10. SeriesInv'
  <2> SUFFICES ASSUME NEW n \in Members, NEW k \in Run, NEW j \in Run, k < j,
                      out'[<<n, k>>] # "fail"
               PROVE  out'[<<n, j>>] = "none"
    BY DEF SeriesInv
  <2>1. r \in Int /\ k \in Int /\ j \in Int
    BY DEF Run, ParallelAssumption
  <2>2. CASE n # m
    <3>1. out'[<<n, k>>] = out[<<n, k>>] /\ out'[<<n, j>>] = out[<<n, j>>]
      BY <1>4, <1>8, <2>2
    <3> QED
      BY <3>1 DEF Inv, SeriesInv
  <2>3. CASE n = m /\ k # r + 1
    <3>1. out[<<m, k>>] # "fail"
      BY <1>4, <1>8, <2>3
    <3>2. ~(k < r)
      BY <1>1, <3>1 DEF Inv, SeriesInv
    <3>3. r + 1 < j
      BY <1>1, <2>1, <2>3, <3>1, <3>2
    <3> QED
      BY <1>4, <1>8, <1>9, <2>1, <2>3, <3>3
  <2>4. CASE n = m /\ k = r + 1
    <3>1. out[<<m, j>>] = "none" /\ <<m, j>> # c
      BY <1>9, <2>1, <2>4
    <3> QED
      BY <1>4, <1>8, <2>4, <3>1
  <2> QED
    BY <2>2, <2>3, <2>4
<1>11. BegunInv'
  <2>1. Started /\ Started'
    BY <1>1, <1>4, <1>8 DEF Started
  <2>2. \A n \in Members, k \in Run : k < MaxRuns => k + 1 \in Run
    BY DEF Run, ParallelAssumption
  <2>3. IsNewest(<<m, r + 1>>)'
    <3>1. r + 1 < MaxRuns => /\ r + 1 + 1 \in Run /\ r + 1 < r + 1 + 1
                             /\ r + 1 # r + 1 + 1
      BY <1>3, <2>2 DEF Run, ParallelAssumption
    <3>2. r + 1 < MaxRuns => out'[<<m, r + 1 + 1>>] = "none"
      BY <1>4, <1>8, <1>9, <3>1
    <3> QED
      BY <1>3, <1>4, <3>2 DEF IsNewest
  <2>4. ASSUME NEW n \in Members, n # m
        PROVE  \E k \in Run : IsNewest(<<n, k>>)'
    <3>1. PICK k \in Run : IsNewest(<<n, k>>)
      BY <2>1 DEF Inv, BegunInv
    <3>2. out'[<<n, k>>] = out[<<n, k>>]
          /\ (k < MaxRuns => out'[<<n, k + 1>>] = out[<<n, k + 1>>])
      BY <1>4, <1>8, <2>2, <2>4
    <3> QED
      BY <3>1, <3>2 DEF IsNewest
  <2>5. \A n \in Members : \E k \in Run : IsNewest(<<n, k>>)'
    BY <1>3, <2>3, <2>4
  <2> QED
    BY <2>1, <2>5 DEF BegunInv
<1>12. \A x \in Routers : proc[x].pc # "idle" => proc[x].of \in Completion
  BY DEF Inv, Typed, ProcState, Idle
<1>13. OutcomeInv'
  BY <1>1, <1>5, <1>6, <1>12 DEF Inv, OutcomeInv, Resolved
<1>14. AccountInv'
  <2>1. \A x \in Completion : Resolved(x) /\ Accounted(x) => Accounted(x)'
    BY <1>1, <1>6 DEF Accounted, IsNewest, workflow
  <2>2. \A x \in routed : x \in Completion /\ Resolved(x) /\ Accounted(x)
    BY DEF Inv, Typed, OutcomeInv, AccountInv
  <2>3. \A x \in Routers : proc[x].pc \in {"hook", "mark"} =>
          proc[x].of \in Completion /\ Resolved(proc[x].of) /\ Accounted(proc[x].of)
    BY <1>12 DEF Inv, OutcomeInv, AccountInv
  <2> QED
    BY <1>1, <2>1, <2>2, <2>3 DEF AccountInv, Accounted, IsNewest, workflow
<1>15. FinalInv'
  BY <1>1 DEF Inv, FinalInv, workflow
<1>16. SucceededMeansAll'
  BY <1>1, <1>5, <1>8 DEF Inv, SucceededMeansAll, Resolved, workflow
<1> QED
  BY <1>6, <1>7, <1>10, <1>11, <1>13, <1>14, <1>15, <1>16 DEF Inv

LEMMA StepsKeep ==
  ASSUME ParallelAssumption, RunsFirst, Inv, [Next]_vars
  PROVE  Inv'
<1>1. CASE UNCHANGED vars
  BY <1>1 DEF vars, workflow, Inv, Typed, SeriesInv, BegunInv, Started, IsNewest, OutcomeInv,
     Resolved, AccountInv, Accounted, CountersMatch, FinalInv, SucceededMeansAll
<1>2. CASE \E p \in Routers : RouterStep(p) \/ Crash(p)
  BY <1>2, RouterMovesKeep, CountKeeps, DispatchHookKeeps DEF RouterStep
<1>3. CASE \E p \in Reapers, c \in Completion : Replay(p, c)
  BY <1>3, RouterMovesKeep DEF Routers
<1>4. CASE \E p \in Monitors, c \in Completion, o \in {"ok", "fail"} : Resolve(p, c, o)
  BY <1>4, ResolveKeeps DEF Routers
<1> QED
  BY <1>1, <1>2, <1>3, <1>4, RunAllKeeps, CancelKeeps, RequeueKeeps DEF Next
-----------------------------------------------------------------------------
(* What follows from the invariant.                                        *)

LEMMA BoundsHold ==
  ASSUME ParallelAssumption, Inv
  PROVE  TypeOK
<1> DEFINE Ok == {c \in counted : out[c] = "ok"}
           Fail == {c \in counted : out[c] = "fail"}
<1>1. counted \in SUBSET Completion /\ Ok \in SUBSET Completion /\ Fail \in SUBSET Completion
  BY DEF Inv, Typed
<1>2. /\ Cardinality(counted) \in Nat /\ Cardinality(counted) <= Total * MaxRuns
      /\ Cardinality(Fail) \in Nat /\ Cardinality(Fail) <= Total * MaxRuns
      /\ Cardinality(Ok) \in Nat
  BY <1>1, SubsetSizes
<1>3. Cardinality(Ok) <= Total
  <2>1. \A c, d \in Ok : c[1] = d[1] => c = d
    BY <1>1, OneSuccess DEF Inv
  <2> QED
    BY <1>1, <2>1, OneOfEach
<1>4. Total \in Nat /\ MaxRuns \in Nat /\ Total * MaxRuns \in Nat
  BY Sizes DEF ParallelAssumption
<1>5. tally \in [completed : 0..(Total * MaxRuns), success : 0..Total,
                 failure : 0..(Total * MaxRuns)]
  <2>1. /\ tally \in [completed: Nat, success: Nat, failure: Nat]
        /\ tally.completed = Cardinality(counted)
        /\ tally.success = Cardinality(Ok) /\ tally.failure = Cardinality(Fail)
    BY DEF Inv, Typed, CountersMatch
  <2>2. /\ tally.completed \in 0..(Total * MaxRuns) /\ tally.success \in 0..Total
        /\ tally.failure \in 0..(Total * MaxRuns)
    BY <1>2, <1>3, <1>4, <2>1
  <2> QED
    BY <2>1, <2>2
<1>6. \A p \in Routers :
        \/ proc[p] = Idle
        \/ /\ proc[p].pc \in {"handle", "count", "hook", "mark"}
           /\ proc[p].of \in Completion
  BY DEF Inv, Typed, ProcState
<1> QED
  BY <1>5, <1>6 DEF TypeOK, Inv, Typed

LEMMA AtMostOneHook ==
  ASSUME Inv
  PROVE  OneHook
<1>1. fired \in {{}, {"success"}, {"failure"}, {"cancelled"}}
  BY DEF Inv, Typed, FinalInv, Status
<1>2. Cardinality(fired) <= 1
  <2>1. Cardinality({}) = 0
    BY FS_EmptySet
  <2>2. \A x : Cardinality({x}) = 1
    BY FS_Singleton
  <2>3. CASE fired = {}
    BY <2>1, <2>3
  <2>4. CASE fired # {}
    <3>1. PICK x : fired = {x}
      BY <1>1, <2>4
    <3> QED
      BY <2>2, <3>1
  <2> QED
    BY <2>3, <2>4
<1> QED
  BY <1>2 DEF OneHook, Inv, Typed, FinalInv, Status

LEMMA SomebodyIsDue ==
  ASSUME ParallelAssumption, Inv
  PROVE  NothingStranded
<1> SUFFICES ASSUME status = "RUNNING",
                    \A m \in Members : ~Live(m),
                    \A c \in Completion : ~(Unrouted(c) /\ c \notin counted)
             PROVE  FALSE
  BY DEF NothingStranded
<1>1. counted \in SUBSET Completion /\ Cardinality(counted) < Total
  BY DEF Inv, Typed, FinalInv
<1>2. ASSUME NEW m \in Members
      PROVE  \E r \in Run : <<m, r>> \in counted
  <2>1. PICK r \in Run : IsNewest(<<m, r>>)
    BY DEF Inv, BegunInv
  <2>2. <<m, r>> \in Completion
    BY DEF Completion
  <2>3. Resolved(<<m, r>>)
    BY <2>1, <2>2 DEF IsNewest, Live, Resolved, Inv, Typed
  <2>4. <<m, r>> \in counted
    BY <2>1, <2>2, <2>3 DEF Unrouted, Inv, AccountInv, Accounted
  <2> QED
    BY <2>4
<1>3. Total <= Cardinality(counted)
  BY <1>1, <1>2, AllOfThem
<1> QED
  BY <1>1, <1>3, Sizes, SubsetSizes

LEMMA DoneWhenComplete ==
  ASSUME ParallelAssumption, Inv
  PROVE  CompleteMeansDone
<1> SUFFICES ASSUME status \in {"SUCCEEDED", "FAILED"},
                    \A c, d \in counted : c[1] = d[1] => c = d
             PROVE  \A m \in Members : \E r \in Run : Resolved(<<m, r>>)
  BY DEF CompleteMeansDone
<1>1. counted \in SUBSET Completion /\ Total <= Cardinality(counted)
  BY DEF Inv, Typed, FinalInv
<1>2. \A m \in Members : \E r \in Run : <<m, r>> \in counted
  BY <1>1, OneOfEach
<1> QED
  BY <1>2 DEF Inv, OutcomeInv
-----------------------------------------------------------------------------
(* The counters are what the counted flags say, a workflow succeeds only   *)
(* if every member has, is over only when they all are, has one hook, and  *)
(* always has somebody to wait for - with any number of monitors, reapers, *)
(* crashes and requeues, as long as run() is the first that happens to it  *)
(* (ParallelDispatcher._atomic_increment, base.cancel).                    *)
THEOREM MembersAreCounted ==
  ASSUME ParallelAssumption, RunsFirst
  PROVE  Spec => []MembersCountOnce
<1>1. Inv => MembersCountOnce
  BY BoundsHold, AtMostOneHook, SomebodyIsDue, DoneWhenComplete
     DEF MembersCountOnce, Inv
<1> QED
  BY Start, StepsKeep, <1>1, PTL DEF Spec
-----------------------------------------------------------------------------
(***************************************************************************)
(* The suite.                                                              *)
(***************************************************************************)
ChainP == INSTANCE ChainWorkflowProofs WITH
  Operators <- Deciders, Gated <- Gates, MaxRuns <- 1, Shared <- FALSE, Unhurried <- TRUE,
  status <- c_status, index <- c_index, settled <- c_settled,
  started <- c_started, bound <- c_bound, task <- c_task, rows <- c_rows,
  proc <- c_proc, gen <- c_gen, fired <- c_fired, approved <- c_approved,
  faults <- c_faults

(* Two instances of one module with one substitution say the same; to the  *)
(* provers that is a matter of expanding both.                             *)
LEMMA ChainIs ==
  /\ Chain!ChainAssumption <=> ChainP!ChainAssumption
  /\ Chain!Init <=> ChainP!Init
  /\ Chain!Next <=> ChainP!Next
  /\ Chain!vars = ChainP!vars
<1>1. /\ Chain!ChainAssumption <=> ChainP!ChainAssumption
      /\ Chain!vars = ChainP!vars
  BY DEF Chain!Routers, Chain!Step, Chain!ChainAssumption,
         Chain!chain, Chain!history, Chain!vars, ChainP!Routers,
         ChainP!Step, ChainP!ChainAssumption, ChainP!chain,
         ChainP!history, ChainP!vars
<1>2. Chain!Init <=> ChainP!Init
  BY DEF Chain!Routers, Chain!Proc, Chain!Step, Chain!Task,
         Chain!Run, Chain!NoTask, Chain!Idle, Chain!Init,
         ChainP!Routers, ChainP!Proc, ChainP!Step, ChainP!Task,
         ChainP!Run, ChainP!NoTask, ChainP!Idle, ChainP!Init
<1>3. \A p : /\ Chain!Route(p) <=> ChainP!Route(p)
             /\ Chain!Handle(p) <=> ChainP!Handle(p)
             /\ Chain!Advance(p) <=> ChainP!Advance(p)
  BY DEF Chain!Task, Chain!Run, Chain!chain, Chain!history,
         Chain!Terminal, Chain!ValidTransitions, Chain!CanMove,
         Chain!NoTask, Chain!NewTask, Chain!Idle, Chain!Newest,
         Chain!Exists, Chain!Dead, Chain!Fresh, Chain!MoveTo,
         Chain!Release, Chain!Queue, Chain!NeedsApproval,
         Chain!Outcome, Chain!StepOf, Chain!IsBound, Chain!Route,
         Chain!IsExhausted, Chain!Succeeded, Chain!Handle,
         Chain!Settles, Chain!Settle, Chain!AtIndex, Chain!Proceeds,
         Chain!HasNext, Chain!Advance, ChainP!Task, ChainP!Run,
         ChainP!chain, ChainP!history, ChainP!Terminal,
         ChainP!ValidTransitions, ChainP!CanMove, ChainP!NoTask,
         ChainP!NewTask, ChainP!Idle, ChainP!Newest, ChainP!Exists,
         ChainP!Dead, ChainP!Fresh, ChainP!MoveTo, ChainP!Release,
         ChainP!Queue, ChainP!NeedsApproval, ChainP!Outcome,
         ChainP!StepOf, ChainP!IsBound, ChainP!Route,
         ChainP!IsExhausted, ChainP!Succeeded, ChainP!Handle,
         ChainP!Settles, ChainP!Settle, ChainP!AtIndex,
         ChainP!Proceeds, ChainP!HasNext, ChainP!Advance
<1>4. \A p : /\ Chain!FailChain(p) <=> ChainP!FailChain(p)
             /\ Chain!DispatchHook(p) <=> ChainP!DispatchHook(p)
             /\ Chain!MarkRouted(p) <=> ChainP!MarkRouted(p)
             /\ Chain!Crash(p) <=> ChainP!Crash(p)
  BY DEF Chain!chain, Chain!history, Chain!Terminal, Chain!Idle,
         Chain!MoveTo, Chain!Release, Chain!Outcome, Chain!Settles,
         Chain!Settle, Chain!Proceeds, Chain!FailChain, Chain!Fire,
         Chain!DispatchHook, Chain!MarkRouted, Chain!Crash,
         ChainP!chain, ChainP!history, ChainP!Terminal, ChainP!Idle,
         ChainP!MoveTo, ChainP!Release, ChainP!Outcome,
         ChainP!Settles, ChainP!Settle, ChainP!Proceeds,
         ChainP!FailChain, ChainP!Fire, ChainP!DispatchHook,
         ChainP!MarkRouted, ChainP!Crash
<1>5. \A o : /\ Chain!Look(o) <=> ChainP!Look(o)
             /\ Chain!Resume(o) <=> ChainP!Resume(o)
             /\ Chain!Approve(o) <=> ChainP!Approve(o)
  BY DEF Chain!Routers, Chain!Task, Chain!Run, Chain!chain,
         Chain!history, Chain!ValidTransitions, Chain!CanMove,
         Chain!NoTask, Chain!NewTask, Chain!Idle, Chain!Exists,
         Chain!Fresh, Chain!MoveTo, Chain!Release, Chain!Queue,
         Chain!Quiet, Chain!MayAct, Chain!Look,
         Chain!SettledOnceResumed, Chain!Resume, Chain!Approve,
         ChainP!Routers, ChainP!Task, ChainP!Run, ChainP!chain,
         ChainP!history, ChainP!ValidTransitions, ChainP!CanMove,
         ChainP!NoTask, ChainP!NewTask, ChainP!Idle, ChainP!Exists,
         ChainP!Fresh, ChainP!MoveTo, ChainP!Release, ChainP!Queue,
         ChainP!Quiet, ChainP!MayAct, ChainP!Look,
         ChainP!SettledOnceResumed, ChainP!Resume, ChainP!Approve
<1>6. \A o : /\ Chain!Reject(o) <=> ChainP!Reject(o)
             /\ Chain!Cancel(o) <=> ChainP!Cancel(o)
             /\ Chain!Requeue(o) <=> ChainP!Requeue(o)
  BY DEF Chain!Routers, Chain!Run, Chain!chain, Chain!history,
         Chain!Cancellable, Chain!ValidTransitions, Chain!CanMove,
         Chain!Idle, Chain!Newest, Chain!Exists, Chain!Dead,
         Chain!Release, Chain!Fire, Chain!Quiet, Chain!MayAct,
         Chain!Reject, Chain!Cancel, Chain!Requeue, ChainP!Routers,
         ChainP!Run, ChainP!chain, ChainP!history, ChainP!Cancellable,
         ChainP!ValidTransitions, ChainP!CanMove, ChainP!Idle,
         ChainP!Newest, ChainP!Exists, ChainP!Dead, ChainP!Release,
         ChainP!Fire, ChainP!Quiet, ChainP!MayAct, ChainP!Reject,
         ChainP!Cancel, ChainP!Requeue
<1>7. /\ Chain!RunChain <=> ChainP!RunChain
      /\ \A m, t, end : Chain!Resolve(m, t, end) <=> ChainP!Resolve(m, t, end)
      /\ \A r, t, n : Chain!Replay(r, t, n) <=> ChainP!Replay(r, t, n)
  BY DEF Chain!Task, Chain!Run, Chain!chain, Chain!history,
         Chain!NoTask, Chain!NewTask, Chain!Idle, Chain!Newest,
         Chain!Exists, Chain!Live, Chain!Fresh, Chain!Queue,
         Chain!NeedsApproval, Chain!RunChain, Chain!Resolve,
         Chain!Unrouted, Chain!Replay, ChainP!Task, ChainP!Run,
         ChainP!chain, ChainP!history, ChainP!NoTask, ChainP!NewTask,
         ChainP!Idle, ChainP!Newest, ChainP!Exists, ChainP!Live,
         ChainP!Fresh, ChainP!Queue, ChainP!NeedsApproval,
         ChainP!RunChain, ChainP!Resolve, ChainP!Unrouted,
         ChainP!Replay
<1>8. Chain!Next <=> ChainP!Next
  BY <1>3, <1>4, <1>5, <1>6, <1>7 DEF Chain!Next, Chain!RouterStep, Chain!Task, Chain!Run, Chain!Routers,
     ChainP!Next, ChainP!RouterStep, ChainP!Task, ChainP!Run, ChainP!Routers
<1> QED
  BY <1>1, <1>2, <1>8

LEMMA ContractIs ==
  /\ ChainP!Contract!Init <=> Chain!Contract!Init
  /\ ChainP!Contract!Next <=> Chain!Contract!Next
  /\ ChainP!Contract!vars = Chain!Contract!vars
BY DEF ChainP!Contract!Init, ChainP!Contract!Next, ChainP!Contract!vars,
       ChainP!Contract!Start, ChainP!Contract!Enter, ChainP!Contract!Advance,
       ChainP!Contract!Approve, ChainP!Contract!End, ChainP!Contract!Cancel,
       ChainP!Contract!Resume, ChainP!Contract!Fire,
       Chain!Contract!Init, Chain!Contract!Next, Chain!Contract!vars,
       Chain!Contract!Start, Chain!Contract!Enter, Chain!Contract!Advance,
       Chain!Contract!Approve, Chain!Contract!End, Chain!Contract!Cancel,
       Chain!Contract!Resume, Chain!Contract!Fire

(* A system that is not at work does not move.                             *)
LEMMA AtWorkOrStill ==
  ASSUME [SuiteNext]_suite
  PROVE  /\ which' = which
         /\ which = "chain" => Chain!Next \/ UNCHANGED c_vars
         /\ ~(which = "chain") => UNCHANGED c_vars
         /\ [Next]_vars
<1>1. CASE UNCHANGED suite
  BY <1>1 DEF suite
<1>2. CASE SuiteNext
  BY <1>2 DEF SuiteNext
<1> QED
  BY <1>1, <1>2

LEMMA ChainRuns == SuiteSpec => (which = "chain" => ChainP!Spec)
<1>1. SuiteInit /\ which = "chain" => ChainP!Init
  BY ChainIs DEF SuiteInit
<1>2. which = "chain" /\ [SuiteNext]_suite =>
        (which = "chain")' /\ [ChainP!Next]_(ChainP!vars)
  <2> SUFFICES ASSUME which = "chain", [SuiteNext]_suite
               PROVE  (which = "chain")' /\ [ChainP!Next]_(ChainP!vars)
    OBVIOUS
  <2>1. which' = which /\ (Chain!Next \/ UNCHANGED c_vars)
    BY AtWorkOrStill
  <2>2. UNCHANGED c_vars => UNCHANGED ChainP!vars
    BY DEF c_vars, ChainP!vars, ChainP!chain, ChainP!history
  <2> QED
    BY <2>1, <2>2, ChainIs
<1> QED
  BY <1>1, <1>2, PTL DEF SuiteSpec, ChainP!Spec

(* The chain that is not at work stands where its contract begins.         *)
LEMMA ChainRests == SuiteSpec => (~(which = "chain") => Chain!KeepsContract)
<1>1. SuiteInit => Chain!Contract!Init
  BY DEF SuiteInit, Chain!Init, Chain!Contract!Init
<1>2. ~(which = "chain") /\ [SuiteNext]_suite =>
        ~(which = "chain")' /\ [Chain!Contract!Next]_(Chain!Contract!vars)
  <2> SUFFICES ASSUME ~(which = "chain"), [SuiteNext]_suite
               PROVE  ~(which = "chain")' /\ UNCHANGED Chain!Contract!vars
    OBVIOUS
  <2>1. which' = which /\ UNCHANGED c_vars
    BY AtWorkOrStill
  <2> QED
    BY <2>1 DEF c_vars, Chain!Contract!vars
<1> QED
  BY <1>1, <1>2, PTL DEF SuiteSpec, Chain!KeepsContract, Chain!Contract!Spec

(* Only run() leaves a status for RUNNING, and it is the first step.       *)
LEMMA CancelledStays ==
  ASSUME ParallelAssumption, Inv, [Next]_vars, status = "CANCELLED"
  PROVE  status' = "CANCELLED" /\ tally' = tally
<1>1. ~RunAll
  BY DEF RunAll, Inv, BegunInv
<1>2. \A p \in Routers : RouterStep(p) \/ Crash(p) => UNCHANGED <<status, tally>>
  BY DEF RouterStep, Handle, Count, Counts, DispatchHook, MarkRouted, Crash, workflow
<1>3. CASE UNCHANGED vars
  BY <1>3 DEF vars, workflow
<1> QED
  BY <1>1, <1>2, <1>3 DEF Next, Resolve, Replay, Cancel, Requeue, workflow

(* A chain does what its contract allows - its steps in order, its gates   *)
(* obeyed, one end and the hook for it in each generation - and nothing of *)
(* a cancelled iteration or batch is counted any more, whatever crashes,   *)
(* is replayed or comes late (dispatchers.py, chain.py, base.cancel).      *)
THEOREM OutcomesAreKept == SuiteSpec => OutcomesStand
<1>1. /\ ChainP!ChainAssumption /\ ChainP!Careful
      /\ ParallelAssumption /\ RunsFirst
  BY WorkflowsAssumption, ChainIs
     DEF WorkflowsAssumption, ChainP!Careful, ChainP!OneOperator, RunsFirst
<1>2. SuiteSpec => Chain!KeepsContract
  <2>1. ChainP!Spec => ChainP!KeepsContract
    BY <1>1, ChainP!ChainKeepsItsContract
  <2>2. /\ ChainP!Contract!Init => Chain!Contract!Init
        /\ [ChainP!Contract!Next]_(ChainP!Contract!vars)
             => [Chain!Contract!Next]_(Chain!Contract!vars)
    BY ContractIs DEF ChainP!Contract!vars, Chain!Contract!vars
  <2> QED
    BY <2>1, <2>2, ChainRuns, ChainRests, PTL
       DEF ChainP!KeepsContract, ChainP!Contract!Spec, Chain!KeepsContract, Chain!Contract!Spec
<1>3. SuiteSpec => CancelledIsFinal
  <2>1. SuiteInit => Inv
    BY <1>1, Start DEF SuiteInit
  <2>2. Inv /\ [SuiteNext]_suite =>
          Inv' /\ [status = "CANCELLED" => status' = "CANCELLED" /\ tally' = tally]_vars
    BY <1>1, AtWorkOrStill, StepsKeep, CancelledStays
  <2> QED
    BY <2>1, <2>2, PTL DEF SuiteSpec, CancelledIsFinal
<1> QED
  BY <1>2, <1>3 DEF OutcomesStand
=============================================================================
