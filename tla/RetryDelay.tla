----------------------------- MODULE RetryDelay -----------------------------
(***************************************************************************)
(* A task's series of failures under its retry policy (retry.py): whether  *)
(* an exception is retried, what a provider's hint, the backoff, the       *)
(* jitter and the cap make of the delay, and the truncation to whole       *)
(* seconds at the end.  Durations are in tenths of a second; random.uniform *)
(* is a choice over the tenths of its interval.                            *)
(***************************************************************************)
EXTENDS Integers

CONSTANTS
  Exceptions,  \* exception class names
  Policies,    \* the policies tasks are created with
  HintTexts    \* numbers a provider may write after "Retry-After:"

Second == 10
Strategies == {"fixed", "linear", "exponential"}
Smaller(x, y) == IF x < y THEN x ELSE y
Larger(x, y) == IF x < y THEN y ELSE x

(* RetryPolicy's validation. *)
ValidPolicy(p) ==
  /\ p.max_attempts \in 1..10
  /\ p.base_delay \in Nat
  /\ p.backoff_strategy \in Strategies
  /\ p.jitter_max \in 0..100   \* in hundredths; 0 stands for no jitter
  /\ p.retry_exceptions \subseteq Exceptions
  /\ p.skip_exceptions \subseteq Exceptions
  /\ p.rate_limit_exceptions \subseteq Exceptions
  /\ p.rate_limit_max_delay \in Nat \ {0}

PolicyAssumption == (\A p \in Policies : ValidPolicy(p)) /\ HintTexts \subseteq Nat

VARIABLES
  policy,   \* QraftTask.retry_policy
  number,   \* the newest attempt's number
  state,    \* the newest attempt is running or scheduled, or none will follow
  failure,  \* what the attempt before it failed with
  delay,    \* the delay before the newest attempt, in seconds
  before    \* history: failure and delay before those

vars == <<policy, number, state, failure, delay, before>>

NoHint == -1
NoFailure == [exception |-> "none", hint |-> NoHint]
Failures == [exception: Exceptions, hint: HintTexts \cup {NoHint}]

TypeOK ==
  /\ policy \in Policies
  /\ number \in 1..policy.max_attempts
  /\ state \in {"running", "scheduled", "succeeded", "exhausted"}
  /\ failure \in Failures \cup {NoFailure}
  /\ delay \in Nat
  /\ before \in [failure: Failures \cup {NoFailure}, delay: Nat]

Init ==
  /\ policy \in Policies
  /\ number = 1 /\ state = "running" /\ delay = 0
  /\ failure = NoFailure
  /\ before = [failure |-> NoFailure, delay |-> 0]
-----------------------------------------------------------------------------
IsRateLimit(e) == e \in policy.rate_limit_exceptions

(* Mutants: rate limits count before the skip list, or not at all. *)
RetriesRateLimitFirst(e) ==
  IsRateLimit(e) \/ (e \notin policy.skip_exceptions
                     /\ (policy.retry_exceptions = {} \/ e \in policy.retry_exceptions))
RetriesListed(e) ==
  /\ e \notin policy.skip_exceptions
  /\ policy.retry_exceptions = {} \/ e \in policy.retry_exceptions

(* should_retry below the limit: the skip list first, then rate limits,    *)
(* then the allowlist, if there is one.                                    *)
Retries(e) ==
  /\ e \notin policy.skip_exceptions
  /\ IsRateLimit(e) \/ policy.retry_exceptions = {} \/ e \in policy.retry_exceptions

(* parse_retry_after: a hint is at least a second. *)
Parsed(hint) == IF hint = NoHint THEN NoHint ELSE Larger(Second, hint)

(* The hint is looked for only when the failure is a rate limit. *)
HintOf(f) == IF IsRateLimit(f.exception) THEN Parsed(f.hint) ELSE NoHint
-----------------------------------------------------------------------------
(* Mutants: the cap is applied before the jitter; the jitter is symmetric. *)
HintedCappedFirst(hint) ==
  LET capped == Smaller(hint, policy.rate_limit_max_delay)
  IN  capped..(capped + capped \div 10)
HintedSymmetric(hint) ==
  {Smaller(hint + j, policy.rate_limit_max_delay) : j \in -(hint \div 10)..(hint \div 10)}

(* A hint, with a little on top, and no more than the cap. *)
Hinted(hint) ==
  {Smaller(hint + j, policy.rate_limit_max_delay) : j \in 0..(hint \div 10)}

(* Mutant: rate limits follow the configured strategy. *)
BackoffAsConfigured(n, rateLimit) ==
  CASE policy.backoff_strategy = "linear" -> policy.base_delay * n
    [] policy.backoff_strategy = "exponential" -> policy.base_delay * 2^(n - 1)
    [] OTHER -> policy.base_delay

(* Rate limits back off exponentially, under the cap, whatever the policy. *)
Backoff(n, rateLimit) ==
  IF rateLimit
  THEN Smaller(policy.base_delay * 2^(n - 1), policy.rate_limit_max_delay)
  ELSE CASE policy.backoff_strategy = "linear" -> policy.base_delay * n
         [] policy.backoff_strategy = "exponential" -> policy.base_delay * 2^(n - 1)
         [] OTHER -> policy.base_delay

(* Mutant: jitter may take the delay down to nothing. *)
JitteredFreely(d) ==
  LET most == (d * policy.jitter_max) \div 100
  IN  {Larger(0, d + j) : j \in -most..most}

(* Jitter either way, with a floor of MIN_JITTER_DELAY. *)
Jittered(d) ==
  LET most == (d * policy.jitter_max) \div 100
  IN  IF policy.jitter_max = 0 \/ d = 0 THEN {d}
      ELSE {Larger(Second, d + j) : j \in -most..most}

(* Mutant: the cap is not applied again after the jitter. *)
UncappedAfter(d, rateLimit) == d

CappedAfter(d, rateLimit) ==
  IF rateLimit THEN Smaller(d, policy.rate_limit_max_delay) ELSE d

(* calculate_delay, in whole seconds. *)
Delays(n, hint, rateLimit) ==
  {d \div Second :
     d \in IF hint # NoHint THEN Hinted(hint)
           ELSE {CappedAfter(d, rateLimit) : d \in Jittered(Backoff(n, rateLimit))}}
-----------------------------------------------------------------------------
(* Mutant: off by one. *)
AllowsOneMore == number <= policy.max_attempts

AllowsMore == number < policy.max_attempts

(* handle_task_retry: schedule_retry, or the task is EXHAUSTED. *)
Fail(f) ==
  /\ state = "running"
  /\ failure' = f
  /\ before' = [failure |-> failure, delay |-> delay]
  /\ \/ /\ AllowsMore /\ Retries(f.exception)
        /\ delay' \in Delays(number, HintOf(f), IsRateLimit(f.exception))
        /\ number' = number + 1
        /\ state' = "scheduled"
     \/ /\ ~(AllowsMore /\ Retries(f.exception))
        /\ state' = "exhausted"
        /\ UNCHANGED <<delay, number>>
  /\ UNCHANGED policy

(* The scheduled attempt falls due and runs. *)
Start ==
  /\ state = "scheduled"
  /\ state' = "running"
  /\ UNCHANGED <<policy, number, failure, delay, before>>

Succeed ==
  /\ state = "running"
  /\ state' = "succeeded"
  /\ UNCHANGED <<policy, number, failure, delay, before>>

Next == (\E f \in Failures : Fail(f)) \/ Start \/ Succeed

Spec == Init /\ [][Next]_vars
-----------------------------------------------------------------------------
(* Properties.                                                             *)

Retried == state = "scheduled"
ByHint == Retried /\ HintOf(failure) # NoHint
ByRateLimit == Retried /\ IsRateLimit(failure.exception)
Cap == policy.rate_limit_max_delay

(* No delay a rate limit leads to is over its cap, whatever the hint, the  *)
(* backoff and the jitter add up to (calculate_delay).                     *)
CapHolds == ByRateLimit => delay * Second <= Cap

(* Qraft never waits less than the provider asked for, but for the cap and *)
(* the fraction of a second that truncation takes (docs/ai-workloads.md:51). *)
WholeHintIsFloor ==
  ByHint => delay >= Smaller(HintOf(failure), Cap) \div Second

(* Two rate limits in a row without hints at least double the wait, up to  *)
(* the cap, under every strategy (docs/ai-workloads.md:49).                *)
RateLimitsBackOff ==
  /\ ByRateLimit /\ ~ByHint /\ policy.jitter_max = 0
  /\ before.failure # NoFailure
  /\ IsRateLimit(before.failure.exception) /\ before.failure.hint = NoHint
  => delay >= Smaller(2 * before.delay, Cap \div Second)

(* A retry that is spread by jitter, or that a provider has asked for, is  *)
(* never immediate, unless the cap itself is below a second                *)
(* (MIN_JITTER_DELAY, parse_retry_after).                                  *)
NeverAtOnce ==
  /\ Retried /\ Cap >= Second
  /\ ByHint \/ (policy.jitter_max > 0 /\ policy.base_delay > 0)
  => delay >= 1

(* A series of failures ends as the policy's lists say: nothing skipped is *)
(* tried again, a rate limit is even where the allowlist leaves it out, and *)
(* no attempt goes past max_attempts (should_retry).                       *)
EndsAsListed ==
  /\ Retried => failure.exception \notin policy.skip_exceptions
  /\ state = "exhausted" /\ number < policy.max_attempts =>
       \/ failure.exception \in policy.skip_exceptions
       \/ /\ failure.exception \notin policy.rate_limit_exceptions
          /\ failure.exception \notin policy.retry_exceptions
          /\ policy.retry_exceptions # {}

(* What docs/ai-workloads.md:51 says: Qraft never waits less than the      *)
(* provider asked for, up to the cap.                                      *)
HintIsFloor == ByHint => delay * Second >= Smaller(HintOf(failure), Cap)
=============================================================================
