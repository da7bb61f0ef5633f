-------------------------------- MODULE Retry --------------------------------
(***************************************************************************)
(* retry: one call of Retrier.Do.  Time is counted in ticks: the attempts  *)
(* and the sleeps between them take some.                                  *)
(***************************************************************************)
EXTENDS Integers

CONSTANTS
    MaxAttempts,
    Initial, Factor, Step,      \* of the backoffs
    MaxDelay,                   \* their Max; 0 is no cap
    MaxTotalWait,               \* 0 is no limit
    MaxCall,                    \* bound: ticks an attempt takes
    MaxLate                     \* bound: ticks a timer fires late

VARIABLES
    backoff,  \* ExponentialBackoff, LinearBackoff or FixedBackoff
    jitter,   \* NoJitter, FullJitter or EqualJitter
    pc,       \* "check", "sleep" or "returned"
    attempt,
    calls,    \* how often fn was called
    elapsed,  \* time since start
    began,    \* elapsed when fn was last called
    wait,     \* the sleep chosen
    ctx,      \* "live" or "cancelled"
    result

retryVars == <<backoff, jitter, pc, attempt, calls, elapsed, began, wait, ctx, result>>

-----------------------------------------------------------------------------
\* WithMaxAttempts keeps the number of attempts positive; the factor of the
\* exponential backoff is a whole number here, and no delay shrinks.
ASSUME RetryAssumption ==
    /\ MaxAttempts \in Nat \ {0}
    /\ Initial \in Nat /\ Factor \in Nat \ {0} /\ Step \in Nat
    /\ MaxDelay \in Nat /\ MaxTotalWait \in Nat
    /\ MaxCall \in Nat /\ MaxLate \in Nat

Answers == {"none", "nil", "ctxErr", "notRetryable", "ErrTimeout", "ErrMaxAttempts"}

RetryTypeOK ==
    /\ backoff \in {"exponential", "linear", "fixed"}
    /\ jitter \in {"none", "full", "equal"}
    /\ pc \in {"check", "sleep", "returned"}
    /\ attempt \in 0..(MaxAttempts - 1) /\ calls \in 0..MaxAttempts
    /\ elapsed \in Nat /\ began \in Nat /\ wait \in Nat
    /\ ctx \in {"live", "cancelled"}
    /\ result \in Answers

RetryInit ==
    /\ backoff \in {"exponential", "linear", "fixed"}
    /\ jitter \in {"none", "full", "equal"}
    /\ pc = "check" /\ attempt = 0 /\ calls = 0
    /\ elapsed = 0 /\ began = 0 /\ wait = 0
    /\ ctx = "live" /\ result = "none"

-----------------------------------------------------------------------------
(* Definitions named Mutant... are faulty variants of the one after them;  *)
(* no specification uses them.                                             *)

Capped(d) == MaxDelay > 0 /\ d > MaxDelay

Cap(d) == IF Capped(d) THEN MaxDelay ELSE d

\* d after i rounds of the loop of ExponentialBackoff.Delay.
Rounds(n) == LET d[i \in 0..n] == IF i = 0 THEN Initial ELSE d[i - 1] * Factor IN d

MutantExponential(n) == IF \E i \in 0..(n - 1) : Capped(Rounds(n)[i]) THEN MaxDelay ELSE Rounds(n)[n]

\* The loop stops at the cap; the cap is tested again after it.
Exponential(n) == IF \E i \in (1..n) \cup {n} : Capped(Rounds(n)[i]) THEN MaxDelay ELSE Rounds(n)[n]

\* Backoff.Delay.
Delay(n) ==
    CASE backoff = "exponential" -> Exponential(n)
      [] backoff = "linear" -> Cap(Initial + Step * n)
      [] backoff = "fixed"  -> Initial

Jittered(d) ==
    CASE jitter = "none"  -> {d}
      [] jitter = "full"  -> 0..d
      [] jitter = "equal" -> (d \div 2)..(2 * (d \div 2))

MutantWaits == Jittered(Delay(attempt))

\* The sleeps Do may choose, cut to what is left of maxTotalWait.
Waits ==
    LET left == MaxTotalWait - elapsed' IN
    {IF MaxTotalWait > 0 /\ w > left THEN left ELSE w : w \in Jittered(Delay(attempt))}

Answer(r) == pc' = "returned" /\ result' = r

CheckContext ==
    /\ pc = "check" /\ ctx = "cancelled"
    /\ Answer("ctxErr")
    /\ UNCHANGED <<backoff, jitter, attempt, calls, elapsed, began, wait, ctx>>

MutantExhausted == attempt = MaxAttempts

Exhausted == attempt = MaxAttempts - 1

\* fn, its classification, and the choice of the sleep.
Call ==
    /\ pc = "check" /\ ctx = "live"
    /\ calls' = calls + 1 /\ began' = elapsed
    /\ \E d \in 0..MaxCall : elapsed' = elapsed + d
    /\ \/ Answer("nil") /\ UNCHANGED wait
       \/ Answer("notRetryable") /\ UNCHANGED wait
       \/ Exhausted /\ Answer("ErrMaxAttempts") /\ UNCHANGED wait
       \/ /\ ~Exhausted /\ MaxTotalWait > 0 /\ elapsed' >= MaxTotalWait
          /\ Answer("ErrTimeout") /\ UNCHANGED wait
       \/ /\ ~Exhausted /\ (MaxTotalWait = 0 \/ elapsed' < MaxTotalWait)
          /\ wait' \in Waits
          /\ pc' = "sleep" /\ UNCHANGED result
    /\ UNCHANGED <<backoff, jitter, attempt, ctx>>

\* time.After fires, maybe late; the next attempt begins.
Awake ==
    /\ pc = "sleep"
    /\ \E late \in 0..MaxLate : elapsed' = elapsed + wait + late
    /\ attempt' = attempt + 1 /\ pc' = "check"
    /\ UNCHANGED <<backoff, jitter, calls, began, wait, ctx, result>>

\* The context ends during the sleep.
Interrupted ==
    /\ pc = "sleep" /\ ctx = "cancelled"
    /\ Answer("ctxErr")
    /\ UNCHANGED <<backoff, jitter, attempt, calls, elapsed, began, wait, ctx>>

CancelContext ==
    /\ pc # "returned" /\ ctx = "live" /\ ctx' = "cancelled"
    /\ UNCHANGED <<backoff, jitter, pc, attempt, calls, elapsed, began, wait, result>>

RetryNext == CheckContext \/ Call \/ Awake \/ Interrupted \/ CancelContext

RetrySpec == RetryInit /\ [][RetryNext]_retryVars

-----------------------------------------------------------------------------
\* WithMaxTotalWait (retry.go:89-94): whatever the attempts took and the jitter
\* chose, no sleep is planned to end after the total wait is over; an attempt
\* begins after that only by as much as the timer fired late, and is the last.
BudgetRespected ==
    MaxTotalWait > 0 =>
      /\ began <= MaxTotalWait + MaxLate
      /\ pc = "sleep" => began < MaxTotalWait /\ elapsed + wait <= MaxTotalWait

\* Do (retry.go:120-125): the error says why Do gave up: every attempt was used,
\* or the budget was over with attempts left, or the context ended; and fn is
\* never called again after its success.
AnswerTellsWhy ==
    pc = "returned" =>
      /\ result = "ErrMaxAttempts" => calls = MaxAttempts
      /\ result = "ErrTimeout" => calls < MaxAttempts /\ elapsed >= MaxTotalWait
      /\ result = "ctxErr" => ctx = "cancelled"
      /\ result # "ctxErr" => calls > 0 /\ calls = attempt + 1

\* Factor^n.
Power(n) == LET p[i \in 0..n] == IF i = 0 THEN 1 ELSE p[i - 1] * Factor IN p[n]

\* ExponentialBackoff (retry.go:203-208): "Initial * Factor^attempt, capped at
\* Max": no jitter sleeps longer than that, and without jitter a shorter sleep
\* ends exactly when the total wait is over.
SleepsFollowFormula ==
    pc = "sleep" /\ backoff = "exponential" =>
      /\ wait <= Cap(Initial * Power(attempt))
      /\ jitter = "none" /\ wait < Cap(Initial * Power(attempt)) =>
           MaxTotalWait > 0 /\ elapsed + wait = MaxTotalWait

\* Do (retry.go:120-182): nothing is planned for after the total wait, sleeps
\* follow the documented formula, and the error says why Do gave up.
RetryContract == RetryTypeOK /\ BudgetRespected /\ SleepsFollowFormula /\ AnswerTellsWhy
=============================================================================
