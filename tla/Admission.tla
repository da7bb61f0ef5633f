----------------------------- MODULE Admission ------------------------------
(***************************************************************************)
(* Two components that decide whether a request goes ahead.                *)
(*                                                                         *)
(* ratelimit/tokenbucket: one Limiter, goroutines that call Allow and      *)
(* goroutines blocked in Wait.  A tick is the resolution of the clock;     *)
(* tokens are counted in units, Cost of them to a token, of which Rate are *)
(* replenished each tick.                                                  *)
(***************************************************************************)
EXTENDS Integers

CONSTANTS
    Waiters,  \* goroutines
    Cost,     \* units in a token
    Rate,     \* units replenished each tick
    Burst     \* capacity, in units

VARIABLES
    tokens,  \* l.tokens, in units
    since,   \* time since l.last, as far as it matters
    closed,  \* l.closed
    waiter,  \* "idle", "wait" (at the top of Wait's loop), "sleep", "granted",
             \* "limited" or "cancelled"
    timer    \* what is left of the waiter's time.After

vars == <<tokens, since, closed, waiter, timer>>

-----------------------------------------------------------------------------
ASSUME TokenBucketAssumption == Cost \in Nat \ {0} /\ Rate \in Nat \ {0} /\ Burst \in Nat \ {0}

\* A token and the burst are worth a whole number of ticks.
WholeTicks == Cost % Rate = 0 /\ Burst % Rate = 0

Results == {"granted", "limited", "cancelled"}

TypeOK ==
    /\ tokens \in 0..Burst
    /\ since \in 0..Burst
    /\ closed \in BOOLEAN
    /\ waiter \in [Waiters -> {"idle", "wait", "sleep"} \cup Results]
    /\ timer \in [Waiters -> 0..Cost]

Init ==
    /\ tokens = Burst /\ since = 0
    /\ closed = FALSE
    /\ waiter = [w \in Waiters |-> "idle"]
    /\ timer = [w \in Waiters |-> 0]

-----------------------------------------------------------------------------
(* Definitions named Mutant... are faulty variants of the one after them;  *)
(* no specification uses them.                                             *)

\* What the bucket holds once replenished.
Level == LET full == tokens + since * Rate IN IF full > Burst THEN Burst ELSE full

MutantWaitForRoundsUp == IF Level >= Cost THEN 0 ELSE (Cost - Level) \div Rate + 1

\* takeLocked(1): the wait, in whole ticks; 0 also if less than a tick is missing.
WaitFor == IF Level >= Cost THEN 0 ELSE (Cost - Level) \div Rate

MutantTakenLosesRefill == IF Level >= Cost THEN Level - Cost ELSE tokens

MutantTakenKeepsToken == Level

\* takeLocked replenishes, and takes the token only if the bucket holds one.
Taken == IF Level >= Cost THEN Level - Cost ELSE Level

Take == tokens' = Taken /\ since' = 0

\* A goroutine calls Wait or, the second and third case, Allow.
Begin(w) ==
    /\ waiter[w] = "idle"
    /\ \/ waiter' = [waiter EXCEPT ![w] = "wait"] /\ UNCHANGED <<tokens, since>>
       \/ /\ ~closed /\ WaitFor = 0 /\ Take
          /\ waiter' = [waiter EXCEPT ![w] = "granted"]
       \/ /\ \/ closed /\ UNCHANGED <<tokens, since>>
             \/ ~closed /\ WaitFor > 0 /\ Take
          /\ waiter' = [waiter EXCEPT ![w] = "limited"]
    /\ UNCHANGED <<closed, timer>>

MutantTryIgnoresClose(w) ==
    /\ waiter[w] = "wait"
    /\ Take
    /\ IF WaitFor = 0 THEN waiter' = [waiter EXCEPT ![w] = "granted"] /\ UNCHANGED timer
                      ELSE /\ waiter' = [waiter EXCEPT ![w] = "sleep"]
                           /\ timer' = [timer EXCEPT ![w] = WaitFor]
    /\ UNCHANGED closed

\* One turn of Wait's loop, under the mutex.
Try(w) ==
    /\ waiter[w] = "wait"
    /\ IF closed
       THEN waiter' = [waiter EXCEPT ![w] = "limited"] /\ UNCHANGED <<tokens, since, timer>>
       ELSE /\ Take
            /\ IF WaitFor = 0
               THEN waiter' = [waiter EXCEPT ![w] = "granted"] /\ UNCHANGED timer
               ELSE /\ waiter' = [waiter EXCEPT ![w] = "sleep"]
                    /\ timer' = [timer EXCEPT ![w] = WaitFor]
    /\ UNCHANGED closed

\* time.After fires.
Wake(w) ==
    /\ waiter[w] = "sleep" /\ timer[w] = 0
    /\ waiter' = [waiter EXCEPT ![w] = "wait"]
    /\ UNCHANGED <<tokens, since, closed, timer>>

\* The context of Wait ends; l.notify is never sent to.
Cancel(w) ==
    /\ waiter[w] = "sleep"
    /\ waiter' = [waiter EXCEPT ![w] = "cancelled"] /\ timer' = [timer EXCEPT ![w] = 0]
    /\ UNCHANGED <<tokens, since, closed>>

Return(w) ==
    /\ waiter[w] \in Results
    /\ waiter' = [waiter EXCEPT ![w] = "idle"]
    /\ UNCHANGED <<tokens, since, closed, timer>>

Close ==
    /\ ~closed /\ closed' = TRUE
    /\ UNCHANGED <<tokens, since, waiter, timer>>

Tick ==
    /\ since' = IF since < Burst THEN since + 1 ELSE since
    /\ timer' = [w \in Waiters |-> IF timer[w] > 0 THEN timer[w] - 1 ELSE 0]
    /\ UNCHANGED <<tokens, closed, waiter>>

Next ==
    \/ \E w \in Waiters : Begin(w) \/ Try(w) \/ Wake(w) \/ Cancel(w) \/ Return(w)
    \/ Close \/ Tick

Spec == Init /\ [][Next]_vars

\* A runnable goroutine runs, timers fire and time passes; no context ends and
\* nobody has to call.
Fairness == (\A w \in Waiters : WF_vars(Try(w)) /\ WF_vars(Wake(w))) /\ WF_vars(Tick)

-----------------------------------------------------------------------------
\* New (tokenbucket.go:42-45): sustained rate and burst.  Every admission takes
\* a whole token out of the bucket and only time puts units back, so no mix of
\* Allow and Wait admits more than the burst plus the rate times the time: as
\* long as a token is worth a whole number of ticks.  If it is not, takeLocked
\* may truncate a wait to zero and admit a caller without a token.
AdmissionsArePaidFor ==
    [][ WholeTicks =>
          /\ \A w \in Waiters :
               waiter'[w] = "granted" /\ waiter[w] # "granted" => Level' = Level - Cost
          /\ Level' > Level => Level' - Level <= Rate /\ waiter' = waiter ]_vars

\* Wait: no goroutine sleeps on while a token is there for it: until its timer
\* has fired, the bucket cannot have filled up to a token, however the other
\* goroutines' calls replenish it in between.
NoOversleep ==
    \A w \in Waiters : waiter[w] = "sleep" /\ timer[w] > 0 => Level < Cost

\* Wait and Close (tokenbucket.go:126): a goroutine blocked in Wait returns once
\* the limiter is closed, at the latest when its timer fires.
CloseReleasesWaiters ==
    \A w \in Waiters :
      closed /\ waiter[w] \in {"wait", "sleep"} ~> waiter[w] \in {"limited", "cancelled"}

\* Wait: as long as goroutines wait, admissions go on: one of them is granted
\* its token, or none of them waits any more.
WaitersProgress ==
    (\E w \in Waiters : waiter[w] = "sleep") ~>
      \/ \A w \in Waiters : waiter[w] # "sleep"
      \/ \E w \in Waiters : waiter[w] = "granted"

\* Nobody is left in Wait (tokenbucket.go:100-134): neither after Close nor
\* while tokens come in.
WaitersAreReleased == CloseReleasesWaiters /\ WaitersProgress

-----------------------------------------------------------------------------
(***************************************************************************)
(* circuitbreaker/vegas: one Breaker and the requests of Execute.  As in   *)
(* the package's example, a request may also call RecordLatency itself.    *)
(***************************************************************************)

CONSTANTS
    Latencies,        \* what requests take; those outside MinRTT..MaxRTT are filtered
    MinRTT, MaxRTT,
    AlphaPercent, BetaPercent,
    WarmupSamples,
    MaxInflight       \* bound: requests between Allow and their result

VARIABLES
    state,       \* b.state
    baseRTT, currentRTT,
    samples,     \* sampleCount, up to WarmupSamples
    vegasClosed, \* b.closed
    inflight,    \* requests between Allow and their result
    fastest      \* the smallest latency that passed the filter, 0 before any

vegasVars == <<state, baseRTT, currentRTT, samples, vegasClosed, inflight, fastest>>

-----------------------------------------------------------------------------
\* What New and the options guarantee of the configuration.  Nothing makes beta
\* smaller than alpha.
Configured ==
    /\ Latencies \subseteq Nat /\ MinRTT \in Nat \ {0} /\ MaxRTT \in Nat /\ MinRTT <= MaxRTT
    /\ AlphaPercent \in Nat /\ BetaPercent \in Nat
    /\ WarmupSamples \in Nat \ {0} /\ MaxInflight \in Nat

ASSUME VegasAssumption == Configured

VegasTypeOK ==
    /\ state \in {"closed", "open", "halfOpen"}
    /\ baseRTT \in 0..MaxRTT /\ currentRTT \in 0..MaxRTT /\ fastest \in 0..MaxRTT
    /\ samples \in 0..WarmupSamples
    /\ vegasClosed \in BOOLEAN
    /\ inflight \in 0..MaxInflight

VegasInit ==
    /\ state = "closed"
    /\ baseRTT = 0 /\ currentRTT = 0 /\ samples = 0
    /\ vegasClosed = FALSE
    /\ inflight = 0 /\ fastest = 0

-----------------------------------------------------------------------------
(* Definitions named Mutant... are faulty variants of the one after them;  *)
(* no specification uses them.                                             *)

Filtered(rtt) == rtt < MinRTT \/ rtt > MaxRTT

MutantSmoothed(rtt) ==
    IF currentRTT = 0 THEN rtt ELSE (7 * currentRTT) \div 8 + rtt \div 8

\* The float is truncated to a whole Duration.
Smoothed(rtt) ==
    IF currentRTT = 0 THEN rtt ELSE (7 * currentRTT + rtt) \div 8

\* updateRTTLocked.
updateRTT(rtt) ==
    IF Filtered(rtt)
    THEN UNCHANGED <<samples, currentRTT, baseRTT, fastest>>
    ELSE /\ samples' = IF samples < WarmupSamples THEN samples + 1 ELSE samples
         /\ currentRTT' = Smoothed(rtt)
         /\ baseRTT' = IF baseRTT = 0 \/ rtt < baseRTT THEN rtt ELSE baseRTT
         /\ fastest' = IF fastest = 0 \/ rtt < fastest THEN rtt ELSE fastest

\* evaluateLocked, on the RTTs just updated, for a breaker in state s.
Evaluated(s) ==
    LET degraded == 100 * (currentRTT' - baseRTT') > AlphaPercent * baseRTT'
        healed == 100 * (currentRTT' - baseRTT') < BetaPercent * baseRTT'
    IN IF samples' < WarmupSamples \/ baseRTT' = 0 THEN s
       ELSE CASE s = "closed" /\ degraded -> "open"
              [] s = "open" /\ healed -> "halfOpen"
              [] s = "halfOpen" /\ healed -> "closed"
              [] s = "halfOpen" /\ ~healed /\ degraded -> "open"
              [] OTHER -> s

-----------------------------------------------------------------------------
Admit ==
    /\ ~vegasClosed /\ state # "open" /\ inflight < MaxInflight
    /\ inflight' = inflight + 1
    /\ UNCHANGED <<state, baseRTT, currentRTT, samples, vegasClosed, fastest>>

MutantRecordLatencyClosesLast(rtt) ==
    /\ updateRTT(rtt)
    /\ state' = IF state = "halfOpen" THEN "closed" ELSE Evaluated(state)
    /\ UNCHANGED vegasClosed

\* RecordLatency; MarkSuccess is RecordLatency(0).  Any result that is not a
\* failure closes a half-open breaker before it is evaluated.
RecordLatency(rtt) ==
    /\ updateRTT(rtt)
    /\ state' = Evaluated(IF state = "halfOpen" THEN "closed" ELSE state)
    /\ UNCHANGED vegasClosed

MarkFailure ==
    /\ IF state = "halfOpen"
       THEN state' = "open" /\ UNCHANGED <<samples, currentRTT, baseRTT, fastest>>
       ELSE updateRTT(MaxRTT) /\ state' = Evaluated(state)
    /\ UNCHANGED vegasClosed

\* The request calls RecordLatency, as the example does, before Execute does.
Report == inflight > 0 /\ (\E rtt \in Latencies : RecordLatency(rtt)) /\ UNCHANGED inflight

Succeed ==
    inflight > 0 /\ (\E rtt \in Latencies : RecordLatency(rtt)) /\ inflight' = inflight - 1

Fail == inflight > 0 /\ MarkFailure /\ inflight' = inflight - 1

VegasClose ==
    /\ ~vegasClosed /\ vegasClosed' = TRUE
    /\ UNCHANGED <<state, baseRTT, currentRTT, samples, inflight, fastest>>

VegasNext == Admit \/ Report \/ Succeed \/ Fail \/ VegasClose

VegasSpec == VegasInit /\ [][VegasNext]_vegasVars

-----------------------------------------------------------------------------
\* updateRTTLocked: smoothing, truncation and a falling baseline together never
\* take the smoothed RTT below the baseline, so the inflation evaluateLocked
\* computes is never negative and no breaker heals on an artefact.
InflationNotNegative == baseRTT = fastest /\ baseRTT <= currentRTT

\* evaluateLocked: the breaker leaves the closed state only with a warm
\* baseline, whatever mix of filtered samples and failures it has seen.
OpensOnlyWarm == state # "closed" => samples = WarmupSamples /\ baseRTT > 0

\* evaluateLocked (vegas.go:13): once warm, a breaker whose smoothed RTT is
\* inflated beyond alpha is not closed, whichever way it came back to closed:
\* even the result that ends a half-open period is evaluated.
ClosedIsHealthy ==
    state = "closed" /\ samples = WarmupSamples =>
      100 * (currentRTT - baseRTT) <= AlphaPercent * baseRTT

\* The judgement of evaluateLocked is sound (vegas.go:10-14): on an inflation
\* that is not negative, only with a warm baseline, and never left out.
VegasContract == InflationNotNegative /\ OpensOnlyWarm /\ ClosedIsHealthy
=============================================================================
