-------------------------- MODULE ResilienceProofs --------------------------
(***************************************************************************)
(* ratelimit/tokenbucket, circuitbreaker/vegas and retry for any number of *)
(* callers and any setting of their options.                               *)
(***************************************************************************)
EXTENDS Admission, Retry, WellFoundedInduction, TLAPS

-----------------------------------------------------------------------------
(***************************************************************************)
(* The token bucket, for any number of goroutines and any rate,            *)
(* burst and token.                                                        *)
(***************************************************************************)

-----------------------------------------------------------------------------
(* Arithmetic, kept apart from the state.                                  *)

LEMMA Quotient ==
    ASSUME NEW a \in Nat, NEW r \in Nat, r > 0
    PROVE  a \div r \in Nat /\ (a \div r) * r <= a /\ a \div r <= a
  OBVIOUS

LEMMA Product ==
    ASSUME NEW a \in Nat, NEW r \in Nat
    PROVE  a * r \in Nat /\ (a + 1) * r = a * r + r /\ (a > 0 => (a - 1) * r = a * r - r)
  OBVIOUS

LEMMA Zero ==
    ASSUME NEW r \in Nat
    PROVE  0 * r = 0
  OBVIOUS

LEMMA Positive ==
    ASSUME NEW a \in Nat, NEW r \in Nat, a > 0, r > 0
    PROVE  a * r > 0
  OBVIOUS

-----------------------------------------------------------------------------
(* What the operations do to the level of the bucket.                      *)

LEMMA LevelFacts ==
    ASSUME TypeOK
    PROVE  Level \in Nat /\ Level <= Burst /\ since * Rate \in Nat /\ Rate \in Nat /\ Rate > 0
  <1>1. tokens \in Nat /\ tokens <= Burst /\ since \in Nat /\ Rate \in Nat /\ Burst \in Nat
    BY TokenBucketAssumption DEF TypeOK
  <1>2. since * Rate \in Nat
    BY <1>1, Product
  <1> QED
    BY <1>1, <1>2, TokenBucketAssumption DEF Level

\* takeLocked: afterwards the bucket holds what takeLocked left in it.
LEMMA TakeFacts ==
    ASSUME TypeOK, Take
    PROVE  /\ tokens' \in 0..Burst /\ since' \in 0..Burst
           /\ Level' = (IF Level >= Cost THEN Level - Cost ELSE Level)
           /\ Level' <= Level
  <1>1. Level \in Nat /\ Level <= Burst /\ Rate \in Nat /\ Burst \in Nat /\ Cost \in Nat
    BY LevelFacts, TokenBucketAssumption
  <1>2. tokens' = (IF Level >= Cost THEN Level - Cost ELSE Level) /\ since' = 0
    BY DEF Take, Taken
  <1>3. tokens' \in Nat /\ tokens' <= Level
    BY <1>1, <1>2
  <1>4. Level' = tokens'
    <2>1. since' * Rate = 0
      BY <1>1, <1>2, Zero
    <2> QED
      BY <1>1, <1>3, <2>1 DEF Level
  <1> QED
    BY <1>1, <1>2, <1>3, <1>4

\* The wait takeLocked returns is over no later than the token is there.
LEMMA WaitFacts ==
    ASSUME TypeOK
    PROVE  WaitFor \in 0..Cost /\ (WaitFor > 0 => Level < Cost /\ Level + WaitFor * Rate <= Cost)
  <1>1. Level \in Nat /\ Rate \in Nat /\ Rate > 0 /\ Cost \in Nat
    BY LevelFacts, TokenBucketAssumption
  <1>2. CASE Level >= Cost
    BY <1>1, <1>2 DEF WaitFor
  <1>3. CASE ~(Level >= Cost)
    <2> DEFINE deficit == Cost - Level
    <2>1. deficit \in Nat /\ deficit <= Cost /\ WaitFor = deficit \div Rate
      BY <1>1, <1>3 DEF WaitFor
    <2>2. /\ deficit \div Rate \in Nat /\ (deficit \div Rate) * Rate <= deficit
          /\ deficit \div Rate <= deficit
      BY <1>1, <2>1, Quotient
    <2>3. (deficit \div Rate) * Rate \in Nat
      BY <1>1, <2>2, Product
    <2> QED
      BY <1>1, <1>3, <2>1, <2>2, <2>3
  <1> QED
    BY <1>2, <1>3

LEMMA TickFacts ==
    ASSUME TypeOK, Tick
    PROVE  since' \in 0..Burst /\ Level' \in Nat /\ Level <= Level' /\ Level' <= Level + Rate
  <1>1. /\ tokens \in Nat /\ tokens <= Burst /\ since \in Nat /\ since <= Burst
        /\ Rate \in Nat /\ Burst \in Nat /\ since * Rate \in Nat
    BY LevelFacts, TokenBucketAssumption DEF TypeOK
  <1>2. tokens' = tokens
    BY DEF Tick
  <1>3. CASE since < Burst
    <2>1. since' = since + 1 /\ (since + 1) * Rate = since * Rate + Rate
      BY <1>1, <1>3, Product DEF Tick
    <2>2. since' * Rate = since * Rate + Rate
      BY <2>1
    <2> QED
      BY <1>1, <1>2, <1>3, <2>1, <2>2 DEF Level
  <1>4. CASE ~(since < Burst)
    <2>1. since' = since
      BY <1>4 DEF Tick
    <2> QED
      BY <1>1, <1>2, <2>1 DEF Level
  <1> QED
    BY <1>3, <1>4

-----------------------------------------------------------------------------
\* The state keeps its type: takeLocked never overfills the bucket or takes
\* what is not there, and no wait is longer than a whole token is worth.
THEOREM TypeCorrect == Spec => []TypeOK
  <1>1. Init => TypeOK
    <2> SUFFICES ASSUME Init PROVE TypeOK
      OBVIOUS
    <2>1. tokens \in 0..Burst /\ since \in 0..Burst
      BY TokenBucketAssumption DEF Init
    <2>2. timer \in [Waiters -> 0..Cost]
      BY TokenBucketAssumption DEF Init
    <2> QED
      BY <2>1, <2>2, Zenon DEF Init, TypeOK
  <1>2. TypeOK /\ [Next]_vars => TypeOK'
    <2> SUFFICES ASSUME TypeOK, [Next]_vars PROVE TypeOK'
      OBVIOUS
    <2>1. ASSUME NEW w \in Waiters, Begin(w) PROVE TypeOK'
      <3>1. tokens' \in 0..Burst /\ since' \in 0..Burst
        BY <2>1, TakeFacts DEF Begin, TypeOK
      <3>2. \E r \in {"wait", "granted", "limited"} : waiter' = [waiter EXCEPT ![w] = r]
        BY <2>1 DEF Begin
      <3> QED
        BY <2>1, <3>1, <3>2 DEF Begin, TypeOK, Results
    <2>2. ASSUME NEW w \in Waiters, Try(w) PROVE TypeOK'
      BY <2>2, TakeFacts, WaitFacts DEF Try, TypeOK, Results
    <2>3. ASSUME NEW w \in Waiters, Wake(w) \/ Cancel(w) \/ Return(w) PROVE TypeOK'
      BY <2>3, TokenBucketAssumption DEF Wake, Cancel, Return, TypeOK, Results
    <2>4. CASE Close
      BY <2>4 DEF Close, TypeOK
    <2>5. CASE Tick
      BY <2>5, TickFacts, TokenBucketAssumption DEF Tick, TypeOK
    <2>6. CASE UNCHANGED vars
      BY <2>6 DEF vars, TypeOK
    <2> QED
      BY <2>1, <2>2, <2>3, <2>4, <2>5, <2>6 DEF Next
  <1> QED
    BY <1>1, <1>2, PTL DEF Spec

-----------------------------------------------------------------------------
\* What is left of a timer is not worth more than what the bucket lacks.
Asleep == \A w \in Waiters : timer[w] > 0 => Level + timer[w] * Rate <= Cost

LEMMA AsleepKept ==
    ASSUME TypeOK, TypeOK', Asleep, Level' <= Level,
           \A w \in Waiters :
             timer'[w] > 0 => timer'[w] = timer[w] \/ Level' + timer'[w] * Rate <= Cost
    PROVE  Asleep'
  <1>1. Level \in Nat /\ Rate \in Nat /\ Cost \in Nat
    BY LevelFacts, TokenBucketAssumption
  <1>0. Level' \in Nat
    <2>1. tokens' \in Nat /\ since' \in Nat /\ Burst \in Nat
      BY TokenBucketAssumption DEF TypeOK
    <2>2. since' * Rate \in Nat
      BY <1>1, <2>1, Product, Zenon
    <2> QED
      BY <2>1, <2>2 DEF Level
  <1>2. ASSUME NEW w \in Waiters, timer'[w] > 0, timer'[w] = timer[w]
        PROVE  Level' + timer'[w] * Rate <= Cost
    <2>1. timer[w] \in Nat /\ timer[w] * Rate \in Nat
      BY <1>1, Product DEF TypeOK
    <2>2. Level + timer[w] * Rate <= Cost
      BY <1>2 DEF Asleep
    <2> QED
      BY <1>0, <1>1, <1>2, <2>1, <2>2
  <1> QED
    BY <1>2 DEF Asleep

LEMMA AsleepStep == TypeOK /\ TypeOK' /\ Asleep /\ [Next]_vars => Asleep'
  <1> SUFFICES ASSUME TypeOK, TypeOK', Asleep, [Next]_vars PROVE Asleep'
    OBVIOUS
  <1>0. Level \in Nat /\ Rate \in Nat /\ Cost \in Nat
    BY LevelFacts, TokenBucketAssumption
  <1>1. ASSUME UNCHANGED <<tokens, since>> PROVE Level' <= Level
    BY <1>0, <1>1 DEF Level
  <1>2. ASSUME NEW w \in Waiters, Begin(w) PROVE Asleep'
    <2>1. Level' <= Level
      BY <1>1, <1>2, TakeFacts DEF Begin
    <2> QED
      BY <1>2, <2>1, AsleepKept DEF Begin
  <1>3. ASSUME NEW w \in Waiters, Try(w) PROVE Asleep'
    <2>1. CASE timer' = timer
      <3>1. Level' <= Level
        BY <1>1, <1>3, TakeFacts DEF Try
      <3> QED
        BY <2>1, <3>1, AsleepKept
    <2>2. CASE Take /\ WaitFor # 0 /\ timer' = [timer EXCEPT ![w] = WaitFor]
      <3>1. WaitFor > 0 /\ Level < Cost /\ Level + WaitFor * Rate <= Cost
        BY <1>0, <2>2, WaitFacts
      <3>2. Level' = Level
        BY <1>0, <2>2, <3>1, TakeFacts
      <3>3. timer'[w] = WaitFor /\ \A v \in Waiters \ {w} : timer'[v] = timer[v]
        BY <2>2 DEF TypeOK
      <3>4. Level' <= Level /\ Level' + timer'[w] * Rate <= Cost
        BY <1>0, <3>1, <3>2, <3>3
      <3> QED
        BY <3>3, <3>4, AsleepKept
    <2> QED
      BY <1>3, <2>1, <2>2 DEF Try
  <1>4. ASSUME NEW w \in Waiters, Wake(w) \/ Cancel(w) \/ Return(w) PROVE Asleep'
    <2>1. Level' <= Level
      BY <1>1, <1>4 DEF Wake, Cancel, Return
    <2>2. \A v \in Waiters : timer'[v] > 0 => timer'[v] = timer[v]
      BY <1>4 DEF Wake, Cancel, Return, TypeOK
    <2> QED
      BY <2>1, <2>2, AsleepKept
  <1>5. CASE Tick
    <2> SUFFICES ASSUME NEW w \in Waiters, timer'[w] > 0
                 PROVE  Level' + timer'[w] * Rate <= Cost
      BY DEF Asleep
    <2>1. timer[w] \in Nat /\ timer[w] > 0 /\ timer'[w] = timer[w] - 1
      BY <1>5 DEF Tick, TypeOK
    <2>2. timer[w] * Rate \in Nat /\ (timer[w] - 1) * Rate = timer[w] * Rate - Rate
      BY <1>0, <2>1, Product
    <2>3. Level' \in Nat /\ Level' <= Level + Rate
      BY <1>5, TickFacts
    <2>4. Level + timer[w] * Rate <= Cost
      BY <2>1 DEF Asleep
    <2>5. timer'[w] * Rate = timer[w] * Rate - Rate
      BY <2>1, <2>2
    <2> QED
      BY <1>0, <2>2, <2>3, <2>4, <2>5
  <1>6. CASE Close \/ UNCHANGED vars
    <2>1. Level' <= Level /\ timer' = timer
      BY <1>1, <1>6 DEF Close, vars
    <2> QED
      BY <2>1, AsleepKept
  <1> QED
    BY <1>2, <1>3, <1>4, <1>5, <1>6 DEF Next

\* Wait: while a goroutine's timer runs, the bucket cannot hold a token for it.
THEOREM NeverOversleeps == Spec => []NoOversleep
  <1>1. Init => Asleep
    BY DEF Init, Asleep
  <1>2. TypeOK /\ Asleep => NoOversleep
    <2> SUFFICES ASSUME TypeOK, Asleep, NEW w \in Waiters, timer[w] > 0 PROVE Level < Cost
      BY DEF NoOversleep
    <2>1. /\ Level \in Nat /\ Rate \in Nat /\ Rate > 0 /\ Cost \in Nat
          /\ timer[w] \in Nat
      BY LevelFacts, TokenBucketAssumption DEF TypeOK
    <2>2. timer[w] * Rate \in Nat /\ timer[w] * Rate > 0
      BY <2>1, Product, Positive
    <2>3. Level + timer[w] * Rate <= Cost
      BY DEF Asleep
    <2> QED
      BY <2>1, <2>2, <2>3
  <1> QED
    BY <1>1, <1>2, TypeCorrect, AsleepStep, PTL DEF Spec

-----------------------------------------------------------------------------
\* In whole ticks the bucket never holds a part of a tick's refill, so the wait
\* takeLocked returns is zero only if the token is there.
Multiple(n) == \E k \in Nat : n = k * Rate

Whole == WholeTicks => Multiple(tokens)

LEMMA Divides ==
    ASSUME NEW a \in Nat, NEW r \in Nat, r > 0, a % r = 0
    PROVE  \E k \in Nat : a = k * r
  <1>1. a = (a \div r) * r /\ a \div r \in Nat
    OBVIOUS
  <1> QED BY <1>1

LEMMA SumOfProducts ==
    ASSUME NEW j \in Nat, NEW k \in Nat, NEW r \in Nat
    PROVE  j * r + k * r = (j + k) * r
  OBVIOUS

LEMMA DifferenceOfProducts ==
    ASSUME NEW j \in Nat, NEW k \in Nat, NEW r \in Nat, r > 0, j * r >= k * r
    PROVE  j >= k /\ j * r - k * r = (j - k) * r
  OBVIOUS

LEMMA ProductQuotient ==
    ASSUME NEW k \in Nat, NEW r \in Nat, r > 0
    PROVE  (k * r) \div r = k
  OBVIOUS

LEMMA WholeFacts ==
    ASSUME TypeOK, Whole, WholeTicks
    PROVE  /\ Multiple(Level)
           /\ Level >= Cost => Multiple(Level - Cost)
           /\ WaitFor = 0 => Level >= Cost
  <1>1. /\ Level \in Nat /\ Rate \in Nat /\ Rate > 0 /\ since \in Nat
        /\ Cost \in Nat /\ Burst \in Nat
    BY LevelFacts, TokenBucketAssumption DEF TypeOK
  <1>2. PICK b \in Nat : Burst = b * Rate
    BY <1>1, Divides DEF WholeTicks
  <1>3. PICK c \in Nat : Cost = c * Rate
    BY <1>1, Divides, Zenon DEF WholeTicks
  <1>4. PICK t \in Nat : tokens = t * Rate
    BY DEF Whole, Multiple
  <1>5. Level = (t + since) * Rate \/ Level = b * Rate
    <2>1. tokens + since * Rate = (t + since) * Rate
      BY <1>1, <1>4, SumOfProducts
    <2> QED
      BY <1>2, <2>1 DEF Level
  <1>6. PICK l \in Nat : Level = l * Rate
    <2>1. t + since \in Nat
      BY <1>1
    <2> QED
      BY <1>5, <2>1, Zenon
  <1>7. ASSUME Level >= Cost PROVE Multiple(Level - Cost)
    <2>1. l >= c /\ Level - Cost = (l - c) * Rate
      BY <1>1, <1>3, <1>6, <1>7, DifferenceOfProducts
    <2>2. l - c \in Nat
      BY <2>1
    <2> QED
      BY <2>1, <2>2 DEF Multiple
  <1>8. ASSUME ~(Level >= Cost) PROVE WaitFor # 0
    <2>1. c >= l /\ Cost - Level = (c - l) * Rate
      BY <1>1, <1>3, <1>6, <1>8, DifferenceOfProducts
    <2>2. c - l \in Nat
      BY <2>1
    <2>3. c - l # 0
      BY <1>1, <1>8, <2>1, Zero
    <2>4. WaitFor = c - l
      BY <1>1, <1>8, <2>1, <2>2, ProductQuotient DEF WaitFor
    <2> QED
      BY <2>3, <2>4
  <1> QED
    BY <1>6, <1>7, <1>8 DEF Multiple

LEMMA WholeStep == TypeOK /\ Whole /\ [Next]_vars => Whole'
  <1> SUFFICES ASSUME TypeOK, Whole, [Next]_vars, WholeTicks PROVE Multiple(tokens')
    BY DEF Whole, Multiple
  <1>1. tokens' = tokens \/ Take
    BY DEF Next, vars, Begin, Try, Wake, Cancel, Return, Close, Tick
  <1>2. Multiple(tokens)
    BY DEF Whole
  <1>3. ASSUME Take PROVE Multiple(tokens')
    BY <1>3, WholeFacts DEF Take, Taken
  <1> QED
    BY <1>1, <1>2, <1>3

LEMMA Rise ==
    ASSUME NEW i \in Nat, NEW j \in Nat, NEW k \in Nat, j <= i + k
    PROVE  j - i <= k
  OBVIOUS

\* New: every admission takes a whole token out of the bucket and only time puts
\* units back, if a token is worth a whole number of ticks.
THEOREM PaidFor == Spec => AdmissionsArePaidFor
  <1> DEFINE Paid == WholeTicks =>
               /\ \A w \in Waiters :
                    waiter'[w] = "granted" /\ waiter[w] # "granted" => Level' = Level - Cost
               /\ Level' > Level => Level' - Level <= Rate /\ waiter' = waiter
  <1>1. Init => Whole
    BY TokenBucketAssumption, Divides DEF Init, Whole, WholeTicks, Multiple
  <1>2. TypeOK /\ Whole /\ [Next]_vars => [Paid]_vars
    <2> SUFFICES ASSUME TypeOK, Whole, Next, WholeTicks PROVE Paid
      OBVIOUS
    <2>0. Level \in Nat /\ Rate \in Nat /\ Rate > 0 /\ Cost \in Nat
      BY LevelFacts, TokenBucketAssumption
    <2>1. ASSUME UNCHANGED <<tokens, since>> PROVE Level' = Level
      BY <2>1 DEF Level
    <2>2. ASSUME NEW w \in Waiters, Begin(w) \/ Try(w) PROVE Paid
      <3>1. /\ \A v \in Waiters \ {w} : waiter'[v] = waiter[v]
            /\ waiter'[w] = "granted" => Take /\ WaitFor = 0
            /\ Take \/ UNCHANGED <<tokens, since>>
        BY <2>2 DEF Begin, Try, TypeOK
      <3>2. ~(Level' > Level)
        BY <2>0, <2>1, <3>1, TakeFacts
      <3>3. waiter'[w] = "granted" => Level' = Level - Cost
        BY <3>1, TakeFacts, WholeFacts
      <3> QED
        BY <3>1, <3>2, <3>3, Zenon
    <2>3. ASSUME NEW w \in Waiters, Wake(w) \/ Cancel(w) \/ Return(w) PROVE Paid
      <3>1. Level' = Level
        BY <2>1, <2>3 DEF Wake, Cancel, Return
      <3>2. \A v \in Waiters : waiter'[v] = "granted" => waiter[v] = "granted"
        BY <2>3 DEF Wake, Cancel, Return, TypeOK
      <3> QED
        BY <2>0, <3>1, <3>2
    <2>4. CASE Close
      <3>1. Level' = Level /\ waiter' = waiter
        BY <2>1, <2>4 DEF Close
      <3> QED
        BY <2>0, <3>1
    <2>5. CASE Tick
      <3>1. waiter' = waiter /\ Level' \in Nat /\ Level' <= Level + Rate
        BY <2>5, TickFacts DEF Tick
      <3>2. Level' - Level <= Rate
        BY <2>0, <3>1, Rise, Zenon
      <3> QED
        BY <3>1, <3>2, Zenon
    <2> QED
      BY <2>2, <2>3, <2>4, <2>5 DEF Next
  <1>3. Spec => [][Paid]_vars
    BY <1>1, <1>2, TypeCorrect, WholeStep, PTL DEF Spec
  <1> QED
    BY <1>3 DEF AdmissionsArePaidFor

-----------------------------------------------------------------------------
(***************************************************************************)
(* The Vegas breaker, for every configuration New accepts and whatever     *)
(* latencies are recorded.                                                 *)
(***************************************************************************)

-----------------------------------------------------------------------------
\* The RTTs and the sample count agree: before the first sample all are zero,
\* after it the baseline is a plausible RTT.
Sampled ==
    /\ baseRTT = fastest /\ baseRTT <= currentRTT
    /\ samples = 0 => currentRTT = 0
    /\ samples > 0 => baseRTT >= MinRTT

\* Truncation rounds down, but never below a whole number both terms reach.
LEMMA SmoothedFacts ==
    ASSUME NEW c \in Nat, NEW r \in Nat, NEW b \in Nat, NEW m \in Nat,
           b <= c, b <= r, c <= m, r <= m
    PROVE  /\ (7 * c + r) \div 8 \in Nat
           /\ b <= (7 * c + r) \div 8 /\ (7 * c + r) \div 8 <= m
  OBVIOUS

\* updateRTTLocked keeps the types and Sampled.
LEMMA UpdateFacts ==
    ASSUME Configured, VegasTypeOK, Sampled, NEW rtt \in Nat, updateRTT(rtt)
    PROVE  /\ baseRTT' \in 0..MaxRTT /\ currentRTT' \in 0..MaxRTT /\ fastest' \in 0..MaxRTT
           /\ samples' \in 0..WarmupSamples /\ samples' >= samples
           /\ Sampled'
  <1>1. CASE Filtered(rtt)
    BY <1>1 DEF updateRTT, VegasTypeOK, Sampled
  <1>2. CASE ~Filtered(rtt)
    <2>1. MinRTT <= rtt /\ rtt <= MaxRTT /\ MinRTT > 0 /\ MinRTT \in Nat /\ MaxRTT \in Nat
      BY <1>2 DEF Filtered, Configured
    <2>2. samples' \in 0..WarmupSamples /\ samples' > 0 /\ samples' >= samples
      BY <1>2 DEF updateRTT, VegasTypeOK, Configured
    <2>3. /\ baseRTT' \in 0..MaxRTT /\ baseRTT' = fastest' /\ baseRTT' <= rtt
          /\ baseRTT' >= MinRTT /\ (baseRTT # 0 => baseRTT' <= baseRTT)
      BY <1>2, <2>1 DEF updateRTT, VegasTypeOK, Sampled
    <2>4. currentRTT' \in 0..MaxRTT /\ baseRTT' <= currentRTT'
      <3>1. CASE currentRTT = 0
        BY <1>2, <2>1, <2>3, <3>1 DEF updateRTT, Smoothed
      <3>2. CASE currentRTT # 0
        <4>1. /\ currentRTT \in Nat /\ currentRTT <= MaxRTT /\ baseRTT' \in Nat
              /\ baseRTT' <= currentRTT
          BY <2>1, <2>3, <3>2 DEF VegasTypeOK, Sampled
        <4>2. currentRTT' = (7 * currentRTT + rtt) \div 8
          BY <1>2, <3>2 DEF updateRTT, Smoothed
        <4> QED
          BY <2>1, <2>3, <4>1, <4>2, SmoothedFacts
      <3> QED
        BY <3>1, <3>2
    <2> QED
      BY <2>1, <2>2, <2>3, <2>4 DEF Sampled
  <1> QED
    BY <1>1, <1>2

-----------------------------------------------------------------------------
\* The inductive invariant.
Invariant == VegasTypeOK /\ Sampled /\ OpensOnlyWarm /\ ClosedIsHealthy

\* What a result leaves behind, if the breaker is judged as closed or open:
\* RecordLatency and MarkFailure never judge it as half open.
LEMMA JudgedFacts ==
    ASSUME Configured, Invariant, NEW rtt \in Nat, updateRTT(rtt),
           NEW s \in {"closed", "open"}, s = "open" => state # "closed",
           state' = Evaluated(s), UNCHANGED vegasClosed, inflight' \in 0..MaxInflight
    PROVE  Invariant'
  <1>1. /\ baseRTT' \in 0..MaxRTT /\ currentRTT' \in 0..MaxRTT /\ fastest' \in 0..MaxRTT
        /\ samples' \in 0..WarmupSamples /\ samples' >= samples
        /\ Sampled'
    BY UpdateFacts DEF Invariant
  <1>2. samples \in 0..WarmupSamples /\ WarmupSamples \in Nat /\ WarmupSamples > 0 /\ MinRTT > 0
    BY DEF Invariant, VegasTypeOK, Configured
  <1>3. samples' = WarmupSamples => baseRTT' > 0
    BY <1>1, <1>2 DEF Sampled, Configured
  <1>4. CASE s = "open"
    <2>1. samples' = WarmupSamples
      BY <1>1, <1>2, <1>4 DEF Invariant, OpensOnlyWarm
    <2>2. state' \in {"open", "halfOpen"}
      BY <1>4 DEF Evaluated
    <2> QED
      BY <1>1, <1>3, <2>1, <2>2 DEF Invariant, VegasTypeOK, OpensOnlyWarm, ClosedIsHealthy
  <1>5. CASE s = "closed"
    <2> DEFINE degraded == 100 * (currentRTT' - baseRTT') > AlphaPercent * baseRTT'
    <2>1. state' = IF samples' = WarmupSamples /\ degraded THEN "open" ELSE "closed"
      BY <1>1, <1>2, <1>3, <1>5 DEF Evaluated
    <2>2. ClosedIsHealthy'
      <3>1. 100 * (currentRTT' - baseRTT') \in Int /\ AlphaPercent * baseRTT' \in Int
        BY <1>1 DEF Configured
      <3> QED
        BY <2>1, <3>1 DEF ClosedIsHealthy
    <2>3. state' \in {"closed", "open"} /\ OpensOnlyWarm'
      BY <1>3, <2>1 DEF OpensOnlyWarm
    <2> QED
      BY <1>1, <2>2, <2>3 DEF Invariant, VegasTypeOK
  <1> QED
    BY <1>4, <1>5

LEMMA InvariantInit == Configured /\ VegasInit => Invariant
  <1> SUFFICES ASSUME Configured, VegasInit PROVE Invariant
    OBVIOUS
  <1>0. 0 \in 0..MaxRTT /\ 0 \in 0..WarmupSamples /\ 0 \in 0..MaxInflight
    BY DEF Configured
  <1>1. VegasTypeOK
    BY <1>0, Zenon DEF VegasInit, VegasTypeOK
  <1>2. Sampled /\ OpensOnlyWarm
    BY DEF VegasInit, Sampled, OpensOnlyWarm
  <1>3. ClosedIsHealthy
    BY DEF Configured, VegasInit, ClosedIsHealthy
  <1> QED
    BY <1>1, <1>2, <1>3 DEF Invariant

LEMMA InvariantStep == Configured /\ Invariant /\ [VegasNext]_vegasVars => Invariant'
  <1> SUFFICES ASSUME Configured, Invariant, [VegasNext]_vegasVars PROVE Invariant'
    OBVIOUS
  <1>0. inflight \in 0..MaxInflight /\ MaxInflight \in Nat /\ MaxRTT \in Nat /\ Latencies \subseteq Nat
    BY DEF Configured, Invariant, VegasTypeOK
  <1>1. ASSUME NEW rtt \in Latencies, RecordLatency(rtt), inflight' \in 0..MaxInflight
        PROVE  Invariant'
    <2> DEFINE s == IF state = "halfOpen" THEN "closed" ELSE state
    <2>1. s \in {"closed", "open"} /\ (s = "open" => state # "closed")
      BY DEF Invariant, VegasTypeOK
    <2>2. updateRTT(rtt) /\ state' = Evaluated(s) /\ UNCHANGED vegasClosed
      BY <1>1 DEF RecordLatency
    <2> HIDE DEF s
    <2> QED
      BY <1>0, <1>1, <2>1, <2>2, JudgedFacts
  <1>2. CASE Report
    BY <1>0, <1>1, <1>2 DEF Report
  <1>3. CASE Succeed
    <2>1. inflight' \in 0..MaxInflight
      BY <1>0, <1>3 DEF Succeed
    <2> QED
      BY <1>1, <1>3, <2>1 DEF Succeed
  <1>4. CASE Fail
    <2>1. inflight' \in 0..MaxInflight
      BY <1>0, <1>4 DEF Fail
    <2>2. CASE state = "halfOpen"
      BY <1>4, <2>1, <2>2
         DEF Fail, MarkFailure, Invariant, VegasTypeOK, Sampled, OpensOnlyWarm, ClosedIsHealthy
    <2>3. CASE state # "halfOpen"
      <3>1. state \in {"closed", "open"}
        BY <2>3 DEF Invariant, VegasTypeOK
      <3>2. updateRTT(MaxRTT) /\ state' = Evaluated(state) /\ UNCHANGED vegasClosed
        BY <1>4, <2>3 DEF Fail, MarkFailure
      <3> QED
        BY <1>0, <2>1, <3>1, <3>2, JudgedFacts
    <2> QED
      BY <2>2, <2>3
  <1>5. CASE Admit
    BY <1>0, <1>5 DEF Admit, Invariant, VegasTypeOK, Sampled, OpensOnlyWarm, ClosedIsHealthy
  <1>6. CASE VegasClose \/ UNCHANGED vegasVars
    BY <1>6, Zenon DEF VegasClose, vegasVars, Invariant, VegasTypeOK, Sampled, OpensOnlyWarm, ClosedIsHealthy
  <1> QED
    BY <1>2, <1>3, <1>4, <1>5, <1>6 DEF VegasNext

\* The three properties of the breaker: no negative inflation, no trip before the
\* warm-up, and no inflated breaker that is closed.
THEOREM VegasCorrect == VegasSpec => []VegasContract
  <1>1. VegasInit => Invariant
    BY VegasAssumption, InvariantInit
  <1>2. Invariant /\ [VegasNext]_vegasVars => Invariant'
    BY VegasAssumption, InvariantStep
  <1>3. Invariant => VegasContract
    BY DEF Invariant, Sampled, InflationNotNegative, VegasContract
  <1> QED
    BY <1>1, <1>2, <1>3, PTL DEF VegasSpec
-----------------------------------------------------------------------------
(***************************************************************************)
(* Proofs about Retry, for every number of attempts, backoff, jitter and   *)
(* budget, and whatever the attempts take.                                 *)
(***************************************************************************)

-----------------------------------------------------------------------------
(* Induction over numbers goes by the smallest counterexample.             *)

LEMMA LeastElement ==
    ASSUME NEW T \in SUBSET Nat, T # {}
    PROVE  \E n \in T : \A m \in T : n <= m
  <1> DEFINE R == {ss \in Nat \X Nat : ss[1] < ss[2]}
  <1>1. IsWellFoundedOn(R, Nat)
    BY NatLessThanWellFounded DEF OpToRel
  <1>2. \A x, y \in Nat : x < y => <<x, y>> \in R
    OBVIOUS
  <1> HIDE DEF R
  <1>3. PICK x \in T : \A y \in T : ~(<<y, x>> \in R)
    BY <1>1, WFMin, Zenon
  <1>4. \A y \in T : ~(y < x)
    BY <1>2, <1>3, Zenon
  <1> QED
    BY <1>4

\* What a loop computes that starts at a and multiplies by f.
Multiplies(g, a, f, n) == g = [i \in 0..n |-> IF i = 0 THEN a ELSE g[i - 1] * f]

LEMMA Multiplied ==
    ASSUME NEW a, NEW f, NEW n \in Nat
    PROVE  \E g : Multiplies(g, a, f, n)
  <1> DEFINE Bad == {m \in Nat : ~ \E g : Multiplies(g, a, f, m)}
  <1>0. Bad \in SUBSET Nat /\ \A m \in Nat : m \in Bad <=> ~ \E g : Multiplies(g, a, f, m)
    OBVIOUS
  <1> HIDE DEF Bad
  <1>1. ASSUME Bad # {} PROVE FALSE
    <2>1. PICK k \in Bad : \A m \in Bad : k <= m
      BY <1>0, <1>1, LeastElement
    <2>2. k \in Nat
      BY <1>0
    <2>3. k # 0
      <3> DEFINE g == [i \in 0..0 |-> a]
      <3>1. Multiplies(g, a, f, 0)
        BY DEF Multiplies
      <3> QED
        BY <1>0, <3>1
    <2>4. k - 1 \in Nat /\ k - 1 \notin Bad
      BY <2>1, <2>2, <2>3
    <2>5. PICK h : Multiplies(h, a, f, k - 1)
      BY <1>0, <2>4
    <2> DEFINE g == [i \in 0..k |-> IF i = k THEN h[k - 1] * f ELSE h[i]]
    <2>6. ASSUME NEW i \in 0..k PROVE g[i] = IF i = 0 THEN a ELSE g[i - 1] * f
      <3>1. CASE i = k
        BY <2>2, <2>3, <3>1
      <3>2. CASE i # k
        BY <2>2, <2>3, <2>5, <3>2 DEF Multiplies
      <3> QED
        BY <3>1, <3>2
    <2>7. Multiplies(g, a, f, k)
      BY <2>6 DEF Multiplies
    <2> QED
      BY <1>0, <2>7
  <1> QED
    BY <1>0, <1>1

LEMMA RoundsDef ==
    ASSUME NEW n \in Nat
    PROVE  Rounds(n) = [i \in 0..n |-> IF i = 0 THEN Initial ELSE Rounds(n)[i - 1] * Factor]
  <1>1. Rounds(n) = CHOOSE g : Multiplies(g, Initial, Factor, n)
    BY DEF Rounds, Multiplies
  <1>2. Multiplies(Rounds(n), Initial, Factor, n)
    BY <1>1, Multiplied
  <1> QED
    BY <1>2 DEF Multiplies

Powers(n) == LET p[i \in 0..n] == IF i = 0 THEN 1 ELSE p[i - 1] * Factor IN p

LEMMA PowersDef ==
    ASSUME NEW n \in Nat
    PROVE  /\ Powers(n) = [i \in 0..n |-> IF i = 0 THEN 1 ELSE Powers(n)[i - 1] * Factor]
           /\ Power(n) = Powers(n)[n]
  <1>1. Powers(n) = CHOOSE g : Multiplies(g, 1, Factor, n)
    BY DEF Powers, Multiplies
  <1>2. Multiplies(Powers(n), 1, Factor, n)
    BY <1>1, Multiplied
  <1>3. Power(n) = Powers(n)[n]
    BY DEF Power, Powers
  <1> QED
    BY <1>2, <1>3 DEF Multiplies

-----------------------------------------------------------------------------
(* ExponentialBackoff.Delay computes the formula of its comment, however   *)
(* early the loop stops at the cap.                                        *)

LEMMA Growth ==
    ASSUME NEW a \in Nat, NEW f \in Nat, f > 0
    PROVE  a * f \in Nat /\ a <= a * f
  OBVIOUS

LEMMA Regrouped ==
    ASSUME NEW a \in Nat, NEW b \in Nat, NEW c \in Nat
    PROVE  (a * b) * c = a * (b * c) /\ a * 1 = a
  OBVIOUS

LEMMA RoundsFacts ==
    ASSUME NEW n \in Nat, NEW i \in 0..n
    PROVE  /\ Rounds(n)[i] \in Nat /\ Powers(n)[i] \in Nat
           /\ Rounds(n)[i] = Initial * Powers(n)[i]
           /\ \A j \in 0..i : Rounds(n)[j] <= Rounds(n)[i]
  <1> DEFINE Good(k) == /\ Rounds(n)[k] \in Nat /\ Powers(n)[k] \in Nat
                        /\ Rounds(n)[k] = Initial * Powers(n)[k]
                        /\ \A j \in 0..k : Rounds(n)[j] <= Rounds(n)[k]
             Bad == {k \in 0..n : ~Good(k)}
  <1> SUFFICES ASSUME Bad # {} PROVE FALSE
    OBVIOUS
  <1>1. PICK k \in Bad : \A m \in Bad : k <= m
    <2>1. Bad \in SUBSET Nat
      OBVIOUS
    <2> HIDE DEF Bad
    <2> QED
      BY <2>1, LeastElement
  <1>2. Initial \in Nat /\ Factor \in Nat /\ Factor > 0 /\ k \in 0..n
    BY RetryAssumption
  <1>3. CASE k = 0
    <2>1. Rounds(n)[0] = Initial /\ Powers(n)[0] = 1
      BY RoundsDef, PowersDef
    <2>2. Good(0)
      BY <1>2, <2>1, Regrouped
    <2> QED
      BY <1>3, <2>2
  <1>4. CASE k # 0
    <2>1. k - 1 \in 0..n /\ Good(k - 1)
      BY <1>1, <1>2, <1>4
    <2> DEFINE r == Rounds(n)[k - 1]
               p == Powers(n)[k - 1]
    <2>2. Rounds(n)[k] = r * Factor /\ Powers(n)[k] = p * Factor
      BY <1>2, <1>4, RoundsDef, PowersDef
    <2>3. r \in Nat /\ p \in Nat /\ r = Initial * p /\ \A j \in 0..(k - 1) : Rounds(n)[j] <= r
      BY <2>1
    <2> HIDE DEF r, p
    <2>4. r * Factor \in Nat /\ r <= r * Factor /\ p * Factor \in Nat
      BY <1>2, <2>3, Growth
    <2>5. r * Factor = Initial * (p * Factor)
      BY <1>2, <2>3, Regrouped
    <2>6. \A j \in 0..k : Rounds(n)[j] <= Rounds(n)[k]
      <3> SUFFICES ASSUME NEW j \in 0..k PROVE Rounds(n)[j] <= Rounds(n)[k]
        OBVIOUS
      <3>1. CASE j = k
        BY <2>2, <2>4, <3>1
      <3>2. CASE j # k
        <4>1. Rounds(n)[j] <= r /\ Rounds(n)[j] \in Nat
          <5>1. j \in 0..(k - 1) /\ j \in 0..n /\ j < k
            BY <1>2, <3>2
          <5>2. j \notin Bad
            BY <1>1, <1>2, <5>1
          <5> QED
            BY <2>3, <5>1, <5>2
        <4> QED
          BY <2>2, <2>3, <2>4, <4>1
      <3> QED
        BY <3>1, <3>2
    <2> QED
      BY <2>2, <2>4, <2>5, <2>6
  <1> QED
    BY <1>3, <1>4

LEMMA ExponentialFormula ==
    ASSUME NEW n \in Nat
    PROVE  Exponential(n) = Cap(Initial * Power(n)) /\ Exponential(n) \in Nat
  <1> DEFINE last == Rounds(n)[n]
  <1>1. last \in Nat /\ last = Initial * Power(n) /\ MaxDelay \in Nat
    <2>1. n \in 0..n /\ MaxDelay \in Nat
      BY RetryAssumption
    <2> QED
      BY <2>1, RoundsFacts, PowersDef
  <1>2. \A i \in 0..n : Rounds(n)[i] \in Nat /\ Rounds(n)[i] <= last
    BY RoundsFacts
  <1>3. Exponential(n) = IF \E i \in (1..n) \cup {n} : Capped(Rounds(n)[i]) THEN MaxDelay ELSE last
    BY DEF Exponential
  <1> HIDE DEF last
  <1>4. (\E i \in (1..n) \cup {n} : Capped(Rounds(n)[i])) => Capped(last)
    BY <1>1, <1>2 DEF Capped
  <1>5. Capped(last) => \E i \in (1..n) \cup {n} : Capped(Rounds(n)[i])
    BY DEF last
  <1>6. Exponential(n) = Cap(last)
    BY <1>3, <1>4, <1>5 DEF Cap
  <1> QED
    BY <1>1, <1>6 DEF Cap

-----------------------------------------------------------------------------
(* A call of Do.                                                           *)

LEMMA DelayType ==
    ASSUME RetryTypeOK
    PROVE  Delay(attempt) \in Nat
  <1>1. attempt \in Nat /\ Initial \in Nat /\ Step \in Nat /\ MaxDelay \in Nat
    BY RetryAssumption DEF RetryTypeOK
  <1>2. Exponential(attempt) \in Nat
    BY <1>1, ExponentialFormula
  <1>3. Step * attempt \in Nat
    BY <1>1
  <1>4. Cap(Initial + Step * attempt) \in Nat
    BY <1>1, <1>3 DEF Cap
  <1> QED
    BY <1>1, <1>2, <1>4 DEF Delay, RetryTypeOK

LEMMA Halved ==
    ASSUME NEW d \in Nat
    PROVE  d \div 2 \in Nat /\ 2 * (d \div 2) <= d /\ 2 * (d \div 2) \in Nat
  OBVIOUS

LEMMA JitterFacts ==
    ASSUME RetryTypeOK, NEW d \in Nat, NEW w \in Jittered(d)
    PROVE  w \in Nat /\ w <= d /\ (jitter = "none" => w = d)
  <1>1. CASE jitter = "none"
    BY <1>1 DEF Jittered
  <1>2. CASE jitter = "full"
    BY <1>2 DEF Jittered
  <1>3. CASE jitter = "equal"
    <2>1. w \in (d \div 2)..(2 * (d \div 2))
      BY <1>3 DEF Jittered
    <2> QED
      BY <1>3, <2>1, Halved
  <1> QED
    BY <1>1, <1>2, <1>3 DEF RetryTypeOK

\* The sleep Do chooses ends within the budget.
LEMMA WaitsFacts ==
    ASSUME RetryTypeOK, elapsed' \in Nat, MaxTotalWait = 0 \/ elapsed' < MaxTotalWait,
           NEW w \in Waits
    PROVE  /\ w \in Nat
           /\ MaxTotalWait > 0 => elapsed' + w <= MaxTotalWait
           /\ w <= Delay(attempt)
           /\ jitter = "none" /\ w < Delay(attempt) =>
                MaxTotalWait > 0 /\ elapsed' + w = MaxTotalWait
  <1> DEFINE d == Delay(attempt)
             e == elapsed'
  <1>1. d \in Nat /\ e \in Nat /\ MaxTotalWait \in Nat /\ (MaxTotalWait = 0 \/ e < MaxTotalWait)
    BY DelayType, RetryAssumption
  <1>2. PICK j \in Jittered(d) :
               w = IF MaxTotalWait > 0 /\ j > MaxTotalWait - e THEN MaxTotalWait - e ELSE j
    BY DEF Waits
  <1>3. j \in Nat /\ j <= d /\ (jitter = "none" => j = d)
    BY <1>1, JitterFacts
  <1> HIDE DEF d, e
  <1>4. /\ w \in Nat /\ w <= d
        /\ MaxTotalWait > 0 => e + w <= MaxTotalWait
        /\ jitter = "none" /\ w < d => MaxTotalWait > 0 /\ e + w = MaxTotalWait
    BY <1>1, <1>2, <1>3
  <1> QED
    BY <1>4, Zenon DEF d, e

\* The inductive invariant: the attempts are the calls that are over, and the
\* next attempt begins within the budget, but for a late timer.
RetryInvariant ==
    /\ RetryContract
    /\ pc = "check" => calls = attempt /\ (MaxTotalWait > 0 => elapsed <= MaxTotalWait + MaxLate)
    /\ pc = "sleep" => calls = attempt + 1 /\ attempt < MaxAttempts - 1

LEMMA RetryInvariantInit == RetryInit => RetryInvariant
  <1> SUFFICES ASSUME RetryInit PROVE RetryInvariant
    OBVIOUS
  <1>1. MaxAttempts \in Nat \ {0} /\ MaxTotalWait \in Nat /\ MaxLate \in Nat
    BY RetryAssumption
  <1>2. RetryTypeOK
    BY <1>1 DEF RetryInit, RetryTypeOK, Answers
  <1> QED
    BY <1>1, <1>2 DEF RetryInit, RetryInvariant, RetryContract, BudgetRespected,
       SleepsFollowFormula, AnswerTellsWhy

LEMMA CallKeepsInvariant ==
    ASSUME RetryInvariant, Call
    PROVE  RetryInvariant'
  <1>1. /\ MaxAttempts \in Nat \ {0} /\ MaxTotalWait \in Nat
        /\ MaxCall \in Nat /\ MaxLate \in Nat
        /\ RetryTypeOK /\ elapsed \in Nat /\ attempt \in 0..(MaxAttempts - 1)
        /\ calls = attempt /\ (MaxTotalWait > 0 => elapsed <= MaxTotalWait + MaxLate)
    BY RetryAssumption DEF RetryInvariant, RetryContract, RetryTypeOK, Call
  <1>2. /\ elapsed' \in Nat /\ elapsed <= elapsed' /\ calls' = attempt + 1 /\ began' = elapsed
        /\ UNCHANGED <<backoff, jitter, attempt, ctx>>
    BY <1>1 DEF Call
  <1>3. ASSUME NEW r \in {"nil", "notRetryable", "ErrMaxAttempts", "ErrTimeout"},
               Answer(r), UNCHANGED wait,
               r = "ErrMaxAttempts" => Exhausted,
               r = "ErrTimeout" => ~Exhausted /\ elapsed' >= MaxTotalWait
        PROVE  RetryInvariant'
    <2>1. RetryTypeOK'
      BY <1>1, <1>2, <1>3 DEF RetryTypeOK, Answer, Answers
    <2>2. BudgetRespected' /\ SleepsFollowFormula'
      BY <1>1, <1>2, <1>3 DEF BudgetRespected, SleepsFollowFormula, Answer
    <2>3. AnswerTellsWhy'
      BY <1>1, <1>2, <1>3 DEF AnswerTellsWhy, Answer, Exhausted
    <2> QED
      BY <1>3, <2>1, <2>2, <2>3 DEF RetryInvariant, RetryContract, Answer
  <1>4. ASSUME ~Exhausted, MaxTotalWait = 0 \/ elapsed' < MaxTotalWait,
               wait' \in Waits, pc' = "sleep", UNCHANGED result
        PROVE  RetryInvariant'
    <2>1. /\ wait' \in Nat
          /\ MaxTotalWait > 0 => elapsed' + wait' <= MaxTotalWait
          /\ wait' <= Delay(attempt)
          /\ jitter = "none" /\ wait' < Delay(attempt) =>
               MaxTotalWait > 0 /\ elapsed' + wait' = MaxTotalWait
      BY <1>1, <1>2, <1>4, WaitsFacts
    <2>2. RetryTypeOK'
      BY <1>1, <1>2, <1>4, <2>1 DEF RetryTypeOK
    <2>3. BudgetRespected'
      <3>1. MaxTotalWait > 0 => elapsed < MaxTotalWait /\ elapsed <= MaxTotalWait + MaxLate
        BY <1>1, <1>2, <1>4
      <3> QED
        BY <1>2, <2>1, <3>1, Zenon DEF BudgetRespected
    <2>4. SleepsFollowFormula'
      <3> SUFFICES ASSUME backoff = "exponential"
                   PROVE  /\ wait' <= Cap(Initial * Power(attempt))
                          /\ jitter = "none" /\ wait' < Cap(Initial * Power(attempt)) =>
                               MaxTotalWait > 0 /\ elapsed' + wait' = MaxTotalWait
        BY <1>2 DEF SleepsFollowFormula, Cap, Capped, Power
      <3>1. Delay(attempt) = Cap(Initial * Power(attempt))
        BY <1>1, ExponentialFormula DEF Delay
      <3> QED
        BY <2>1, <3>1
    <2> QED
      BY <1>1, <1>2, <1>4, <2>2, <2>3, <2>4
         DEF RetryInvariant, RetryContract, AnswerTellsWhy, Exhausted
  <1> QED
    BY <1>3, <1>4 DEF Call

LEMMA RetryInvariantStep == RetryInvariant /\ [RetryNext]_retryVars => RetryInvariant'
  <1> SUFFICES ASSUME RetryInvariant, [RetryNext]_retryVars PROVE RetryInvariant'
    OBVIOUS
  <1>0. MaxAttempts \in Nat \ {0} /\ MaxTotalWait \in Nat /\ MaxLate \in Nat
    BY RetryAssumption
  <1>1. CASE Call
    BY <1>1, CallKeepsInvariant
  <1>2. CASE CheckContext \/ Interrupted
    BY <1>0, <1>2 DEF CheckContext, Interrupted, Answer, RetryInvariant, RetryContract, RetryTypeOK,
       Answers, BudgetRespected, SleepsFollowFormula, AnswerTellsWhy
  <1>3. CASE Awake
    BY <1>0, <1>3 DEF Awake, RetryInvariant, RetryContract, RetryTypeOK,
       BudgetRespected, SleepsFollowFormula, AnswerTellsWhy
  <1>4. CASE CancelContext
    BY <1>0, <1>4 DEF CancelContext, RetryInvariant, RetryContract, RetryTypeOK,
       BudgetRespected, SleepsFollowFormula, AnswerTellsWhy
  <1>5. CASE UNCHANGED retryVars
    BY <1>5 DEF retryVars, RetryInvariant, RetryContract, RetryTypeOK,
       BudgetRespected, SleepsFollowFormula, AnswerTellsWhy
  <1> QED
    BY <1>1, <1>2, <1>3, <1>4, <1>5 DEF RetryNext

\* Retrier.Do: whatever the attempts take and the jitter chooses, nothing is
\* planned for after the total wait is over, an exponential sleep is the documented formula
\* or ends the total wait, and the error says why Do gave up.
THEOREM RetryCorrect == RetrySpec => []RetryContract
  <1>1. RetryInvariant => RetryContract
    BY DEF RetryInvariant
  <1> QED
    BY <1>1, RetryInvariantInit, RetryInvariantStep, PTL DEF RetrySpec
=============================================================================
