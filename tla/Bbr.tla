--------------------------------- MODULE Bbr ---------------------------------
(***************************************************************************)
(* ratelimit/bbr: one Limiter and the requests it admits, through Allow or *)
(* Wait (which polls Allow), until they call Done with their latency.      *)
(***************************************************************************)
EXTENDS RollingWindow

CONSTANTS
    SecondTicks,   \* ticks of the clock in a second
    RTTs,          \* latencies, in ticks
    MinQPS,
    CpuPercent     \* cpuThreshold

ASSUME BbrAssumption ==
    SecondTicks \in Nat \ {0} /\ RTTs \in SUBSET Nat /\ MinQPS \in Nat /\ CpuPercent \in Nat

VARIABLES
    bbrBuckets, bbrClock, bbrSince,
    bbrInflight, maxInflight,
    bbrClosed,
    bbrQuiet          \* time since the last call of Allow or Done

bbrVars == <<bbrBuckets, bbrClock, bbrSince, bbrInflight, maxInflight, bbrClosed, bbrQuiet>>

-----------------------------------------------------------------------------
BbrEmptyBucket == [count |-> 0, totalRTT |-> 0]

BbrTypeOK ==
    /\ bbrBuckets \in [Indexes -> [count : Nat, totalRTT : Nat]]
    /\ \A i \in Indexes : bbrBuckets[i].count = 0 => bbrBuckets[i].totalRTT = 0
    /\ bbrClock \in 0..(Window - 1) /\ bbrSince \in Ages /\ bbrQuiet \in Ages
    /\ bbrInflight \in Nat /\ maxInflight \in Nat
    /\ bbrClosed \in BOOLEAN

BbrInit ==
    /\ bbrBuckets = [i \in Indexes |-> BbrEmptyBucket]
    /\ bbrClock \in 0..(Window - 1) /\ bbrSince = 0
    /\ bbrInflight = 0 /\ maxInflight = 0
    /\ bbrClosed = FALSE /\ bbrQuiet = Window

-----------------------------------------------------------------------------
(* Definitions named Mutant... are faulty variants of the one after them;  *)
(* no specification uses them.                                             *)

BbrNow == Rotated(bbrBuckets, BbrEmptyBucket, bbrClock, bbrSince)

Count(ring) == Total([i \in Indexes |-> ring[i].count])

\* The smallest average latency of a bucket with results.
minRTT(ring) ==
    LET averages == {ring[i].totalRTT \div ring[i].count : i \in {j \in Indexes : ring[j].count > 0}}
    IN CHOOSE least \in averages : \A a \in averages : least <= a

\* Fractions <<numerator, denominator>>.
Less(p, q) == p[1] * q[2] < q[1] * p[2]

Larger(p, q) == IF Less(p, q) THEN q ELSE p

Smaller(p, q) == IF Less(p, q) THEN p ELSE q

\* estimateMaxQPSLocked.
estimateMaxQPS(ring) ==
    LET least == <<MinQPS, 1>>
        qps == <<Count(ring) * SecondTicks, Window>>
    IN IF Count(ring) = 0 THEN least
       ELSE IF minRTT(ring) <= 0 THEN least
       ELSE Larger(Smaller(Larger(qps, least), <<Window, minRTT(ring)>>), least)

MutantLimitUnfloored(ring) ==
    LET max == estimateMaxQPS(ring) IN (max[1] * CpuPercent) \div (max[2] * 100)

\* maxInflight, as Allow computes it.
Limit(ring) ==
    LET max == estimateMaxQPS(ring)
        whole == (max[1] * CpuPercent) \div (max[2] * 100)
    IN IF whole < 1 THEN 1 ELSE whole

\* Allow, called by the application or by the loop of Wait.
BbrAllow ==
    /\ ~bbrClosed
    /\ bbrBuckets' = BbrNow /\ bbrSince' = RotatedSince(bbrSince) /\ bbrQuiet' = 0
    /\ maxInflight' = Limit(BbrNow)
    /\ bbrInflight' = IF bbrInflight >= Limit(BbrNow) THEN bbrInflight ELSE bbrInflight + 1
    /\ UNCHANGED <<bbrClock, bbrClosed>>

Done(rtt) ==
    /\ bbrInflight > 0 /\ Count(BbrNow) < MaxResults
    /\ bbrInflight' = bbrInflight - 1
    /\ bbrBuckets' = [BbrNow EXCEPT ![bucketIndex(bbrClock)] =
                     [count |-> @.count + 1, totalRTT |-> @.totalRTT + rtt]]
    /\ bbrSince' = RotatedSince(bbrSince) /\ bbrQuiet' = 0
    /\ UNCHANGED <<bbrClock, maxInflight, bbrClosed>>

BbrClose ==
    /\ ~bbrClosed /\ bbrClosed' = TRUE
    /\ UNCHANGED <<bbrBuckets, bbrClock, bbrSince, bbrInflight, maxInflight, bbrQuiet>>

BbrTick ==
    /\ bbrClock' = Later(bbrClock) /\ bbrSince' = Older(bbrSince) /\ bbrQuiet' = Older(bbrQuiet)
    /\ UNCHANGED <<bbrBuckets, bbrInflight, maxInflight, bbrClosed>>

BbrNext == BbrAllow \/ (\E rtt \in RTTs : Done(rtt)) \/ BbrClose \/ BbrTick

BbrSpec == BbrInit /\ [][BbrNext]_bbrVars

-----------------------------------------------------------------------------
\* Allow (bbr.go:142-145): whatever the estimate, an idle limiter that is open
\* admits a request: no history of latencies and rates shuts it for good.
IdleAdmits == [][ bbrInflight = 0 /\ BbrAllow => bbrInflight' = 1 ]_bbrVars

\* rotateLocked and estimateMaxQPSLocked: after a window without calls the
\* limiter has forgotten its measurements, and the limit is the one minQPS gives.
QuietWindowResetsLimit ==
    [][ bbrQuiet = Window /\ BbrAllow => maxInflight' = Limit([i \in Indexes |-> BbrEmptyBucket]) ]_bbrVars
=============================================================================
