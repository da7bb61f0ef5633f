--------------------------- MODULE RollingWindow ---------------------------
(***************************************************************************)
(* The ring of buckets that circuitbreaker/hystrix, circuitbreaker/sres    *)
(* and ratelimit/bbr each keep: rotateLocked and bucketIndexLocked.  The   *)
(* index comes from the wall clock, the number of buckets to clear from    *)
(* the time since the last rotation; the two are not aligned.              *)
(* Definitions named Mutant... are faulty variants of the one after them.  *)
(***************************************************************************)
EXTENDS Integers

CONSTANTS
    BucketCount,  \* len(b.buckets)
    BucketTicks,  \* bucketDuration
    MaxResults    \* bound: results the ring holds

ASSUME RollingWindowAssumption ==
    BucketCount \in Nat \ {0} /\ BucketTicks \in Nat \ {0} /\ MaxResults \in Nat

\* The window, which is also the period of the ring: clocks are kept modulo
\* Window and ages up to Window, as no operator tells more apart.
Window == BucketCount * BucketTicks

Indexes == 0..(BucketCount - 1)

Ages == 0..Window

Older(age) == IF age < Window THEN age + 1 ELSE age

Later(clock) == (clock + 1) % Window

bucketIndex(clock) == (clock \div BucketTicks) % BucketCount

-----------------------------------------------------------------------------
\* Whole buckets since the last rotation.
RotateSteps(since) == since \div BucketTicks

MutantRotated(buckets, empty, clock, since) ==
    LET n == BucketCount
        steps == RotateSteps(since)
        cleared == {(bucketIndex(clock) - steps + i + 1 + n) % n : i \in 0..(steps - 1)}
    IN [i \in Indexes |-> IF steps < n /\ i \in cleared THEN empty ELSE buckets[i]]

\* The ring rotateLocked leaves.
Rotated(buckets, empty, clock, since) ==
    LET n == BucketCount
        steps == RotateSteps(since)
        cleared == {(bucketIndex(clock) - steps + i + 1 + n) % n : i \in 0..(steps - 1)}
    IN [i \in Indexes |-> IF steps >= n \/ i \in cleared THEN empty ELSE buckets[i]]

\* The loop that adds up a counter of the buckets.
Total(count) ==
    LET sum[n \in 0..BucketCount] == IF n = 0 THEN 0 ELSE sum[n - 1] + count[n - 1]
    IN sum[BucketCount]

\* lastRotate moves only if at least one bucket was cleared.
RotatedSince(since) == IF RotateSteps(since) > 0 THEN 0 ELSE since

-----------------------------------------------------------------------------
(* The buckets of the two circuit breakers.                                *)

Bucket == [requests : 0..MaxResults, errors : 0..MaxResults]

EmptyBucket == [requests |-> 0, errors |-> 0]

Requests(ring) == Total([i \in Indexes |-> ring[i].requests])

Errors(ring) == Total([i \in Indexes |-> ring[i].errors])

\* MarkSuccess and MarkFailure count a result in the bucket of the present time.
Counted(ring, clock, failed) ==
    [ring EXCEPT ![bucketIndex(clock)] =
        [requests |-> @.requests + 1, errors |-> @.errors + (IF failed THEN 1 ELSE 0)]]
=============================================================================
