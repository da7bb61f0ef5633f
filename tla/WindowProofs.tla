---------------------------- MODULE WindowProofs ----------------------------
(***************************************************************************)
(* circuitbreaker/hystrix, circuitbreaker/sres and ratelimit/bbr, which    *)
(* keep a ring of buckets, for every number and length of the buckets, any *)
(* number of callers and any setting of their options.                     *)
(***************************************************************************)
EXTENDS MCResilience, WellFoundedInduction, TLAPS

-----------------------------------------------------------------------------
(* Arithmetic, and induction by the smallest counterexample.               *)

LEMMA Quotient ==
    ASSUME NEW a \in Nat, NEW r \in Nat, r > 0
    PROVE  a \div r \in Nat /\ (a \div r) * r <= a /\ a \div r <= a
  OBVIOUS

LEMMA Product ==
    ASSUME NEW a \in Nat, NEW r \in Nat
    PROVE  a * r \in Nat /\ (a + 1) * r = a * r + r /\ (a > 0 => (a - 1) * r = a * r - r)
  OBVIOUS

LEMMA Positive ==
    ASSUME NEW a \in Nat, NEW r \in Nat, a > 0, r > 0
    PROVE  a * r > 0
  OBVIOUS

LEMMA ProductQuotient ==
    ASSUME NEW k \in Nat, NEW r \in Nat, r > 0
    PROVE  (k * r) \div r = k
  OBVIOUS

LEMMA LeastElement ==
    ASSUME NEW T \in SUBSET Nat, T # {}
    PROVE  \E n \in T : \A m \in T : n <= m
  <1> DEFINE R == {ss \in Nat \X Nat : ss[1] < ss[2]}
  <1>1. IsWellFoundedOn(R, Nat)
    BY NatLessThanWellFounded DEF OpToRel
  <1>2. \A x, y \in Nat : x < y => <<x, y>> \in R
    OBVIOUS
  <1> HIDE DEF R
  <1>3. PICK x \in T : \A y \in T : ~(<<y, x>> \in R)
    BY <1>1, WFMin, Zenon
  <1>4. \A y \in T : ~(y < x)
    BY <1>2, <1>3, Zenon
  <1> QED
    BY <1>4

-----------------------------------------------------------------------------
(* The loop that adds up a counter of the buckets.                         *)

\* s holds the sums of the first 0, 1, ... n counters.
Adds(s, count, n) == s = [i \in 0..n |-> IF i = 0 THEN 0 ELSE s[i - 1] + count[i - 1]]

LEMMA Added ==
    ASSUME NEW count, NEW n \in Nat
    PROVE  \E s : Adds(s, count, n)
  <1> DEFINE Bad == {m \in Nat : ~ \E s : Adds(s, count, m)}
  <1>0. Bad \in SUBSET Nat /\ \A m \in Nat : m \in Bad <=> ~ \E s : Adds(s, count, m)
    OBVIOUS
  <1> HIDE DEF Bad
  <1>1. ASSUME Bad # {} PROVE FALSE
    <2>1. PICK k \in Bad : \A m \in Bad : k <= m
      BY <1>0, <1>1, LeastElement
    <2>2. k \in Nat
      BY <1>0
    <2>3. k # 0
      <3> DEFINE s == [i \in 0..0 |-> 0]
      <3>1. Adds(s, count, 0)
        BY DEF Adds
      <3> QED
        BY <1>0, <3>1
    <2>4. k - 1 \in Nat /\ k - 1 \notin Bad
      BY <2>1, <2>2, <2>3
    <2>5. PICK r : Adds(r, count, k - 1)
      BY <1>0, <2>4
    <2> DEFINE s == [i \in 0..k |-> IF i = k THEN r[k - 1] + count[k - 1] ELSE r[i]]
    <2>6. ASSUME NEW i \in 0..k PROVE s[i] = IF i = 0 THEN 0 ELSE s[i - 1] + count[i - 1]
      <3>1. CASE i = k
        BY <2>2, <2>3, <3>1
      <3>2. CASE i # k
        BY <2>2, <2>3, <2>5, <3>2 DEF Adds
      <3> QED
        BY <3>1, <3>2
    <2>7. Adds(s, count, k)
      BY <2>6 DEF Adds
    <2> QED
      BY <1>0, <2>7
  <1> QED
    BY <1>0, <1>1

Sums(count) ==
    LET sum[n \in 0..BucketCount] == IF n = 0 THEN 0 ELSE sum[n - 1] + count[n - 1] IN sum

LEMMA SumsDef ==
    ASSUME NEW count
    PROVE  /\ Sums(count)[0] = 0
           /\ \A i \in Indexes : Sums(count)[i + 1] = Sums(count)[i] + count[i]
           /\ Total(count) = Sums(count)[BucketCount]
  <1>1. Sums(count) = CHOOSE s : Adds(s, count, BucketCount)
    BY DEF Sums, Adds
  <1>2. Adds(Sums(count), count, BucketCount)
    BY <1>1, Added, RollingWindowAssumption
  <1>3. Sums(count)[0] = 0
    BY <1>2, RollingWindowAssumption DEF Adds
  <1>4. ASSUME NEW i \in Indexes PROVE Sums(count)[i + 1] = Sums(count)[i] + count[i]
    <2>1. i + 1 \in 0..BucketCount /\ i + 1 # 0 /\ (i + 1) - 1 = i
      BY RollingWindowAssumption DEF Indexes
    <2>2. Sums(count)[i + 1] = Sums(count)[(i + 1) - 1] + count[(i + 1) - 1]
      BY <1>2, <2>1, Zenon DEF Adds
    <2> QED
      BY <2>1, <2>2
  <1>5. Total(count) = Sums(count)[BucketCount]
    BY DEF Total, Sums
  <1> QED
    BY <1>3, <1>4, <1>5

LEMMA SumsType ==
    ASSUME NEW count \in [Indexes -> Nat], NEW n \in 0..BucketCount
    PROVE  Sums(count)[n] \in Nat
  <1> DEFINE Bad == {k \in 0..BucketCount : Sums(count)[k] \notin Nat}
  <1>0. Bad \in SUBSET Nat /\ \A k \in 0..BucketCount : k \in Bad <=> Sums(count)[k] \notin Nat
    BY RollingWindowAssumption
  <1>1. \A k \in Bad : k \in 0..BucketCount
    OBVIOUS
  <1> HIDE DEF Bad
  <1>2. ASSUME Bad # {} PROVE FALSE
    <2>1. PICK k \in Bad : \A m \in Bad : k <= m
      BY <1>0, <1>2, LeastElement
    <2>2. k \in 0..BucketCount
      BY <1>1
    <2>3. k # 0
      BY <1>0, <2>1, <2>2, SumsDef
    <2>4. k - 1 \in Indexes /\ k - 1 \in 0..BucketCount /\ ~(k <= k - 1) /\ (k - 1) + 1 = k
      BY <2>2, <2>3, RollingWindowAssumption DEF Indexes
    <2>5. Sums(count)[k - 1] \in Nat /\ count[k - 1] \in Nat
      BY <1>0, <2>1, <2>4
    <2>6. Sums(count)[(k - 1) + 1] = Sums(count)[k - 1] + count[k - 1]
      BY <2>4, SumsDef
    <2> QED
      BY <1>0, <2>1, <2>2, <2>4, <2>5, <2>6
  <1> QED
    BY <1>0, <1>2

LEMMA TotalType ==
    ASSUME NEW count \in [Indexes -> Nat]
    PROVE  Total(count) \in Nat
  BY SumsType, SumsDef, RollingWindowAssumption

LEMMA TotalOfNothing ==
    ASSUME NEW count, \A i \in Indexes : count[i] = 0
    PROVE  Total(count) = 0
  <1> DEFINE Bad == {k \in 0..BucketCount : Sums(count)[k] # 0}
  <1>0. Bad \in SUBSET Nat /\ \A k \in 0..BucketCount : k \in Bad <=> Sums(count)[k] # 0
    BY RollingWindowAssumption
  <1>1. \A k \in Bad : k \in 0..BucketCount
    OBVIOUS
  <1> HIDE DEF Bad
  <1>2. ASSUME Bad # {} PROVE FALSE
    <2>1. PICK k \in Bad : \A m \in Bad : k <= m
      BY <1>0, <1>2, LeastElement
    <2>2. k \in 0..BucketCount
      BY <1>1
    <2>3. k # 0
      BY <1>0, <2>1, <2>2, SumsDef
    <2>4. k - 1 \in Indexes /\ k - 1 \in 0..BucketCount /\ ~(k <= k - 1) /\ (k - 1) + 1 = k
      BY <2>2, <2>3, RollingWindowAssumption DEF Indexes
    <2>5. Sums(count)[k - 1] = 0 /\ count[k - 1] = 0
      BY <1>0, <2>1, <2>4
    <2>6. Sums(count)[(k - 1) + 1] = Sums(count)[k - 1] + count[k - 1]
      BY <2>4, SumsDef
    <2> QED
      BY <1>0, <2>1, <2>2, <2>4, <2>5, <2>6
  <1> QED
    BY <1>0, <1>2, SumsDef, RollingWindowAssumption

\* One counter differs by e or more and no other is smaller: so does the sum.
LEMMA TotalShifted ==
    ASSUME NEW c \in [Indexes -> Nat], NEW d \in [Indexes -> Nat], NEW j \in Indexes, NEW e \in Int,
           \A i \in Indexes \ {j} : c[i] <= d[i], c[j] + e <= d[j]
    PROVE  Total(c) + e <= Total(d)
  <1> DEFINE Shift(k) == IF k > j THEN e ELSE 0
             Good(k) == Sums(c)[k] + Shift(k) <= Sums(d)[k]
             Bad == {k \in 0..BucketCount : ~Good(k)}
  <1>0. Bad \in SUBSET Nat /\ \A k \in 0..BucketCount : k \in Bad <=> ~Good(k)
    BY RollingWindowAssumption
  <1>1. \A k \in Bad : k \in 0..BucketCount
    OBVIOUS
  <1> HIDE DEF Bad
  <1>2. ASSUME Bad # {} PROVE FALSE
    <2>1. PICK k \in Bad : \A m \in Bad : k <= m
      BY <1>0, <1>2, LeastElement
    <2>2. k \in 0..BucketCount
      BY <1>1
    <2>3. k # 0
      <3>1. Sums(c)[0] = 0 /\ Sums(d)[0] = 0 /\ Shift(0) = 0
        BY SumsDef DEF Indexes
      <3>2. Good(0)
        BY <3>1
      <3> QED
        BY <1>0, <2>1, <2>2, <3>2
    <2> DEFINE i == k - 1
    <2>4. i \in Indexes /\ i \in 0..BucketCount /\ ~(k <= i) /\ k = i + 1
      BY <2>2, <2>3, RollingWindowAssumption DEF Indexes
    <2>5. Good(i)
      BY <1>0, <2>1, <2>4
    <2> HIDE DEF i
    <2>6. Sums(c)[k] = Sums(c)[i] + c[i] /\ Sums(d)[k] = Sums(d)[i] + d[i]
      BY <2>4, SumsDef
    <2>7. /\ Sums(c)[i] \in Nat /\ Sums(d)[i] \in Nat /\ c[i] \in Nat /\ d[i] \in Nat
          /\ i \in Nat /\ j \in Nat
      BY <2>4, SumsType DEF Indexes
    <2>8. c[i] + Shift(k) <= d[i] + Shift(i)
      <3>1. CASE i = j
        BY <2>4, <2>7, <3>1
      <3>2. CASE i # j
        BY <2>4, <2>7, <3>2
      <3> QED
        BY <3>1, <3>2
    <2>9. Shift(k) \in Int /\ Shift(i) \in Int
      OBVIOUS
    <2> HIDE DEF Shift
    <2>10. Good(k)
      BY <2>5, <2>6, <2>7, <2>8, <2>9
    <2> QED
      BY <1>0, <2>1, <2>2, <2>10
  <1>3. BucketCount \in 0..BucketCount /\ BucketCount > j
    BY RollingWindowAssumption DEF Indexes
  <1>4. Good(BucketCount)
    BY <1>0, <1>2, <1>3
  <1> QED
    BY <1>3, <1>4, SumsDef

-----------------------------------------------------------------------------
(* Time and the rotation.                                                  *)

LEMMA WindowFacts ==
    /\ Window \in Nat /\ Window > 0
    /\ Window \div BucketTicks = BucketCount
  <1>1. BucketCount \in Nat /\ BucketCount > 0 /\ BucketTicks \in Nat /\ BucketTicks > 0
    BY RollingWindowAssumption
  <1>2. BucketCount * BucketTicks \in Nat /\ BucketCount * BucketTicks > 0
    BY <1>1, Positive
  <1>3. (BucketCount * BucketTicks) \div BucketTicks = BucketCount
    BY <1>1, ProductQuotient
  <1> QED
    BY <1>2, <1>3 DEF Window

LEMMA ClockFacts ==
    ASSUME NEW time \in 0..(Window - 1)
    PROVE  Later(time) \in 0..(Window - 1) /\ bucketIndex(time) \in Indexes
  <1>1. Later(time) \in 0..(Window - 1)
    <2>1. ASSUME NEW w \in Nat, w > 0, NEW c \in Nat PROVE (c + 1) % w \in 0..(w - 1)
      BY <2>1
    <2> QED
      BY <2>1, WindowFacts DEF Later
  <1>2. time \div BucketTicks \in Nat
    BY Quotient, WindowFacts, RollingWindowAssumption
  <1>3. ASSUME NEW n \in Nat, NEW b \in Nat, b > 0 PROVE n % b \in 0..(b - 1)
    BY <1>3
  <1>4. bucketIndex(time) \in Indexes
    BY <1>2, <1>3, RollingWindowAssumption DEF bucketIndex, Indexes
  <1> QED
    BY <1>1, <1>4

LEMMA AgeFacts ==
    ASSUME NEW age \in Ages
    PROVE  /\ Older(age) \in Ages /\ RotatedSince(age) \in Ages
           /\ \A less \in Ages : less <= age => Older(less) <= Older(age)
           /\ 0 <= RotatedSince(age)
  BY WindowFacts DEF Ages, Older, RotatedSince

\* A rotation leaves a bucket alone or empties it.
LEMMA RotatedFacts ==
    ASSUME NEW S, NEW ring \in [Indexes -> S], NEW empty \in S, NEW time, NEW age
    PROVE  /\ Rotated(ring, empty, time, age) \in [Indexes -> S]
           /\ \A i \in Indexes : Rotated(ring, empty, time, age)[i] \in {ring[i], empty}
  BY Zenon DEF Rotated

\* After a window it empties them all; and an empty ring stays empty.
LEMMA Forgotten ==
    ASSUME NEW ring, NEW empty, NEW time, NEW age,
           age = Window \/ ring = [i \in Indexes |-> empty]
    PROVE  Rotated(ring, empty, time, age) = [i \in Indexes |-> empty]
  <1>1. PICK C : Rotated(ring, empty, time, age)
                   = [i \in Indexes |-> IF RotateSteps(age) >= BucketCount \/ i \in C
                                        THEN empty ELSE ring[i]]
    BY Zenon DEF Rotated
  <1>2. age = Window => RotateSteps(age) >= BucketCount
    BY WindowFacts, RollingWindowAssumption DEF RotateSteps
  <1> QED
    BY <1>1, <1>2

-----------------------------------------------------------------------------
(* The counters of the two circuit breakers.                               *)

Ring == [Indexes -> [requests : Nat, errors : Nat]]

LEMMA RequestsFacts ==
    ASSUME NEW ring \in Ring
    PROVE  /\ Requests(ring) \in Nat /\ Errors(ring) \in Nat
           /\ \A i \in Indexes : ring[i].requests <= Requests(ring)
  <1> DEFINE c == [i \in Indexes |-> ring[i].requests]
             z == [i \in Indexes |-> 0]
  <1>1. c \in [Indexes -> Nat] /\ z \in [Indexes -> Nat]
    BY DEF Ring
  <1>2. Total(c) \in Nat /\ Requests(ring) = Total(c)
    BY <1>1, TotalType DEF Requests
  <1>3. [i \in Indexes |-> ring[i].errors] \in [Indexes -> Nat]
    BY DEF Ring
  <1>4. Errors(ring) \in Nat
    BY <1>3, TotalType DEF Errors
  <1>5. ASSUME NEW j \in Indexes PROVE ring[j].requests <= Requests(ring)
    <2>1. c[j] \in Int /\ z[j] + c[j] <= c[j] /\ \A i \in Indexes \ {j} : z[i] <= c[i]
      BY <1>1
    <2>2. Total(z) = 0
      BY TotalOfNothing
    <2>3. c[j] = ring[j].requests
      OBVIOUS
    <2> HIDE DEF c, z
    <2>4. Total(z) + c[j] <= Total(c)
      BY <1>1, <2>1, TotalShifted
    <2> QED
      BY <1>1, <1>2, <2>1, <2>2, <2>3, <2>4
  <1> QED
    BY <1>2, <1>4, <1>5

LEMMA RequestsSmaller ==
    ASSUME NEW old \in Ring, NEW new \in Ring,
           \A i \in Indexes : new[i] \in {old[i], EmptyBucket}
    PROVE  Requests(new) <= Requests(old)
  <1> DEFINE c == [i \in Indexes |-> new[i].requests]
             d == [i \in Indexes |-> old[i].requests]
  <1>1. c \in [Indexes -> Nat] /\ d \in [Indexes -> Nat]
    BY DEF Ring
  <1>2. 0 \in Indexes
    BY RollingWindowAssumption DEF Indexes
  <1>3. ASSUME NEW i \in Indexes PROVE c[i] <= d[i]
    BY <1>1 DEF EmptyBucket, Ring
  <1>4. Requests(new) = Total(c) /\ Requests(old) = Total(d)
    BY DEF Requests
  <1> HIDE DEF c, d
  <1>5. c[0] + 0 <= d[0] /\ \A i \in Indexes \ {0} : c[i] <= d[i]
    BY <1>1, <1>2, <1>3
  <1>6. Total(c) + 0 <= Total(d)
    BY <1>1, <1>2, <1>5, TotalShifted
  <1>7. Total(c) \in Nat
    BY <1>1, TotalType
  <1> QED
    BY <1>4, <1>6, <1>7

LEMMA RequestsCounted ==
    ASSUME NEW ring \in Ring, NEW time \in 0..(Window - 1), NEW failed \in BOOLEAN
    PROVE  /\ Counted(ring, time, failed) \in Ring
           /\ Requests(Counted(ring, time, failed)) = Requests(ring) + 1
  <1> DEFINE j == bucketIndex(time)
             new == Counted(ring, time, failed)
             c == [i \in Indexes |-> ring[i].requests]
             d == [i \in Indexes |-> new[i].requests]
  <1>1. j \in Indexes
    BY ClockFacts
  <1> HIDE DEF j
  <1>2. new \in Ring
    BY <1>1 DEF Counted, Ring, j
  <1>3. /\ new[j].requests = ring[j].requests + 1
        /\ \A i \in Indexes \ {j} : new[i] = ring[i]
    BY <1>1 DEF Counted, Ring, j
  <1> HIDE DEF new
  <1>4. c \in [Indexes -> Nat] /\ d \in [Indexes -> Nat]
    BY <1>2 DEF Ring
  <1>5. d[j] = c[j] + 1 /\ \A i \in Indexes \ {j} : d[i] = c[i]
    BY <1>1, <1>3
  <1>6. Requests(new) = Total(d) /\ Requests(ring) = Total(c)
    BY DEF Requests
  <1> HIDE DEF c, d
  <1>7. /\ c[j] + 1 <= d[j] /\ d[j] + (-1) <= c[j]
        /\ \A i \in Indexes \ {j} : c[i] <= d[i] /\ d[i] <= c[i]
    BY <1>1, <1>4, <1>5
  <1>8. Total(c) + 1 <= Total(d)
    BY <1>1, <1>4, <1>7, TotalShifted
  <1>9. Total(d) + (-1) <= Total(c)
    BY <1>1, <1>4, <1>7, TotalShifted
  <1>10. Total(c) \in Nat /\ Total(d) \in Nat
    BY <1>4, TotalType
  <1>11. Total(d) = Total(c) + 1
    BY <1>8, <1>9, <1>10
  <1> QED
    BY <1>2, <1>6, <1>11 DEF new

\* The rings the breakers keep: no bucket has more errors than requests.
Kept == {ring \in [Indexes -> Bucket] : \A i \in Indexes : ring[i].errors <= ring[i].requests}

LEMMA KeptFacts ==
    /\ Kept \in SUBSET Ring
    /\ [i \in Indexes |-> EmptyBucket] \in Kept
    /\ Requests([i \in Indexes |-> EmptyBucket]) = 0
  <1>1. \A ring \in Kept : ring \in Ring
    BY RollingWindowAssumption DEF Kept, Ring, Bucket
  <1>2. [i \in Indexes |-> EmptyBucket] \in Kept
    BY RollingWindowAssumption DEF Kept, Bucket, EmptyBucket
  <1> DEFINE c == [i \in Indexes |-> [j \in Indexes |-> EmptyBucket][i].requests]
  <1>3. \A i \in Indexes : c[i] = 0
    BY DEF EmptyBucket
  <1>4. Requests([i \in Indexes |-> EmptyBucket]) = Total(c)
    BY DEF Requests
  <1> HIDE DEF c
  <1>5. Total(c) = 0
    BY <1>3, TotalOfNothing
  <1> QED
    BY <1>1, <1>2, <1>4, <1>5

LEMMA KeptRotated ==
    ASSUME NEW ring \in Kept, NEW time, NEW age
    PROVE  /\ Rotated(ring, EmptyBucket, time, age) \in Kept
           /\ Requests(Rotated(ring, EmptyBucket, time, age)) <= Requests(ring)
  <1> DEFINE new == Rotated(ring, EmptyBucket, time, age)
  <1>1. EmptyBucket \in Bucket /\ ring \in [Indexes -> Bucket]
    BY RollingWindowAssumption DEF EmptyBucket, Bucket, Kept
  <1>2. new \in [Indexes -> Bucket] /\ \A i \in Indexes : new[i] \in {ring[i], EmptyBucket}
    BY <1>1, RotatedFacts
  <1> HIDE DEF new
  <1>3. new \in Kept
    BY <1>2 DEF Kept, EmptyBucket
  <1>4. Requests(new) <= Requests(ring)
    BY <1>2, <1>3, KeptFacts, RequestsSmaller
  <1> QED
    BY <1>3, <1>4 DEF new

LEMMA KeptCounted ==
    ASSUME NEW ring \in Kept, NEW time \in 0..(Window - 1), NEW failed \in BOOLEAN,
           Requests(ring) < MaxResults
    PROVE  Counted(ring, time, failed) \in Kept
  <1> DEFINE j == bucketIndex(time)
  <1>1. j \in Indexes
    BY ClockFacts
  <1>2. ring[j].requests <= Requests(ring) /\ Requests(ring) \in Nat
    BY <1>1, KeptFacts, RequestsFacts
  <1>3. ring[j].requests \in Nat /\ ring[j].errors \in Nat /\ ring[j].errors <= ring[j].requests
    BY <1>1, RollingWindowAssumption DEF Kept, Bucket
  <1> DEFINE b == [requests |-> ring[j].requests + 1, errors |-> ring[j].errors + (IF failed THEN 1 ELSE 0)]
  <1>4. b \in Bucket /\ b.errors <= b.requests
    BY <1>2, <1>3, RollingWindowAssumption DEF Bucket
  <1>5. Counted(ring, time, failed) = [ring EXCEPT ![j] = b]
    BY DEF Counted
  <1> HIDE DEF b, j
  <1> QED
    BY <1>1, <1>4, <1>5 DEF Kept

-----------------------------------------------------------------------------
(***************************************************************************)
(* Proofs about Hystrix, for any number of callers and any thresholds.     *)
(***************************************************************************)

\* A half-open period whose trial is still to be admitted has none yet, whatever
\* late results arrived; and the ring holds no result from before the breaker last
\* closed: the results in it were all heard since then.
HystrixInvariant ==
    /\ HystrixTypeOK
    /\ SingleTrial
    /\ hystrixState = "halfOpen" /\ ~halfOpenIn => trials = {}
    /\ Requests(hystrixBuckets) <= heard \/ heard = RequestVolumeThreshold

LEMMA HystrixInvariantInit == HystrixInit => HystrixInvariant
  <1> SUFFICES ASSUME HystrixInit PROVE HystrixInvariant
    OBVIOUS
  <1>1. HystrixTypeOK
    <2>1. /\ hystrixBuckets \in [Indexes -> Bucket]
          /\ \A i \in Indexes : hystrixBuckets[i].errors <= hystrixBuckets[i].requests
      BY KeptFacts DEF HystrixInit, Kept
    <2>2. 0 \in Ages /\ 0 \in 0..SleepWindow /\ 0 \in 0..RequestVolumeThreshold
      BY HystrixAssumption, WindowFacts DEF Ages
    <2> QED
      BY <2>1, <2>2, Zenon DEF HystrixInit, HystrixTypeOK
  <1>2. trials = {}
    BY DEF HystrixInit
  <1>3. Requests(hystrixBuckets) <= heard
    BY KeptFacts DEF HystrixInit
  <1> QED
    BY <1>1, <1>2, <1>3 DEF HystrixInvariant, SingleTrial

\* A result marked at any time: the type, the trials and the count of results.
LEMMA HystrixMarkStep ==
    ASSUME HystrixInvariant, NEW c \in Callers, NEW failed \in BOOLEAN, HystrixMark(c, failed)
    PROVE  /\ HystrixInvariant'
           /\ hystrixState = "closed" /\ hystrixState' = "open" => heard' = RequestVolumeThreshold
  <1> DEFINE ring == Rotated(hystrixBuckets, EmptyBucket, hystrixClock, hystrixSince)
             none == [i \in Indexes |-> EmptyBucket]
             new == Counted(ring, hystrixClock, failed)
  <1>1. /\ hystrixBuckets \in Kept /\ hystrixClock \in 0..(Window - 1) /\ hystrixSince \in Ages
        /\ heard \in 0..RequestVolumeThreshold
    BY DEF HystrixInvariant, HystrixTypeOK, Kept
  <1>2. ring \in Kept /\ Requests(ring) <= Requests(hystrixBuckets)
    BY <1>1, KeptRotated
  <1>3. none \in Kept /\ Requests(none) = 0
    BY KeptFacts
  <1>4. /\ hystrixCaller' \in [Callers -> {"idle", "running"}]
        /\ hystrixSince' \in Ages
        /\ hystrixClock' = hystrixClock /\ hystrixClosed' = hystrixClosed
    BY AgeFacts, <1>1 DEF HystrixInvariant, HystrixTypeOK, HystrixMark
  <1>5. /\ Requests(hystrixBuckets) \in Nat /\ Requests(ring) \in Nat
        /\ hystrixBuckets \in Ring /\ ring \in Ring
    BY <1>1, <1>2, KeptFacts, RequestsFacts
  <1>6. IF hystrixState = "halfOpen" THEN IF failed THEN Reopen(ring) ELSE Recover(ring)
                                     ELSE HystrixCount(ring, failed)
    BY DEF HystrixMark
  <1> HIDE DEF ring, none
  <1>7. CASE Recover(ring)
    <2>1. hystrixBuckets' = none /\ hystrixState' = "closed" /\ trials' = {} /\ heard' = 0
          /\ halfOpenIn' = FALSE /\ openAge' = openAge
      BY <1>7 DEF Recover, none
    <2>2. HystrixTypeOK'
      <3>1. /\ hystrixBuckets' \in [Indexes -> Bucket]
            /\ \A i \in Indexes : hystrixBuckets'[i].errors <= hystrixBuckets'[i].requests
        BY <1>3, <2>1 DEF Kept
      <3>2. /\ openAge' \in 0..SleepWindow /\ heard' \in 0..RequestVolumeThreshold
            /\ hystrixClock' \in 0..(Window - 1) /\ hystrixClosed' \in BOOLEAN
        BY <1>1, <1>4, <2>1, HystrixAssumption DEF HystrixInvariant, HystrixTypeOK
      <3> QED
        BY <1>4, <2>1, <3>1, <3>2, Zenon DEF HystrixTypeOK
    <2> QED
      BY <1>3, <2>1, <2>2 DEF HystrixInvariant, SingleTrial
  <1>8. CASE Reopen(ring) /\ hystrixState = "halfOpen"
    <2>1. hystrixBuckets' = ring /\ hystrixState' = "open" /\ trials' = {} /\ heard' = heard
          /\ halfOpenIn' = FALSE /\ openAge' = 0
      BY <1>8 DEF Reopen
    <2>2. HystrixTypeOK'
      <3>1. /\ hystrixBuckets' \in [Indexes -> Bucket]
            /\ \A i \in Indexes : hystrixBuckets'[i].errors <= hystrixBuckets'[i].requests
        BY <1>2, <2>1 DEF Kept
      <3>2. /\ openAge' \in 0..SleepWindow /\ heard' \in 0..RequestVolumeThreshold
            /\ hystrixClock' \in 0..(Window - 1) /\ hystrixClosed' \in BOOLEAN
        BY <1>1, <1>4, <2>1, HystrixAssumption DEF HystrixInvariant, HystrixTypeOK
      <3> QED
        BY <1>4, <2>1, <3>1, <3>2, Zenon DEF HystrixTypeOK
    <2>3. Requests(hystrixBuckets)' <= heard' \/ heard' = RequestVolumeThreshold
      BY <1>1, <1>2, <1>5, <2>1, HystrixAssumption DEF HystrixInvariant
    <2> QED
      BY <1>8, <2>1, <2>2, <2>3 DEF HystrixInvariant, SingleTrial
  <1>9. CASE HystrixCount(ring, failed) /\ hystrixState # "halfOpen"
    <2>1. new \in Kept /\ Requests(new) = Requests(ring) + 1
      BY <1>1, <1>2, <1>5, <1>9, KeptCounted, RequestsCounted DEF HystrixCount
    <2>2. /\ hystrixBuckets' = new /\ halfOpenIn' = halfOpenIn /\ trials' = trials
          /\ heard' = IF heard < RequestVolumeThreshold THEN heard + 1 ELSE heard
          /\ IF Trips(new) THEN hystrixState' = "open" /\ openAge' = 0
                           ELSE UNCHANGED <<hystrixState, openAge>>
      BY <1>9 DEF HystrixCount
    <2> HIDE DEF new
    <2>3. /\ heard' \in 0..RequestVolumeThreshold
          /\ Requests(new) <= heard' \/ heard' = RequestVolumeThreshold
      BY <1>1, <1>2, <1>5, <2>1, <2>2, HystrixAssumption DEF HystrixInvariant
    <2>4. hystrixState' \in {"open", hystrixState} /\ openAge' \in 0..SleepWindow
      BY <2>2, HystrixAssumption, SMTT(30) DEF HystrixInvariant, HystrixTypeOK
    <2>5. HystrixTypeOK'
      BY <1>4, <2>1, <2>2, <2>3, <2>4 DEF HystrixInvariant, HystrixTypeOK, Kept
    <2>6. HystrixInvariant'
      BY <1>9, <2>2, <2>3, <2>4, <2>5 DEF HystrixInvariant, SingleTrial
    <2>7. ASSUME hystrixState = "closed", hystrixState' = "open"
          PROVE  heard' = RequestVolumeThreshold
      <3>1. Requests(new) >= RequestVolumeThreshold
        BY <2>2, <2>7 DEF Trips
      <3> QED
        BY <1>5, <2>1, <2>3, <3>1, HystrixAssumption
    <2> QED
      BY <2>6, <2>7
  <1> QED
    BY <1>6, <1>7, <1>8, <1>9, Zenon DEF Recover

LEMMA HystrixInvariantStep == HystrixInvariant /\ [HystrixNext]_hystrixVars => HystrixInvariant'
  <1> SUFFICES ASSUME HystrixInvariant, [HystrixNext]_hystrixVars PROVE HystrixInvariant'
    OBVIOUS
  <1> USE DEF HystrixInvariant
  <1>1. ASSUME NEW c \in Callers, HystrixAdmit(c) PROVE HystrixInvariant'
    <2>1. HystrixTypeOK'
      BY <1>1, Zenon DEF HystrixTypeOK, HystrixAdmit
    <2>2. CASE hystrixState = "closed"
      BY <1>1, <2>1, <2>2 DEF HystrixAdmit, SingleTrial
    <2>3. CASE hystrixState = "halfOpen"
      <3>1. trials = {} /\ trials' = {c} /\ halfOpenIn' = TRUE
        BY <1>1, <2>3 DEF HystrixAdmit
      <3> QED
        BY <1>1, <2>1, <3>1 DEF HystrixAdmit, SingleTrial
    <2> QED
      BY <1>1, <2>2, <2>3 DEF HystrixAdmit
  <1>2. ASSUME NEW c \in Callers, AllowHalfOpens(c) PROVE HystrixInvariant'
    BY <1>2 DEF HystrixTypeOK, AllowHalfOpens, SingleTrial
  <1>3. ASSUME NEW c \in Callers, NEW failed \in BOOLEAN, HystrixMark(c, failed)
        PROVE HystrixInvariant'
    BY <1>3, HystrixMarkStep
  <1>4. CASE State
    BY <1>4 DEF HystrixTypeOK, State, SingleTrial
  <1>5. CASE HystrixClose
    BY <1>5 DEF HystrixTypeOK, HystrixClose, SingleTrial
  <1>6. CASE HystrixTick
    <2>1. HystrixTypeOK'
      BY <1>6, ClockFacts, AgeFacts, HystrixAssumption, SMTT(30) DEF HystrixTypeOK, HystrixTick
    <2> QED
      BY <1>6, <2>1, SMTT(30) DEF HystrixTick, SingleTrial
  <1>7. CASE UNCHANGED hystrixVars
    BY <1>7 DEF HystrixTypeOK, hystrixVars, SingleTrial
  <1> QED
    BY <1>1, <1>2, <1>3, <1>4, <1>5, <1>6, <1>7, Zenon DEF HystrixNext

LEMMA TripStep ==
    HystrixInvariant /\ [HystrixNext]_hystrixVars =>
      [hystrixState = "closed" /\ hystrixState' = "open" => heard' = RequestVolumeThreshold]_hystrixVars
  <1> SUFFICES ASSUME HystrixInvariant, HystrixNext,
                      hystrixState = "closed", hystrixState' = "open"
               PROVE  heard' = RequestVolumeThreshold
    OBVIOUS
  <1>1. \E c \in Callers : \E failed \in BOOLEAN : HystrixMark(c, failed)
    BY Zenon DEF HystrixNext, HystrixAdmit, AllowHalfOpens, State, HystrixClose, HystrixTick
  <1> QED
    BY <1>1, HystrixMarkStep

\* hystrix.Breaker: however late results interleave with the trial and with State,
\* at most one caller is admitted in a half-open period, and a closed breaker opens
\* only when a full volume of results arrived since it last closed.
THEOREM HystrixCorrect == HystrixSpec => HystrixTrials
  <1>1. HystrixInit => HystrixInvariant
    BY HystrixInvariantInit
  <1>2. HystrixInvariant /\ [HystrixNext]_hystrixVars => HystrixInvariant'
    BY HystrixInvariantStep
  <1>3. HystrixInvariant => HystrixTypeOK /\ SingleTrial
    BY DEF HystrixInvariant
  <1>4. HystrixInvariant /\ [HystrixNext]_hystrixVars =>
          [hystrixState = "closed" /\ hystrixState' = "open" => heard' = RequestVolumeThreshold]_hystrixVars
    BY TripStep
  <1> QED
    BY <1>1, <1>2, <1>3, <1>4, PTL DEF HystrixSpec, HystrixTrials, TripsOnNewResults

-----------------------------------------------------------------------------
(***************************************************************************)
(* Proofs about Sres and Bbr.                                              *)
(***************************************************************************)

\* Time since the last call is time since the last rotation, or nothing was ever
\* counted: a rotation may come earlier than the call, never later.
SresInvariant ==
    /\ SresTypeOK
    /\ sresQuiet <= sresSince \/ sresBuckets = [i \in Indexes |-> EmptyBucket]

LEMMA SresInvariantInit == SresInit => SresInvariant
  <1> SUFFICES ASSUME SresInit PROVE SresInvariant
    OBVIOUS
  <1>1. /\ sresBuckets \in [Indexes -> Bucket]
        /\ \A i \in Indexes : sresBuckets[i].errors <= sresBuckets[i].requests
    BY KeptFacts DEF SresInit, Kept
  <1>2. 0 \in Ages /\ Window \in Ages
    BY WindowFacts DEF Ages
  <1> QED
    BY <1>1, <1>2, Zenon DEF SresInit, SresTypeOK, SresInvariant

LEMMA SresInvariantStep == SresInvariant /\ [SresNext]_sresVars => SresInvariant'
  <1> SUFFICES ASSUME SresInvariant, [SresNext]_sresVars PROVE SresInvariant'
    OBVIOUS
  <1>1. sresBuckets \in Kept /\ sresClock \in 0..(Window - 1) /\ sresSince \in Ages
    BY DEF SresInvariant, SresTypeOK, Kept
  <1>2. SresNow \in Kept
    BY <1>1, KeptRotated DEF SresNow
  <1>3. 0 \in Ages /\ RotatedSince(sresSince) \in Ages /\ 0 <= RotatedSince(sresSince)
    BY <1>1, AgeFacts, WindowFacts DEF Ages
  <1>4. ASSUME NEW c \in SresCallers, SresAllow(c) PROVE SresInvariant'
    <2>1. /\ sresBuckets' \in [Indexes -> Bucket]
          /\ \A i \in Indexes : sresBuckets'[i].errors <= sresBuckets'[i].requests
      BY <1>2, <1>4 DEF SresAllow, Kept
    <2>2. sresSince' \in Ages /\ sresQuiet' \in Ages /\ sresQuiet' <= sresSince'
      BY <1>3, <1>4 DEF SresAllow
    <2>3. /\ sresAnswer' \in {"nil", "ErrCircuitOpen"}
          /\ sresCaller' \in [SresCallers -> {"idle", "running"}]
      BY <1>4 DEF SresAllow, SresInvariant, SresTypeOK
    <2>4. sresClock' = sresClock /\ sresClosed' = sresClosed
      BY <1>4 DEF SresAllow
    <2> QED
      BY <2>1, <2>2, <2>3, <2>4 DEF SresInvariant, SresTypeOK
  <1>5. ASSUME NEW c \in SresCallers, NEW failed \in BOOLEAN, SresMark(c, failed)
        PROVE SresInvariant'
    <2>1. Counted(SresNow, sresClock, failed) \in Kept
      BY <1>1, <1>2, <1>5, KeptCounted DEF SresMark
    <2>2. /\ sresBuckets' \in [Indexes -> Bucket]
          /\ \A i \in Indexes : sresBuckets'[i].errors <= sresBuckets'[i].requests
      BY <2>1, <1>5 DEF SresMark, Kept
    <2>3. sresSince' \in Ages /\ sresQuiet' \in Ages /\ sresQuiet' <= sresSince'
      BY <1>3, <1>5 DEF SresMark
    <2>4. sresCaller' \in [SresCallers -> {"idle", "running"}]
      BY <1>5 DEF SresMark, SresInvariant, SresTypeOK
    <2>5. sresClock' = sresClock /\ sresClosed' = sresClosed /\ sresAnswer' = sresAnswer
      BY <1>5 DEF SresMark
    <2> QED
      BY <2>2, <2>3, <2>4, <2>5 DEF SresInvariant, SresTypeOK
  <1>6. CASE SresClose
    BY <1>6 DEF SresInvariant, SresTypeOK, SresClose
  <1>7. CASE SresTick
    <2>1. /\ sresClock' \in 0..(Window - 1) /\ sresSince' \in Ages /\ sresQuiet' \in Ages
          /\ sresQuiet <= sresSince => sresQuiet' <= sresSince'
      BY <1>7, <1>1, ClockFacts, AgeFacts DEF SresInvariant, SresTypeOK, SresTick
    <2> QED
      BY <1>7, <2>1 DEF SresInvariant, SresTypeOK, SresTick
  <1>8. CASE UNCHANGED sresVars
    BY <1>8 DEF SresInvariant, SresTypeOK, sresVars
  <1> QED
    BY <1>4, <1>5, <1>6, <1>7, <1>8, Zenon DEF SresNext

LEMMA QuietStep ==
    SresInvariant /\ [SresNext]_sresVars =>
      [ sresQuiet = Window /\ (\E c \in SresCallers : SresAllow(c)) => sresAnswer' = "nil" ]_sresVars
  <1> SUFFICES ASSUME SresInvariant, sresQuiet = Window, NEW c \in SresCallers, SresAllow(c)
               PROVE  sresAnswer' = "nil"
    OBVIOUS
  <1>2. sresSince = Window \/ sresBuckets = [i \in Indexes |-> EmptyBucket]
    BY WindowFacts DEF SresInvariant, SresTypeOK, Ages
  <1>3. SresNow = [i \in Indexes |-> EmptyBucket]
    BY <1>2, Forgotten DEF SresNow
  <1>4. ~MayReject(SresNow)
    BY <1>3, KeptFacts DEF MayReject
  <1> QED
    BY <1>4, Zenon DEF SresAllow

BbrRing == [Indexes -> [count : Nat, totalRTT : Nat]]

BbrInvariant ==
    /\ BbrTypeOK
    /\ bbrQuiet <= bbrSince \/ bbrBuckets = [i \in Indexes |-> BbrEmptyBucket]

LEMMA CountType ==
    ASSUME NEW ring \in BbrRing
    PROVE  Count(ring) \in Nat
  <1>1. [i \in Indexes |-> ring[i].count] \in [Indexes -> Nat]
    BY DEF BbrRing
  <1> QED
    BY <1>1, TotalType DEF Count

\* A ring that counts something has a bucket that does, hence a smallest average.
LEMMA MinRTTType ==
    ASSUME NEW ring \in BbrRing, Count(ring) # 0
    PROVE  minRTT(ring) \in Nat
  <1> DEFINE c == [i \in Indexes |-> ring[i].count]
             busy == {j \in Indexes : ring[j].count > 0}
             A == {ring[i].totalRTT \div ring[i].count : i \in busy}
  <1>1. busy # {}
    <2> SUFFICES ASSUME busy = {} PROVE FALSE
      OBVIOUS
    <2>1. \A i \in Indexes : c[i] = 0
      BY SMTT(30) DEF BbrRing
    <2>2. Total(c) = 0
      <3> HIDE DEF c
      <3> QED BY <2>1, TotalOfNothing
    <2> QED
      BY <2>2 DEF Count
  <1>2. ASSUME NEW i \in busy PROVE ring[i].totalRTT \div ring[i].count \in Nat
    <2>1. ring[i].totalRTT \in Nat /\ ring[i].count \in Nat /\ ring[i].count > 0
      BY DEF BbrRing
    <2> QED
      BY <2>1, Quotient
  <1> HIDE DEF busy
  <1>3. A \in SUBSET Nat /\ A # {}
    BY <1>1, <1>2
  <1>4. minRTT(ring) = CHOOSE least \in A : \A a \in A : least <= a
    BY DEF minRTT, busy
  <1> HIDE DEF A
  <1>5. \E n \in A : \A m \in A : n <= m
    BY <1>3, LeastElement
  <1>6. minRTT(ring) \in A
    BY <1>4, <1>5, Zenon
  <1> QED
    BY <1>3, <1>6, Zenon

\* The estimate is a fraction of natural numbers, and its denominator is not zero.
LEMMA EstimateType ==
    ASSUME NEW ring \in BbrRing
    PROVE  /\ estimateMaxQPS(ring)[1] \in Nat
           /\ estimateMaxQPS(ring)[2] \in Nat /\ estimateMaxQPS(ring)[2] > 0
  <1> DEFINE Fraction(p) == p[1] \in Nat /\ p[2] \in Nat /\ p[2] > 0
             least == <<MinQPS, 1>>
             qps == <<Count(ring) * SecondTicks, Window>>
             cap == <<Window, minRTT(ring)>>
  <1>1. Fraction(least)
    BY BbrAssumption
  <1>2. Fraction(qps)
    BY CountType, BbrAssumption, WindowFacts, Product
  <1>3. \A p, q : Fraction(p) /\ Fraction(q) => Fraction(Larger(p, q)) /\ Fraction(Smaller(p, q))
    BY DEF Larger, Smaller
  <1>4. Count(ring) # 0 /\ ~(minRTT(ring) <= 0) => Fraction(cap)
    BY MinRTTType, WindowFacts
  <1> HIDE DEF Fraction
  <1>5. Fraction(estimateMaxQPS(ring))
    BY <1>1, <1>2, <1>3, <1>4, Zenon DEF estimateMaxQPS
  <1> QED
    BY <1>5 DEF Fraction

LEMMA LimitFacts ==
    ASSUME NEW ring \in BbrRing
    PROVE  Limit(ring) \in Nat /\ Limit(ring) >= 1
  <1> DEFINE max == estimateMaxQPS(ring)
             whole == (max[1] * CpuPercent) \div (max[2] * 100)
  <1>1. max[1] \in Nat /\ max[2] \in Nat /\ max[2] > 0
    BY EstimateType
  <1>2. max[1] * CpuPercent \in Nat /\ max[2] * 100 \in Nat /\ max[2] * 100 > 0
    BY <1>1, BbrAssumption, Product
  <1> HIDE DEF max
  <1>3. whole \in Nat
    BY <1>2, Quotient
  <1>4. Limit(ring) = IF whole < 1 THEN 1 ELSE whole
    BY DEF Limit, max
  <1> HIDE DEF whole
  <1> QED
    BY <1>3, <1>4

LEMMA BbrInvariantInit == BbrInit => BbrInvariant
  <1> SUFFICES ASSUME BbrInit PROVE BbrInvariant
    OBVIOUS
  <1>1. /\ bbrBuckets \in [Indexes -> [count : Nat, totalRTT : Nat]]
        /\ \A i \in Indexes : bbrBuckets[i].count = 0 => bbrBuckets[i].totalRTT = 0
    BY DEF BbrInit, BbrEmptyBucket
  <1>2. 0 \in Ages /\ Window \in Ages /\ 0 \in Nat
    BY WindowFacts, SMTT(30) DEF Ages
  <1> QED
    BY <1>1, <1>2, Zenon DEF BbrInit, BbrTypeOK, BbrInvariant

LEMMA BbrNowFacts ==
    ASSUME BbrInvariant
    PROVE  /\ BbrNow \in BbrRing
           /\ \A i \in Indexes : BbrNow[i].count = 0 => BbrNow[i].totalRTT = 0
           /\ bbrQuiet = Window => BbrNow = [i \in Indexes |-> BbrEmptyBucket]
  <1> DEFINE S == [count : Nat, totalRTT : Nat]
  <1>1. BbrEmptyBucket \in S /\ bbrBuckets \in [Indexes -> S]
    BY DEF BbrEmptyBucket, BbrInvariant, BbrTypeOK
  <1> HIDE DEF S
  <1>2. /\ BbrNow \in [Indexes -> S]
        /\ \A i \in Indexes : BbrNow[i] \in {bbrBuckets[i], BbrEmptyBucket}
    BY <1>1, RotatedFacts, Zenon DEF BbrNow
  <1>3. bbrQuiet = Window => bbrSince = Window \/ bbrBuckets = [i \in Indexes |-> BbrEmptyBucket]
    BY WindowFacts DEF BbrInvariant, BbrTypeOK, Ages
  <1>4. bbrQuiet = Window => BbrNow = [i \in Indexes |-> BbrEmptyBucket]
    BY <1>3, Forgotten DEF BbrNow
  <1>5. \A i \in Indexes : BbrNow[i].count = 0 => BbrNow[i].totalRTT = 0
    BY <1>2 DEF BbrInvariant, BbrTypeOK, BbrEmptyBucket
  <1> QED
    BY <1>2, <1>4, <1>5 DEF BbrRing, S

LEMMA BbrInvariantStep == BbrInvariant /\ [BbrNext]_bbrVars => BbrInvariant'
  <1> SUFFICES ASSUME BbrInvariant, [BbrNext]_bbrVars PROVE BbrInvariant'
    OBVIOUS
  <1>1. bbrClock \in 0..(Window - 1) /\ bbrSince \in Ages
    BY DEF BbrInvariant, BbrTypeOK
  <1>2. 0 \in Ages /\ RotatedSince(bbrSince) \in Ages /\ 0 <= RotatedSince(bbrSince)
    BY <1>1, AgeFacts, WindowFacts DEF Ages
  <1>3. CASE BbrAllow
    <2>1. /\ bbrBuckets' \in [Indexes -> [count : Nat, totalRTT : Nat]]
          /\ \A i \in Indexes : bbrBuckets'[i].count = 0 => bbrBuckets'[i].totalRTT = 0
      BY <1>3, BbrNowFacts DEF BbrAllow, BbrRing
    <2>2. bbrSince' \in Ages /\ bbrQuiet' \in Ages /\ bbrQuiet' <= bbrSince'
      BY <1>2, <1>3 DEF BbrAllow
    <2>3. Limit(BbrNow) \in Nat
      BY BbrNowFacts, LimitFacts
    <2>4. maxInflight' \in Nat /\ bbrInflight' \in Nat
      BY <1>3, <2>3 DEF BbrAllow, BbrInvariant, BbrTypeOK
    <2>5. bbrClock' = bbrClock /\ bbrClosed' = bbrClosed
      BY <1>3 DEF BbrAllow
    <2> QED
      BY <2>1, <2>2, <2>4, <2>5 DEF BbrInvariant, BbrTypeOK
  <1>4. ASSUME NEW rtt \in RTTs, Done(rtt) PROVE BbrInvariant'
    <2> DEFINE j == bucketIndex(bbrClock)
               b == [count |-> BbrNow[j].count + 1, totalRTT |-> BbrNow[j].totalRTT + rtt]
    <2>1. j \in Indexes /\ rtt \in Nat
      BY <1>1, ClockFacts, BbrAssumption
    <2>2. BbrNow[j].count \in Nat /\ BbrNow[j].totalRTT \in Nat
      BY <2>1, BbrNowFacts, SMTT(30) DEF BbrRing
    <2>3. b \in [count : Nat, totalRTT : Nat] /\ b.count # 0
      BY <2>1, <2>2
    <2>4. bbrBuckets' = [BbrNow EXCEPT ![j] = b]
      BY <1>4 DEF Done
    <2> HIDE DEF b, j
    <2>5. /\ bbrBuckets' \in [Indexes -> [count : Nat, totalRTT : Nat]]
          /\ \A i \in Indexes : bbrBuckets'[i].count = 0 => bbrBuckets'[i].totalRTT = 0
      BY <2>1, <2>3, <2>4, BbrNowFacts DEF BbrRing
    <2>6. bbrSince' \in Ages /\ bbrQuiet' \in Ages /\ bbrQuiet' <= bbrSince'
      BY <1>2, <1>4, SMTT(30) DEF Done
    <2>7. bbrInflight' \in Nat
      BY <1>4 DEF Done, BbrInvariant, BbrTypeOK
    <2>8. bbrClock' = bbrClock /\ bbrClosed' = bbrClosed /\ maxInflight' = maxInflight
      BY <1>4 DEF Done
    <2> QED
      BY <2>5, <2>6, <2>7, <2>8 DEF BbrInvariant, BbrTypeOK
  <1>5. CASE BbrClose
    BY <1>5, SMTT(30) DEF BbrInvariant, BbrTypeOK, BbrClose
  <1>6. CASE BbrTick
    <2>1. /\ bbrClock' \in 0..(Window - 1) /\ bbrSince' \in Ages /\ bbrQuiet' \in Ages
          /\ bbrQuiet <= bbrSince => bbrQuiet' <= bbrSince'
      BY <1>6, <1>1, ClockFacts, AgeFacts DEF BbrInvariant, BbrTypeOK, BbrTick
    <2> QED
      BY <1>6, <2>1, SMTT(30) DEF BbrInvariant, BbrTypeOK, BbrTick
  <1>7. CASE UNCHANGED bbrVars
    BY <1>7 DEF BbrInvariant, BbrTypeOK, bbrVars
  <1> QED
    BY <1>3, <1>4, <1>5, <1>6, <1>7, Zenon DEF BbrNext

LEMMA LimitStep ==
    ASSUME BbrInvariant, BbrAllow
    PROVE  /\ bbrInflight = 0 => bbrInflight' = 1
           /\ bbrQuiet = Window => maxInflight' = Limit([i \in Indexes |-> BbrEmptyBucket])
  <1>1. Limit(BbrNow) \in Nat /\ Limit(BbrNow) >= 1
    BY BbrNowFacts, LimitFacts
  <1>2. bbrInflight = 0 => bbrInflight' = 1
    BY <1>1 DEF BbrAllow
  <1>3. bbrQuiet = Window => maxInflight' = Limit([i \in Indexes |-> BbrEmptyBucket])
    BY BbrNowFacts, Zenon DEF BbrAllow
  <1> QED
    BY <1>2, <1>3

\* sres.Breaker and bbr.Limiter: a window without calls is forgotten at any phase of
\* the unaligned rotation, so that the breaker accepts the next request and the
\* limiter is back at the limit of minQPS; and an idle limiter admits, whatever it
\* measured.
THEOREM QuietCorrect == SresSpec /\ BbrSpec => QuietIsForgotten
  <1>1. SresInit => SresInvariant
    BY SresInvariantInit
  <1>2. SresInvariant /\ [SresNext]_sresVars => SresInvariant'
    BY SresInvariantStep
  <1>3. SresInvariant => SresTypeOK
    BY DEF SresInvariant
  <1>4. SresInvariant /\ [SresNext]_sresVars =>
          [ sresQuiet = Window /\ (\E c \in SresCallers : SresAllow(c)) => sresAnswer' = "nil" ]_sresVars
    BY QuietStep
  <1>5. BbrInit => BbrInvariant
    BY BbrInvariantInit
  <1>6. BbrInvariant /\ [BbrNext]_bbrVars => BbrInvariant'
    BY BbrInvariantStep
  <1>7. BbrInvariant => BbrTypeOK
    BY DEF BbrInvariant
  <1>8. BbrInvariant /\ [BbrNext]_bbrVars => [ bbrInflight = 0 /\ BbrAllow => bbrInflight' = 1 ]_bbrVars
    BY LimitStep
  <1>9. BbrInvariant /\ [BbrNext]_bbrVars =>
          [ bbrQuiet = Window /\ BbrAllow
              => maxInflight' = Limit([i \in Indexes |-> BbrEmptyBucket]) ]_bbrVars
    BY LimitStep
  <1>10. SresSpec => [](SresTypeOK) /\ QuietWindowAdmits
    BY <1>1, <1>2, <1>3, <1>4, PTL DEF SresSpec, QuietWindowAdmits
  <1>11. BbrSpec => [](BbrTypeOK) /\ IdleAdmits /\ QuietWindowResetsLimit
    BY <1>5, <1>6, <1>7, <1>8, <1>9, PTL DEF BbrSpec, IdleAdmits, QuietWindowResetsLimit
  <1> QED
    BY <1>10, <1>11, PTL DEF QuietIsForgotten
=============================================================================
