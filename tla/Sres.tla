-------------------------------- MODULE Sres --------------------------------
(***************************************************************************)
(* circuitbreaker/sres: one Breaker and the callers of Execute.  A request *)
(* is accepted with a probability computed from the results in the ring;   *)
(* the model keeps whether it is 0, 1 or in between.                       *)
(***************************************************************************)
EXTENDS RollingWindow

CONSTANTS
    SresCallers,
    K            \* the sensitivity, a whole number here

ASSUME SresAssumption == K \in Nat

VARIABLES
    sresBuckets, sresClock, sresSince,
    sresClosed,  \* b.closed
    sresCaller,  \* "idle" or "running"
    sresQuiet,   \* time since the last call that rotated the ring
    sresAnswer   \* what the last Allow returned

sresVars == <<sresBuckets, sresClock, sresSince, sresClosed, sresCaller, sresQuiet, sresAnswer>>

-----------------------------------------------------------------------------
SresTypeOK ==
    /\ sresBuckets \in [Indexes -> Bucket]
    /\ \A i \in Indexes : sresBuckets[i].errors <= sresBuckets[i].requests
    /\ sresClock \in 0..(Window - 1) /\ sresSince \in Ages /\ sresQuiet \in Ages
    /\ sresClosed \in BOOLEAN
    /\ sresCaller \in [SresCallers -> {"idle", "running"}]
    /\ sresAnswer \in {"none", "nil", "ErrCircuitOpen"}

SresInit ==
    /\ sresBuckets = [i \in Indexes |-> EmptyBucket]
    /\ sresClock \in 0..(Window - 1) /\ sresSince = 0
    /\ sresClosed = FALSE
    /\ sresCaller = [c \in SresCallers |-> "idle"]
    /\ sresQuiet = Window /\ sresAnswer = "none"

-----------------------------------------------------------------------------
(* Definitions named Mutant... are faulty variants of the one after them;  *)
(* no specification uses them.                                             *)

SresNow == Rotated(sresBuckets, EmptyBucket, sresClock, sresSince)

\* The acceptance is 1 without results and less than 1 with any; it is 0 when
\* K times the errors reach the requests.
MayAccept(ring) == Requests(ring) = 0 \/ Requests(ring) > K * Errors(ring)

MayReject(ring) == Requests(ring) > 0

MutantAllowReadsStale(c) ==
    /\ sresCaller[c] = "idle" /\ ~sresClosed
    /\ \/ MayAccept(sresBuckets) /\ sresAnswer' = "nil" /\ sresCaller' = [sresCaller EXCEPT ![c] = "running"]
       \/ MayReject(sresBuckets) /\ sresAnswer' = "ErrCircuitOpen" /\ UNCHANGED sresCaller
    /\ sresBuckets' = SresNow /\ sresSince' = RotatedSince(sresSince) /\ sresQuiet' = 0
    /\ UNCHANGED <<sresClock, sresClosed>>

SresAllow(c) ==
    /\ sresCaller[c] = "idle" /\ ~sresClosed
    /\ \/ MayAccept(SresNow) /\ sresAnswer' = "nil" /\ sresCaller' = [sresCaller EXCEPT ![c] = "running"]
       \/ MayReject(SresNow) /\ sresAnswer' = "ErrCircuitOpen" /\ UNCHANGED sresCaller
    /\ sresBuckets' = SresNow /\ sresSince' = RotatedSince(sresSince) /\ sresQuiet' = 0
    /\ UNCHANGED <<sresClock, sresClosed>>

\* MarkSuccess and MarkFailure.
SresMark(c, failed) ==
    /\ sresCaller[c] = "running" /\ Requests(SresNow) < MaxResults
    /\ sresCaller' = [sresCaller EXCEPT ![c] = "idle"]
    /\ sresBuckets' = Counted(SresNow, sresClock, failed)
    /\ sresSince' = RotatedSince(sresSince) /\ sresQuiet' = 0
    /\ UNCHANGED <<sresClock, sresClosed, sresAnswer>>

SresClose ==
    /\ ~sresClosed /\ sresClosed' = TRUE
    /\ UNCHANGED <<sresBuckets, sresClock, sresSince, sresCaller, sresQuiet, sresAnswer>>

SresTick ==
    /\ sresClock' = Later(sresClock) /\ sresSince' = Older(sresSince) /\ sresQuiet' = Older(sresQuiet)
    /\ UNCHANGED <<sresBuckets, sresClosed, sresCaller, sresAnswer>>

SresNext ==
    \/ \E c \in SresCallers : SresAllow(c) \/ SresMark(c, TRUE) \/ SresMark(c, FALSE)
    \/ SresClose \/ SresTick

SresSpec == SresInit /\ [][SresNext]_sresVars

\* Callers keep calling, their requests end, and time passes.
SresFairSpec ==
    /\ SresSpec
    /\ \A c \in SresCallers : WF_sresVars(SresAllow(c)) /\ WF_sresVars(SresMark(c, TRUE) \/ SresMark(c, FALSE))
    /\ WF_sresVars(SresTick)

-----------------------------------------------------------------------------
\* Allow, "no data yet - allow" (sres.go:136): a breaker nobody called for a
\* whole window has forgotten what it saw and accepts the next request, however
\* many failures came before.
QuietWindowAdmits ==
    [][ sresQuiet = Window /\ (\E c \in SresCallers : SresAllow(c)) => sresAnswer' = "nil" ]_sresVars

\* The acceptance is computed over a sliding window (sres.go:51): a breaker that
\* rejects everything does so only until the failures leave the window, so in
\* the end it may accept again.
RejectionEnds == ~MayAccept(sresBuckets) ~> MayAccept(sresBuckets) \/ sresClosed
=============================================================================
