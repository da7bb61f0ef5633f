------------------------------ MODULE Hystrix ------------------------------
(***************************************************************************)
(* circuitbreaker/hystrix: one Breaker and the callers of Execute.  The    *)
(* breaker's methods hold its mutex, so each is one step; a caller's       *)
(* request runs between Allow and MarkSuccess or MarkFailure.              *)
(***************************************************************************)
EXTENDS RollingWindow

CONSTANTS
    Callers,
    SleepWindow,             \* in ticks
    RequestVolumeThreshold,
    ErrorPercent             \* errorThreshold

ASSUME HystrixAssumption ==
    SleepWindow \in Nat /\ RequestVolumeThreshold \in Nat /\ ErrorPercent \in Nat

VARIABLES
    hystrixState,       \* b.state
    halfOpenIn,
    openAge,     \* time since openedAt, up to SleepWindow
    hystrixBuckets, hystrixClock, hystrixSince,
    hystrixClosed,      \* b.closed
    hystrixCaller,      \* "idle" or "running"
    trials,      \* callers admitted in this half-open period
    heard        \* results since the breaker last closed, up to the volume threshold

hystrixVars == <<hystrixState, halfOpenIn, openAge, hystrixBuckets, hystrixClock, hystrixSince,
                 hystrixClosed, hystrixCaller, trials, heard>>

-----------------------------------------------------------------------------
HystrixTypeOK ==
    /\ hystrixState \in {"closed", "open", "halfOpen"}
    /\ halfOpenIn \in BOOLEAN
    /\ openAge \in 0..SleepWindow
    /\ hystrixBuckets \in [Indexes -> Bucket]
    /\ \A i \in Indexes : hystrixBuckets[i].errors <= hystrixBuckets[i].requests
    /\ hystrixClock \in 0..(Window - 1) /\ hystrixSince \in Ages
    /\ hystrixClosed \in BOOLEAN
    /\ hystrixCaller \in [Callers -> {"idle", "running"}]
    /\ trials \in SUBSET Callers
    /\ heard \in 0..RequestVolumeThreshold

\* New reads the clock at any phase of a bucket.
HystrixInit ==
    /\ hystrixState = "closed" /\ halfOpenIn = FALSE /\ openAge = 0
    /\ hystrixBuckets = [i \in Indexes |-> EmptyBucket]
    /\ hystrixClock \in 0..(Window - 1) /\ hystrixSince = 0
    /\ hystrixClosed = FALSE
    /\ hystrixCaller = [c \in Callers |-> "idle"]
    /\ trials = {} /\ heard = 0

-----------------------------------------------------------------------------
(* Definitions named Mutant... are faulty variants of the one after them;  *)
(* no specification uses them.                                             *)

MutantAdmitForgetsTrial(c) ==
    /\ hystrixCaller[c] = "idle" /\ ~hystrixClosed
    /\ \/ hystrixState = "closed" /\ UNCHANGED trials
       \/ hystrixState = "halfOpen" /\ ~halfOpenIn /\ trials' = trials \cup {c}
    /\ hystrixCaller' = [hystrixCaller EXCEPT ![c] = "running"]
    /\ UNCHANGED <<hystrixState, halfOpenIn, openAge, hystrixBuckets, hystrixClock, hystrixSince, hystrixClosed, heard>>

\* Allow returns nil.
HystrixAdmit(c) ==
    /\ hystrixCaller[c] = "idle" /\ ~hystrixClosed
    /\ \/ hystrixState = "closed" /\ UNCHANGED <<halfOpenIn, trials>>
       \/ hystrixState = "halfOpen" /\ ~halfOpenIn /\ halfOpenIn' = TRUE /\ trials' = trials \cup {c}
    /\ hystrixCaller' = [hystrixCaller EXCEPT ![c] = "running"]
    /\ UNCHANGED <<hystrixState, openAge, hystrixBuckets, hystrixClock, hystrixSince, hystrixClosed, heard>>

\* Allow in the open state, after the sleep window: it turns the breaker half
\* open, marks a trial as in flight and, falling through, rejects the caller.
AllowHalfOpens(c) ==
    /\ hystrixCaller[c] = "idle" /\ ~hystrixClosed
    /\ hystrixState = "open" /\ openAge = SleepWindow
    /\ hystrixState' = "halfOpen" /\ halfOpenIn' = TRUE /\ trials' = {}
    /\ UNCHANGED <<openAge, hystrixBuckets, hystrixClock, hystrixSince, hystrixClosed, hystrixCaller, heard>>

\* Every other Allow returns ErrCircuitOpen and changes nothing.

\* evaluateLocked: does the ring trip a closed breaker?
Trips(ring) ==
    /\ hystrixState = "closed"
    /\ Requests(ring) >= RequestVolumeThreshold /\ Requests(ring) # 0
    /\ 100 * Errors(ring) >= ErrorPercent * Requests(ring)

MutantRecoverKeepsRing(ring) ==
    /\ hystrixState' = "closed" /\ halfOpenIn' = FALSE /\ trials' = {} /\ heard' = 0
    /\ hystrixBuckets' = ring
    /\ UNCHANGED openAge

\* MarkSuccess in the half-open state.
Recover(ring) ==
    /\ hystrixState' = "closed" /\ halfOpenIn' = FALSE /\ trials' = {} /\ heard' = 0
    /\ hystrixBuckets' = [i \in Indexes |-> EmptyBucket]
    /\ UNCHANGED openAge

\* MarkFailure in the half-open state; the result is not counted.
Reopen(ring) ==
    /\ hystrixState' = "open" /\ halfOpenIn' = FALSE /\ trials' = {} /\ openAge' = 0
    /\ hystrixBuckets' = ring
    /\ UNCHANGED heard

HystrixCount(ring, failed) ==
    /\ Requests(ring) < MaxResults
    /\ hystrixBuckets' = Counted(ring, hystrixClock, failed)
    /\ heard' = IF heard < RequestVolumeThreshold THEN heard + 1 ELSE heard
    /\ IF Trips(Counted(ring, hystrixClock, failed)) THEN hystrixState' = "open" /\ openAge' = 0
                                                     ELSE UNCHANGED <<hystrixState, openAge>>
    /\ UNCHANGED <<halfOpenIn, trials>>

\* MarkSuccess and MarkFailure, at the end of the caller's request.  Nothing
\* ties the result to the state in which the request was admitted.
HystrixMark(c, failed) ==
    /\ hystrixCaller[c] = "running"
    /\ hystrixCaller' = [hystrixCaller EXCEPT ![c] = "idle"]
    /\ LET ring == Rotated(hystrixBuckets, EmptyBucket, hystrixClock, hystrixSince) IN
       IF hystrixState = "halfOpen" THEN IF failed THEN Reopen(ring) ELSE Recover(ring)
                             ELSE HystrixCount(ring, failed)
    /\ hystrixSince' = RotatedSince(hystrixSince)
    /\ UNCHANGED <<hystrixClock, hystrixClosed>>

\* State turns an open breaker half open without a trial in flight.
State ==
    /\ hystrixState = "open" /\ openAge = SleepWindow
    /\ hystrixState' = "halfOpen" /\ trials' = {}
    /\ UNCHANGED <<halfOpenIn, openAge, hystrixBuckets, hystrixClock, hystrixSince, hystrixClosed, hystrixCaller, heard>>

HystrixClose ==
    /\ ~hystrixClosed /\ hystrixClosed' = TRUE
    /\ UNCHANGED <<hystrixState, halfOpenIn, openAge, hystrixBuckets, hystrixClock, hystrixSince, hystrixCaller, trials, heard>>

HystrixTick ==
    /\ hystrixClock' = Later(hystrixClock) /\ hystrixSince' = Older(hystrixSince)
    /\ openAge' = IF openAge < SleepWindow THEN openAge + 1 ELSE openAge
    /\ UNCHANGED <<hystrixState, halfOpenIn, hystrixBuckets, hystrixClosed, hystrixCaller, trials, heard>>

HystrixAllow(c) == HystrixAdmit(c) \/ AllowHalfOpens(c)

HystrixNext ==
    \/ \E c \in Callers : HystrixAdmit(c) \/ AllowHalfOpens(c) \/ HystrixMark(c, TRUE) \/ HystrixMark(c, FALSE)
    \/ State \/ HystrixClose \/ HystrixTick

HystrixSpec == HystrixInit /\ [][HystrixNext]_hystrixVars

\* Callers keep calling, their requests end, and time passes; nobody has to
\* call State or Close.
HystrixFairSpec ==
    /\ HystrixSpec
    /\ \A c \in Callers : WF_hystrixVars(HystrixAllow(c)) /\ WF_hystrixVars(HystrixMark(c, TRUE) \/ HystrixMark(c, FALSE))
    /\ WF_hystrixVars(HystrixTick)

-----------------------------------------------------------------------------
\* Package comment, HalfOpen (hystrix.go:14): a single trial request is
\* allowed.  Whatever late results arrive, and whoever turned the breaker half
\* open, at most one caller is admitted before the breaker leaves that state.
SingleTrial == \A c, d \in trials : c = d

\* Package comment, Closed (hystrix.go:6-9): a breaker that recovered starts
\* afresh, so it trips again only after a full volume of new results; failures
\* from before the outage do not count against it.
TripsOnNewResults == [][hystrixState = "closed" /\ hystrixState' = "open" => heard' = RequestVolumeThreshold]_hystrixVars

\* Both, and the type: one caller is admitted in a half-open period, and a breaker
\* that recovered trips only on a full volume of new results (hystrix.go:149-222).
HystrixTrials == [](HystrixTypeOK /\ SingleTrial) /\ TripsOnNewResults

\* Package comment, Open and HalfOpen (hystrix.go:11-16): after the sleep
\* window a trial request is admitted.
OpenEndsInTrial == hystrixState = "open" /\ ~hystrixClosed ~> trials # {} \/ hystrixState = "closed" \/ hystrixClosed
=============================================================================
