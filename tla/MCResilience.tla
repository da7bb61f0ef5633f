---------------------------- MODULE MCResilience ----------------------------
(***************************************************************************)
(* The circuit breakers, rate limiters and the retrier for TLC: in a       *)
(* behaviour one component moves and the others stand still, so that one   *)
(* run explores the sum of their state spaces and not the product.         *)
(***************************************************************************)
EXTENDS Admission, Retry, Hystrix, Sres, Bbr

VARIABLE component

suiteVars == <<component, vars, hystrixVars, sresVars, vegasVars, bbrVars, retryVars>>

-----------------------------------------------------------------------------
Components == {"tokenbucket", "hystrix", "sres", "vegas", "bbr", "retry"}

\* A component that does not move starts in one of its initial states only.
Parked ==
    /\ component # "hystrix" => hystrixClock = 0
    /\ component # "sres" => sresClock = 0
    /\ component # "bbr" => bbrClock = 0
    /\ component # "retry" => backoff = "fixed" /\ jitter = "none"

SuiteInit ==
    /\ component \in Components
    /\ Init /\ HystrixInit /\ SresInit /\ VegasInit /\ BbrInit /\ RetryInit
    /\ Parked

SuiteNext ==
    /\ UNCHANGED component
    /\ \/ component = "tokenbucket" /\ Next
          /\ UNCHANGED <<hystrixVars, sresVars, vegasVars, bbrVars, retryVars>>
       \/ component = "hystrix" /\ HystrixNext
          /\ UNCHANGED <<vars, sresVars, vegasVars, bbrVars, retryVars>>
       \/ component = "sres" /\ SresNext
          /\ UNCHANGED <<vars, hystrixVars, vegasVars, bbrVars, retryVars>>
       \/ component = "vegas" /\ VegasNext
          /\ UNCHANGED <<vars, hystrixVars, sresVars, bbrVars, retryVars>>
       \/ component = "bbr" /\ BbrNext
          /\ UNCHANGED <<vars, hystrixVars, sresVars, vegasVars, retryVars>>
       \/ component = "retry" /\ RetryNext
          /\ UNCHANGED <<vars, hystrixVars, sresVars, vegasVars, bbrVars>>

\* The token bucket's Fairness, while it moves.
SuiteFairness ==
    /\ \A w \in Waiters : WF_vars(component = "tokenbucket" /\ Try(w))
    /\ \A w \in Waiters : WF_vars(component = "tokenbucket" /\ Wake(w))
    /\ WF_vars(component = "tokenbucket" /\ Tick)

SuiteSpec == SuiteInit /\ [][SuiteNext]_suiteVars /\ SuiteFairness

-----------------------------------------------------------------------------
(* The properties of the components; their modules state them in full.     *)

\* sres, bbr: a window without calls is forgotten: the breaker accepts the next request, and
\* the limiter has the limit minQPS gives; an idle limiter admits, whatever it measured
\* (sres.go:119-260, bbr.go:130-244).
QuietIsForgotten ==
    [](SresTypeOK /\ BbrTypeOK) /\ QuietWindowAdmits /\ IdleAdmits /\ QuietWindowResetsLimit
=============================================================================
