------------------------------- MODULE Health -------------------------------
(***************************************************************************)
(* The health aggregator health/health.go: a table of named checkers that  *)
(* may change at any time, and one call of Check, which runs a snapshot of *)
(* the table concurrently under a timeout.  A checker is the caller's code *)
(* and may never answer.                                                   *)
(* Definitions named Mutant... are faulty variants of the one after them.  *)
(***************************************************************************)
EXTENDS Naturals, Sequences, FiniteSets

CONSTANTS Checkers,        \* names under which checkers are registered
          MaxChanges       \* bound on the calls of Register and Deregister

VARIABLES checkers,        \* h.checkers: the names registered
          asked,           \* the names in the snapshot of the call
          done,            \* what each checker answered, "none" while it runs
          expired,         \* checkCtx is done
          sent,            \* checkers whose goroutine has sent its result
          resultCh,        \* the channel of results
          details,         \* results collected: the names and their statuses
          overall,         \* the merged status
          answer,          \* "none", "running" or the status returned
          changes
healthVars == <<checkers, asked, done, expired, sent, resultCh, details, overall, answer, changes>>

Statuses == {"up", "unknown", "down"}

HealthInit ==
    /\ checkers = {} /\ asked = {}
    /\ done = [n \in Checkers |-> "none"] /\ expired = FALSE
    /\ sent = {} /\ resultCh = <<>> /\ details = {}
    /\ overall = "up" /\ answer = "none" /\ changes = 0

CallUnchanged == UNCHANGED <<asked, done, expired, sent, resultCh, details, overall, answer>>

Register(n) ==
    /\ changes < MaxChanges /\ changes' = changes + 1
    /\ checkers' = checkers \cup {n}
    /\ CallUnchanged
Deregister(n) ==
    /\ changes < MaxChanges /\ changes' = changes + 1
    /\ checkers' = checkers \ {n}
    /\ CallUnchanged

\* Check takes a snapshot under the read lock; without checkers it is done.
Check ==
    /\ answer = "none"
    /\ asked' = checkers
    /\ answer' = IF checkers = {} THEN "up" ELSE "running"
    /\ UNCHANGED <<checkers, done, expired, sent, resultCh, details, overall, changes>>

\* The inner goroutine: c.Check answers into a channel of its own, even too late.
CheckerAnswers(n, s) ==
    /\ n \in asked /\ done[n] = "none"
    /\ done' = [done EXCEPT ![n] = s]
    /\ UNCHANGED <<checkers, asked, expired, sent, resultCh, details, overall, answer, changes>>

Timeout ==
    /\ answer = "running" /\ ~expired /\ expired' = TRUE
    /\ UNCHANGED <<checkers, asked, done, sent, resultCh, details, overall, answer, changes>>

\* The select of the outer goroutine: both cases may be ready.
MutantOutcomes(n) ==
    (IF done[n] # "none" THEN {done[n]} ELSE {}) \cup (IF expired THEN {"unknown"} ELSE {})
Outcomes(n) ==
    (IF done[n] # "none" THEN {done[n]} ELSE {}) \cup (IF expired THEN {"down"} ELSE {})
Send(n) ==
    /\ n \in asked \ sent
    /\ \E s \in Outcomes(n) : resultCh' = Append(resultCh, <<n, s>>)
    /\ sent' = sent \cup {n}
    /\ UNCHANGED <<checkers, asked, done, expired, details, overall, answer, changes>>

\* The rules that merge one result into the overall status.
Merged(status, s) ==
    IF s = "down" THEN "down"
    ELSE IF s = "unknown" /\ status # "down" THEN "unknown" ELSE status

Collect ==
    /\ answer = "running" /\ resultCh # <<>>
    /\ resultCh' = Tail(resultCh)
    /\ details' = details \cup {Head(resultCh)}
    /\ overall' = Merged(overall, Head(resultCh)[2])
    /\ answer' = IF Cardinality(details') = Cardinality(asked) THEN overall' ELSE answer
    /\ UNCHANGED <<checkers, asked, done, expired, sent, changes>>

HealthNext ==
    \/ \E n \in Checkers :
        \/ Register(n) \/ Deregister(n) \/ Send(n)
        \/ \E s \in Statuses : CheckerAnswers(n, s)
    \/ Check \/ Timeout \/ Collect

\* The timeout passes, and the goroutines of the call run; a checker need not answer.
HealthFairness ==
    /\ WF_healthVars(Timeout) /\ WF_healthVars(Collect)
    /\ \A n \in Checkers : WF_healthVars(Send(n))
HealthSpec == HealthInit /\ [][HealthNext]_healthVars /\ HealthFairness

-----------------------------------------------------------------------------
\* health.go:142-147: the answer is down exactly when a checker of the snapshot answered so or
\* had not answered by the timeout, whatever the order of the results and whatever the table
\* is by now; it is up only if every one of them answered up (Check, health.go:149-216).
AnswersTellTheWorst ==
    answer \in Statuses =>
        /\ {d[1] : d \in details} = asked
        /\ answer = "up" <=> \A n \in asked : <<n, "up">> \in details /\ done[n] = "up"
        /\ answer = "down" <=> \E n \in asked : <<n, "down">> \in details
        /\ \A d \in details : d[2] = done[d[1]] \/ (d[2] = "down" /\ expired)

\* health.go:170-189: a call that began ends, although a checker may hang for ever.
CheckReturns == answer # "running"
CheckEnds == <>[]CheckReturns
=============================================================================
