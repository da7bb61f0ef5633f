------------------------------- MODULE Outbox -------------------------------
(***************************************************************************)
(* The producer half of transaction/outbox: business transactions that     *)
(* Enqueue events, the outbox table behind SQLStore, and the Relays that   *)
(* move committed rows to a broker.                                        *)
(*                                                                         *)
(* Time is relative.  A row does not carry claimed_at, completed_at and    *)
(* next_visible_at but the ages and the delay the WHERE clauses compare    *)
(* with now, and Tick ages them.  Ages saturate one past the threshold     *)
(* they are compared with, so no bound on the clock is needed.  A column   *)
(* that no WHERE clause reads in the row's status is kept at 0.            *)
(***************************************************************************)
EXTENDS Integers, Sequences

CONSTANTS
    Events,       \* event ids (Event.ID, or the UUID newID makes)
    Relays,       \* processes running Relay.Run on the same table
    BatchSize,    \* WithBatchSize
    MaxAttempts,  \* WithMaxAttempts
    Lease,        \* WithLease, in ticks; 0 disables crash recovery
    SweepAfter,   \* WithSweepAfter, in ticks; 0 disables the sweep
    BackoffUnit,  \* one second of the default retryBackoff, in ticks
    Lockings,     \* the settings of WithSkipLocked: "rows" if TRUE, "none" if FALSE
    MaxFaults     \* bound: crashes and failed store calls in a behaviour

ASSUME OutboxAssumption ==
    /\ BatchSize \in Nat \ {0}
    /\ MaxAttempts \in Nat \ {0}
    /\ Lease \in Nat
    /\ SweepAfter \in Nat
    /\ BackoffUnit \in Nat
    /\ Lockings \subseteq {"rows", "none"}
    /\ MaxFaults \in Nat

VARIABLES
    txn,        \* the business transaction of each event
    before,     \* created_at order: the ids enqueued before each id
    rows,       \* the outbox table
    relay,      \* where each relay is in Once, and the rows it holds
    published,  \* ids the broker has accepted
    locking,    \* what Claim locks: the rows it selects, or none
    faults      \* faults so far

vars == <<txn, before, rows, relay, published, locking, faults>>

SkipLocked == locking = "rows"

-----------------------------------------------------------------------------
Statuses == {"absent", "pending", "claimed", "done", "dead"}

\* One record of the outbox table.
OutboxRow == [status: Statuses, attempts: Nat,
              claimAge: Nat, delay: Nat, doneAge: Nat]

NoRow == [status |-> "absent", attempts |-> 0,
          claimAge |-> 0, delay |-> 0, doneAge |-> 0]

\* A row as claimed by a relay (type Row): what the relay remembers of it.
Row == [id: Events, attempts: Nat]

Pcs == {"down", "reclaim", "sweep", "claim", "update",
        "publish", "complete", "fail"}

Relay == [pc: Pcs, batch: Seq(Row)]

TypeOK ==
    /\ txn \in [Events -> {"none", "open", "committed"}]
    /\ before \in [Events -> SUBSET Events]
    /\ rows \in [Events -> OutboxRow]
    /\ relay \in [Relays -> Relay]
    /\ published \in SUBSET Events
    /\ locking \in {"rows", "none"}
    /\ faults \in Nat

committed == {e \in Events : txn[e] = "committed"}

Init ==
    /\ txn = [e \in Events |-> "none"]
    /\ before = [e \in Events |-> {}]
    /\ rows = [e \in Events |-> NoRow]
    /\ relay = [r \in Relays |-> [pc |-> "reclaim", batch |-> <<>>]]
    /\ published = {}
    /\ locking \in Lockings
    /\ faults = 0

Fault == faults < MaxFaults /\ faults' = faults + 1

-----------------------------------------------------------------------------
(* Definitions named Mutant... are faulty variants of the one after them;  *)
(* no specification uses them.                                             *)

(* The producer.  The INSERT of Enqueue runs on the business transaction,  *)
(* so the row exists for everybody else only once that commits.            *)

MutantEnqueueOutsideTx(e) ==
    /\ txn[e] = "none"
    /\ txn' = [txn EXCEPT ![e] = "open"]
    /\ before' = [before EXCEPT ![e] = {f \in Events : txn[f] # "none"}]
    /\ rows' = [rows EXCEPT ![e].status = "pending"]
    /\ UNCHANGED <<relay, published, locking, faults>>

Enqueue(e) ==
    /\ txn[e] = "none"
    /\ txn' = [txn EXCEPT ![e] = "open"]
    /\ before' = [x \in Events |->
                    IF x = e THEN {f \in Events : txn[f] # "none"} ELSE before[x] \ {e}]
    /\ UNCHANGED <<rows, relay, published, locking, faults>>

CommitTx(e) ==
    /\ txn[e] = "open"
    /\ txn' = [txn EXCEPT ![e] = "committed"]
    /\ rows' = [rows EXCEPT ![e].status = "pending"]
    /\ UNCHANGED <<before, relay, published, locking, faults>>

RollbackTx(e) ==
    /\ txn[e] = "open"
    /\ txn' = [txn EXCEPT ![e] = "none"]
    /\ UNCHANGED <<before, rows, relay, published, locking, faults>>

-----------------------------------------------------------------------------
(* The store: each operator is the table after one call.                   *)

MutantReclaimSparesLastAttempt ==
    [e \in Events |->
        IF rows[e].status = "claimed" /\ rows[e].claimAge > Lease
             /\ rows[e].attempts < MaxAttempts
        THEN [rows[e] EXCEPT !.status = "pending", !.delay = 0, !.claimAge = 0]
        ELSE rows[e]]

DoReclaim ==
    [e \in Events |->
        IF rows[e].status = "claimed" /\ rows[e].claimAge > Lease
        THEN [rows[e] EXCEPT !.status = "pending", !.delay = 0, !.claimAge = 0]
        ELSE rows[e]]

Sweepable == {e \in Events : rows[e].status = "done" /\ rows[e].doneAge > SweepAfter}

DoSweep == [e \in Events |-> IF e \in Sweepable THEN NoRow ELSE rows[e]]

MutantClaimableClaimed(e) == rows[e].status \in {"pending", "claimed"} /\ rows[e].delay = 0

MutantClaimableSettled(e) == rows[e].status \notin {"absent", "claimed"} /\ rows[e].delay = 0

Claimable(e) == rows[e].status = "pending" /\ rows[e].delay = 0

\* The SELECT of Claim may return these ids: pending and visible rows, oldest
\* first, all of them unless LIMIT cuts off the youngest.
SelectPending(ids) ==
    /\ \A i \in DOMAIN ids : Claimable(ids[i])
    /\ \A i, j \in DOMAIN ids : i < j => ids[i] \in before[ids[j]]
    /\ \A e \in Events :
         (Claimable(e) /\ \A i \in DOMAIN ids : ids[i] # e)
           => Len(ids) = BatchSize /\ \A i \in DOMAIN ids : e \notin before[ids[i]]

Selections == {ids \in UNION {[1..n -> Events] : n \in 0..BatchSize} : SelectPending(ids)}

\* The rows Claim returns for them, each with its attempts counted up.
RowsOf(ids) ==
    [i \in DOMAIN ids |-> [id |-> ids[i], attempts |-> rows[ids[i]].attempts + 1]]

\* The UPDATEs of Claim; they name the row by id and test nothing else.
DoClaim(batch) ==
    [e \in Events |->
        IF rows[e].status # "absent" /\ \E i \in DOMAIN batch : batch[i].id = e
        THEN [rows[e] EXCEPT
                !.status = "claimed", !.claimAge = 0, !.delay = 0, !.doneAge = 0,
                !.attempts = batch[CHOOSE i \in DOMAIN batch : batch[i].id = e].attempts]
        ELSE rows[e]]

DoComplete(e) ==
    IF rows[e].status = "absent" THEN rows
    ELSE [rows EXCEPT ![e] =
            [@ EXCEPT !.status = "done", !.doneAge = 0, !.claimAge = 0, !.delay = 0]]

retryBackoff(attempts) == attempts * BackoffUnit

MutantFailOneEarly(e, attempts) ==
    IF rows[e].status = "absent" THEN rows
    ELSE IF attempts + 1 >= MaxAttempts
    THEN [rows EXCEPT ![e].status = "dead"]
    ELSE [rows EXCEPT ![e].status = "pending", ![e].delay = retryBackoff(attempts)]

DoFail(e, attempts) ==
    IF rows[e].status = "absent" THEN rows
    ELSE IF attempts >= MaxAttempts
    THEN [rows EXCEPT ![e] =
            [@ EXCEPT !.status = "dead", !.delay = 0, !.claimAge = 0, !.doneAge = 0]]
    ELSE [rows EXCEPT ![e] =
            [@ EXCEPT !.status = "pending", !.delay = retryBackoff(attempts),
                      !.claimAge = 0, !.doneAge = 0]]

-----------------------------------------------------------------------------
(* The relay: Once, one action per store call and per Publish.             *)

At(r, pc) == relay[r].pc = pc

Goto(r, pc) == relay' = [relay EXCEPT ![r].pc = pc]

\* The loop of Once goes on to the next row; after the last one Once returns
\* and Run calls it again at the next tick of the poll ticker.
NextRow(r) ==
    relay' = [relay EXCEPT ![r].batch = Tail(@),
                           ![r].pc = IF Len(relay[r].batch) > 1
                                     THEN "publish" ELSE "reclaim"]

\* Once begins: return expired claims to pending.  A failed call is only
\* reported and the cycle goes on.
Reclaim(r) ==
    /\ At(r, "reclaim")
    /\ \/ Lease > 0 /\ rows' = DoReclaim /\ UNCHANGED faults
       \/ Lease > 0 /\ Fault /\ UNCHANGED rows
       \/ Lease = 0 /\ UNCHANGED <<rows, faults>>
    /\ Goto(r, "sweep")
    /\ UNCHANGED <<txn, before, published, locking>>

\* Delete what has been done for longer than SweepAfter.
Sweep(r) ==
    /\ At(r, "sweep")
    /\ \/ /\ SweepAfter > 0
          /\ rows' = DoSweep
          /\ UNCHANGED faults
       \/ SweepAfter > 0 /\ Fault /\ UNCHANGED rows
       \/ SweepAfter = 0 /\ UNCHANGED <<rows, faults>>
    /\ Goto(r, "claim")
    /\ UNCHANGED <<txn, before, published, locking>>

\* Once got its rows: publish them, or wait for the next poll.
Hold(r, batch) ==
    relay' = [relay EXCEPT ![r] =
                [pc |-> IF batch = <<>> THEN "reclaim" ELSE "publish",
                 batch |-> batch]]

\* Claim with FOR UPDATE SKIP LOCKED: the row locks make the SELECT and the
\* UPDATEs one step.
Claim(r) ==
    /\ At(r, "claim") /\ SkipLocked
    /\ \E ids \in Selections :
         /\ rows' = DoClaim(RowsOf(ids))
         /\ Hold(r, RowsOf(ids))
    /\ UNCHANGED <<txn, before, published, locking, faults>>

\* Claim returns an error: either nothing was committed, or the COMMIT took
\* effect and only its answer was lost.  Once returns without rows.
ClaimError(r) ==
    /\ relay[r].pc \in {"claim", "update"} /\ Fault
    /\ \/ UNCHANGED rows
       \/ At(r, "claim") /\ SkipLocked /\ \E ids \in Selections : rows' = DoClaim(RowsOf(ids))
       \/ At(r, "update") /\ rows' = DoClaim(relay[r].batch)
    /\ relay' = [relay EXCEPT ![r] = [pc |-> "reclaim", batch |-> <<>>]]
    /\ UNCHANGED <<txn, before, published, locking>>

\* Claim without row locks: other statements run between the SELECT ...
ClaimSelect(r) ==
    /\ At(r, "claim") /\ ~SkipLocked
    /\ \E ids \in Selections :
         relay' = [relay EXCEPT ![r] =
                     [pc |-> IF ids = <<>> THEN "reclaim" ELSE "update",
                      batch |-> RowsOf(ids)]]
    /\ UNCHANGED <<txn, before, rows, published, locking, faults>>

\* ... and the UPDATEs.
ClaimUpdate(r) ==
    /\ At(r, "update")
    /\ rows' = DoClaim(relay[r].batch)
    /\ Hold(r, relay[r].batch)
    /\ UNCHANGED <<txn, before, published, locking, faults>>

Publish(r) ==
    /\ At(r, "publish")
    /\ published' = published \cup {Head(relay[r].batch).id}
    /\ Goto(r, "complete")
    /\ UNCHANGED <<txn, before, rows, locking, faults>>

MutantPublishErrorIgnored(r) ==
    /\ At(r, "publish")
    /\ Goto(r, "complete")
    /\ UNCHANGED <<txn, before, rows, published, locking, faults>>

\* Publish returns an error; the broker may have accepted the message anyway.
PublishError(r) ==
    /\ At(r, "publish")
    /\ \/ UNCHANGED published
       \/ published' = published \cup {Head(relay[r].batch).id}
    /\ Goto(r, "fail")
    /\ UNCHANGED <<txn, before, rows, locking, faults>>

Complete(r) ==
    /\ At(r, "complete")
    /\ \/ rows' = DoComplete(Head(relay[r].batch).id) /\ UNCHANGED faults
       \/ Fault /\ UNCHANGED rows
    /\ NextRow(r)
    /\ UNCHANGED <<txn, before, published, locking>>

Fail(r) ==
    /\ At(r, "fail")
    /\ \/ /\ rows' = DoFail(Head(relay[r].batch).id, Head(relay[r].batch).attempts)
          /\ UNCHANGED faults
       \/ Fault /\ UNCHANGED rows
    /\ NextRow(r)
    /\ UNCHANGED <<txn, before, published, locking>>

\* The process dies, or ctx is cancelled and Once returns between two rows:
\* what it had claimed stays claimed.
Crash(r) ==
    /\ relay[r].pc # "down" /\ Fault
    /\ relay' = [relay EXCEPT ![r] = [pc |-> "down", batch |-> <<>>]]
    /\ UNCHANGED <<txn, before, rows, published, locking>>

Restart(r) ==
    /\ At(r, "down")
    /\ Goto(r, "reclaim")
    /\ UNCHANGED <<txn, before, rows, published, locking, faults>>

-----------------------------------------------------------------------------
Older(age, limit) == IF age > limit THEN age ELSE age + 1

Aged(x) ==
    [status   |-> x.status,
     attempts |-> x.attempts,
     claimAge |-> IF x.status = "claimed" THEN Older(x.claimAge, Lease) ELSE x.claimAge,
     delay    |-> IF x.delay > 0 THEN x.delay - 1 ELSE 0,
     doneAge  |-> IF x.status = "done" THEN Older(x.doneAge, SweepAfter) ELSE x.doneAge]

\* One tick of the clock every deadline is compared with.
Tick ==
    /\ rows' = [e \in Events |-> Aged(rows[e])]
    /\ UNCHANGED <<txn, before, relay, published, locking, faults>>

RelayStep(r) ==
    \/ Reclaim(r) \/ Sweep(r)
    \/ Claim(r) \/ ClaimError(r) \/ ClaimSelect(r) \/ ClaimUpdate(r)
    \/ Publish(r) \/ PublishError(r) \/ Complete(r) \/ Fail(r)
    \/ Restart(r)

Next ==
    \/ \E e \in Events : Enqueue(e) \/ CommitTx(e) \/ RollbackTx(e)
    \/ \E r \in Relays : RelayStep(r) \/ Crash(r)
    \/ Tick

Spec == Init /\ [][Next]_vars

\* A relay goroutine that is runnable runs, a process that died is started
\* again, and time passes.
Fairness ==
    /\ \A r \in Relays : WF_vars(RelayStep(r))
    /\ WF_vars(Tick)

FairSpec == Spec /\ Fairness

-----------------------------------------------------------------------------
(* What the producer side promises.                                        *)

\* Does relay r hold a row of event e that it has not settled yet?
Holds(r, e) ==
    /\ relay[r].pc \in {"publish", "complete", "fail"}
    /\ \E i \in DOMAIN relay[r].batch : relay[r].batch[i].id = e

\* Enqueue (outbox.go:100-102): an event reaches the broker only if the
\* transaction that enqueued it committed.
PublishedOnlyIfCommitted == published \subseteq committed

\* At-least-once (outbox.go:31): a committed event that the broker never
\* accepted still has a row that a relay or an operator can act on.  No
\* Complete, Fail, Reclaim or Sweep, of a live or of a stale relay, loses it.
NoEventLost ==
    \A e \in committed \ published : rows[e].status \in {"pending", "claimed", "dead"}

\* WithMaxAttempts (relay.go:84): with row locks, a row is dead only after
\* MaxAttempts claims of it, even when a stale relay is the one that fails it.
DeadOnlyAfterMaxAttempts ==
    SkipLocked =>
      \A e \in Events : rows[e].status = "dead" => rows[e].attempts >= MaxAttempts

\* Claim (store.go:100-102): with row locks and no lease to expire, a row is
\* never in the hands of two relays, whatever fails or crashes.
ExclusiveClaim ==
    SkipLocked /\ Lease = 0 =>
      \A r, s \in Relays, e \in Events : Holds(r, e) /\ Holds(s, e) => r = s

\* The status column (README.md:77): with row locks and no lease to expire, a
\* row that is done is only ever deleted and a dead row stays dead.
SettledStays ==
    SkipLocked /\ Lease = 0 =>
      \A e \in Events :
        /\ rows[e].status = "done" => rows'[e].status \in {"done", "absent"}
        /\ rows[e].status = "dead" => rows'[e].status = "dead"

SettledIsFinal == [][SettledStays]_vars

\* Crash recovery (relay.go:93-94): with a lease, every committed event is in
\* the end settled for good: its row is done, swept or dead and stays so, even
\* though stale relays may have revived it on the way.
AllSettled ==
    Lease > 0 => \A e \in committed : rows[e].status \in {"done", "dead", "absent"}
EventuallySettled == <>[]AllSettled

\* README.md:77 as it is written, for every configuration: the status of a row
\* only moves forward, so what is done is never delivered again.
DoneStaysDone ==
    [][\A e \in Events : rows[e].status = "done" => rows'[e].status \in {"done", "absent"}]_vars
=============================================================================
