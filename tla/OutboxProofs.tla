---------------------------- MODULE OutboxProofs ----------------------------
(***************************************************************************)
(* Proofs about Outbox, for every set of events and relays, every batch    *)
(* size, lease, sweep age, attempt limit and number of faults.             *)
(***************************************************************************)
EXTENDS Outbox, TLAPS

(***************************************************************************)
(* Type correctness.                                                       *)
(***************************************************************************)

\* What a relay reads from the batch it holds.
LEMMA BatchFacts ==
    ASSUME NEW b \in Seq(Row)
    PROVE  /\ \A i \in DOMAIN b : i \in Nat \ {0} /\ b[i].id \in Events /\ b[i].attempts \in Nat
           /\ b # <<>> => /\ 1 \in DOMAIN b /\ Head(b) = b[1]
                          /\ Tail(b) \in Seq(Row)
                          /\ \A i \in DOMAIN Tail(b) :
                               i \in Nat \ {0} /\ i + 1 \in DOMAIN b /\ Tail(b)[i] = b[i + 1]
                          /\ Len(b) > 1 => Tail(b) # <<>>
                          /\ ~(Len(b) > 1) => Tail(b) = <<>>
  <1>1. DOMAIN b = 1..Len(b) /\ Len(b) \in Nat /\ \A i \in DOMAIN b : b[i] \in Row
    OBVIOUS
  <1>2. ASSUME b # <<>>
        PROVE  /\ 1 \in DOMAIN b /\ Head(b) = b[1]
               /\ Tail(b) \in Seq(Row) /\ Len(Tail(b)) = Len(b) - 1
               /\ \A i \in 1..Len(Tail(b)) : Tail(b)[i] = b[i + 1]
    BY <1>1, <1>2
  <1>3. b # <<>> => DOMAIN Tail(b) = 1..(Len(b) - 1)
    BY <1>2
  <1>4. b # <<>> /\ Len(b) > 1 => Tail(b) # <<>>
    <2>1. Len(<<>>) = 0
      OBVIOUS
    <2>2. b # <<>> /\ Len(b) > 1 => Len(Tail(b)) # 0
      BY <1>1, <1>2
    <2> QED BY <2>1, <2>2, Zenon
  <1>5. b # <<>> /\ ~(Len(b) > 1) => Tail(b) = <<>>
    <2>1. b # <<>> /\ ~(Len(b) > 1) => Len(Tail(b)) = 0
      BY <1>1, <1>2
    <2> QED BY <1>2, <2>1
  <1> QED
    BY <1>1, <1>2, <1>3, <1>4, <1>5 DEF Row

\* The rows Claim selects are rows of the table, each with a count of attempts.
LEMMA RowsOfType ==
    ASSUME TypeOK, NEW ids \in Selections
    PROVE  /\ RowsOf(ids) \in Seq(Row)
           /\ DOMAIN RowsOf(ids) = DOMAIN ids
           /\ \A i \in DOMAIN ids : /\ ids[i] \in Events
                                    /\ RowsOf(ids)[i].id = ids[i]
                                    /\ RowsOf(ids)[i].attempts = rows[ids[i]].attempts + 1
           /\ ids # <<>> => RowsOf(ids) # <<>>
  <1>1. PICK n \in 0..BatchSize : ids \in [1..n -> Events]
    BY DEF Selections
  <1>2. n \in Nat /\ DOMAIN ids = 1..n
    BY <1>1, OutboxAssumption
  <1>3. \A i \in 1..n : rows[ids[i]].attempts \in Nat
    BY <1>1 DEF TypeOK, OutboxRow
  <1>4. RowsOf(ids) \in [1..n -> Row]
    BY <1>1, <1>2, <1>3 DEF RowsOf, Row
  <1>5. ids # <<>> => RowsOf(ids) # <<>>
    <2>1. ids \in Seq(Events) /\ RowsOf(ids) \in Seq(Row)
      BY <1>1, <1>2, <1>4
    <2>2. n = 0 => ids = <<>>
      BY <1>2, <2>1
    <2> QED BY <1>2, <1>4, <2>1, <2>2
  <1>6. RowsOf(ids) \in Seq(Row)
    BY <1>2, <1>4
  <1> QED
    BY <1>1, <1>2, <1>3, <1>5, <1>6, Zenon DEF RowsOf

\* Each way the store rewrites a row yields a row.
LEMMA RowType ==
    ASSUME NEW x \in OutboxRow, NEW n \in Nat
    PROVE  /\ [x EXCEPT !.status = "pending"] \in OutboxRow
           /\ [x EXCEPT !.status = "pending", !.delay = 0, !.claimAge = 0] \in OutboxRow
           /\ [x EXCEPT !.status = "claimed", !.claimAge = 0, !.delay = 0, !.doneAge = 0,
                        !.attempts = n] \in OutboxRow
           /\ [x EXCEPT !.status = "done", !.doneAge = 0, !.claimAge = 0, !.delay = 0] \in OutboxRow
           /\ [x EXCEPT !.status = "dead", !.delay = 0, !.claimAge = 0, !.doneAge = 0] \in OutboxRow
           /\ [x EXCEPT !.status = "pending", !.delay = n, !.claimAge = 0, !.doneAge = 0]
                \in OutboxRow
           /\ Aged(x) \in OutboxRow
           /\ NoRow \in OutboxRow
  <1> USE OutboxAssumption DEF OutboxRow, Statuses
  <1>1. [x EXCEPT !.status = "pending"] \in OutboxRow
    OBVIOUS
  <1>2. [x EXCEPT !.status = "pending", !.delay = 0, !.claimAge = 0] \in OutboxRow
    BY Zenon
  <1>3. [x EXCEPT !.status = "claimed", !.claimAge = 0, !.delay = 0, !.doneAge = 0,
                  !.attempts = n] \in OutboxRow
    BY Zenon
  <1>4. [x EXCEPT !.status = "done", !.doneAge = 0, !.claimAge = 0, !.delay = 0] \in OutboxRow
    BY Zenon
  <1>5. [x EXCEPT !.status = "dead", !.delay = 0, !.claimAge = 0, !.doneAge = 0] \in OutboxRow
    BY Zenon
  <1>6. [x EXCEPT !.status = "pending", !.delay = n, !.claimAge = 0, !.doneAge = 0] \in OutboxRow
    BY Zenon
  <1>7. Aged(x) \in OutboxRow
    BY DEF Aged, Older
  <1>8. NoRow \in OutboxRow
    BY DEF NoRow
  <1> QED
    BY <1>1, <1>2, <1>3, <1>4, <1>5, <1>6, <1>7, <1>8

\* The UPDATEs of Claim keep the table well formed.
LEMMA DoClaimType ==
    ASSUME TypeOK, NEW batch \in Seq(Row)
    PROVE  DoClaim(batch) \in [Events -> OutboxRow]
  <1>1. ASSUME NEW e \in Events, \E i \in DOMAIN batch : batch[i].id = e
        PROVE  batch[CHOOSE i \in DOMAIN batch : batch[i].id = e].attempts \in Nat
    BY <1>1, BatchFacts
  <1> QED
    BY <1>1, RowType, Zenon DEF DoClaim, TypeOK

\* A relay that moves on keeps its batch, and no other relay is touched.
LEMMA GotoFacts ==
    ASSUME TypeOK, NEW r \in Relays, NEW p \in Pcs, Goto(r, p)
    PROVE  /\ relay' \in [Relays -> Relay]
           /\ relay'[r].pc = p /\ relay'[r].batch = relay[r].batch
           /\ \A s \in Relays \ {r} : relay'[s] = relay[s]
  <1>1. [relay[r] EXCEPT !.pc = p] \in Relay
    BY DEF TypeOK, Relay
  <1>2. relay' = [relay EXCEPT ![r] = [relay[r] EXCEPT !.pc = p]]
    BY DEF Goto
  <1> QED
    BY <1>1, <1>2 DEF TypeOK, Relay

\* A relay that is done with a row drops it from its batch.
LEMMA NextRowFacts ==
    ASSUME TypeOK, NEW r \in Relays, relay[r].batch # <<>>, NextRow(r)
    PROVE  /\ relay' \in [Relays -> Relay]
           /\ relay'[r].batch = Tail(relay[r].batch)
           /\ relay'[r].pc \in {"publish", "reclaim"}
           /\ relay'[r].pc = "publish" => relay'[r].batch # <<>>
           /\ relay'[r].pc = "reclaim" => relay'[r].batch = <<>>
           /\ \A s \in Relays \ {r} : relay'[s] = relay[s]
  <1> DEFINE b == relay[r].batch
             p == IF Len(b) > 1 THEN "publish" ELSE "reclaim"
             x == [relay[r] EXCEPT !.batch = Tail(b), !.pc = p]
  <1>1. /\ b \in Seq(Row) /\ Tail(b) \in Seq(Row)
        /\ Len(b) > 1 => Tail(b) # <<>>
        /\ ~(Len(b) > 1) => Tail(b) = <<>>
    BY BatchFacts DEF TypeOK, Relay
  <1>2. x \in Relay /\ x.batch = Tail(b) /\ x.pc = p
    BY <1>1, Zenon DEF TypeOK, Relay, Pcs
  <1>3. relay' = [relay EXCEPT ![r] = x]
    BY Zenon DEF NextRow
  <1>4. relay'[r] = x /\ relay' \in [Relays -> Relay]
    BY <1>2, <1>3 DEF TypeOK
  <1>5. \A s \in Relays \ {r} : relay'[s] = relay[s]
    BY <1>3 DEF TypeOK
  <1> HIDE DEF x
  <1> QED
    BY <1>1, <1>2, <1>4, <1>5, Zenon

\* A relay that takes a new batch.
LEMMA HoldFacts ==
    ASSUME TypeOK, NEW r \in Relays, NEW b \in Seq(Row), NEW p \in Pcs,
           relay' = [relay EXCEPT ![r] = [pc |-> p, batch |-> b]]
    PROVE  /\ relay' \in [Relays -> Relay]
           /\ relay'[r].pc = p /\ relay'[r].batch = b
           /\ \A s \in Relays \ {r} : relay'[s] = relay[s]
  BY DEF TypeOK, Relay

\* What a relay holds is never empty while it works on it, so Head and Tail of
\* its batch are defined wherever Once uses them.
Working == {"update", "publish", "complete", "fail"}

BatchOK == \A r \in Relays : relay[r].pc \in Working => relay[r].batch # <<>>

TypeInv == TypeOK /\ BatchOK

LEMMA TypeInit == Init => TypeInv
  BY OutboxAssumption DEF Init, TypeInv, TypeOK, BatchOK, Working, NoRow, OutboxRow,
     Statuses, Relay, Pcs

\* Every step of every relay, producer and of the clock keeps the types.
LEMMA TypeStep == TypeInv /\ [Next]_vars => TypeInv'
  <1> SUFFICES ASSUME TypeInv, [Next]_vars PROVE TypeInv'
    OBVIOUS
  <1> USE OutboxAssumption DEF TypeInv
  <1>1. ASSUME NEW e \in Events, Enqueue(e) \/ CommitTx(e) \/ RollbackTx(e) PROVE TypeInv'
    <2>1. rows' \in [Events -> OutboxRow]
      <3>1. [rows[e] EXCEPT !.status = "pending"] \in OutboxRow
        <4>1. 0 \in Nat
          OBVIOUS
        <4> QED BY <4>1, RowType, Zenon DEF TypeOK
      <3> QED BY <1>1, <3>1 DEF Enqueue, CommitTx, RollbackTx, TypeOK
    <2>2. before' \in [Events -> SUBSET Events]
      <3>1. {f \in Events : txn[f] # "none"} \in SUBSET Events
        OBVIOUS
      <3>2. \A x \in Events : before[x] \ {e} \in SUBSET Events
        BY DEF TypeOK
      <3>3. CASE Enqueue(e)
        BY <3>1, <3>2, <3>3 DEF Enqueue, TypeOK
      <3> QED BY <1>1, <3>3 DEF CommitTx, RollbackTx, TypeOK
    <2> QED BY <1>1, <2>1, <2>2 DEF Enqueue, CommitTx, RollbackTx, TypeOK, BatchOK
  <1>2. ASSUME NEW r \in Relays, Reclaim(r) PROVE TypeInv'
    <2>1. DoReclaim \in [Events -> OutboxRow]
      BY RowType, Zenon DEF DoReclaim, TypeOK
    <2> QED BY <1>2, <2>1, GotoFacts DEF Reclaim, Fault, TypeOK, BatchOK, Working, Pcs
  <1>3. ASSUME NEW r \in Relays, Sweep(r) PROVE TypeInv'
    <2>1. DoSweep \in [Events -> OutboxRow]
      BY RowType, Zenon DEF DoSweep, TypeOK
    <2> QED BY <1>3, <2>1, GotoFacts DEF Sweep, Fault, TypeOK, BatchOK, Working, Pcs
  <1>4. ASSUME NEW r \in Relays, Claim(r) PROVE TypeInv'
    <2>1. PICK ids \in Selections : rows' = DoClaim(RowsOf(ids)) /\ Hold(r, RowsOf(ids))
      BY <1>4 DEF Claim
    <2>2. RowsOf(ids) \in Seq(Row)
      BY RowsOfType
    <2> QED BY <1>4, <2>1, <2>2, DoClaimType
        DEF Claim, Hold, TypeOK, BatchOK, Working, Relay, Pcs
  <1>5. ASSUME NEW r \in Relays, ClaimError(r) PROVE TypeInv'
    <2>1. rows' \in [Events -> OutboxRow]
      <3>1. CASE At(r, "update") /\ rows' = DoClaim(relay[r].batch)
        BY <3>1, DoClaimType DEF TypeOK, Relay
      <3>2. CASE \E ids \in Selections : rows' = DoClaim(RowsOf(ids))
        BY <3>2, DoClaimType, RowsOfType
      <3> QED BY <1>5, <3>1, <3>2 DEF ClaimError, TypeOK
    <2> QED BY <1>5, <2>1 DEF ClaimError, Fault, TypeOK, BatchOK, Working, Relay, Pcs
  <1>6. ASSUME NEW r \in Relays, ClaimSelect(r) PROVE TypeInv'
    <2>1. PICK ids \in Selections :
            relay' = [relay EXCEPT ![r] =
                        [pc |-> IF ids = <<>> THEN "reclaim" ELSE "update",
                         batch |-> RowsOf(ids)]]
      BY <1>6, Zenon DEF ClaimSelect
    <2>2. RowsOf(ids) \in Seq(Row) /\ (ids # <<>> => RowsOf(ids) # <<>>)
      BY RowsOfType
    <2> QED BY <1>6, <2>1, <2>2
        DEF ClaimSelect, TypeOK, BatchOK, Working, Relay, Pcs
  <1>7. ASSUME NEW r \in Relays, ClaimUpdate(r) PROVE TypeInv'
    <2>1. relay[r].batch \in Seq(Row)
      BY DEF TypeOK, Relay
    <2> QED BY <1>7, <2>1, DoClaimType
        DEF ClaimUpdate, Hold, TypeOK, BatchOK, Working, Relay, Pcs
  <1>8. ASSUME NEW r \in Relays, Publish(r) \/ PublishError(r) PROVE TypeInv'
    <2>1. relay[r].batch \in Seq(Row) /\ relay[r].batch # <<>>
      BY <1>8 DEF Publish, PublishError, At, TypeOK, BatchOK, Working, Relay
    <2>2. Head(relay[r].batch).id \in Events
      BY <2>1, BatchFacts
    <2> QED BY <1>8, <2>1, <2>2, GotoFacts
        DEF Publish, PublishError, TypeOK, BatchOK, Working, Pcs
  <1>9. ASSUME NEW r \in Relays, Complete(r) \/ Fail(r) PROVE TypeInv'
    <2>1. relay[r].batch \in Seq(Row) /\ relay[r].batch # <<>>
      BY <1>9 DEF Complete, Fail, At, TypeOK, BatchOK, Working, Relay
    <2> DEFINE row == Head(relay[r].batch)
    <2>2. row.id \in Events /\ row.attempts \in Nat
      BY <2>1, BatchFacts
    <2>3. DoComplete(row.id) \in [Events -> OutboxRow]
      BY <2>2, RowType, Zenon DEF DoComplete, TypeOK
    <2>4. retryBackoff(row.attempts) \in Nat
      BY <2>2 DEF retryBackoff
    <2>5. DoFail(row.id, row.attempts) \in [Events -> OutboxRow]
      BY <2>2, <2>4, RowType, Zenon DEF DoFail, TypeOK
    <2>8. NextRow(r) /\ faults' \in Nat /\ rows' \in [Events -> OutboxRow]
      BY <1>9, <2>3, <2>5 DEF Complete, Fail, Fault, TypeOK
    <2> QED BY <1>9, <2>1, <2>8, NextRowFacts
        DEF Complete, Fail, TypeOK, BatchOK, Working
  <1>10. ASSUME NEW r \in Relays, Restart(r) \/ Crash(r) PROVE TypeInv'
    <2>1. CASE Restart(r)
      BY <2>1, GotoFacts DEF Restart, TypeOK, BatchOK, Working, Pcs
    <2>2. CASE Crash(r)
      BY <2>2 DEF Crash, Fault, TypeOK, BatchOK, Working, Relay, Pcs
    <2> QED BY <1>10, <2>1, <2>2
  <1>11. CASE Tick
    <2>1. rows' \in [Events -> OutboxRow]
      BY <1>11, RowType, Zenon DEF Tick, TypeOK
    <2>2. relay' \in [Relays -> Relay] /\ \A r \in Relays :
            relay'[r].pc = relay[r].pc /\ relay'[r].batch = relay[r].batch
      BY <1>11 DEF Tick, TypeOK
    <2> QED BY <1>11, <2>1, <2>2 DEF Tick, TypeOK, BatchOK
  <1>12. CASE UNCHANGED vars
    BY <1>12 DEF vars, TypeOK, BatchOK
  <1> QED
    BY <1>1, <1>2, <1>3, <1>4, <1>5, <1>6, <1>7, <1>8, <1>9, <1>10, <1>11, <1>12
    DEF Next, RelayStep

\* Type correctness of the outbox table, the relays and the producers.
THEOREM TypeCorrect == Spec => []TypeOK
  <1>1. Spec => []TypeInv
    BY TypeInit, TypeStep, PTL DEF Spec
  <1> QED BY <1>1, PTL DEF TypeInv

(***************************************************************************)
(* At-least-once.  NoEventLost is not inductive: it needs to know that     *)
(* only what is published gets completed, also by a relay that lost its    *)
(* claim, and that relays hold rows of committed events only.              *)
(***************************************************************************)
Delivered ==
    /\ published \subseteq committed
    /\ \A e \in Events :
         /\ rows[e].status = "done" => e \in published
         /\ rows[e].status = "absent" => txn[e] # "committed" \/ e \in published
         /\ rows[e].status # "absent" => txn[e] = "committed"
    /\ \A r \in Relays :
         /\ \A i \in DOMAIN relay[r].batch : txn[relay[r].batch[i].id] = "committed"
         /\ relay[r].pc = "complete" => Head(relay[r].batch).id \in published

\* What each call of the store does to the status and the attempts of a row.
LEMMA StoreFacts ==
    ASSUME TypeOK, NEW e \in Events
    PROVE  /\ DoReclaim[e].attempts = rows[e].attempts
           /\ DoReclaim[e].status = rows[e].status
                \/ (rows[e].status = "claimed" /\ DoReclaim[e].status = "pending")
           /\ DoSweep[e] = rows[e] \/ (rows[e].status = "done" /\ DoSweep[e].status = "absent")
           /\ Aged(rows[e]).status = rows[e].status
           /\ Aged(rows[e]).attempts = rows[e].attempts
           /\ \A f \in Events :
                /\ DoComplete(f)[e].attempts = rows[e].attempts
                /\ f # e \/ rows[e].status = "absent" => DoComplete(f)[e] = rows[e]
                /\ f = e /\ rows[e].status # "absent" => DoComplete(f)[e].status = "done"
                /\ \A n \in Nat :
                     /\ DoFail(f, n)[e].attempts = rows[e].attempts
                     /\ f # e \/ rows[e].status = "absent" => DoFail(f, n)[e] = rows[e]
                     /\ f = e /\ rows[e].status # "absent" =>
                          DoFail(f, n)[e].status = IF n >= MaxAttempts THEN "dead" ELSE "pending"
  <1> USE OutboxAssumption DEF TypeOK, OutboxRow
  <1>1. /\ DoReclaim[e].attempts = rows[e].attempts
        /\ DoReclaim[e].status = rows[e].status
             \/ (rows[e].status = "claimed" /\ DoReclaim[e].status = "pending")
    BY DEF DoReclaim
  <1>2. DoSweep[e] = rows[e] \/ (rows[e].status = "done" /\ DoSweep[e].status = "absent")
    BY DEF DoSweep, Sweepable, NoRow
  <1>3. Aged(rows[e]).status = rows[e].status /\ Aged(rows[e]).attempts = rows[e].attempts
    BY DEF Aged
  <1>4. ASSUME NEW f \in Events
        PROVE  /\ DoComplete(f)[e].attempts = rows[e].attempts
               /\ f # e \/ rows[e].status = "absent" => DoComplete(f)[e] = rows[e]
               /\ f = e /\ rows[e].status # "absent" => DoComplete(f)[e].status = "done"
    BY DEF DoComplete
  <1>5. ASSUME NEW f \in Events, NEW n \in Nat
        PROVE  /\ DoFail(f, n)[e].attempts = rows[e].attempts
               /\ f # e \/ rows[e].status = "absent" => DoFail(f, n)[e] = rows[e]
               /\ f = e /\ rows[e].status # "absent" =>
                    DoFail(f, n)[e].status = IF n >= MaxAttempts THEN "dead" ELSE "pending"
    BY DEF DoFail
  <1> QED
    BY <1>1, <1>2, <1>3, <1>4, <1>5

LEMMA FailFacts ==
    ASSUME TypeOK, NEW e \in Events, NEW f \in Events, NEW n \in Nat
    PROVE  /\ DoFail(f, n)[e].attempts = rows[e].attempts
           /\ f # e \/ rows[e].status = "absent" => DoFail(f, n)[e] = rows[e]
           /\ f = e /\ rows[e].status # "absent" =>
                DoFail(f, n)[e].status = IF n >= MaxAttempts THEN "dead" ELSE "pending"
  BY StoreFacts

\* Settling one row leaves the others alone.
LEMMA OtherRows ==
    ASSUME TypeOK, NEW e \in Events, NEW f \in Events, f # e, NEW n \in Nat
    PROVE  DoComplete(f)[e] = rows[e] /\ DoFail(f, n)[e] = rows[e]
  BY StoreFacts

\* What Claim's UPDATEs do.
LEMMA DoClaimFacts ==
    ASSUME TypeOK, NEW batch \in Seq(Row), NEW e \in Events
    PROVE  \/ DoClaim(batch)[e] = rows[e]
              /\ (rows[e].status = "absent" \/ \A i \in DOMAIN batch : batch[i].id # e)
           \/ /\ rows[e].status # "absent"
              /\ DoClaim(batch)[e].status = "claimed"
              /\ \E i \in DOMAIN batch : batch[i].id = e
                                         /\ DoClaim(batch)[e].attempts = batch[i].attempts
  <1>1. CASE rows[e].status # "absent" /\ \E i \in DOMAIN batch : batch[i].id = e
    <2>1. (CHOOSE i \in DOMAIN batch : batch[i].id = e) \in DOMAIN batch
          /\ batch[CHOOSE i \in DOMAIN batch : batch[i].id = e].id = e
      BY <1>1
    <2> QED BY <1>1, <2>1, Zenon DEF DoClaim, TypeOK, OutboxRow
  <1>2. CASE ~(rows[e].status # "absent" /\ \E i \in DOMAIN batch : batch[i].id = e)
    BY <1>2 DEF DoClaim
  <1> QED
    BY <1>1, <1>2

LEMMA DoClaimStatus ==
    ASSUME TypeOK, NEW batch \in Seq(Row)
    PROVE  \A e \in Events :
             DoClaim(batch)[e] = rows[e]
             \/ /\ rows[e].status # "absent" /\ DoClaim(batch)[e].status = "claimed"
                /\ \E i \in DOMAIN batch : batch[i].id = e
  BY DoClaimFacts

\* What Claim selects is pending.
LEMMA SelectionFacts ==
    ASSUME TypeOK, NEW ids \in Selections
    PROVE  \A i \in DOMAIN ids : rows[ids[i]].status = "pending"
  BY DEF Selections, SelectPending, Claimable

LEMMA DeliveredInit == Init => Delivered
  BY DEF Init, Delivered, NoRow, committed

\* One step per action: what it does to the rows, then to the relays.
LEMMA DeliveredStep == TypeInv /\ Delivered /\ [Next]_vars => Delivered'
  <1> SUFFICES ASSUME TypeInv, Delivered, [Next]_vars PROVE Delivered'
    OBVIOUS
  <1>0. TypeOK /\ BatchOK
    BY DEF TypeInv
  <1>1. ASSUME NEW e \in Events, Enqueue(e) \/ CommitTx(e) \/ RollbackTx(e) PROVE Delivered'
    <2>1. \A f \in Events : txn[f] = "committed" => txn'[f] = "committed"
      BY <1>0, <1>1 DEF Enqueue, CommitTx, RollbackTx, TypeOK
    <2>2. \A f \in Events : \/ rows'[f] = rows[f] /\ (txn'[f] = "committed" => txn[f] = "committed")
                            \/ rows'[f].status = "pending" /\ txn'[f] = "committed"
      BY <1>0, <1>1 DEF Enqueue, CommitTx, RollbackTx, TypeOK, OutboxRow
    <2>3. published' = published /\ relay' = relay
      BY <1>1 DEF Enqueue, CommitTx, RollbackTx
    <2>4. \A r \in Relays : \A i \in DOMAIN relay[r].batch : relay[r].batch[i].id \in Events
      BY <1>0, BatchFacts DEF TypeOK, Relay
    <2> QED BY <2>1, <2>2, <2>3, <2>4 DEF Delivered, committed
  <1>2. ASSUME NEW r \in Relays, Reclaim(r) \/ Sweep(r) PROVE Delivered'
    <2>1. \A e \in Events : \/ rows'[e].status = rows[e].status
                            \/ rows[e].status = "claimed" /\ rows'[e].status = "pending"
                            \/ rows[e].status = "done" /\ rows'[e].status = "absent"
      BY <1>0, <1>2, StoreFacts DEF Reclaim, Sweep
    <2>2. /\ txn' = txn /\ published' = published
          /\ relay'[r].pc # "complete" /\ relay'[r].batch = relay[r].batch
          /\ \A s \in Relays \ {r} : relay'[s] = relay[s]
      BY <1>0, <1>2, GotoFacts DEF Reclaim, Sweep, Pcs
    <2> QED BY <2>1, <2>2 DEF Delivered, committed
  <1>3. ASSUME NEW r \in Relays, Claim(r) PROVE Delivered'
    <2>1. PICK ids \in Selections : rows' = DoClaim(RowsOf(ids)) /\ Hold(r, RowsOf(ids))
      BY <1>3 DEF Claim
    <2>2. RowsOf(ids) \in Seq(Row)
      BY <1>0, RowsOfType
    <2>3. /\ relay'[r].pc # "complete" /\ relay'[r].batch = RowsOf(ids)
          /\ \A s \in Relays \ {r} : relay'[s] = relay[s]
      BY <1>0, <2>1, <2>2, HoldFacts, Zenon DEF Hold, Pcs
    <2>4. \A e \in Events : rows'[e] = rows[e]
                            \/ (rows[e].status = "pending" /\ rows'[e].status = "claimed")
      <3>1. \A e \in Events : rows'[e] = rows[e]
              \/ (rows'[e].status = "claimed" /\ \E i \in DOMAIN RowsOf(ids) : RowsOf(ids)[i].id = e)
        BY <1>0, <2>1, <2>2, DoClaimStatus
      <3>2. \A i \in DOMAIN RowsOf(ids) : rows[RowsOf(ids)[i].id].status = "pending"
        BY <1>0, RowsOfType, SelectionFacts
      <3> QED BY <3>1, <3>2
    <2>5. \A i \in DOMAIN RowsOf(ids) : txn[RowsOf(ids)[i].id] = "committed"
      BY <1>0, RowsOfType, SelectionFacts DEF Delivered
    <2>6. txn' = txn /\ published' = published
      BY <1>3 DEF Claim
    <2> QED BY <2>3, <2>4, <2>5, <2>6 DEF Delivered, committed
  <1>4. ASSUME NEW r \in Relays, ClaimError(r) PROVE Delivered'
    <2>1. /\ relay'[r].pc # "complete" /\ relay'[r].batch = <<>>
          /\ \A s \in Relays \ {r} : relay'[s] = relay[s]
          /\ txn' = txn /\ published' = published
      BY <1>0, <1>4 DEF ClaimError, TypeOK
    <2>2. \A e \in Events : rows'[e] = rows[e]
                            \/ (rows[e].status # "absent" /\ rows'[e].status = "claimed")
      <3>1. CASE rows' = DoClaim(relay[r].batch)
        <4>1. relay[r].batch \in Seq(Row)
          BY <1>0 DEF TypeOK, Relay
        <4> QED BY <1>0, <3>1, <4>1, DoClaimStatus
      <3>2. ASSUME NEW ids \in Selections, rows' = DoClaim(RowsOf(ids))
            PROVE  \A e \in Events : rows'[e] = rows[e]
                     \/ (rows[e].status # "absent" /\ rows'[e].status = "claimed")
        <4>1. RowsOf(ids) \in Seq(Row)
          BY <1>0, RowsOfType
        <4> QED BY <1>0, <3>2, <4>1, DoClaimStatus
      <3> QED BY <1>4, <3>1, <3>2 DEF ClaimError
    <2> QED BY <2>1, <2>2 DEF Delivered, committed
  <1>5. ASSUME NEW r \in Relays, ClaimSelect(r) PROVE Delivered'
    <2>1. PICK ids \in Selections :
            relay' = [relay EXCEPT ![r] =
                        [pc |-> IF ids = <<>> THEN "reclaim" ELSE "update",
                         batch |-> RowsOf(ids)]]
      BY <1>5, Zenon DEF ClaimSelect
    <2>2. RowsOf(ids) \in Seq(Row)
      BY <1>0, RowsOfType
    <2>3. /\ relay'[r].pc # "complete" /\ relay'[r].batch = RowsOf(ids)
          /\ \A s \in Relays \ {r} : relay'[s] = relay[s]
      BY <1>0, <2>1, <2>2, HoldFacts, Zenon DEF Pcs
    <2>4. \A i \in DOMAIN RowsOf(ids) : txn[RowsOf(ids)[i].id] = "committed"
      BY <1>0, RowsOfType, SelectionFacts DEF Delivered
    <2>5. txn' = txn /\ published' = published /\ rows' = rows
      BY <1>5 DEF ClaimSelect
    <2> QED BY <2>3, <2>4, <2>5 DEF Delivered, committed
  <1>6. ASSUME NEW r \in Relays, ClaimUpdate(r) PROVE Delivered'
    <2>1. relay[r].batch \in Seq(Row)
      BY <1>0 DEF TypeOK, Relay
    <2>2. /\ relay'[r].pc # "complete" /\ relay'[r].batch = relay[r].batch
          /\ \A s \in Relays \ {r} : relay'[s] = relay[s]
          /\ txn' = txn /\ published' = published
      BY <1>0, <1>6, <2>1, HoldFacts, Zenon DEF ClaimUpdate, Hold, Pcs
    <2>3. \A e \in Events : rows'[e] = rows[e]
                            \/ (rows[e].status # "absent" /\ rows'[e].status = "claimed")
      BY <1>0, <1>6, <2>1, DoClaimStatus DEF ClaimUpdate
    <2> QED BY <2>2, <2>3 DEF Delivered, committed
  <1>7. ASSUME NEW r \in Relays, Publish(r) \/ PublishError(r) PROVE Delivered'
    <2>1. relay[r].batch \in Seq(Row) /\ relay[r].batch # <<>>
      BY <1>0, <1>7 DEF Publish, PublishError, At, TypeOK, BatchOK, Working, Relay
    <2> DEFINE e == Head(relay[r].batch).id
    <2>2. e \in Events /\ txn[e] = "committed"
      BY <2>1, BatchFacts DEF Delivered
    <2>3. published' = published \cup {e} \/ (published' = published /\ relay'[r].pc # "complete")
      BY <1>0, <1>7, GotoFacts DEF Publish, PublishError, Pcs
    <2>4. relay'[r].batch = relay[r].batch /\ \A s \in Relays \ {r} : relay'[s] = relay[s]
      BY <1>0, <1>7, GotoFacts DEF Publish, PublishError, Pcs
    <2>5. txn' = txn /\ rows' = rows
      BY <1>7 DEF Publish, PublishError
    <2> HIDE DEF e
    <2>6. relay'[r].pc = "complete" => Head(relay'[r].batch).id \in published'
      BY <2>3, <2>4 DEF e
    <2> QED BY <2>2, <2>3, <2>4, <2>5, <2>6 DEF Delivered, committed
  <1>8. ASSUME NEW r \in Relays, Complete(r) \/ Fail(r) PROVE Delivered'
    <2>1. relay[r].batch \in Seq(Row) /\ relay[r].batch # <<>>
      BY <1>0, <1>8 DEF Complete, Fail, At, TypeOK, BatchOK, Working, Relay
    <2> DEFINE row == Head(relay[r].batch)
    <2>2. row.id \in Events /\ row.attempts \in Nat
      BY <2>1, BatchFacts
    <2>3. \A e \in Events :
            \/ rows'[e] = rows[e]
            \/ rows[e].status # "absent" /\ rows'[e].status \in {"pending", "dead"}
            \/ rows[e].status # "absent" /\ rows'[e].status = "done" /\ e \in published
      <3>1. CASE Complete(r)
        <4>1. row.id \in published
          BY <3>1 DEF Complete, At, Delivered
        <4> HIDE DEF row
        <4> QED BY <1>0, <2>2, <3>1, <4>1, StoreFacts DEF Complete, row
      <3>2. CASE Fail(r)
        BY <1>0, <2>2, <3>2, StoreFacts DEF Fail
      <3> QED BY <1>8, <3>1, <3>2
    <2>4. /\ relay'[r].pc # "complete" /\ relay'[r].batch = Tail(relay[r].batch)
          /\ \A s \in Relays \ {r} : relay'[s] = relay[s]
          /\ txn' = txn /\ published' = published
      BY <1>0, <1>8, <2>1, NextRowFacts DEF Complete, Fail
    <2>5. \A i \in DOMAIN relay'[r].batch : txn[relay'[r].batch[i].id] = "committed"
      BY <2>1, <2>4, BatchFacts DEF Delivered
    <2>6. \A e \in Events : /\ rows'[e].status = "done" => e \in published
                            /\ rows'[e].status = "absent" => txn[e] # "committed" \/ e \in published
                            /\ rows'[e].status # "absent" => txn[e] = "committed"
      BY <2>3 DEF Delivered
    <2>7. \A s \in Relays :
            /\ \A i \in DOMAIN relay'[s].batch : txn[relay'[s].batch[i].id] = "committed"
            /\ relay'[s].pc = "complete" => Head(relay'[s].batch).id \in published
      <3> SUFFICES ASSUME NEW s \in Relays
                   PROVE  /\ \A i \in DOMAIN relay'[s].batch :
                               txn[relay'[s].batch[i].id] = "committed"
                          /\ relay'[s].pc = "complete" => Head(relay'[s].batch).id \in published
        OBVIOUS
      <3>1. CASE s = r
        BY <2>4, <2>5, <3>1, Zenon
      <3>2. CASE s # r
        BY <2>4, <3>2 DEF Delivered
      <3> QED BY <3>1, <3>2
    <2> HIDE DEF row
    <2> QED BY <2>4, <2>6, <2>7 DEF Delivered, committed
  <1>9. ASSUME NEW r \in Relays, Restart(r) \/ Crash(r) PROVE Delivered'
    <2>1. /\ relay'[r].pc # "complete"
          /\ relay'[r].batch = <<>> \/ relay'[r].batch = relay[r].batch
          /\ \A s \in Relays \ {r} : relay'[s] = relay[s]
      <3>1. CASE Restart(r)
        BY <1>0, <3>1, GotoFacts DEF Restart, Pcs
      <3>2. CASE Crash(r)
        BY <1>0, <3>2 DEF Crash, TypeOK
      <3> QED BY <1>9, <3>1, <3>2
    <2>2. UNCHANGED <<txn, rows, published>>
      BY <1>9 DEF Restart, Crash
    <2> QED BY <2>1, <2>2 DEF Delivered, committed
  <1>10. CASE Tick
    <2>1. \A e \in Events : rows'[e].status = rows[e].status
      BY <1>0, <1>10, StoreFacts DEF Tick
    <2>2. \A r \in Relays : relay'[r].pc = relay[r].pc /\ relay'[r].batch = relay[r].batch
      BY <1>0, <1>10 DEF Tick, TypeOK
    <2> QED BY <1>10, <2>1, <2>2 DEF Tick, Delivered, committed
  <1>11. CASE UNCHANGED vars
    BY <1>11 DEF vars, Delivered, committed
  <1> QED
    BY <1>1, <1>2, <1>3, <1>4, <1>5, <1>6, <1>7, <1>8, <1>9, <1>10, <1>11
    DEF Next, RelayStep

LEMMA DeliveredAlways == Spec => [](TypeInv /\ Delivered)
    BY TypeInit, TypeStep, DeliveredInit, DeliveredStep, PTL DEF Spec

\* Enqueue (outbox.go:100-102): an event reaches the broker only if the
\* transaction that enqueued it committed, with row locks or without.
THEOREM OnlyCommitted == Spec => []PublishedOnlyIfCommitted
  <1>1. TypeInv /\ Delivered => PublishedOnlyIfCommitted
    BY DEF TypeInv, TypeOK, OutboxRow, Statuses, Delivered, PublishedOnlyIfCommitted,
       committed
  <1> QED
    BY <1>1, DeliveredAlways, PTL

\* No committed event is lost: neither by a crash, a failed store call or a lost
\* answer, nor by a relay that outlived its lease, with row locks or without.
THEOREM AtLeastOnce == Spec => []NoEventLost
  <1>1. TypeInv /\ Delivered => NoEventLost
    BY Zenon DEF TypeInv, TypeOK, OutboxRow, Statuses, Delivered, NoEventLost, committed
  <1> QED
    BY <1>1, DeliveredAlways, PTL

(***************************************************************************)
(* Dead-lettering.  A relay's count of attempts is never above the row's,  *)
(* so failing the row at MaxAttempts finds the row there too.              *)
(***************************************************************************)
Counted ==
    SkipLocked =>
      /\ \A r \in Relays :
           /\ relay[r].pc # "update"
           /\ \A i \in DOMAIN relay[r].batch :
                LET row == relay[r].batch[i] IN
                rows[row.id].status # "absent" => row.attempts <= rows[row.id].attempts
      /\ DeadOnlyAfterMaxAttempts

LEMMA CountedInit == Init => Counted
  BY DEF Init, Counted, DeadOnlyAfterMaxAttempts, NoRow

\* With row locks Claim counts one attempt on every row it takes.
LEMMA ClaimCounts ==
    ASSUME TypeOK, NEW ids \in Selections, NEW e \in Events
    PROVE  \/ /\ DoClaim(RowsOf(ids))[e] = rows[e]
              /\ \A i \in DOMAIN RowsOf(ids) : RowsOf(ids)[i].id # e
           \/ /\ rows[e].status = "pending"
              /\ DoClaim(RowsOf(ids))[e].status = "claimed"
              /\ DoClaim(RowsOf(ids))[e].attempts = rows[e].attempts + 1
              /\ \A i \in DOMAIN RowsOf(ids) :
                   RowsOf(ids)[i].id = e => RowsOf(ids)[i].attempts = rows[e].attempts + 1
  <1>1. /\ RowsOf(ids) \in Seq(Row)
        /\ \A i \in DOMAIN RowsOf(ids) :
             /\ rows[RowsOf(ids)[i].id].status = "pending"
             /\ RowsOf(ids)[i].attempts = rows[RowsOf(ids)[i].id].attempts + 1
    BY RowsOfType, SelectionFacts
  <1>2. CASE \A i \in DOMAIN RowsOf(ids) : RowsOf(ids)[i].id # e
    BY <1>1, <1>2, DoClaimFacts
  <1>3. CASE \E i \in DOMAIN RowsOf(ids) : RowsOf(ids)[i].id = e
    <2>1. rows[e].status = "pending"
      BY <1>1, <1>3
    <2>2. /\ DoClaim(RowsOf(ids))[e].status = "claimed"
          /\ \E i \in DOMAIN RowsOf(ids) : /\ RowsOf(ids)[i].id = e
                                           /\ DoClaim(RowsOf(ids))[e].attempts = RowsOf(ids)[i].attempts
      BY <1>1, <1>3, <2>1, DoClaimFacts
    <2> QED BY <1>1, <2>1, <2>2
  <1> QED
    BY <1>2, <1>3

\* What a step may do to the table without disturbing Counted.
CountsKept(e) ==
    \/ rows'[e].status = "absent"
    \/ /\ rows[e].status # "absent"
       /\ rows'[e].attempts >= rows[e].attempts
       /\ rows'[e].status = "dead" => rows'[e].attempts >= MaxAttempts

LEMMA SameKeepsCounts ==
    ASSUME TypeOK, rows' = rows,
           \A e \in Events : rows[e].status = "dead" => rows[e].attempts >= MaxAttempts
    PROVE  \A e \in Events : CountsKept(e)
  BY DEF CountsKept, TypeOK, OutboxRow

LEMMA CompleteKeepsCounts ==
    ASSUME TypeOK, NEW f \in Events, rows' = DoComplete(f),
           \A e \in Events : rows[e].status = "dead" => rows[e].attempts >= MaxAttempts
    PROVE  \A e \in Events : CountsKept(e)
  <1> SUFFICES ASSUME NEW e \in Events PROVE CountsKept(e)
    OBVIOUS
  <1>1. /\ rows'[e].attempts = rows[e].attempts
        /\ f # e \/ rows[e].status = "absent" => rows'[e] = rows[e]
        /\ f = e /\ rows[e].status # "absent" => rows'[e].status = "done"
    BY StoreFacts
  <1>2. rows[e].attempts \in Nat
    BY DEF TypeOK, OutboxRow
  <1> QED BY <1>1, <1>2 DEF CountsKept

LEMMA FailKeepsCounts ==
    ASSUME TypeOK, NEW f \in Events, NEW n \in Nat, rows' = DoFail(f, n),
           rows[f].status # "absent" => n <= rows[f].attempts,
           \A e \in Events : rows[e].status = "dead" => rows[e].attempts >= MaxAttempts
    PROVE  \A e \in Events : CountsKept(e)
  <1> SUFFICES ASSUME NEW e \in Events PROVE CountsKept(e)
    OBVIOUS
  <1>1. /\ rows'[e].attempts = rows[e].attempts
        /\ f # e \/ rows[e].status = "absent" => rows'[e] = rows[e]
        /\ f = e /\ rows[e].status # "absent" =>
             rows'[e].status = IF n >= MaxAttempts THEN "dead" ELSE "pending"
    BY FailFacts
  <1>2. rows[e].attempts \in Nat /\ MaxAttempts \in Nat
    BY OutboxAssumption DEF TypeOK, OutboxRow
  <1>3. CASE f # e \/ rows[e].status = "absent"
    BY <1>1, <1>2, <1>3 DEF CountsKept
  <1>4. CASE f = e /\ rows[e].status # "absent"
    <2>1. rows'[e].status = "dead" => n >= MaxAttempts
      BY <1>1, <1>4
    <2> QED BY <1>1, <1>2, <1>4, <2>1 DEF CountsKept
  <1> QED BY <1>3, <1>4

LEMMA AtMostTransitive ==
    ASSUME NEW i \in Nat, NEW j \in Nat, NEW k \in Nat, i <= j, k >= j
    PROVE  i <= k
  OBVIOUS

LEMMA AtMostItself ==
    ASSUME NEW i \in Nat, NEW j \in Nat, i = j
    PROVE  i <= j
  OBVIOUS

LEMMA CountedKept ==
    ASSUME TypeOK, TypeOK', SkipLocked, Counted, \A e \in Events : CountsKept(e),
           \A s \in Relays :
             /\ relay'[s].pc # "update"
             /\ \A i \in DOMAIN relay'[s].batch :
                  \/ \E j \in DOMAIN relay[s].batch : relay'[s].batch[i] = relay[s].batch[j]
                  \/ relay'[s].batch[i].attempts = rows'[relay'[s].batch[i].id].attempts
    PROVE  Counted'
  <1>1. DeadOnlyAfterMaxAttempts'
    BY DEF CountsKept, DeadOnlyAfterMaxAttempts
  <1>2. ASSUME NEW s \in Relays, NEW i \in DOMAIN relay'[s].batch,
               rows'[relay'[s].batch[i].id].status # "absent"
        PROVE  relay'[s].batch[i].attempts <= rows'[relay'[s].batch[i].id].attempts
    <2> DEFINE row == relay'[s].batch[i]
    <2>1. relay'[s].batch \in Seq(Row)
      BY DEF TypeOK, Relay
    <2>2. row.id \in Events /\ row.attempts \in Nat
      BY <2>1, BatchFacts
    <2>3. rows'[row.id].attempts \in Nat /\ rows[row.id].attempts \in Nat
      BY <2>2 DEF TypeOK, OutboxRow
    <2>4. CASE \E j \in DOMAIN relay[s].batch : row = relay[s].batch[j]
      <3>1. /\ rows[row.id].status # "absent"
            /\ rows'[row.id].attempts >= rows[row.id].attempts
        BY <1>2, <2>2 DEF CountsKept
      <3>2. row.attempts <= rows[row.id].attempts
        BY <2>4, <3>1, Zenon DEF Counted
      <3> QED BY <2>2, <2>3, <3>1, <3>2, AtMostTransitive, ZenonT(30)
    <2>5. CASE row.attempts = rows'[row.id].attempts
      BY <2>2, <2>3, <2>5, AtMostItself, ZenonT(30)
    <2> QED BY <2>4, <2>5
  <1> QED
    BY <1>1, <1>2 DEF Counted

\* The setting of WithSkipLocked is the store's for good.
LEMMA LockingKept == [Next]_vars => SkipLocked' = SkipLocked
  <1> SUFFICES ASSUME [Next]_vars PROVE locking' = locking
    BY DEF SkipLocked
  <1>1. CASE \E e \in Events : Enqueue(e) \/ CommitTx(e) \/ RollbackTx(e)
    BY <1>1 DEF Enqueue, CommitTx, RollbackTx
  <1>2. ASSUME NEW r \in Relays, RelayStep(r) \/ Crash(r) PROVE locking' = locking
    BY <1>2, Zenon DEF RelayStep, Reclaim, Sweep, Claim, ClaimError, ClaimSelect,
         ClaimUpdate, Publish, PublishError, Complete, Fail, Restart, Crash
  <1>3. CASE Tick \/ UNCHANGED vars
    BY <1>3 DEF Tick, vars
  <1> QED
    BY <1>1, <1>2, <1>3 DEF Next

LEMMA CountedStep == TypeInv /\ TypeInv' /\ Delivered /\ Counted /\ [Next]_vars => Counted'
  <1>a. CASE ~SkipLocked
    BY <1>a, LockingKept, Zenon DEF Counted
  <1> SUFFICES ASSUME TypeInv, TypeInv', Delivered, Counted, [Next]_vars, SkipLocked
               PROVE  Counted'
    BY <1>a, OutboxAssumption
  <1>0. /\ TypeOK /\ BatchOK /\ TypeOK' /\ OutboxAssumption
        /\ \A e \in Events : rows[e].attempts \in Nat
        /\ \A e \in Events : rows[e].status = "dead" => rows[e].attempts >= MaxAttempts
        /\ \A s \in Relays : relay[s].pc # "update"
    BY OutboxAssumption DEF TypeInv, TypeOK, OutboxRow, Counted, DeadOnlyAfterMaxAttempts
  <1>1. ASSUME NEW e \in Events, Enqueue(e) \/ CommitTx(e) \/ RollbackTx(e) PROVE Counted'
    <2>1. \A f \in Events : \/ rows'[f] = rows[f]
                            \/ /\ txn[f] = "open" /\ rows'[f].status = "pending"
                               /\ rows'[f].attempts = rows[f].attempts
      BY <1>0, <1>1 DEF Enqueue, CommitTx, RollbackTx, TypeOK, OutboxRow
    <2>2. relay' = relay
      BY <1>1 DEF Enqueue, CommitTx, RollbackTx
    <2>3. DeadOnlyAfterMaxAttempts'
      BY <1>0, <2>1 DEF DeadOnlyAfterMaxAttempts
    <2>4. ASSUME NEW s \in Relays, NEW i \in DOMAIN relay[s].batch
          PROVE  rows'[relay[s].batch[i].id] = rows[relay[s].batch[i].id]
      <3>1. relay[s].batch[i].id \in Events /\ txn[relay[s].batch[i].id] = "committed"
        BY <1>0, BatchFacts DEF Delivered, TypeOK, Relay
      <3> QED BY <2>1, <3>1
    <2> QED BY <2>2, <2>3, <2>4 DEF Counted
  <1>2. ASSUME NEW r \in Relays, Reclaim(r) \/ Sweep(r) PROVE Counted'
    <2>1. \A e \in Events : CountsKept(e)
      BY <1>0, <1>2, StoreFacts DEF Reclaim, Sweep, CountsKept
    <2>2. /\ relay'[r].pc # "update" /\ relay'[r].batch = relay[r].batch
          /\ \A s \in Relays \ {r} : relay'[s] = relay[s]
      BY <1>0, <1>2, GotoFacts DEF Reclaim, Sweep, Pcs
    <2> QED BY <1>0, <2>1, <2>2, CountedKept
  <1>3. ASSUME NEW r \in Relays, Claim(r) PROVE Counted'
    <2>1. PICK ids \in Selections : rows' = DoClaim(RowsOf(ids)) /\ Hold(r, RowsOf(ids))
      BY <1>3 DEF Claim
    <2>2. RowsOf(ids) \in Seq(Row)
      BY <1>0, RowsOfType
    <2>3. /\ relay'[r].pc # "update" /\ relay'[r].batch = RowsOf(ids)
          /\ \A s \in Relays \ {r} : relay'[s] = relay[s]
      BY <1>0, <2>1, <2>2, HoldFacts, Zenon DEF Hold, Pcs
    <2>4. \A e \in Events : CountsKept(e)
      BY <1>0, <2>1, ClaimCounts, SMTT(30) DEF CountsKept
    <2>5. \A i \in DOMAIN RowsOf(ids) :
            RowsOf(ids)[i].attempts = rows'[RowsOf(ids)[i].id].attempts
      BY <1>0, <2>1, <2>2, ClaimCounts, BatchFacts
    <2> QED BY <1>0, <2>3, <2>4, <2>5, CountedKept
  <1>4. ASSUME NEW r \in Relays, ClaimError(r) PROVE Counted'
    <2>1. /\ relay'[r].pc # "update" /\ relay'[r].batch = <<>>
          /\ \A s \in Relays \ {r} : relay'[s] = relay[s]
      BY <1>0, <1>4 DEF ClaimError, TypeOK
    <2>2. rows' = rows \/ \E ids \in Selections : rows' = DoClaim(RowsOf(ids))
      BY <1>0, <1>4 DEF ClaimError, At
    <2>3. \A e \in Events : CountsKept(e)
      BY <1>0, <2>2, ClaimCounts DEF CountsKept
    <2> QED BY <1>0, <2>1, <2>3, CountedKept, SMTT(30)
  <1>5. ASSUME NEW r \in Relays, ClaimSelect(r) \/ ClaimUpdate(r) PROVE Counted'
    BY <1>0, <1>5 DEF ClaimSelect, ClaimUpdate, At
  <1>6. ASSUME NEW r \in Relays, Publish(r) \/ PublishError(r) \/ Restart(r) PROVE Counted'
    <2>1. /\ relay'[r].pc # "update" /\ relay'[r].batch = relay[r].batch
          /\ \A s \in Relays \ {r} : relay'[s] = relay[s]
      BY <1>0, <1>6, GotoFacts DEF Publish, PublishError, Restart, Pcs
    <2>2. \A e \in Events : CountsKept(e)
      BY <1>0, <1>6 DEF Publish, PublishError, Restart, CountsKept
    <2> QED BY <1>0, <2>1, <2>2, CountedKept
  <1>7. ASSUME NEW r \in Relays, Complete(r) \/ Fail(r) PROVE Counted'
    <2>1. relay[r].batch \in Seq(Row) /\ relay[r].batch # <<>>
      BY <1>0, <1>7 DEF Complete, Fail, At, TypeOK, BatchOK, Working, Relay
    <2> DEFINE row == Head(relay[r].batch)
    <2>2. /\ row.id \in Events /\ row.attempts \in Nat
          /\ rows[row.id].status # "absent" => row.attempts <= rows[row.id].attempts
      BY <2>1, BatchFacts, SMTT(60) DEF Counted
    <2>3. \A e \in Events : CountsKept(e)
      <3>0. \A e \in Events : rows[e].status = "dead" => rows[e].attempts >= MaxAttempts
        BY DEF Counted, DeadOnlyAfterMaxAttempts
      <3>1. CASE rows' = rows
        BY <1>0, <3>0, <3>1, SameKeepsCounts
      <3>2. CASE rows' = DoComplete(row.id)
        BY <1>0, <2>2, <3>0, <3>2, CompleteKeepsCounts
      <3>3. CASE rows' = DoFail(row.id, row.attempts)
        BY <1>0, <2>2, <3>0, <3>3, FailKeepsCounts
      <3> QED BY <1>7, <3>1, <3>2, <3>3 DEF Complete, Fail
    <2>4. /\ relay'[r].pc # "update" /\ relay'[r].batch = Tail(relay[r].batch)
          /\ \A s \in Relays \ {r} : relay'[s] = relay[s]
      BY <1>0, <1>7, <2>1, NextRowFacts DEF Complete, Fail
    <2>5. \A i \in DOMAIN relay'[r].batch : \E j \in DOMAIN relay[r].batch :
            relay'[r].batch[i] = relay[r].batch[j]
      BY <2>1, <2>4, BatchFacts
    <2>6. \A s \in Relays :
            /\ relay'[s].pc # "update"
            /\ \A i \in DOMAIN relay'[s].batch : \E j \in DOMAIN relay[s].batch :
                 relay'[s].batch[i] = relay[s].batch[j]
      BY <1>0, <2>4, <2>5, Zenon
    <2> HIDE DEF row
    <2> QED BY <1>0, <2>3, <2>6, CountedKept
  <1>8. ASSUME NEW r \in Relays, Crash(r) PROVE Counted'
    <2>1. /\ relay'[r].pc # "update" /\ relay'[r].batch = <<>>
          /\ \A s \in Relays \ {r} : relay'[s] = relay[s]
      BY <1>0, <1>8 DEF Crash, TypeOK
    <2>2. rows' = rows
      BY <1>8 DEF Crash
    <2>3. \A e \in Events : rows[e].status = "dead" => rows[e].attempts >= MaxAttempts
      BY <1>0 DEF Counted, DeadOnlyAfterMaxAttempts
    <2>4. \A e \in Events : CountsKept(e)
      BY <1>0, <2>2, <2>3, SameKeepsCounts
    <2> QED BY <1>0, <2>1, <2>4, CountedKept, SMTT(30)
  <1>9. CASE Tick
    <2>1. \A e \in Events : CountsKept(e)
      <3> SUFFICES ASSUME NEW e \in Events PROVE CountsKept(e)
        OBVIOUS
      <3>1. rows'[e].status = rows[e].status /\ rows'[e].attempts = rows[e].attempts
        BY <1>0, <1>9, StoreFacts DEF Tick
      <3>2. rows[e].attempts \in Nat
        BY <1>0 DEF TypeOK, OutboxRow
      <3>3. rows[e].status = "dead" => rows[e].attempts >= MaxAttempts
        BY <1>0 DEF Counted, DeadOnlyAfterMaxAttempts
      <3> QED BY <3>1, <3>2, <3>3 DEF CountsKept
    <2>2. \A s \in Relays : relay'[s].pc # "update" /\ relay'[s].batch = relay[s].batch
      BY <1>0, <1>9 DEF Tick, TypeOK
    <2> QED BY <1>0, <2>1, <2>2, CountedKept
  <1>10. CASE UNCHANGED vars
    BY <1>10 DEF vars, Counted, DeadOnlyAfterMaxAttempts
  <1> QED
    BY <1>1, <1>2, <1>3, <1>4, <1>5, <1>6, <1>7, <1>8, <1>9, <1>10 DEF Next, RelayStep

\* With row locks, no row is given up before MaxAttempts claims of it.
THEOREM NoEarlyDeath == Spec => []DeadOnlyAfterMaxAttempts
  <1>1. Counted => DeadOnlyAfterMaxAttempts
    BY DEF Counted, DeadOnlyAfterMaxAttempts
  <1>2. Spec => [](TypeInv /\ Delivered /\ Counted)
    BY TypeInit, TypeStep, DeliveredInit, DeliveredStep, CountedInit, CountedStep, PTL DEF Spec
  <1> QED
    BY <1>1, <1>2, PTL

(***************************************************************************)
(* Exclusive claims without a lease.  What a relay holds is claimed, each  *)
(* row once, and by no other relay.                                        *)
(***************************************************************************)
Waiting == {"down", "reclaim", "sweep", "claim"}

Unshared ==
    \A r, s \in Relays : \A i \in DOMAIN relay[r].batch, j \in DOMAIN relay[s].batch :
      relay[r].batch[i].id = relay[s].batch[j].id => r = s /\ i = j

Owned ==
    SkipLocked /\ Lease = 0 =>
      /\ \A e \in Events : e \notin before[e]
      /\ \A r \in Relays :
           /\ relay[r].pc # "update"
           /\ relay[r].pc \in Waiting => relay[r].batch = <<>>
           /\ \A i \in DOMAIN relay[r].batch : rows[relay[r].batch[i].id].status = "claimed"
      /\ Unshared

LEMMA OwnedInit == Init => Owned
  BY DEF Init, Owned, Unshared

\* A step that gives no relay a new row and takes no claim away keeps Owned.
LEMMA OwnedKept ==
    ASSUME TypeOK, SkipLocked, Lease = 0, Owned,
           \A e \in Events : /\ e \notin before'[e]
                             /\ rows[e].status = "claimed" => rows'[e].status = "claimed",
           \A s \in Relays : /\ relay'[s].pc # "update"
                             /\ relay'[s].pc \in Waiting => relay'[s].batch = <<>>
                             /\ relay'[s].batch = relay[s].batch \/ relay'[s].batch = <<>>
    PROVE  Owned'
  <1>1. \A s \in Relays : \A i \in DOMAIN relay[s].batch : relay[s].batch[i].id \in Events
    BY BatchFacts DEF TypeOK, Relay
  <1>2. \A s \in Relays : \A i \in DOMAIN relay'[s].batch :
          i \in DOMAIN relay[s].batch /\ relay'[s].batch[i] = relay[s].batch[i]
    OBVIOUS
  <1>3. \A s \in Relays : \A i \in DOMAIN relay'[s].batch :
          rows'[relay'[s].batch[i].id].status = "claimed"
    BY <1>1, <1>2 DEF Owned
  <1>4. Unshared'
    BY <1>2 DEF Owned, Unshared
  <1> QED
    BY <1>3, <1>4 DEF Owned

\* The SELECT returns no id twice, since created_at orders distinct rows.
LEMMA SelectionDistinct ==
    ASSUME TypeOK, \A e \in Events : e \notin before[e], NEW ids \in Selections,
           NEW i \in DOMAIN ids, NEW j \in DOMAIN ids, ids[i] = ids[j]
    PROVE  i = j
  <1>1. PICK n \in 0..BatchSize : ids \in [1..n -> Events]
    BY DEF Selections
  <1>2. i \in Nat /\ j \in Nat /\ ids[i] \in Events
    BY <1>1, OutboxAssumption
  <1>3. /\ i < j => ids[i] \in before[ids[j]]
        /\ j < i => ids[j] \in before[ids[i]]
    BY DEF Selections, SelectPending
  <1> QED
    BY <1>2, <1>3

\* What a relay claims, nobody held before.
LEMMA OwnedClaim ==
    ASSUME TypeOK, SkipLocked, Lease = 0, Owned, NEW r \in Relays, Claim(r)
    PROVE  Owned'
  <1>1. PICK ids \in Selections : rows' = DoClaim(RowsOf(ids)) /\ Hold(r, RowsOf(ids))
    BY DEF Claim
  <1> DEFINE b == RowsOf(ids)
  <1>2. /\ b \in Seq(Row) /\ DOMAIN b = DOMAIN ids
        /\ \A i \in DOMAIN b : b[i].id = ids[i] /\ ids[i] \in Events /\ rows[b[i].id].status = "pending"
    BY RowsOfType, SelectionFacts
  <1>3. \A i, j \in DOMAIN b : b[i].id = b[j].id => i = j
    BY <1>2, SelectionDistinct DEF Owned
  <1>4. \A e \in Events : \/ rows'[e] = rows[e] /\ \A i \in DOMAIN b : b[i].id # e
                          \/ rows'[e].status = "claimed"
    BY <1>1, ClaimCounts
  <1> HIDE DEF b
  <1>5. /\ relay'[r].pc = IF b = <<>> THEN "reclaim" ELSE "publish"
        /\ relay'[r].batch = b
        /\ \A s \in Relays \ {r} : relay'[s] = relay[s]
    BY <1>1, <1>2, HoldFacts, Zenon DEF Hold, Pcs, b
  <1>6. before' = before
    BY DEF Claim
  <1>7. \A s \in Relays : \A i \in DOMAIN relay[s].batch : relay[s].batch[i].id \in Events
    BY BatchFacts DEF TypeOK, Relay
  <1>8. \A s \in Relays : \A i \in DOMAIN relay'[s].batch :
          rows'[relay'[s].batch[i].id].status = "claimed"
    <2>1. \A i \in DOMAIN b : rows'[b[i].id].status = "claimed"
      BY <1>2, <1>4
    <2>2. ASSUME NEW s \in Relays \ {r}, NEW i \in DOMAIN relay[s].batch
          PROVE  rows'[relay[s].batch[i].id].status = "claimed"
      BY <1>4, <1>7 DEF Owned
    <2> QED BY <1>5, <2>1, <2>2
  <1>9. \A s \in Relays \ {r} : \A i \in DOMAIN relay[s].batch, j \in DOMAIN b :
          relay[s].batch[i].id # b[j].id
    BY <1>2 DEF Owned
  <1>10. Unshared'
    <2> SUFFICES ASSUME NEW s \in Relays, NEW t \in Relays,
                        NEW i \in DOMAIN relay'[s].batch, NEW j \in DOMAIN relay'[t].batch,
                        relay'[s].batch[i].id = relay'[t].batch[j].id
                 PROVE  s = t /\ i = j
      BY DEF Unshared
    <2>1. CASE s = r /\ t = r
      BY <1>3, <1>5, <2>1
    <2>2. CASE s # r /\ t # r
      BY <1>5, <2>2 DEF Owned, Unshared
    <2>3. CASE (s = r /\ t # r) \/ (s # r /\ t = r)
      BY <1>5, <1>9, <2>3
    <2> QED BY <2>1, <2>2, <2>3
  <1> QED
    BY <1>5, <1>6, <1>8, <1>10, Zenon DEF Owned, Waiting

\* A relay that settles the first row of its batch leaves the others claimed.
LEMMA OwnedSettle ==
    ASSUME TypeOK, BatchOK, SkipLocked, Lease = 0, Owned, NEW r \in Relays,
           Complete(r) \/ Fail(r)
    PROVE  /\ Owned'
           /\ \A e \in Events : rows'[e] = rows[e] \/ rows[e].status = "claimed"
  <1>1. relay[r].batch \in Seq(Row) /\ relay[r].batch # <<>>
    BY DEF Complete, Fail, At, TypeOK, BatchOK, Working, Relay
  <1> DEFINE b == relay[r].batch
             id == Head(b).id
  <1>2. /\ id \in Events /\ id = b[1].id /\ 1 \in DOMAIN b /\ Head(b).attempts \in Nat
        /\ rows[id].status = "claimed"
    <2>1. /\ 1 \in DOMAIN b /\ Head(b) = b[1]
          /\ b[1].id \in Events /\ b[1].attempts \in Nat
      BY <1>1, BatchFacts, Zenon
    <2>2. rows[b[1].id].status = "claimed"
      BY <2>1 DEF Owned
    <2> QED BY <2>1, <2>2
  <1>3. \A e \in Events \ {id} : rows'[e] = rows[e]
    <2> SUFFICES ASSUME NEW e \in Events, e # id PROVE rows'[e] = rows[e]
      OBVIOUS
    <2>1. DoComplete(id)[e] = rows[e] /\ DoFail(id, Head(b).attempts)[e] = rows[e]
      BY <1>2, OtherRows, Zenon
    <2>2. rows' = rows \/ rows' = DoComplete(id) \/ rows' = DoFail(id, Head(b).attempts)
      BY DEF Complete, Fail
    <2> QED BY <2>1, <2>2
  <1>4. /\ relay'[r].pc \in {"publish", "reclaim"} /\ relay'[r].batch = Tail(b)
        /\ relay'[r].pc = "reclaim" => relay'[r].batch = <<>>
        /\ \A s \in Relays \ {r} : relay'[s] = relay[s]
    BY <1>1, NextRowFacts DEF Complete, Fail
  <1>5. \A i \in DOMAIN Tail(b) : i \in Nat \ {0} /\ i + 1 \in DOMAIN b /\ Tail(b)[i] = b[i + 1]
    BY <1>1, BatchFacts
  <1> HIDE DEF b, id
  <1>6. \A s \in Relays : \A i \in DOMAIN relay'[s].batch :
          relay'[s].batch[i].id \in Events \ {id} /\ rows[relay'[s].batch[i].id].status = "claimed"
    <2>1. \A s \in Relays : \A i \in DOMAIN relay[s].batch : relay[s].batch[i].id \in Events
      BY BatchFacts DEF TypeOK, Relay
    <2>2. ASSUME NEW s \in Relays \ {r}, NEW i \in DOMAIN relay[s].batch
          PROVE  relay[s].batch[i].id # id /\ rows[relay[s].batch[i].id].status = "claimed"
      BY <1>2 DEF Owned, Unshared, b
    <2>3. ASSUME NEW i \in DOMAIN Tail(b)
          PROVE  /\ Tail(b)[i].id \in Events \ {id}
                 /\ rows[Tail(b)[i].id].status = "claimed"
      <3>1. i + 1 \in DOMAIN b /\ i + 1 # 1 /\ Tail(b)[i] = b[i + 1]
        BY <1>5
      <3>2. b[i + 1].id \in Events /\ rows[b[i + 1].id].status = "claimed"
        BY <2>1, <3>1 DEF Owned, b
      <3>3. b[i + 1].id # b[1].id
        BY <1>2, <3>1, SMTT(60) DEF Owned, Unshared, b
      <3> QED BY <1>2, <3>1, <3>2, <3>3
    <2>4. ASSUME NEW s \in Relays, NEW i \in DOMAIN relay'[s].batch
          PROVE  /\ relay'[s].batch[i].id \in Events \ {id}
                 /\ rows[relay'[s].batch[i].id].status = "claimed"
      <3>1. CASE s = r
        BY <1>4, <2>3, <3>1, Zenon
      <3>2. CASE s # r
        <4>1. s \in Relays \ {r} /\ relay'[s] = relay[s] /\ i \in DOMAIN relay[s].batch
          BY <1>4, <3>2
        <4> QED BY <2>1, <2>2, <4>1
      <3> QED BY <3>1, <3>2
    <2> QED BY <2>4
  <1>7. Unshared'
    <2> SUFFICES ASSUME NEW s \in Relays, NEW t \in Relays,
                        NEW i \in DOMAIN relay'[s].batch, NEW j \in DOMAIN relay'[t].batch,
                        relay'[s].batch[i].id = relay'[t].batch[j].id
                 PROVE  s = t /\ i = j
      BY DEF Unshared
    <2>1. CASE s = r /\ t = r
      <3>1. /\ i \in Nat /\ j \in Nat /\ i + 1 \in DOMAIN b /\ j + 1 \in DOMAIN b
            /\ b[i + 1].id = b[j + 1].id
        BY <1>4, <1>5, <2>1, Zenon
      <3>2. i + 1 = j + 1
        BY <3>1, SMTT(30) DEF Owned, Unshared, b
      <3> QED BY <2>1, <3>1, <3>2
    <2>2. CASE s # r /\ t # r
      BY <1>4, <2>2, SMTT(30) DEF Owned, Unshared
    <2>3. CASE s = r /\ t # r
      <3>1. i + 1 \in DOMAIN b /\ relay'[s].batch[i] = b[i + 1] /\ relay'[t] = relay[t]
        BY <1>4, <1>5, <2>3, Zenon
      <3> QED BY <2>3, <3>1, SMTT(30) DEF Owned, Unshared, b
    <2>4. CASE s # r /\ t = r
      <3>1. j + 1 \in DOMAIN b /\ relay'[t].batch[j] = b[j + 1] /\ relay'[s] = relay[s]
        BY <1>4, <1>5, <2>4, Zenon
      <3> QED BY <2>4, <3>1, SMTT(30) DEF Owned, Unshared, b
    <2> QED BY <2>1, <2>2, <2>3, <2>4
  <1>8. before' = before
    BY DEF Complete, Fail
  <1>9. \A e \in Events : e \notin before'[e]
    BY <1>8 DEF Owned
  <1>10. ASSUME NEW s \in Relays
         PROVE  relay'[s].pc # "update" /\ (relay'[s].pc \in Waiting => relay'[s].batch = <<>>)
    <2>1. CASE s = r
      BY <1>4, <2>1, Zenon DEF Waiting
    <2>2. CASE s # r
      BY <1>4, <2>2 DEF Owned
    <2> QED BY <2>1, <2>2
  <1>11. \A s \in Relays : \A i \in DOMAIN relay'[s].batch :
           rows'[relay'[s].batch[i].id].status = "claimed"
    BY <1>3, <1>6
  <1>12. \A e \in Events : rows'[e] = rows[e] \/ rows[e].status = "claimed"
    BY <1>2, <1>3
  <1> QED
    BY <1>7, <1>9, <1>10, <1>11, <1>12, Zenon DEF Owned

\* One step per action: Owned is kept, and no step touches a settled row
\* except to delete it.
LEMMA OwnedStep ==
    TypeInv /\ Delivered /\ Owned /\ [Next]_vars => Owned' /\ SettledStays
  <1>a. CASE ~(SkipLocked /\ Lease = 0)
    BY <1>a, LockingKept DEF Owned, SettledStays
  <1> SUFFICES ASSUME TypeInv, Delivered, Owned, [Next]_vars, SkipLocked, Lease = 0
               PROVE  Owned' /\ SettledStays
    BY <1>a, OutboxAssumption
  <1>0. /\ TypeOK /\ BatchOK
        /\ \A e \in Events : e \notin before[e]
        /\ \A s \in Relays : relay[s].pc # "update"
        /\ \A s \in Relays : relay[s].pc \in Waiting => relay[s].batch = <<>>
    BY DEF TypeInv, Owned
  <1> DEFINE Kept == \A e \in Events :
               /\ rows[e].status = "claimed" => rows'[e].status = "claimed"
               /\ rows[e].status = "done" => rows'[e].status \in {"done", "absent"}
               /\ rows[e].status = "dead" => rows'[e].status = "dead"
  <1>1. ASSUME NEW e \in Events, Enqueue(e) \/ CommitTx(e) \/ RollbackTx(e)
        PROVE  Owned' /\ SettledStays
    <2>1. relay' = relay /\ Kept
      BY <1>0, <1>1, Zenon DEF Enqueue, CommitTx, RollbackTx, Delivered, TypeOK, OutboxRow
    <2>2. \A f \in Events : f \notin before'[f]
      <3>1. CASE Enqueue(e)
        BY <1>0, <3>1 DEF Enqueue, TypeOK
      <3> QED BY <1>0, <1>1, <3>1 DEF CommitTx, RollbackTx
    <2> QED BY <1>0, <2>1, <2>2, OwnedKept DEF SettledStays
  <1>2. ASSUME NEW r \in Relays, Reclaim(r) \/ Sweep(r) PROVE Owned' /\ SettledStays
    <2>1. Kept
      <3>1. ~ (Lease > 0)
        OBVIOUS
      <3>2. rows' = rows \/ rows' = DoSweep
        BY <1>2, <3>1, Zenon DEF Reclaim, Sweep
      <3>3. \A e \in Events :
              \/ DoSweep[e] = rows[e]
              \/ rows[e].status = "done" /\ DoSweep[e].status = "absent"
        BY <1>0, StoreFacts, Zenon
      <3> QED BY <3>2, <3>3, SMTT(30)
    <2>2. /\ relay'[r].pc \in {"sweep", "claim"} /\ relay'[r].batch = <<>>
          /\ \A s \in Relays \ {r} : relay'[s] = relay[s]
          /\ before' = before
      BY <1>0, <1>2, GotoFacts DEF Reclaim, Sweep, At, Pcs, Waiting
    <2> QED BY <1>0, <2>1, <2>2, OwnedKept DEF SettledStays
  <1>3. ASSUME NEW r \in Relays, Claim(r) PROVE Owned' /\ SettledStays
    <2>1. PICK ids \in Selections : rows' = DoClaim(RowsOf(ids))
      BY <1>3 DEF Claim
    <2>2. Kept
      BY <1>0, <2>1, ClaimCounts
    <2> QED BY <1>0, <1>3, <2>2, OwnedClaim DEF SettledStays
  <1>4. ASSUME NEW r \in Relays, ClaimError(r) PROVE Owned' /\ SettledStays
    <2>1. rows' = rows \/ \E ids \in Selections : rows' = DoClaim(RowsOf(ids))
      BY <1>0, <1>4 DEF ClaimError, At
    <2>2. Kept
      BY <1>0, <2>1, ClaimCounts
    <2>3. /\ relay'[r].pc = "reclaim" /\ relay'[r].batch = <<>>
          /\ \A s \in Relays \ {r} : relay'[s] = relay[s]
          /\ before' = before
      BY <1>0, <1>4 DEF ClaimError, TypeOK
    <2> QED BY <1>0, <2>2, <2>3, OwnedKept DEF SettledStays
  <1>5. ASSUME NEW r \in Relays, ClaimSelect(r) \/ ClaimUpdate(r) PROVE Owned' /\ SettledStays
    BY <1>0, <1>5 DEF ClaimSelect, ClaimUpdate, At
  <1>6. ASSUME NEW r \in Relays, Publish(r) \/ PublishError(r) PROVE Owned' /\ SettledStays
    <2>1. rows' = rows /\ before' = before
      BY <1>6 DEF Publish, PublishError
    <2>2. /\ relay'[r].pc \in {"complete", "fail"} /\ relay'[r].batch = relay[r].batch
          /\ \A s \in Relays \ {r} : relay'[s] = relay[s]
      BY <1>0, <1>6, GotoFacts DEF Publish, PublishError, Pcs
    <2> QED BY <1>0, <2>1, <2>2, OwnedKept DEF SettledStays, Waiting
  <1>7. ASSUME NEW r \in Relays, Complete(r) \/ Fail(r) PROVE Owned' /\ SettledStays
    <2>1. Owned' /\ \A e \in Events : rows'[e] = rows[e] \/ rows[e].status = "claimed"
      BY <1>0, <1>7, OwnedSettle
    <2> QED BY <2>1 DEF SettledStays
  <1>8. ASSUME NEW r \in Relays, Restart(r) \/ Crash(r) PROVE Owned' /\ SettledStays
    <2>1. rows' = rows /\ before' = before
      BY <1>8 DEF Restart, Crash
    <2>2. /\ relay'[r].pc \in {"reclaim", "down"} /\ relay'[r].batch = <<>>
          /\ \A s \in Relays \ {r} : relay'[s] = relay[s]
      <3>1. CASE Restart(r)
        BY <1>0, <3>1, GotoFacts DEF Restart, At, Pcs, Waiting
      <3>2. CASE Crash(r)
        BY <1>0, <3>2 DEF Crash, TypeOK
      <3> QED BY <1>8, <3>1, <3>2
    <2> QED BY <1>0, <2>1, <2>2, OwnedKept DEF SettledStays
  <1>9. CASE Tick
    <2>1. Kept
      BY <1>0, <1>9, StoreFacts, Zenon DEF Tick
    <2>2. \A s \in Relays : relay'[s].pc = relay[s].pc /\ relay'[s].batch = relay[s].batch
      BY <1>0, <1>9 DEF Tick, TypeOK
    <2>3. before' = before
      BY <1>9 DEF Tick
    <2> QED BY <1>0, <2>1, <2>2, <2>3, OwnedKept DEF SettledStays
  <1>10. CASE UNCHANGED vars
    <2>1. rows' = rows /\ relay' = relay /\ before' = before
      BY <1>10 DEF vars
    <2>2. Owned'
      BY <1>0, <2>1 DEF Owned, Unshared
    <2> QED BY <2>1, <2>2 DEF SettledStays
  <1> QED
    BY <1>1, <1>2, <1>3, <1>4, <1>5, <1>6, <1>7, <1>8, <1>9, <1>10 DEF Next, RelayStep

LEMMA OwnedAlways == Spec => [](TypeInv /\ Delivered /\ Owned)
  BY TypeInit, TypeStep, DeliveredInit, DeliveredStep, OwnedInit, OwnedStep, PTL DEF Spec

\* With row locks and no lease, two relays never hold the same row, whatever
\* crashes, fails or is answered too late.
THEOREM Exclusive == Spec => []ExclusiveClaim
  <1>1. TypeInv /\ Owned => ExclusiveClaim
    BY DEF Owned, Unshared, ExclusiveClaim, Holds
  <1> QED
    BY <1>1, OwnedAlways, PTL

\* Under the same conditions a row that is done or dead is never worked on again.
THEOREM SettledForGood == Spec => SettledIsFinal
  <1>1. TypeInv /\ Delivered /\ Owned /\ [Next]_vars => [SettledStays]_vars
    BY OwnedStep
  <1> QED
    BY <1>1, OwnedAlways, PTL DEF Spec, SettledIsFinal
=============================================================================
