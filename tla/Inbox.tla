------------------------------- MODULE Inbox -------------------------------
(***************************************************************************)
(* The consumer half of transaction/outbox: handlers wrapped by Inbox      *)
(* (dedupe record first, then the handler) and by Barrier (record and      *)
(* business writes in one transaction), run by concurrent deliveries of a  *)
(* broker that redelivers what was not acknowledged and may duplicate      *)
(* what was.                                                               *)
(* Definitions named Mutant... are faulty variants of the one after them.  *)
(***************************************************************************)
EXTENDS Naturals

CONSTANTS
    Events,       \* messages a broker may deliver
    Anonymous,    \* those with neither a message ID nor the event-id header
    Undecodable,  \* those whose body does not decode into T
    Inboxes,      \* names of handlers wrapped by Inbox
    Barriers,     \* names of handlers wrapped by Barrier
    Workers,      \* goroutines the broker calls handlers on
    MaxMishaps     \* bound: crashes, failed statements and handler errors

ASSUME InboxAssumption ==
    /\ Anonymous \subseteq Events
    /\ Undecodable \subseteq Events
    /\ Inboxes \cap Barriers = {}
    /\ MaxMishaps \in Nat

VARIABLES
    available,  \* messages the broker holds
    inbox,      \* committed records (handler, event_id) of the inbox table
    worker,     \* what each worker is doing
    applied,    \* how often the effects of each message took place, by handler
    acked,      \* (handler, message) pairs whose handler has returned nil
    mishaps

ivars == <<available, inbox, worker, applied, acked, mishaps>>

Handlers == Inboxes \cup Barriers

\* The dedupe key: the message ID, else the header, else the empty string,
\* which is the same key for every message without an ID.
eventID(m) == IF m \in Anonymous THEN Anonymous ELSE {m}

Keys == {<<h, eventID(m)>> : h \in Handlers, m \in Events}

Idle == [pc |-> "idle", h |-> "none", m |-> "none"]

Worker == [pc: {"begin", "handle", "commit"}, h: Handlers, m: Events] \cup {Idle}

InboxTypeOK ==
    /\ available \in SUBSET Events
    /\ inbox \in SUBSET Keys
    /\ worker \in [Workers -> Worker]
    /\ applied \in [Handlers -> [Events -> Nat]]
    /\ acked \in SUBSET (Handlers \X Events)
    /\ mishaps \in Nat

InboxInit ==
    /\ available = {}
    /\ inbox = {}
    /\ worker = [w \in Workers |-> Idle]
    /\ applied = [h \in Handlers |-> [m \in Events |-> 0]]
    /\ acked = {}
    /\ mishaps = 0

-----------------------------------------------------------------------------
Mishap == mishaps < MaxMishaps /\ mishaps' = mishaps + 1

Busy(w) == worker[w].pc # "idle"

At(w, pc, H) == worker[w].pc = pc /\ worker[w].h \in H

Key(w) == <<worker[w].h, eventID(worker[w].m)>>

Goto(w, pc) == worker' = [worker EXCEPT ![w].pc = pc]

\* The wrapped handler returns an error: the message will be redelivered.
Return(w) == worker' = [worker EXCEPT ![w] = Idle]

\* It returns nil: the message is acknowledged.
ReturnNil(w) == Return(w) /\ acked' = acked \cup {<<worker[w].h, worker[w].m>>}

Effect(w) == applied' = [applied EXCEPT ![worker[w].h][worker[w].m] = @ + 1]

\* A producer hands a message to the broker.
Arrive(m) ==
    /\ m \notin available
    /\ available' = available \cup {m}
    /\ UNCHANGED <<inbox, worker, applied, acked, mishaps>>

\* The broker calls handler h with message m: for the first time, because no
\* earlier call returned nil, or as a duplicate.
Deliver(w, h, m) ==
    /\ ~Busy(w)
    /\ m \in available
    /\ worker' = [worker EXCEPT ![w] = [pc |-> "begin", h |-> h, m |-> m]]
    /\ UNCHANGED <<available, inbox, applied, acked, mishaps>>

-----------------------------------------------------------------------------
(* Inbox.                                                                  *)

MutantInboxIgnoresInserted(w) ==
    /\ At(w, "begin", Inboxes) /\ worker[w].m \notin Undecodable
    /\ inbox' = inbox \cup {Key(w)}
    /\ Goto(w, "handle")
    /\ UNCHANGED <<available, applied, acked, mishaps>>

\* Decode, then insert the record in a statement of its own; a record that
\* is there already ends the call.
InboxRecord(w) ==
    /\ At(w, "begin", Inboxes)
    /\ \/ worker[w].m \in Undecodable /\ Return(w) /\ UNCHANGED <<inbox, acked, mishaps>>
       \/ /\ worker[w].m \notin Undecodable
          /\ \/ Key(w) \in inbox /\ ReturnNil(w) /\ UNCHANGED <<inbox, mishaps>>
             \/ /\ Key(w) \notin inbox
                /\ inbox' = inbox \cup {Key(w)}
                /\ Goto(w, "handle")
                /\ UNCHANGED <<acked, mishaps>>
             \/ /\ Mishap /\ Return(w)  \* the INSERT fails, or only its answer is lost
                /\ (UNCHANGED inbox \/ inbox' = inbox \cup {Key(w)})
                /\ UNCHANGED acked
    /\ UNCHANGED <<available, applied>>

\* Run h; an error may come before or after its effects.
InboxHandle(w) ==
    /\ At(w, "handle", Inboxes)
    /\ \/ Effect(w) /\ ReturnNil(w) /\ UNCHANGED mishaps
       \/ Mishap /\ Return(w) /\ (Effect(w) \/ UNCHANGED applied) /\ UNCHANGED acked
    /\ UNCHANGED <<available, inbox>>

-----------------------------------------------------------------------------
(* Barrier.                                                                *)

MutantNoPrimaryKey(w) == FALSE

\* Another transaction has inserted the same primary key and not ended yet:
\* the INSERT waits for it.
Locked(w) == \E v \in Workers : worker[v].pc \in {"handle", "commit"}
                                /\ worker[v].h \in Barriers /\ Key(v) = Key(w)

MutantBarrierDuplicateIsError(w) ==
    /\ At(w, "begin", Barriers) /\ ~Locked(w)
    /\ IF Key(w) \in inbox THEN Return(w) ELSE Goto(w, "handle")
    /\ UNCHANGED <<available, inbox, applied, acked, mishaps>>

MutantBarrierRecordOutsideTx(w) ==
    /\ At(w, "begin", Barriers)
    /\ IF Key(w) \in inbox THEN ReturnNil(w) ELSE Goto(w, "handle") /\ UNCHANGED acked
    /\ inbox' = inbox \cup {Key(w)}
    /\ UNCHANGED <<available, applied, mishaps>>

\* Begin the transaction and insert the record into it.
BarrierRecord(w) ==
    /\ At(w, "begin", Barriers)
    /\ \/ ~Locked(w) /\ Key(w) \in inbox /\ ReturnNil(w) /\ UNCHANGED mishaps
       \/ ~Locked(w) /\ Key(w) \notin inbox /\ Goto(w, "handle") /\ UNCHANGED <<acked, mishaps>>
       \/ Mishap /\ Return(w) /\ UNCHANGED acked
    /\ UNCHANGED <<available, inbox, applied>>

MutantBarrierHandlerErrorIsNil(w) ==
    /\ At(w, "handle", Barriers)
    /\ \/ ReturnNil(w) /\ Mishap
       \/ Goto(w, "commit") /\ UNCHANGED <<acked, mishaps>>
    /\ UNCHANGED <<available, inbox, applied>>

\* Decode and run h on the transaction; an error rolls everything back.
BarrierHandle(w) ==
    /\ At(w, "handle", Barriers)
    /\ \/ worker[w].m \in Undecodable /\ Return(w) /\ UNCHANGED mishaps
       \/ worker[w].m \notin Undecodable /\ Goto(w, "commit") /\ UNCHANGED mishaps
       \/ worker[w].m \notin Undecodable /\ Mishap /\ Return(w)
    /\ UNCHANGED <<available, inbox, applied, acked>>

\* Commit the record and the business writes together; the answer to a
\* commit that took effect may be lost.
BarrierCommit(w) ==
    /\ At(w, "commit", Barriers)
    /\ \/ inbox' = inbox \cup {Key(w)} /\ Effect(w) /\ ReturnNil(w) /\ UNCHANGED mishaps
       \/ inbox' = inbox \cup {Key(w)} /\ Effect(w) /\ Mishap /\ Return(w) /\ UNCHANGED acked
       \/ Mishap /\ Return(w) /\ UNCHANGED <<inbox, applied, acked>>
    /\ UNCHANGED available

\* The consumer dies during a call; an open transaction is rolled back.
Crash(w) ==
    /\ Busy(w) /\ Mishap
    /\ Return(w)
    /\ UNCHANGED <<available, inbox, applied, acked>>

-----------------------------------------------------------------------------
HandlerStep(w) ==
    \/ InboxRecord(w) \/ InboxHandle(w)
    \/ BarrierRecord(w) \/ BarrierHandle(w) \/ BarrierCommit(w)

Consume ==
    \E w \in Workers :
      \/ \E h \in Handlers, m \in Events : Deliver(w, h, m)
      \/ HandlerStep(w)
      \/ Crash(w)

InboxNext == (\E m \in Events : Arrive(m)) \/ Consume

InboxSpec == InboxInit /\ [][InboxNext]_ivars

\* A call that can go on does, and the broker keeps redelivering a message to
\* a handler that has not acknowledged it.
InboxFairness ==
    /\ \A w \in Workers : WF_ivars(HandlerStep(w))
    /\ \A h \in Handlers, m \in Events :
         SF_ivars(<<h, m>> \notin acked /\ \E w \in Workers : Deliver(w, h, m))

InboxFairSpec == InboxSpec /\ InboxFairness

-----------------------------------------------------------------------------
\* Inbox (inbox.go:12-14): the handler's effects take place at most once per
\* event, across redeliveries, concurrent deliveries and crashes.
InboxAtMostOnce == \A h \in Inboxes, m \in Events : applied[h][m] <= 1

\* Barrier (inbox.go:45-48): database effects happen exactly once for an event
\* that is recorded and not at all for one that is not.
BarrierExactlyOnce ==
    \A h \in Barriers, m \in Events \ Anonymous :
      applied[h][m] = IF <<h, eventID(m)>> \in inbox THEN 1 ELSE 0

\* Barrier never tells the broker to drop an event whose writes are not in the
\* database (README.md:18, the reason to use it instead of Inbox).
BarrierAckedIsApplied ==
    \A h \in Barriers, m \in Events \ Anonymous :
      <<h, m>> \in acked => applied[h][m] = 1

\* What the two wrappers promise of effects (inbox.go:12-14, 45-48): never
\* twice, and for Barrier exactly when recorded and before acknowledged.
EffectsAreCounted == InboxAtMostOnce /\ BarrierExactlyOnce /\ BarrierAckedIsApplied

\* A message that decodes is acknowledged by every handler in the end, however
\* its deliveries collide on the record: nobody waits on it for ever.
AllAcked == Handlers \X (available \ Undecodable) \subseteq acked

\* Barrier: the writes of a decodable event are in the database in the end.
AllApplied ==
    \A h \in Barriers, m \in available \ (Undecodable \cup Anonymous) : applied[h][m] = 1

\* What the two wrappers promise in the end (inbox.go:25-87): a message that
\* decodes is acknowledged, and by Barrier applied.
EventuallyConsumed == <>[](AllAcked /\ AllApplied)
=============================================================================
