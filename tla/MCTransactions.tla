--------------------------- MODULE MCTransactions ---------------------------
(***************************************************************************)
(* transaction/ for TLC.  In a behaviour one component moves and the       *)
(* others stand still: a Run of xa, of saga or of tcc; the Inbox and       *)
(* Barrier wrappers; or the outbox from producer to Barrier.               *)
(***************************************************************************)
EXTENDS XA, Saga, Tcc, Inbox

CONSTANTS Rows, Relays, Subscribers, Consumers  \* of the outbox

VARIABLES
    component,
    txn, before, rows, relay, published, locking, relayFaults,  \* Outbox
    records, consumer, writes, accepted, consumerFaults         \* its Barrier

outboxVars == <<txn, before, rows, relay, published, locking, relayFaults>>
barrierVars == <<records, consumer, writes, accepted, consumerFaults>>

P == INSTANCE OutboxPipeline WITH
        Events <- Rows, BatchSize <- 1, MaxAttempts <- 2, Lease <- 1, SweepAfter <- 0,
        BackoffUnit <- 1, Lockings <- {"rows"}, MaxFaults <- 1, faults <- relayFaults,
        Workers <- Consumers, MaxConsumerFaults <- 1, inbox <- records, worker <- consumer,
        applied <- writes, acked <- accepted, mishaps <- consumerFaults

allVars == <<vars, sagaVars, tccVars, ivars, outboxVars, barrierVars, component>>

-----------------------------------------------------------------------------
XAIdle ==
    /\ branch = [i \in Resources |-> "none"] /\ phase = [i \in Resources |-> "new"]
    /\ lost = {} /\ pc = "crashed" /\ cur = 1 /\ ctx = "live" /\ err = "nil" /\ faults = 0

SagaIdle ==
    /\ steps = <<>> /\ sagaPc = "returned" /\ at = 1 /\ effects = {} /\ undone = <<>>
    /\ sagaErr = [kind |-> "nil", step |-> 0, undo |-> {}]

TccIdle ==
    /\ participants = <<>> /\ tccPc = "returned" /\ turn = 1
    /\ reservation = <<>> /\ calls = <<>> /\ tccErr = {}

TransactionsInit ==
    /\ InboxInit /\ P!PInit
    /\ \/ component = "xa" /\ Init /\ SagaIdle /\ TccIdle
       \/ component = "saga" /\ SagaInit /\ XAIdle /\ TccIdle
       \/ component = "tcc" /\ TccInit /\ XAIdle /\ SagaIdle
       \/ component \in {"inbox", "pipeline"} /\ XAIdle /\ SagaIdle /\ TccIdle

InCoordinator(c, others) == component = c /\ UNCHANGED <<component, others, ivars, outboxVars, barrierVars>>
InInbox == component = "inbox" /\ UNCHANGED <<component, vars, sagaVars, tccVars, outboxVars, barrierVars>>
InOutbox == component = "pipeline" /\ UNCHANGED <<component, vars, sagaVars, tccVars, ivars>>

TransactionsNext ==
    \/ InCoordinator("xa", <<sagaVars, tccVars>>) /\ Next
    \/ InCoordinator("saga", <<vars, tccVars>>) /\ SagaNext
    \/ InCoordinator("tcc", <<vars, sagaVars>>) /\ TccNext
    \/ InInbox /\ InboxNext
    \/ InOutbox /\ P!PNext

\* The fairness of the components, each while it moves.
TransactionsFairness ==
    /\ WF_allVars(InCoordinator("xa", <<sagaVars, tccVars>>) /\ RunStep)
    /\ WF_allVars(InCoordinator("xa", <<sagaVars, tccVars>>) /\ Operator)
    /\ \A w \in Workers : WF_allVars(InInbox /\ HandlerStep(w))
    /\ \A h \in Handlers, m \in Events :
         SF_allVars(InInbox /\ <<h, m>> \notin acked /\ \E w \in Workers : Deliver(w, h, m))
    /\ \A r \in Relays :
         WF_allVars(InOutbox /\ P!RelayStep(r) /\ UNCHANGED barrierVars)
    /\ WF_allVars(InOutbox /\ P!Tick /\ UNCHANGED barrierVars)
    /\ \A w \in Consumers :
         WF_allVars(InOutbox /\ P!Consumer!HandlerStep(w) /\ UNCHANGED outboxVars)
    /\ \A h \in Subscribers, e \in Rows :
         SF_allVars(/\ InOutbox /\ <<h, e>> \notin accepted
                    /\ \E w \in Consumers : P!Consumer!Deliver(w, h, e)
                    /\ UNCHANGED outboxVars)

TransactionsSpec ==
    TransactionsInit /\ [][TransactionsNext]_allVars /\ TransactionsFairness

-----------------------------------------------------------------------------
\* The relays, the broker and the Barriers implement EventDelivery (outbox.go:31-33).
ImplementsPromise == P!ImplementsPromise

\* A committed event's row is settled for good, and its writes are in the handlers' databases
\* unless the row went dead (relay.go:93-94).
EventuallyAppliedOrDead ==
    <>[](component = "pipeline" => P!AllSettled /\ P!AllAppliedOrDead)
=============================================================================
