--------------------------- MODULE OutboxPipeline ---------------------------
(***************************************************************************)
(* transaction/outbox end to end: the producer side of Outbox, a broker    *)
(* that holds what the relays published, and the Barrier consumers of      *)
(* Inbox, each with its own database.                                      *)
(***************************************************************************)
EXTENDS Outbox

CONSTANTS Subscribers, Workers, MaxConsumerFaults

VARIABLES inbox, worker, applied, acked, mishaps

consumerVars == <<inbox, worker, applied, acked, mishaps>>

\* Every event the relay publishes carries its ID (messageFromRow) and the JSON
\* Enqueue wrote, so none is anonymous and all of them decode.
Consumer == INSTANCE Inbox WITH
    Anonymous <- {}, Undecodable <- {}, Inboxes <- {}, Barriers <- Subscribers,
    available <- published, MaxMishaps <- MaxConsumerFaults

PInit == Init /\ Consumer!InboxInit

PNext ==
    \/ Next /\ UNCHANGED consumerVars
    \/ Consumer!Consume /\ UNCHANGED vars

pvars == <<vars, consumerVars>>

PSpec == PInit /\ [][PNext]_pvars

\* The fairness of both halves.
PFairness ==
    /\ \A r \in Relays : WF_pvars(RelayStep(r) /\ UNCHANGED consumerVars)
    /\ WF_pvars(Tick /\ UNCHANGED consumerVars)
    /\ \A w \in Workers : WF_pvars(Consumer!HandlerStep(w) /\ UNCHANGED vars)
    /\ \A h \in Subscribers, e \in Events :
         SF_pvars(/\ <<h, e>> \notin acked
                  /\ \E w \in Workers : Consumer!Deliver(w, h, e)
                  /\ UNCHANGED vars)

PFairSpec == PSpec /\ PFairness

-----------------------------------------------------------------------------
Promise == INSTANCE EventDelivery WITH Handlers <- Subscribers

\* End to end (outbox.go:31-33): the relays, the broker and the Barriers
\* implement EventDelivery: crashes, lost answers, republished rows and
\* duplicate deliveries never apply an event twice or before it is committed.
ImplementsPromise == Promise!Spec

\* A committed event is in the end applied by every handler, unless its row
\* was given up as dead.
AllAppliedOrDead ==
    Lease > 0 =>
      \A e \in committed :
        rows[e].status = "dead" \/ \A h \in Subscribers : applied[h][e] = 1
EventuallyAppliedOrDead == <>[]AllAppliedOrDead
=============================================================================
