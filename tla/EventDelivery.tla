--------------------------- MODULE EventDelivery ---------------------------
(***************************************************************************)
(* What transaction/outbox promises a producer and the Barrier handlers    *)
(* together: a committed event takes effect at most once in each handler,  *)
(* and nothing else does.                                                  *)
(***************************************************************************)
EXTENDS Naturals

CONSTANTS Events, Handlers

VARIABLES
    committed,  \* events whose business transaction committed
    applied     \* how often the effects of each event took place, by handler

Init ==
    /\ committed = {}
    /\ applied = [h \in Handlers |-> [e \in Events |-> 0]]

CommitEvent(e) ==
    /\ e \notin committed
    /\ committed' = committed \cup {e}
    /\ UNCHANGED applied

Apply(h, e) ==
    /\ e \in committed
    /\ applied[h][e] = 0
    /\ applied' = [applied EXCEPT ![h][e] = 1]
    /\ UNCHANGED committed

Next ==
    \/ \E e \in Events : CommitEvent(e)
    \/ \E h \in Handlers, e \in Events : Apply(h, e)

Spec == Init /\ [][Next]_<<committed, applied>>
=============================================================================
