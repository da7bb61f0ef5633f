--------------------------- MODULE DeliveryProofs ---------------------------
(***************************************************************************)
(* Proofs about the delivery of events and messages: the pipeline from the *)
(* outbox to the handlers (OutboxPipeline), and the producers through      *)
(* which the broker drivers publish (ProducerCache).                       *)
(***************************************************************************)
EXTENDS OutboxPipeline, OutboxProofs, ProducerCache

(***************************************************************************)
(* The pipeline from Enqueue to the Barrier handlers implements            *)
(* EventDelivery, for any number of events, relays, handlers and workers   *)
(* and every configuration of the relays.  Each half of the pipeline moves *)
(* as its own specification says, so the invariants proved of Outbox and   *)
(* of Inbox hold of it; what is left is that a handler only works on what  *)
(* was published, and that each step is a step of EventDelivery or none.   *)
(***************************************************************************)

C == INSTANCE InboxProofs WITH
    Anonymous <- {}, Undecodable <- {}, Inboxes <- {}, Barriers <- Subscribers,
    available <- published, MaxMishaps <- MaxConsumerFaults

\* A handler only works on what the broker has accepted.
WorksOnPublished == \A w \in Workers : worker[w].pc # "idle" => worker[w].m \in published

PipelineInv == TypeInv /\ Delivered /\ C!InboxInv /\ WorksOnPublished

-----------------------------------------------------------------------------
\* The theorems about Inbox apply to the consumers of the pipeline.
LEMMA ConsumerProofs ==
    ASSUME MaxConsumerFaults \in Nat
    PROVE  /\ Consumer!InboxInit => C!InboxInv
           /\ C!InboxInv /\ [C!InboxNext]_(C!ivars) => C!InboxInv'
  <1>1. C!InboxAssumption
    BY DEF C!InboxAssumption
  <1>2. Consumer!InboxInit => C!InboxInit
    BY DEF Consumer!InboxInit, C!InboxInit, Consumer!Idle, C!Idle, Consumer!Handlers, C!Handlers
  <1>3. C!InboxInit => C!InboxInv
    BY <1>1, C!InboxStart
  <1>4. C!InboxInv /\ [C!InboxNext]_(C!ivars) => C!InboxInv'
    BY <1>1, C!InboxStep
  <1> QED
    BY <1>2, <1>3, <1>4

\* A worker that is busy works for a subscriber.
LEMMA ConsumerWorker ==
    ASSUME MaxConsumerFaults \in Nat, C!InboxInv, NEW w \in Workers, worker[w].pc # "idle"
    PROVE  worker[w] \in [pc: {"begin", "handle", "commit"}, h: Subscribers, m: Events]
  <1>1. C!InboxAssumption
    BY DEF C!InboxAssumption
  <1>2. C!InboxTypeOK
    BY DEF C!InboxInv
  <1>3. worker[w] \in [pc: {"begin", "handle", "commit"}, h: C!Handlers, m: Events]
    BY <1>1, <1>2, C!BusyWorker
  <1> QED
    BY <1>3 DEF C!Handlers

\* Both instances of Inbox mean the same steps.
LEMMA SameConsumer == Consumer!Consume => C!Consume
  BY Zenon DEF Consumer!Consume, C!Consume, Consumer!Deliver, C!Deliver, Consumer!Crash, C!Crash,
         Consumer!HandlerStep, C!HandlerStep, Consumer!InboxRecord, C!InboxRecord,
         Consumer!InboxHandle, C!InboxHandle, Consumer!BarrierRecord, C!BarrierRecord,
         Consumer!BarrierHandle, C!BarrierHandle, Consumer!BarrierCommit, C!BarrierCommit,
         Consumer!Handlers, C!Handlers, Consumer!Busy, C!Busy, Consumer!Mishap, C!Mishap,
         Consumer!At, C!At, Consumer!Key, C!Key, Consumer!Goto, C!Goto, Consumer!Return, C!Return,
         Consumer!ReturnNil, C!ReturnNil, Consumer!Effect, C!Effect, Consumer!Locked, C!Locked,
         Consumer!eventID, C!eventID, Consumer!Idle, C!Idle

\* A relay's step adds at most one event to what the broker holds, and commits
\* at most one transaction.
LEMMA ProducerStep ==
    ASSUME TypeInv, Next
    PROVE  /\ published' = published \/ \E e \in Events : published' = published \cup {e}
           /\ \/ committed' = committed
              \/ \E e \in Events : e \notin committed /\ committed' = committed \cup {e}
  <1>1. ASSUME NEW e \in Events, Enqueue(e) \/ CommitTx(e) \/ RollbackTx(e)
        PROVE  /\ published' = published
               /\ \/ committed' = committed
                  \/ \E f \in Events : f \notin committed /\ committed' = committed \cup {f}
    <2>1. CASE Enqueue(e)
      BY <2>1 DEF Enqueue, committed, TypeInv, TypeOK
    <2>2. CASE RollbackTx(e)
      BY <2>2 DEF RollbackTx, committed, TypeInv, TypeOK
    <2>3. CASE CommitTx(e)
      BY <2>3 DEF CommitTx, committed, TypeInv, TypeOK
    <2> QED
      BY <1>1, <2>1, <2>2, <2>3
  <1>2. ASSUME NEW r \in Relays, Publish(r) \/ PublishError(r)
        PROVE  /\ published' = published \/ \E e \in Events : published' = published \cup {e}
               /\ committed' = committed
    <2>1. Head(relay[r].batch).id \in Events
      <3>1. relay[r].batch \in Seq(Row) /\ relay[r].batch # <<>>
        BY <1>2 DEF Publish, PublishError, At, TypeInv, TypeOK, BatchOK, Working, Relay
      <3> QED
        BY <3>1, BatchFacts
    <2> QED
      BY <1>2, <2>1 DEF Publish, PublishError, committed
  <1>3. ASSUME NEW r \in Relays,
               \/ Reclaim(r) \/ Sweep(r) \/ Claim(r) \/ ClaimError(r) \/ ClaimSelect(r)
               \/ ClaimUpdate(r) \/ Complete(r) \/ Fail(r) \/ Restart(r) \/ Crash(r)
        PROVE  published' = published /\ committed' = committed
    BY <1>3 DEF Reclaim, Sweep, Claim, ClaimError, ClaimSelect, ClaimUpdate, Complete, Fail,
                Restart, Crash, committed
  <1>4. CASE Tick
    BY <1>4 DEF Tick, committed
  <1> QED
    BY <1>1, <1>2, <1>3, <1>4 DEF Next, RelayStep

-----------------------------------------------------------------------------
\* Each half keeps its invariant when the pipeline moves.
LEMMA PipelineStep ==
    ASSUME MaxConsumerFaults \in Nat, PipelineInv, [PNext]_pvars
    PROVE  PipelineInv'
  <1> USE DEF PipelineInv
  <1>1. [Next]_vars
    BY DEF PNext, pvars
  <1>2. TypeInv' /\ Delivered'
    BY <1>1, TypeStep, DeliveredStep
  <1>3. CASE Next /\ UNCHANGED consumerVars
    <2>1. published \subseteq published' /\
          (published' = published \/ \E e \in Events : published' = published \cup {e})
      BY <1>3, ProducerStep
    <2>2. [C!InboxNext]_(C!ivars)
      <3>1. CASE published' = published
        BY <1>3, <3>1 DEF consumerVars, C!ivars
      <3>2. CASE published' # published
        <4>1. PICK e \in Events : published' = published \cup {e}
          BY <2>1, <3>2
        <4>2. C!Arrive(e)
          BY <1>3, <3>2, <4>1 DEF C!Arrive, consumerVars
        <4> QED
          BY <4>2 DEF C!InboxNext
      <3> QED
        BY <3>1, <3>2
    <2>3. WorksOnPublished'
      BY <1>3, <2>1 DEF WorksOnPublished, consumerVars
    <2> QED
      BY <1>2, <2>2, <2>3, ConsumerProofs
  <1>4. CASE Consumer!Consume /\ UNCHANGED vars
    <2>1. C!Consume /\ published' = published
      BY <1>4, SameConsumer DEF vars
    <2>2. [C!InboxNext]_(C!ivars)
      BY <2>1 DEF C!InboxNext
    <2>3. PICK w \in Workers : \/ \E h \in C!Handlers, m \in Events : C!Deliver(w, h, m)
                               \/ C!HandlerStep(w) \/ C!Crash(w)
      BY <2>1 DEF C!Consume
    <2>4. worker \in [Workers -> C!Worker]
      BY DEF C!InboxInv, C!InboxTypeOK
    <2>5. ASSUME NEW h \in C!Handlers, NEW m \in Events, C!Deliver(w, h, m)
          PROVE  WorksOnPublished'
      BY <2>1, <2>4, <2>5 DEF C!Deliver, WorksOnPublished
    <2>6. ASSUME C!HandlerStep(w) \/ C!Crash(w)
          PROVE  WorksOnPublished'
      <3>1. worker[w].pc # "idle"
        BY <2>6 DEF C!HandlerStep, C!InboxRecord, C!InboxHandle, C!BarrierRecord,
                    C!BarrierHandle, C!BarrierCommit, C!Crash, C!At, C!Busy
      <3>2. C!Return(w) \/ \E p \in {"handle", "commit"} : C!Goto(w, p)
        BY <2>6 DEF C!HandlerStep, C!InboxRecord, C!InboxHandle, C!BarrierRecord,
                    C!BarrierHandle, C!BarrierCommit, C!Crash, C!ReturnNil
      <3>3. /\ worker'[w].pc # "idle" => worker'[w].m = worker[w].m
            /\ \A v \in Workers : v # w => worker'[v] = worker[v]
        <4>1. worker[w] \in [pc: {"begin", "handle", "commit"}, h: Subscribers, m: Events]
          BY <3>1, ConsumerWorker
        <4>2. CASE C!Return(w)
          BY <2>4, <4>2 DEF C!Return, C!Idle
        <4>3. ASSUME NEW p \in {"handle", "commit"}, C!Goto(w, p)
              PROVE  /\ worker'[w].m = worker[w].m
                     /\ \A v \in Workers : v # w => worker'[v] = worker[v]
          BY <2>4, <4>1, <4>3 DEF C!Goto
        <4> QED
          BY <3>2, <4>2, <4>3
      <3> QED
        BY <2>1, <3>1, <3>3 DEF WorksOnPublished
    <2> QED
      BY <1>2, <2>2, <2>3, <2>5, <2>6, ConsumerProofs
  <1>5. CASE UNCHANGED pvars
    BY <1>2, <1>5, ConsumerProofs DEF pvars, vars, consumerVars, C!ivars, WorksOnPublished
  <1> QED
    BY <1>3, <1>4, <1>5 DEF PNext

\* The effects of a handler change only where EventDelivery applies an event.
LEMMA ConsumeApplies ==
    ASSUME MaxConsumerFaults \in Nat, PipelineInv, C!Consume, UNCHANGED vars
    PROVE  \/ applied' = applied
           \/ \E h \in Subscribers, e \in Events : Promise!Apply(h, e)
  <1> USE DEF PipelineInv
  <1>1. PICK w \in Workers : \/ \E h \in C!Handlers, m \in Events : C!Deliver(w, h, m)
                             \/ C!HandlerStep(w) \/ C!Crash(w)
    BY DEF C!Consume
  <1>2. CASE C!BarrierCommit(w) /\ C!Effect(w)
    <2>1. worker[w].pc = "commit" /\ worker[w].h \in Subscribers
      BY <1>2 DEF C!BarrierCommit, C!At
    <2>2. worker[w].m \in Events
      BY <2>1, ConsumerWorker
    <2>3. worker[w].m \in committed
      BY <2>1 DEF WorksOnPublished, Delivered
    <2>4. C!Key(w) \notin inbox
      BY <2>1 DEF C!InboxInv, C!BarrierRecords, C!Inside
    <2>5. applied[worker[w].h][worker[w].m] = 0
      BY <2>1, <2>2, <2>4 DEF C!InboxInv, C!BarrierRecords, C!BarrierExactlyOnce, C!Key
    <2>6. applied' = [applied EXCEPT ![worker[w].h][worker[w].m] = 1]
      BY <1>2, <2>5 DEF C!Effect
    <2>7. committed' = committed
      BY DEF vars, committed
    <2> QED
      BY <2>1, <2>2, <2>3, <2>5, <2>6, <2>7, Zenon DEF Promise!Apply
  <1>3. CASE ~(C!BarrierCommit(w) /\ C!Effect(w))
    BY <1>1, <1>3 DEF C!Deliver, C!Crash, C!HandlerStep, C!InboxRecord, C!InboxHandle, C!At,
                      C!BarrierRecord, C!BarrierHandle, C!BarrierCommit
  <1> QED
    BY <1>2, <1>3

LEMMA PipelineInit == ASSUME MaxConsumerFaults \in Nat, PInit PROVE PipelineInv
  BY TypeInit, DeliveredInit, ConsumerProofs
  DEF PInit, PipelineInv, WorksOnPublished, Consumer!InboxInit, Consumer!Idle

\* The relays, the broker and the Barriers implement EventDelivery
\* (outbox.go:31-33): whatever crashes, expires, is lost, republished or
\* delivered twice, an event takes effect at most once in a handler, and only
\* after its transaction committed.
THEOREM PipelineImplements ==
    ASSUME MaxConsumerFaults \in Nat
    PROVE  PSpec => ImplementsPromise
  <1>1. PInit => Promise!Init
    BY DEF PInit, Init, committed, Consumer!InboxInit, Consumer!Handlers, Promise!Init
  <1>2. ASSUME PipelineInv, [PNext]_pvars
        PROVE  [Promise!Next]_<<committed, applied>>
    <2>1. CASE Next /\ UNCHANGED consumerVars
      BY <1>2, <2>1, ProducerStep DEF PipelineInv, consumerVars, Promise!Next, Promise!CommitEvent
    <2>2. CASE Consumer!Consume /\ UNCHANGED vars
      <3>1. committed' = committed
        BY <2>2 DEF vars, committed
      <3> QED
        BY <1>2, <2>2, <3>1, SameConsumer, ConsumeApplies DEF Promise!Next
    <2>3. CASE UNCHANGED pvars
      BY <2>3 DEF pvars, vars, consumerVars, committed
    <2> QED
      BY <1>2, <2>1, <2>2, <2>3 DEF PNext
  <1>3. PipelineInv /\ [PNext]_pvars => PipelineInv'
    BY PipelineStep
  <1>4. PInit => PipelineInv
    BY PipelineInit
  <1> QED
    BY <1>1, <1>2, <1>3, <1>4, PTL DEF PSpec, ImplementsPromise, Promise!Spec

-----------------------------------------------------------------------------
(***************************************************************************)
(* Proofs about the producer caches of the brokers (ProducerCache), for    *)
(* any number of publishers.                                               *)
(*                                                                         *)
(* A publish that never replaces a producer leaves the open one in the     *)
(* cache.  For the others, as long as no two calls overlapped and none     *)
(* came after Disconnect, the one call under way knows where the one       *)
(* producer is: in the cache while it sends, nowhere while it replaces it, *)
(* in its own hands until it stores the replacement.                       *)
(***************************************************************************)

PublishPcs == {"new", "lookup", "send", "again", "replace", "create", "retry", "store", "ok", "error",
        "crashed"}

Calls == [pc : PublishPcs, p : Nat, cached : BOOLEAN, sent : BOOLEAN]

ProducerTypes ==
    /\ publishFn \in AllProducers
    /\ cache \in Nat /\ made \in Nat /\ openP \subseteq 1 .. made
    /\ connectedP \in BOOLEAN /\ misused \in BOOLEAN /\ sendFaults \in Nat
    /\ publishFn.discards => ending = "no"
    /\ publishing \in [CachePublishers -> Calls]

\* What a call that is alone knows at each place.
Alone(c) ==
    /\ connectedP
    /\ publishing[c].pc = "lookup" => openP \subseteq {cache}
    /\ publishing[c].pc \in {"send", "again", "replace"} =>
          publishing[c].p = cache /\ cache # 0 /\ openP \subseteq {cache}
    /\ publishing[c].pc = "create" => openP = {}
    /\ publishing[c].pc \in {"retry", "store"} => openP \subseteq {publishing[c].p}
    /\ publishing[c].pc # "crashed"

Settled ==
    /\ \A c, d \in UnderWay : c = d
    /\ \A c \in UnderWay : Alone(c)
    /\ UnderWay = {} => openP \subseteq {cache}

\* A publish that never replaces a producer.
KeptOpen ==
    /\ openP \subseteq {cache}
    /\ \A c \in CachePublishers :
          /\ publishing[c].pc \in {"new", "lookup", "send", "again", "ok", "error"}
          /\ publishing[c].pc \in {"send", "again"} => publishing[c].p # 0

ProducerInv ==
    /\ ProducerTypes
    /\ publishFn.retries = 0 => KeptOpen
    /\ publishFn.discards /\ ~misused => Settled

\* The decisions of the six publish functions that matter here.
Sound(f) ==
    /\ f.retries \in Nat /\ f.discards \in BOOLEAN
    /\ f.retries = 0 => ~f.shared /\ f.client # "unchecked"
    /\ f.discards => f.client # "checked" /\ f.stop = "surely"

LEMMA ProducerRecords ==
    ASSUME NEW f \in AllProducers
    PROVE  Sound(f)
  <1>2. Sound(PulsarCached)
    BY DEF PulsarCached, Cached, Sound
  <1>3. Sound(KafkaPublishMultipleWriter)
    BY DEF KafkaPublishMultipleWriter, Cached, Sound
  <1>4. Sound(KafkaPublishOneWriter)
    BY DEF KafkaPublishOneWriter, KafkaPublishMultipleWriter, Cached, Sound
  <1>5. Sound(RocketV2Cached)
    BY DEF RocketV2Cached, Cached, Sound
  <1>6. Sound(GcpCached)
    BY DEF GcpCached, Cached, Sound
  <1>7. Sound(RocketV5Cached)
    BY DEF RocketV5Cached, Cached, Sound
  <1> QED
    BY <1>2, <1>3, <1>4, <1>5, <1>6, <1>7 DEF AllProducers

LEMMA ProducerStart == ProducerInit => ProducerInv
  <1> SUFFICES ASSUME ProducerInit PROVE ProducerInv
    OBVIOUS
  <1>1. NewCall \in Calls
    BY DEF NewCall, Calls, PublishPcs
  <1>2. ProducerTypes
    BY <1>1, Zenon DEF ProducerInit, ProducerTypes
  <1>3. UnderWay = {}
    BY DEF ProducerInit, UnderWay, Over, NewCall
  <1> QED BY <1>2, <1>3 DEF ProducerInit, ProducerInv, KeptOpen, Settled, NewCall

\* A step of a call leaves a record of the right type.
LEMMA CallTyped ==
    ASSUME ProducerTypes, NEW c \in CachePublishers
    PROVE  /\ \A r \in Calls : Step(c, r) => publishing' \in [CachePublishers -> Calls]
           /\ \A a \in PublishPcs : Answer(c, a) => publishing' \in [CachePublishers -> Calls]
           /\ \A a \in PublishPcs, q \in Nat : [publishing[c] EXCEPT !.pc = a, !.p = q] \in Calls
           /\ \A a \in PublishPcs, q \in Nat, b \in BOOLEAN :
                 [publishing[c] EXCEPT !.pc = a, !.p = q, !.cached = b] \in Calls
           /\ \A a \in PublishPcs, b \in BOOLEAN : [publishing[c] EXCEPT !.pc = a, !.sent = b] \in Calls
  <1> publishing[c] \in Calls
    BY DEF ProducerTypes
  <1>1. \A r \in Calls : Step(c, r) => publishing' \in [CachePublishers -> Calls]
    BY DEF ProducerTypes, Step
  <1>2. \A a \in PublishPcs : [publishing[c] EXCEPT !.pc = a] \in Calls
    BY DEF Calls
  <1>3. \A a \in PublishPcs : Answer(c, a) => publishing' \in [CachePublishers -> Calls]
    BY <1>1, <1>2 DEF Answer
  <1>4. \A a \in PublishPcs, q \in Nat : [publishing[c] EXCEPT !.pc = a, !.p = q] \in Calls
    BY Zenon DEF Calls
  <1>5. \A a \in PublishPcs, q \in Nat, b \in BOOLEAN :
           [publishing[c] EXCEPT !.pc = a, !.p = q, !.cached = b] \in Calls
    BY Zenon DEF Calls
  <1>6. \A a \in PublishPcs, b \in BOOLEAN : [publishing[c] EXCEPT !.pc = a, !.sent = b] \in Calls
    BY Zenon DEF Calls
  <1> QED BY <1>1, <1>3, <1>4, <1>5, <1>6, Zenon

LEMMA ProducerTypesStep == ProducerTypes /\ [ProducerNext]_producerVars => ProducerTypes'
  <1> SUFFICES ASSUME ProducerTypes, [ProducerNext]_producerVars PROVE ProducerTypes'
    OBVIOUS
  <1>0. /\ publishFn \in AllProducers /\ cache \in Nat /\ made \in Nat
        /\ openP \subseteq 1 .. made /\ sendFaults \in Nat
        /\ {"lookup", "send", "again", "replace", "create", "retry", "store", "ok", "error",
             "crashed"} \subseteq PublishPcs
    BY DEF ProducerTypes, PublishPcs
  <1>p. \A c \in CachePublishers : publishing[c].p \in Nat
    BY DEF ProducerTypes, Calls
  <1>m. openP \cup {made + 1} \subseteq 1 .. made + 1
    <2> SUFFICES ASSUME NEW x \in openP \cup {made + 1} PROVE x \in 1 .. made + 1
      OBVIOUS
    <2> QED BY <1>0
  <1>c. ASSUME NEW c \in CachePublishers, NEW a \in PublishPcs
        PROVE  [publishing[c] EXCEPT !.pc = a, !.p = made + 1] \in Calls
    <2>1. made + 1 \in Nat
      BY <1>0
    <2> QED BY <2>1, CallTyped, Zenon
  <1>e. publishFn.discards => publishFn.client # "checked" /\ publishFn.stop = "surely" /\ ending = "no"
    BY ProducerRecords DEF ProducerTypes, Sound
  <1>b. ASSUME NEW c \in CachePublishers, Begin(c) PROVE ProducerTypes'
    <2>1. publishing' \in [CachePublishers -> Calls]
      BY <1>0, <1>b, CallTyped, Zenon DEF Begin
    <2> QED BY <1>0, <1>b, <1>e, <2>1 DEF Begin, ProducerTypes
  <1>1. ASSUME NEW c \in CachePublishers, Lookup(c) PROVE ProducerTypes'
    <2> DEFINE cached == [publishing[c] EXCEPT !.pc = "send", !.p = cache, !.cached = TRUE]
               created == [publishing[c] EXCEPT !.pc = "send", !.p = made + 1]
    <2>a. \/ Answer(c, "error") \/ Answer(c, "crashed")
          \/ Step(c, cached) \/ Step(c, created)
      BY <1>1 DEF Lookup
    <2>b. cached \in Calls
      BY <1>0, CallTyped, Zenon
    <2>c. created \in Calls
      BY <1>c, Zenon DEF PublishPcs
    <2>1. publishing' \in [CachePublishers -> Calls]
      <3> HIDE DEF cached, created
      <3> QED BY <1>0, <2>a, <2>b, <2>c, CallTyped, Zenon
    <2>2. sendFaults' \in Nat
      BY <1>0, <1>1 DEF Lookup, ProducerFault
    <2>3. /\ cache' \in Nat /\ made' \in Nat /\ openP' \subseteq 1 .. made'
          /\ UNCHANGED <<misused, connectedP, ending, publishFn>>
      BY <1>0, <1>m, <1>1 DEF Lookup
    <2> QED BY <2>1, <2>2, <2>3 DEF ProducerTypes
  <1>2. ASSUME NEW c \in CachePublishers, SendCached(c) PROVE ProducerTypes'
    <2>1. publishing' \in [CachePublishers -> Calls]
      <3>1. \/ \E a \in {"crashed", "error", "replace", "again"} : Answer(c, a)
            \/ Sent(c)
        BY <1>2 DEF SendCached, SendFailed
      <3>2. [publishing[c] EXCEPT !.pc = "ok", !.sent = TRUE] \in Calls
        BY <1>0, CallTyped, Zenon
      <3> QED BY <1>0, <3>1, <3>2, CallTyped, Zenon DEF Sent
    <2>2. sendFaults' \in Nat
      BY <1>0, <1>2 DEF SendCached, ProducerFault
    <2>3. UNCHANGED <<publishFn, cache, made, openP, connectedP, ending, misused>>
      BY <1>2 DEF SendCached
    <2> QED BY <2>1, <2>2, <2>3 DEF ProducerTypes
  <1>3. ASSUME NEW c \in CachePublishers, Replace(c) PROVE ProducerTypes'
    <2>1. publishing' \in [CachePublishers -> Calls]
      BY <1>0, <1>3, CallTyped, Zenon DEF Replace
    <2>2. openP' \subseteq openP /\ cache' \in Nat
      BY <1>0, <1>3 DEF Replace
    <2> QED BY <1>0, <1>3, <2>1, <2>2 DEF Replace, ProducerTypes
  <1>4. ASSUME NEW c \in CachePublishers, Create(c) PROVE ProducerTypes'
    <2>1. publishing' \in [CachePublishers -> Calls]
      <3> DEFINE created == [publishing[c] EXCEPT !.pc = "retry", !.p = made + 1]
      <3>1. created \in Calls
        BY <1>0, <1>c, Zenon
      <3>2. Answer(c, "crashed") \/ Answer(c, "error") \/ Step(c, created)
        BY <1>4 DEF Create
      <3> HIDE DEF created
      <3> QED BY <1>0, <3>1, <3>2, CallTyped, Zenon
    <2>2. sendFaults' \in Nat /\ made' \in Nat /\ openP' \subseteq 1 .. made'
      BY <1>0, <1>m, <1>4 DEF Create, ProducerFault
    <2> QED BY <1>4, <2>1, <2>2 DEF Create, ProducerTypes
  <1>5. ASSUME NEW c \in CachePublishers, RetrySend(c) PROVE ProducerTypes'
    <2>1. publishing' \in [CachePublishers -> Calls]
      BY <1>0, <1>5, CallTyped, Zenon DEF RetrySend
    <2>2. sendFaults' \in Nat /\ openP' \subseteq 1 .. made
      BY <1>0, <1>m, <1>5 DEF RetrySend, ProducerFault
    <2> QED BY <1>5, <2>1, <2>2 DEF RetrySend, ProducerTypes
  <1>6. ASSUME NEW c \in CachePublishers, Store(c) PROVE ProducerTypes'
    <2>1. publishing' \in [CachePublishers -> Calls]
      BY <1>0, <1>6, CallTyped, Zenon DEF Store
    <2> QED BY <1>p, <1>6, <2>1 DEF Store, ProducerTypes
  <1>7. CASE DisconnectProducers
    <2>1. openP' \subseteq 1 .. made /\ connectedP' \in BOOLEAN /\ misused' \in BOOLEAN /\ cache' \in Nat
      BY <1>0, <1>7 DEF DisconnectProducers
    <2>2. publishFn.discards => ending' = "no"
      BY <1>7, <1>e DEF DisconnectProducers
    <2>3. UNCHANGED <<publishFn, made, publishing, sendFaults>>
      BY <1>7 DEF DisconnectProducers
    <2> QED BY <2>1, <2>2, <2>3 DEF ProducerTypes
  <1>9. CASE DisconnectClient
    <2>1. /\ connectedP' \in BOOLEAN /\ ending' = "no"
          /\ UNCHANGED <<publishFn, cache, made, openP, publishing, sendFaults, misused>>
      BY <1>9, Zenon DEF DisconnectClient
    <2> QED BY <2>1 DEF ProducerTypes
  <1>10. CASE DisconnectFails
    <2>1. openP' \subseteq 1 .. made /\ misused' \in BOOLEAN /\ sendFaults' \in Nat
      BY <1>0, <1>10 DEF DisconnectFails, ProducerFault
    <2>2. ~publishFn.discards /\ UNCHANGED <<publishFn, cache, made, connectedP, publishing>>
      BY <1>10, <1>e DEF DisconnectFails
    <2> QED BY <2>1, <2>2 DEF ProducerTypes
  <1>11. CASE DisconnectAgain
    <2>1. /\ ~publishFn.discards
          /\ UNCHANGED <<publishFn, cache, made, openP, connectedP, publishing, sendFaults, misused>>
      BY <1>11, <1>e DEF DisconnectAgain
    <2> QED BY <2>1 DEF ProducerTypes
  <1>8. CASE UNCHANGED producerVars
    BY <1>8 DEF producerVars, ProducerTypes
  <1> QED
    BY <1>b, <1>1, <1>2, <1>3, <1>4, <1>5, <1>6, <1>7, <1>8, <1>9, <1>10, <1>11 DEF ProducerNext

\* If only one call moves and nothing else was under way, the state after the
\* step is in order when that call knows where the producer is.
LEMMA OneCallMoves ==
    ASSUME ProducerTypes, NEW c \in CachePublishers, NEW r, Step(c, r),
           UnderWay \subseteq {c},
           r.pc \notin Over => Alone(c)', r.pc \in Over => openP' \subseteq {cache'}
    PROVE  Settled'
  <1>1. publishing'[c] = r /\ \A d \in CachePublishers \ {c} : publishing'[d] = publishing[d]
    BY DEF ProducerTypes, Step
  <1>2. UnderWay' = IF r.pc \in Over THEN {} ELSE {c}
    BY <1>1 DEF UnderWay
  <1> QED BY <1>2 DEF Settled

\* A publish that never replaces its producer.
LEMMA KeptOpenStep ==
    ASSUME ProducerTypes, publishFn.retries = 0, KeptOpen, [ProducerNext]_producerVars
    PROVE  KeptOpen'
  <1>0. ~publishFn.shared /\ publishFn.client # "unchecked" /\ 0 \notin openP
    BY ProducerRecords DEF ProducerTypes, Sound
  <1>1. ASSUME NEW c \in CachePublishers, NEW r \in Calls, Step(c, r),
               r.pc \in {"new", "lookup", "send", "again", "ok", "error"},
               r.pc \in {"send", "again"} => r.p # 0, openP' \subseteq {cache'}
        PROVE  KeptOpen'
    <2>1. publishing'[c] = r /\ \A d \in CachePublishers \ {c} : publishing'[d] = publishing[d]
      BY <1>1 DEF ProducerTypes, Step
    <2> QED BY <1>1, <2>1 DEF KeptOpen
  <1>b. ASSUME NEW c \in CachePublishers, Begin(c) PROVE KeptOpen'
    <2> DEFINE a == IF publishFn.client = "checked" /\ ~connectedP THEN "error" ELSE "lookup"
               r == [publishing[c] EXCEPT !.pc = a]
    <2>1. r \in Calls /\ r.pc \in {"error", "lookup"}
      BY DEF ProducerTypes, Calls, PublishPcs
    <2>2. Step(c, r) /\ cache' = cache /\ openP' = openP
      BY <1>b DEF Begin, Answer
    <2> HIDE DEF r, a
    <2> QED BY <1>1, <2>1, <2>2 DEF KeptOpen
  <1>2. ASSUME NEW c \in CachePublishers, Lookup(c) PROVE KeptOpen'
    <2>1. CASE Answer(c, "error") /\ cache' = cache /\ openP' = openP
      <3> DEFINE r == [publishing[c] EXCEPT !.pc = "error"]
      <3>1. r \in Calls /\ r.pc = "error"
        BY DEF ProducerTypes, Calls, PublishPcs
      <3>2. Step(c, r)
        BY <2>1 DEF Answer
      <3> HIDE DEF r
      <3> QED BY <1>1, <2>1, <3>1, <3>2 DEF KeptOpen
    <2>2. CASE /\ cache # 0 /\ cache' = cache /\ openP' = openP
               /\ Step(c, [publishing[c] EXCEPT !.pc = "send", !.p = cache, !.cached = TRUE])
      <3> DEFINE r == [publishing[c] EXCEPT !.pc = "send", !.p = cache, !.cached = TRUE]
      <3>1. r \in Calls /\ r.pc = "send" /\ r.p = cache
        BY Zenon DEF ProducerTypes, Calls, PublishPcs
      <3>2. Step(c, r)
        BY <2>2
      <3> HIDE DEF r
      <3> QED BY <1>1, <2>2, <3>1, <3>2 DEF KeptOpen
    <2>3. CASE /\ cache = 0 /\ cache' = made + 1 /\ openP' = openP \cup {made + 1}
               /\ Step(c, [publishing[c] EXCEPT !.pc = "send", !.p = made + 1])
      <3> DEFINE r == [publishing[c] EXCEPT !.pc = "send", !.p = made + 1]
      <3>a. made + 1 \in Nat /\ made + 1 # 0
        BY DEF ProducerTypes
      <3>b. \A q \in Nat : [publishing[c] EXCEPT !.pc = "send", !.p = q] \in Calls
        BY Zenon DEF ProducerTypes, Calls, PublishPcs
      <3>c. r \in Calls
        BY <3>a, <3>b, Zenon
      <3>d. r.pc = "send" /\ r.p = made + 1
        BY DEF ProducerTypes, Calls
      <3>1. r \in Calls /\ r.pc = "send" /\ r.p = made + 1 /\ made + 1 # 0
        BY <3>a, <3>c, <3>d
      <3>2. Step(c, r)
        BY <2>3
      <3>3. openP' \subseteq {cache'}
        BY <1>0, <2>3 DEF KeptOpen
      <3> HIDE DEF r
      <3> QED BY <1>1, <3>1, <3>2, <3>3
    <2> QED BY <1>0, <1>2, <2>1, <2>2, <2>3 DEF Lookup
  <1>3. ASSUME NEW c \in CachePublishers, SendCached(c) PROVE KeptOpen'
    <2>1. publishing[c].p # 0 /\ cache' = cache /\ openP' = openP /\ Held(c) # 0
      BY <1>0, <1>3 DEF SendCached, KeptOpen, Held
    <2>2. Answer(c, "error") \/ Answer(c, "again") \/ Sent(c)
      BY <1>3, <2>1 DEF SendCached, SendFailed
    <2>3. ASSUME NEW a \in {"error", "again"}, Answer(c, a) PROVE KeptOpen'
      <3> DEFINE r == [publishing[c] EXCEPT !.pc = a]
      <3>1. r \in Calls /\ r.pc = a /\ r.p = publishing[c].p
        BY DEF ProducerTypes, Calls, PublishPcs
      <3>2. Step(c, r)
        BY <2>3 DEF Answer
      <3> HIDE DEF r
      <3> QED BY <1>1, <2>1, <3>1, <3>2 DEF KeptOpen
    <2>4. CASE Sent(c)
      <3> DEFINE r == [publishing[c] EXCEPT !.pc = "ok", !.sent = TRUE]
      <3>1. r \in Calls /\ r.pc = "ok"
        BY Zenon DEF ProducerTypes, Calls, PublishPcs
      <3>2. Step(c, r)
        BY <2>4 DEF Sent
      <3> HIDE DEF r
      <3> QED BY <1>1, <2>1, <3>1, <3>2 DEF KeptOpen
    <2> QED BY <2>2, <2>3, <2>4
  <1>4. ASSUME NEW c \in CachePublishers, Replace(c) \/ Create(c) \/ RetrySend(c) \/ Store(c)
        PROVE  FALSE
    BY <1>4 DEF Replace, Create, RetrySend, Store, KeptOpen
  <1>5. CASE DisconnectProducers \/ DisconnectClient \/ DisconnectFails \/ DisconnectAgain
    <2>1. publishing' = publishing /\ openP' \subseteq {cache'}
      BY <1>5 DEF DisconnectProducers, DisconnectClient, DisconnectFails, DisconnectAgain, KeptOpen
    <2> QED BY <2>1 DEF KeptOpen
  <1>6. CASE UNCHANGED producerVars
    BY <1>6 DEF producerVars, KeptOpen
  <1> QED
    BY <1>b, <1>2, <1>3, <1>4, <1>5, <1>6 DEF ProducerNext

LEMMA SettledStep ==
    ASSUME ProducerTypes, publishFn.discards, ~misused', ~misused => Settled,
           [ProducerNext]_producerVars
    PROVE  Settled'
  <1>0. ProducerTypes
    OBVIOUS
  <1>a. ASSUME NEW c \in CachePublishers, publishing[c].pc \notin Over, ~misused
        PROVE  UnderWay \subseteq {c} /\ Alone(c)
    BY <1>a DEF Settled, UnderWay
  <1>f. ASSUME NEW c \in CachePublishers, NEW r, Step(c, r)
        PROVE  publishing'[c] = r
    BY <1>0, <1>f DEF ProducerTypes, Step
  <1>e. publishFn.client # "checked" /\ publishFn.stop = "surely" /\ ending = "no"
    BY <1>0, ProducerRecords DEF ProducerTypes, Sound
  <1>b. ASSUME NEW c \in CachePublishers, Begin(c) PROVE Settled'
    <2>1. UnderWay = {} /\ connectedP /\ connectedP' /\ ~misused
      BY <1>b, Zenon DEF Begin
    <2> DEFINE r == [publishing[c] EXCEPT !.pc = "lookup"]
    <2>2. r.pc = "lookup"
      BY DEF ProducerTypes, Calls
    <2>3. Step(c, r) /\ cache' = cache /\ openP' = openP
      BY <1>b, <1>e DEF Begin, Answer
    <2> HIDE DEF r
    <2>4. publishing'[c] = r
      BY <1>f, <2>3
    <2>5. Alone(c)'
      BY <2>1, <2>2, <2>3, <2>4 DEF Alone, Settled
    <2> QED BY <2>1, <2>2, <2>3, <2>5, OneCallMoves DEF Over
  <1>1. ASSUME NEW c \in CachePublishers, Lookup(c) PROVE Settled'
    <2>1. UnderWay \subseteq {c} /\ connectedP /\ connectedP' /\ ~misused /\ Alone(c)
      <3>1. ~misused /\ publishing[c].pc \notin Over /\ connectedP' = connectedP
        BY <1>1 DEF Lookup, Over
      <3> QED BY <1>a, <3>1 DEF Alone
    <2>2. openP \subseteq {cache} /\ (cache = 0 => openP = {})
      BY <1>1, <2>1 DEF Alone, ProducerTypes, Lookup
    <2>3. CASE Answer(c, "error") /\ cache' = cache /\ openP' = openP
      <3>1. [publishing[c] EXCEPT !.pc = "error"].pc = "error"
        BY <1>0 DEF ProducerTypes, Calls
      <3> QED BY <1>0, <2>1, <2>2, <2>3, <3>1, OneCallMoves, Zenon DEF Answer, Over
    <2>4. CASE /\ cache # 0 /\ cache' = cache /\ openP' = openP
               /\ Step(c, [publishing[c] EXCEPT !.pc = "send", !.p = cache, !.cached = TRUE])
      <3> DEFINE r == [publishing[c] EXCEPT !.pc = "send", !.p = cache, !.cached = TRUE]
      <3>1. r.pc = "send" /\ r.p = cache
        BY <1>0 DEF ProducerTypes, Calls
      <3>2. publishing'[c] = r
        BY <1>f, <2>4
      <3> HIDE DEF r
      <3>3. Alone(c)'
        BY <2>1, <2>2, <2>4, <3>1, <3>2 DEF Alone
      <3> QED BY <1>0, <2>1, <2>4, <3>1, <3>3, OneCallMoves, Zenon DEF Over, r
    <2>5. CASE /\ cache = 0 /\ cache' = made + 1 /\ openP' = openP \cup {made + 1}
               /\ Step(c, [publishing[c] EXCEPT !.pc = "send", !.p = made + 1])
      <3> DEFINE r == [publishing[c] EXCEPT !.pc = "send", !.p = made + 1]
      <3>1. r.pc = "send" /\ r.p = made + 1
        BY <1>0 DEF ProducerTypes, Calls
      <3>2. publishing'[c] = r
        BY <1>f, <2>5
      <3> HIDE DEF r
      <3>3. Alone(c)'
        BY <1>0, <2>1, <2>2, <2>5, <3>1, <3>2 DEF Alone, ProducerTypes
      <3> QED BY <1>0, <2>1, <2>5, <3>1, <3>3, OneCallMoves, Zenon DEF Over, r
    <2> QED BY <1>1, <2>1, <2>3, <2>4, <2>5 DEF Lookup
  <1>2. ASSUME NEW c \in CachePublishers, SendCached(c) PROVE Settled'
    <2>1. UnderWay \subseteq {c} /\ Alone(c)
      BY <1>2, <1>a DEF SendCached, Over
    <2>2. /\ publishing[c].p = cache /\ cache # 0 /\ openP \subseteq {cache}
          /\ connectedP' /\ cache' = cache /\ openP' = openP
      BY <1>2, <2>1 DEF SendCached, Alone
    <2>3. Held(c) = cache
      BY <2>2 DEF Held
    <2>4. Sent(c) \/ \E a \in {"error", "replace", "again"} : Answer(c, a)
      BY <1>2, <2>2, <2>3 DEF SendCached, SendFailed
    <2>5. CASE Sent(c)
      <3> DEFINE r == [publishing[c] EXCEPT !.pc = "ok", !.sent = TRUE]
      <3>1. r.pc = "ok"
        BY DEF ProducerTypes, Calls
      <3>2. Step(c, r)
        BY <2>5 DEF Sent
      <3> HIDE DEF r
      <3> QED BY <2>1, <2>2, <3>1, <3>2, OneCallMoves DEF Over
    <2>6. ASSUME NEW a \in {"error", "replace", "again"}, Answer(c, a) PROVE Settled'
      <3> DEFINE r == [publishing[c] EXCEPT !.pc = a]
      <3>1. r.pc = a /\ r.p = publishing[c].p
        BY DEF ProducerTypes, Calls
      <3>2. Step(c, r)
        BY <2>6 DEF Answer
      <3> HIDE DEF r
      <3>3. publishing'[c] = r
        BY <1>f, <3>2
      <3>4. r.pc \notin Over => Alone(c)'
        BY <2>2, <3>1, <3>3 DEF Alone, Over
      <3> QED BY <2>1, <2>2, <3>1, <3>2, <3>4, OneCallMoves
    <2> QED BY <2>4, <2>5, <2>6
  <1>3. ASSUME NEW c \in CachePublishers, Replace(c) PROVE Settled'
    <2>1. UnderWay \subseteq {c} /\ Alone(c)
      BY <1>3, <1>a DEF Replace, Over
    <2>2. publishing[c].p = cache /\ cache # 0 /\ openP \subseteq {cache} /\ connectedP'
      BY <1>3, <2>1 DEF Replace, Alone
    <2>3. Held(c) = cache
      BY <2>2 DEF Held
    <2>4. openP' = {} /\ Answer(c, "create")
      BY <1>3, <2>2, <2>3 DEF Replace
    <2> DEFINE r == [publishing[c] EXCEPT !.pc = "create"]
    <2>5. r.pc = "create"
      BY DEF ProducerTypes, Calls
    <2>6. Step(c, r)
      BY <2>4 DEF Answer
    <2> HIDE DEF r
    <2>7. publishing'[c] = r
      BY <1>f, <2>6
    <2>8. Alone(c)'
      BY <2>2, <2>4, <2>5, <2>7 DEF Alone
    <2> QED BY <2>1, <2>5, <2>6, <2>8, OneCallMoves DEF Over
  <1>4. ASSUME NEW c \in CachePublishers, Create(c) PROVE Settled'
    <2>1. UnderWay \subseteq {c} /\ Alone(c)
      BY <1>4, <1>a DEF Create, Over
    <2>2. connectedP /\ connectedP' /\ openP = {}
      BY <1>4, <2>1 DEF Create, Alone
    <2>3. CASE /\ openP' = openP \cup {made + 1}
               /\ Step(c, [publishing[c] EXCEPT !.pc = "retry", !.p = made + 1])
      <3> DEFINE r == [publishing[c] EXCEPT !.pc = "retry", !.p = made + 1]
      <3>1. r.pc = "retry" /\ r.p = made + 1
        BY DEF ProducerTypes, Calls
      <3>2. Step(c, r)
        BY <2>3
      <3> HIDE DEF r
      <3>3. publishing'[c] = r
        BY <1>f, <3>2
      <3>4. Alone(c)'
        BY <2>2, <2>3, <3>1, <3>3 DEF Alone
      <3> QED BY <2>1, <3>1, <3>2, <3>4, OneCallMoves DEF Over
    <2>4. CASE Answer(c, "error") /\ openP' = openP
      <3> DEFINE r == [publishing[c] EXCEPT !.pc = "error"]
      <3>1. r.pc = "error"
        BY DEF ProducerTypes, Calls
      <3>2. Step(c, r)
        BY <2>4 DEF Answer
      <3> HIDE DEF r
      <3> QED BY <2>1, <2>2, <2>4, <3>1, <3>2, OneCallMoves DEF Over
    <2> QED BY <1>4, <2>2, <2>3, <2>4 DEF Create
  <1>5. ASSUME NEW c \in CachePublishers, RetrySend(c) PROVE Settled'
    <2>1. UnderWay \subseteq {c} /\ Alone(c)
      BY <1>5, <1>a DEF RetrySend, Over
    <2>2. connectedP' /\ openP \subseteq {publishing[c].p}
      BY <1>5, <2>1 DEF RetrySend, Alone
    <2>3. CASE /\ openP' = openP
               /\ Step(c, [publishing[c] EXCEPT !.pc = "store", !.sent = TRUE])
      <3> DEFINE r == [publishing[c] EXCEPT !.pc = "store", !.sent = TRUE]
      <3>1. r.pc = "store" /\ r.p = publishing[c].p
        BY DEF ProducerTypes, Calls
      <3>2. Step(c, r)
        BY <2>3
      <3> HIDE DEF r
      <3>3. publishing'[c] = r
        BY <1>f, <3>2
      <3>4. Alone(c)'
        BY <2>2, <2>3, <3>1, <3>3 DEF Alone
      <3> QED BY <2>1, <3>1, <3>2, <3>4, OneCallMoves DEF Over
    <2>4. CASE Answer(c, "error") /\ openP' = openP \ {publishing[c].p}
      <3> DEFINE r == [publishing[c] EXCEPT !.pc = "error"]
      <3>1. r.pc = "error"
        BY DEF ProducerTypes, Calls
      <3>2. Step(c, r)
        BY <2>4 DEF Answer
      <3>3. openP' = {}
        BY <2>2, <2>4
      <3> HIDE DEF r
      <3> QED BY <2>1, <3>1, <3>2, <3>3, OneCallMoves DEF Over
    <2> QED BY <1>5, <2>3, <2>4 DEF RetrySend
  <1>6. ASSUME NEW c \in CachePublishers, Store(c) PROVE Settled'
    <2>1. UnderWay \subseteq {c} /\ Alone(c)
      BY <1>6, <1>a DEF Store, Over
    <2>2. openP' \subseteq {cache'} /\ Answer(c, "ok")
      BY <1>6, <2>1 DEF Store, Alone
    <2> DEFINE r == [publishing[c] EXCEPT !.pc = "ok"]
    <2>3. r.pc = "ok"
      BY DEF ProducerTypes, Calls
    <2>4. Step(c, r)
      BY <2>2 DEF Answer
    <2> HIDE DEF r
    <2> QED BY <2>1, <2>2, <2>3, <2>4, OneCallMoves DEF Over
  <1>7. CASE DisconnectProducers
    <2>1. UnderWay = {} /\ ~misused
      BY <1>7, Zenon DEF DisconnectProducers
    <2>2. UnderWay' = {}
      BY <1>7, <2>1 DEF DisconnectProducers, UnderWay
    <2>3. openP' = {}
      BY <1>7, <2>1 DEF DisconnectProducers, Settled
    <2> QED BY <2>2, <2>3 DEF Settled
  <1>9. ASSUME DisconnectClient \/ DisconnectFails \/ DisconnectAgain PROVE FALSE
    BY <1>9, <1>e DEF DisconnectClient, DisconnectFails, DisconnectAgain
  <1>8. CASE UNCHANGED producerVars
    BY <1>8 DEF producerVars, Settled, Alone, UnderWay
  <1> QED
    BY <1>b, <1>1, <1>2, <1>3, <1>4, <1>5, <1>6, <1>7, <1>8, <1>9 DEF ProducerNext

LEMMA ProducerCacheStep == ProducerInv /\ [ProducerNext]_producerVars => ProducerInv'
  <1> SUFFICES ASSUME ProducerInv, [ProducerNext]_producerVars PROVE ProducerInv'
    OBVIOUS
  <1>1. publishFn' = publishFn
    BY Zenon DEF ProducerNext, producerVars, Begin, Lookup, SendCached, Replace, Create, RetrySend,
         Store, DisconnectProducers, DisconnectClient, DisconnectFails, DisconnectAgain
  <1> QED
    BY <1>1, ProducerTypesStep, KeptOpenStep, SettledStep DEF ProducerInv

\* The producer caches of the drivers: however publishers overlap, and even
\* after Disconnect, a driver that never replaces a producer keeps one open;
\* one that closes failed replacements does so when calls do not overlap.
THEOREM CachedProducers == ProducerSpec => []OneProducerPerTopic
  <1>1. ProducerInv => OneProducerPerTopic
    BY DEF ProducerInv, ProducerTypes, OneProducerPerTopic, KeptOpen, Settled, Alone, Crashed,
         UnderWay, Over
  <1> QED
    BY <1>1, ProducerStart, ProducerCacheStep, PTL DEF ProducerSpec
=============================================================================
