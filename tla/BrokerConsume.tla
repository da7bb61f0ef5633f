--------------------------- MODULE BrokerConsume ----------------------------
(***************************************************************************)
(* How the drivers under broker/ hand a message to the application: what a *)
(* decoding error, a handler error and a success do to the message at the  *)
(* broker, and which of them reach the ErrorHandler.                       *)
(*                                                                         *)
(* Each driver's message callback is a record of its decisions:            *)
(*   early       the broker forgets the message when it delivers it        *)
(*   decode, fail  after a decoding or handler error: told, the            *)
(*               ErrorHandler is called, and what becomes of the message   *)
(*               ("finish": settled for good, "nack": given back,          *)
(*               "keep": left unsettled, "retry": its batch is given back) *)
(*   expiry      an unsettled message comes back after a timeout           *)
(*   cumulative  an acknowledgement covers all earlier messages            *)
(*   batch       one answer settles all the messages of a batch            *)
(* AutoAck is on; the application's ErrorHandler and Binder are set.       *)
(*                                                                         *)
(* The second part is the goroutine behind a subscription, the third the   *)
(* reconnection of RabbitMQ.                                               *)
(* Definitions named Mutant... are faulty variants of the one after them.  *)
(***************************************************************************)
EXTENDS Integers, Sequences, SequencesExt, FiniteSetsExt, FiniteSets

CONSTANTS Messages,   \* offsets: a finite set of integers
          Workers,    \* goroutines or processes that consume
          MaxFaults   \* handler errors, failed acks, late answers, crashes

Told(then)   == [told |-> TRUE, then |-> then]
Untold(then) == [told |-> FALSE, then |-> then]

OnError(outcome) == [early |-> FALSE, decode |-> outcome, fail |-> outcome,
                     expiry |-> FALSE, cumulative |-> FALSE, batch |-> FALSE]
Expiring(outcome) == [OnError(outcome) EXCEPT !.expiry = TRUE]
AtMostOnce == [OnError(Told("finish")) EXCEPT !.early = TRUE]

KafkaHandle     == [OnError(Told("keep")) EXCEPT !.cumulative = TRUE]
NatsHandle      == AtMostOnce
JetStreamHandle == Expiring(Told("nack"))
RabbitHandle(ackSuccess, requeueOnError) ==
    IF ~ackSuccess THEN AtMostOnce
    ELSE OnError(Told(IF requeueOnError THEN "nack" ELSE "finish"))
RedisPubSubOnMessage == AtMostOnce
RedisStreamOnMessage == OnError(Told("keep"))
RedisStreamClaimPending(callback) == [callback EXCEPT !.expiry = TRUE]
MqttCallback    == OnError(Told("finish"))
PulsarHandle    == OnError(Told("nack"))
NsqHandle       == Expiring(Told("finish"))
NsqBuildHandler == Expiring(Told("finish"))
StompHandle(ackSuccess) == IF ackSuccess THEN OnError(Told("nack")) ELSE AtMostOnce
SqsProcess      == Expiring(Told("keep"))
MutantGcpHandle == [Expiring(Told("nack")) EXCEPT !.decode = Untold("finish")]
GcpHandle       == [Expiring(Told("nack")) EXCEPT !.decode = Untold("nack")]
AzureProcess    == Expiring(Told("nack"))
AliyunConsume   == Expiring(Told("keep"))
RocketV2Handle  == [OnError(Told("retry")) EXCEPT !.decode = Untold("retry"),
                                                  !.batch = TRUE]
RocketV5OnMessage == Expiring(Told("keep"))

AllCallbacks ==
    {KafkaHandle, NatsHandle, JetStreamHandle, RedisPubSubOnMessage,
     RedisStreamClaimPending(RedisStreamOnMessage), MqttCallback, PulsarHandle,
     NsqHandle, NsqBuildHandler, SqsProcess, GcpHandle, AzureProcess,
     AliyunConsume, RocketV2Handle, RocketV5OnMessage}
    \cup {RabbitHandle(a, r) : a \in BOOLEAN, r \in BOOLEAN}
    \cup {StompHandle(a) : a \in BOOLEAN}

VARIABLES callback,   \* the driver's decisions
          poison,     \* the messages that cannot be decoded
          queue,      \* the broker: messages waiting, in order,
          out,        \*   delivered and not settled,
          gone,       \*   settled
          work,       \* what each worker is doing
          faults,
          handled,    \* history: messages a handler accepted
          told,       \* history: messages the ErrorHandler was given
          deliveries  \* history: were any delivered twice?

deliveryVars == <<callback, poison, queue, out, gone, work, faults, handled,
                  told, deliveries>>

Free == [batch |-> <<>>, at |-> 1, acking |-> FALSE, failed |-> FALSE]

DeliveryInit ==
    /\ callback \in AllCallbacks
    /\ poison \in SUBSET Messages
    /\ queue = SetToSortSeq(Messages, <)
    /\ out = {} /\ gone = {}
    /\ work = [w \in Workers |-> Free]
    /\ faults = 0 /\ handled = {} /\ told = {}
    /\ deliveries = [m \in Messages |-> 0]

Busy(w)    == work[w].batch # <<>>
Current(w) == work[w].batch[work[w].at]
Held(w)    == ToSet(work[w].batch)

(* The broker hands over the oldest messages; one consumer reads a Kafka   *)
(* partition at a time.                                                    *)
Deliver(w) ==
    /\ ~Busy(w) /\ queue # <<>>
    /\ callback.cumulative => \A v \in Workers : ~Busy(v)
    /\ \E n \in 1..(IF callback.batch THEN Len(queue) ELSE 1) :
         LET batch == SubSeq(queue, 1, n)
         IN  /\ work' = [work EXCEPT ![w] = [Free EXCEPT !.batch = batch]]
             /\ queue' = SubSeq(queue, n + 1, Len(queue))
             /\ IF callback.early THEN gone' = gone \cup ToSet(batch) /\ out' = out
                                  ELSE out' = out \cup ToSet(batch) /\ gone' = gone
             /\ deliveries' = [m \in Messages |->
                   IF m \in ToSet(batch) /\ deliveries[m] < 2
                   THEN deliveries[m] + 1 ELSE deliveries[m]]
    /\ UNCHANGED <<callback, poison, faults, handled, told>>

(* The worker goes on with the next message of its batch, if there is one. *)
Onward(w, failed) ==
    IF callback.batch \/ work[w].at < Len(work[w].batch)
    THEN [work[w] EXCEPT !.at = @ + 1, !.acking = FALSE, !.failed = @ \/ failed]
    ELSE Free

GiveBack(S) == /\ queue' = queue \o SetToSortSeq(S \cap out, <)
               /\ out' = out \ S

ApplyOutcome(w, outcome) ==
    LET m == Current(w)
    IN  /\ told' = IF outcome.told THEN told \cup {m} ELSE told
        /\ work' = [work EXCEPT ![w] = Onward(w, TRUE)]
        /\ CASE outcome.then = "finish" -> /\ gone' = gone \cup {m}
                                           /\ out' = out \ {m}
                                           /\ queue' = SelectSeq(queue, LAMBDA x : x # m)
             [] outcome.then = "nack"   -> GiveBack({m}) /\ gone' = gone
             [] OTHER                   -> UNCHANGED <<queue, out, gone>>

Processing(w) == /\ Busy(w) /\ ~work[w].acking
                 /\ work[w].at <= Len(work[w].batch)

DecodeError(w) ==
    /\ Processing(w) /\ Current(w) \in poison
    /\ ApplyOutcome(w, callback.decode)
    /\ UNCHANGED <<callback, poison, faults, handled, deliveries>>

HandlerError(w) ==
    /\ Processing(w) /\ Current(w) \notin poison /\ faults < MaxFaults
    /\ faults' = faults + 1
    /\ ApplyOutcome(w, callback.fail)
    /\ UNCHANGED <<callback, poison, handled, deliveries>>

HandlerSuccess(w) ==
    /\ Processing(w) /\ Current(w) \notin poison
    /\ handled' = handled \cup {Current(w)}
    /\ work' = [work EXCEPT ![w].acking = TRUE]
    /\ UNCHANGED <<callback, poison, queue, out, gone, faults, told, deliveries>>

(* The acknowledgement after a success; when it fails, the message stays   *)
(* unsettled.  In a batch the answer for all comes last.                   *)
Settle(S) ==
    LET acked == IF callback.cumulative
                 THEN {x \in Messages : \E m \in S : x <= m} ELSE S
    IN  /\ gone' = gone \cup acked
        /\ out' = out \ acked
        /\ queue' = SelectSeq(queue, LAMBDA x : x \notin acked)

Ack(w) ==
    /\ work[w].acking
    /\ work' = [work EXCEPT ![w] = Onward(w, FALSE)]
    /\ IF callback.batch \/ callback.early THEN UNCHANGED <<queue, out, gone>>
                                           ELSE Settle({Current(w)})
    /\ UNCHANGED <<callback, poison, faults, handled, told, deliveries>>

AckError(w) ==
    /\ work[w].acking /\ ~callback.early /\ ~callback.batch
    /\ faults < MaxFaults
    /\ faults' = faults + 1
    /\ work' = [work EXCEPT ![w] = Onward(w, TRUE)]
    /\ UNCHANGED <<callback, poison, queue, out, gone, handled, told, deliveries>>

AnswerBatch(w) ==
    /\ Busy(w) /\ work[w].at > Len(work[w].batch)
    /\ work' = [work EXCEPT ![w] = Free]
    /\ IF work[w].failed THEN GiveBack(Held(w)) /\ gone' = gone
                         ELSE Settle(Held(w))
    /\ UNCHANGED <<callback, poison, faults, handled, told, deliveries>>

(* The broker's timeout: of a message nobody works on, or, as a fault, of  *)
(* one whose worker is late.                                               *)
Expire(m) ==
    /\ callback.expiry /\ m \in out
    /\ \A w \in Workers : m \notin Held(w)
    /\ GiveBack({m})
    /\ UNCHANGED <<callback, poison, gone, work, faults, handled, told, deliveries>>

ExpireEarly(w, m) ==
    /\ callback.expiry /\ m \in out \cap Held(w) /\ faults < MaxFaults
    /\ faults' = faults + 1
    /\ GiveBack({m})
    /\ UNCHANGED <<callback, poison, gone, work, handled, told, deliveries>>

(* A consumer dies or loses its connection; without a timeout the broker   *)
(* gives back at once what it had not settled.                             *)
Crash(w) ==
    /\ faults < MaxFaults
    /\ faults' = faults + 1
    /\ work' = [work EXCEPT ![w] = Free]
    /\ IF callback.expiry THEN UNCHANGED <<queue, out>>
       ELSE LET back == out \ UNION {Held(v) : v \in Workers \ {w}}
            IN  /\ queue' = SetToSortSeq(back, <) \o queue
                /\ out' = out \ back
    /\ UNCHANGED <<callback, poison, gone, handled, told, deliveries>>

Work(w) == \/ DecodeError(w) \/ HandlerError(w) \/ HandlerSuccess(w)
           \/ Ack(w) \/ AckError(w) \/ AnswerBatch(w)

DeliveryNext ==
    \/ \E w \in Workers : Deliver(w) \/ Work(w) \/ Crash(w)
    \/ \E m \in Messages : Expire(m) \/ \E w \in Workers : ExpireEarly(w, m)

DeliverySpec ==
    /\ DeliveryInit /\ [][DeliveryNext]_deliveryVars
    /\ \A w \in Workers : WF_deliveryVars(Deliver(w)) /\ WF_deliveryVars(Work(w))
    /\ \A m \in Messages : WF_deliveryVars(Expire(m))

-----------------------------------------------------------------------------
(* What a driver promises of every message, through errors, crashes, late  *)
(* answers and failed acknowledgements: a driver that lets the broker      *)
(* forget early never delivers twice; with any other, a message is settled *)
(* only after a handler accepted it or the ErrorHandler was given it (the  *)
(* callbacks of broker/*/, e.g. pulsar.go:373-422, sqs/subscriber.go:112). *)
DeliveryContract ==
    IF callback.early THEN \A m \in Messages : deliveries[m] <= 1
                      ELSE gone \subseteq handled \cup told

(* A driver that gives a failed message back, or lets it expire, delivers  *)
(* until a handler accepts it: a message that can be decoded is eventually *)
(* handled, whatever undecodable ones are queued with it.                  *)
Redelivers == \/ callback.fail.then \in {"nack", "retry"}
              \/ callback.fail.then = "keep" /\ callback.expiry

AllHandled ==
    ~callback.early /\ Redelivers => Messages \ poison \subseteq handled
EventuallyHandled == <>[]AllHandled

-----------------------------------------------------------------------------
(***************************************************************************)
(* The goroutine behind one subscription of a broker driver: it receives   *)
(* until the subscription is closed, survives the outages of the broker,   *)
(* and races with Unsubscribe.  Each loop is a record of its decisions:    *)
(*   own     it opens a handle (channel, connection, route) of its own for *)
(*           each connection, which Unsubscribe closes if it is there;     *)
(*           otherwise it polls, and looks at closed before every poll     *)
(*   fatal   the errors after which it gives up                            *)
(*   early   it is started before the client it reads is assigned, and     *)
(*           ends when it finds none                                       *)
(***************************************************************************)

CONSTANT MaxOutages  \* outages of the broker explored

Polls == [own |-> FALSE, fatal |-> {}, early |-> FALSE]
Opens == [Polls EXCEPT !.own = TRUE]

KafkaSingle      == [Polls EXCEPT !.fatal = {"permanent"}]
KafkaBatch       == [Polls EXCEPT !.fatal = {"permanent"}]
RabbitResubscribe == Opens
RedisPubSubRecv  == Opens
RedisStreamRecv  == Polls
JetStreamPull    == Polls
MqttOnConnect    == Opens
SqsRecv          == Polls
GcpReceive       == Polls
AzureReceive     == Polls
AliyunDoConsume  == Polls
RocketV5Run      == [Polls EXCEPT !.early = TRUE]

AllLoops == {KafkaSingle, KafkaBatch, RabbitResubscribe, RedisPubSubRecv,
             RedisStreamRecv, JetStreamPull, MqttOnConnect, SqsRecv,
             GcpReceive, AzureReceive, AliyunDoConsume, RocketV5Run}

VARIABLES loop,      \* the loop's decisions
          link,      \* is the broker reachable?
          error,     \* the kind of error the current outage shows
          outages,
          loopClosed,    \* Unsubscribe was called
          handle,    \* "none", "open", or "dead"
          loopPc     \* "start", "look", "open", "receive", "exit"

loopVars == <<loop, link, error, outages, loopClosed, handle, loopPc>>

LoopInit ==
    /\ loop \in AllLoops
    /\ link = TRUE /\ error = "temporary" /\ outages = 0
    /\ loopClosed = FALSE /\ handle = "none" /\ loopPc = "start"

(* Subscribe starts the goroutine.                                         *)
LoopStart ==
    /\ loopPc = "start"
    /\ \/ loopPc' = "look"
       \/ loop.early /\ loopPc' = "exit"
    /\ UNCHANGED <<loop, link, error, outages, loopClosed, handle>>

(* The top of the loop: IsClosed, or a cancelled context.                  *)
LookClosed ==
    /\ loopPc = "look"
    /\ loopPc' = IF loopClosed THEN "exit" ELSE IF loop.own THEN "open" ELSE "receive"
    /\ UNCHANGED <<loop, link, error, outages, loopClosed, handle>>

MutantOpenHandle ==
    /\ loopPc = "open"
    /\ IF link THEN handle' = "open" /\ loopPc' = "receive"
               ELSE handle' = "none" /\ loopPc' = "exit"
    /\ UNCHANGED <<loop, link, error, outages, loopClosed>>

(* Consume, reconnect or doSubscribe; a failure is retried after a pause.  *)
OpenHandle ==
    /\ loopPc = "open"
    /\ IF link THEN handle' = "open" /\ loopPc' = "receive"
               ELSE handle' = "none" /\ loopPc' = "look"
    /\ UNCHANGED <<loop, link, error, outages, loopClosed>>

(* Receiving ends when the handle is gone, at an error, or between polls.  *)
ReceiveEnds ==
    /\ loopPc = "receive"
    /\ IF loop.own
       THEN handle # "open" /\ loopPc' = "look"
       ELSE /\ loopClosed \/ ~link
            /\ loopPc' = IF ~link /\ error \in loop.fatal THEN "exit" ELSE "look"
    /\ UNCHANGED <<loop, link, error, outages, loopClosed, handle>>

CloseSubscription ==
    /\ ~loopClosed
    /\ loopClosed' = TRUE
    /\ handle' = IF handle = "open" THEN "dead" ELSE handle
    /\ UNCHANGED <<loop, link, error, outages, loopPc>>

LinkDown ==
    /\ link /\ outages < MaxOutages
    /\ link' = FALSE /\ outages' = outages + 1
    /\ error' \in {"temporary", "permanent"}
    /\ handle' = IF handle = "open" THEN "dead" ELSE handle
    /\ UNCHANGED <<loop, loopClosed, loopPc>>

LinkUp ==
    /\ ~link
    /\ link' = TRUE
    /\ UNCHANGED <<loop, error, outages, loopClosed, handle, loopPc>>

LoopStep == LoopStart \/ LookClosed \/ OpenHandle \/ ReceiveEnds

LoopNext == LoopStep \/ CloseSubscription \/ LinkDown \/ LinkUp

(* The scheduler runs the goroutine, and the broker comes back.            *)
LoopFairness == WF_loopVars(LoopStep) /\ WF_loopVars(LinkUp)

LoopSpec == LoopInit /\ [][LoopNext]_loopVars /\ LoopFairness

-----------------------------------------------------------------------------
Consuming == loopPc = "receive" /\ link /\ (loop.own => handle = "open")

(* A closed subscription stops for good: the goroutine of every polling    *)
(* loop ends after Unsubscribe, during an outage too (kafka/subscriber.go: *)
(* 234-268, redis/stream/subscriber.go:76-110, sqs/subscriber.go:63-110).  *)
(* A loop with a handle of its own can open it after Unsubscribe looked    *)
(* for one (rabbitmq/subscriber.go:78-131) and is left out.                *)
ClosedStops == loopClosed /\ ~loop.own => loopPc = "exit"

(* Until it is closed, a subscription survives every outage: once the      *)
(* broker stays reachable it consumes again, for good.  Left out are errors*)
(* the loop takes as final (kafka/subscriber.go:369-374) and the loop that *)
(* can end before its client is assigned (rocketmq-clients/rocketmq.go:493,*)
(* 501).                                                                   *)
SurvivesOutages ==
    ~loop.early /\ loop.fatal = {} /\ link /\ ~loopClosed => Consuming

LoopsSettle == <>[](ClosedStops /\ SurvivesOutages)

-----------------------------------------------------------------------------
(***************************************************************************)
(* broker/rabbitmq/connection.go: one rabbitConnection, the application    *)
(* that calls Connect and Close on it, and the reconnect goroutines, each  *)
(* of which watches a connection and dials again when it breaks.  Dialling *)
(* happens outside the mutex and is a step of its own.                     *)
(***************************************************************************)

CONSTANTS MaxDials,    \* connections dialled
          MaxDrops     \* failures of the network or of a channel, and calls of Close

Goroutines == 1..MaxDials   \* each successful Connect starts one

VARIABLES network,     \* can the server be dialled?
          drops,
          alive,       \* connections open at the server
          current,     \* r.Connection, 0 for nil
          dials,       \* number of connections dialled
          connected,   \* r.connected
          closeClosed, \* r.close is closed
          waitClosed,  \* r.waitConnection is closed
          app,         \* the application: "idle", "dialled", or "up" once Connect returned nil
          goroutine,   \* each reconnect goroutine
          panicked,    \* a closed channel was closed again
          outlived     \* history: a goroutine was not waiting when Close was called

rabbitVars == <<network, drops, alive, current, dials, connected, closeClosed,
                waitClosed, app, goroutine, panicked, outlived>>

RabbitInit ==
    /\ network = TRUE /\ drops = 0
    /\ alive = {} /\ current = 0 /\ dials = 0
    /\ connected = FALSE /\ closeClosed = FALSE /\ waitClosed = FALSE
    /\ app = "idle"
    /\ goroutine = [g \in Goroutines |-> [pc |-> "none", watches |-> 0]]
    /\ panicked = FALSE /\ outlived = FALSE

(* tryConnect assigns r.Connection outside the lock: nil when it cannot    *)
(* dial.  When no channel can be opened it fails too, and leaves the       *)
(* connection open.                                                        *)
Dial ==
    /\ network /\ dials < MaxDials
    /\ dials' = dials + 1
    /\ current' = dials + 1
    /\ alive' = alive \cup {dials + 1}
TryConnect == Dial /\ UNCHANGED drops
TryConnectFails ==
    \/ ~network /\ current' = 0 /\ UNCHANGED <<alive, dials, drops>>
    \/ Dial /\ drops < MaxDrops /\ drops' = drops + 1

(* connected, then close(r.waitConnection).                                *)
Publish ==
    /\ connected' = TRUE
    /\ waitClosed' = TRUE
    /\ panicked' = waitClosed

(* The application connects until it succeeds, and again after Close only, *)
(* as the server's started flag makes Start do.                            *)
RabbitConnect ==
    /\ ~panicked /\ app = "idle"
    /\ \/ /\ connected /\ app' = "up"
          /\ UNCHANGED <<drops, alive, current, dials, closeClosed>>
       \/ ~connected /\ TryConnect /\ closeClosed' = FALSE /\ app' = "dialled"
       \/ ~connected /\ TryConnectFails /\ closeClosed' = FALSE /\ UNCHANGED app
    /\ UNCHANGED <<network, connected, waitClosed, goroutine, panicked, outlived>>

RabbitConnected ==
    /\ ~panicked /\ app = "dialled"
    /\ Publish
    /\ app' = "up"
    /\ LET new == CHOOSE g \in Goroutines : goroutine[g].pc = "none"
       IN  goroutine' = [goroutine EXCEPT ![new].pc = "arm"]
    /\ UNCHANGED <<network, drops, alive, current, dials, closeClosed, outlived>>

(* reconnect: the select on the end of r.Connection, which another call    *)
(* may have set to nil by now, and on r.close.                             *)
Arm(g) ==
    /\ ~panicked /\ goroutine[g].pc = "arm"
    /\ goroutine' = [goroutine EXCEPT ![g] = [pc |-> "watch", watches |-> current]]
    /\ panicked' = (current = 0)
    /\ UNCHANGED <<network, drops, alive, current, dials, connected, closeClosed,
                   waitClosed, app, outlived>>

MutantNoticeDrop(g) ==
    /\ ~panicked /\ goroutine[g].pc = "watch" /\ goroutine[g].watches \notin alive
    /\ connected' = FALSE
    /\ goroutine' = [goroutine EXCEPT ![g].pc = "retry"]
    /\ UNCHANGED <<network, drops, alive, current, dials, closeClosed, waitClosed, app,
                   panicked, outlived>>
NoticeDrop(g) ==
    /\ ~panicked /\ goroutine[g].pc = "watch" /\ goroutine[g].watches \notin alive
    /\ connected' = FALSE
    /\ waitClosed' = FALSE
    /\ goroutine' = [goroutine EXCEPT ![g].pc = "retry"]
    /\ UNCHANGED <<network, drops, alive, current, dials, closeClosed, app,
                   panicked, outlived>>

NoticeClose(g) ==
    /\ ~panicked /\ goroutine[g].pc = "watch" /\ closeClosed
    /\ goroutine' = [goroutine EXCEPT ![g].pc = "none"]
    /\ UNCHANGED <<network, drops, alive, current, dials, connected, closeClosed,
                   waitClosed, app, panicked, outlived>>

(* reconnect: the loop of dials, which does not look at r.close.           *)
Redial(g) ==
    /\ ~panicked /\ goroutine[g].pc = "retry"
    /\ \/ TryConnect /\ goroutine' = [goroutine EXCEPT ![g].pc = "redialled"]
       \/ TryConnectFails /\ UNCHANGED goroutine
    /\ UNCHANGED <<network, connected, closeClosed, waitClosed, app, panicked,
                   outlived>>

Redialled(g) ==
    /\ ~panicked /\ goroutine[g].pc = "redialled"
    /\ Publish
    /\ goroutine' = [goroutine EXCEPT ![g].pc = "arm"]
    /\ UNCHANGED <<network, drops, alive, current, dials, closeClosed, app,
                   outlived>>

(* Close wakes the goroutines that wait in the select on an open           *)
(* connection: r.close is closed before the connection is.                 *)
Waits(g) == goroutine[g].pc = "watch" /\ goroutine[g].watches \in alive
RabbitClose ==
    /\ ~panicked /\ app # "dialled" /\ ~closeClosed /\ app' = "idle"
    /\ drops < MaxDrops /\ drops' = drops + 1
    /\ closeClosed' = TRUE
    /\ outlived' = (outlived \/ \E g \in Goroutines : goroutine[g].pc # "none" /\ ~Waits(g))
    /\ connected' = FALSE
    /\ waitClosed' = FALSE
    /\ alive' = alive \ {current}
    /\ goroutine' = [g \in Goroutines |->
          IF Waits(g) THEN [goroutine[g] EXCEPT !.pc = "none"] ELSE goroutine[g]]
    /\ UNCHANGED <<network, current, dials, panicked>>

NetworkDown ==
    /\ ~panicked /\ network /\ drops < MaxDrops
    /\ drops' = drops + 1
    /\ network' = FALSE
    /\ alive' = {}
    /\ UNCHANGED <<current, dials, connected, closeClosed, waitClosed, app,
                   goroutine, panicked, outlived>>

NetworkUp ==
    /\ ~panicked /\ ~network
    /\ network' = TRUE
    /\ UNCHANGED <<drops, alive, current, dials, connected, closeClosed,
                   waitClosed, app, goroutine, panicked, outlived>>

Reconnect(g) == \/ Arm(g) \/ NoticeDrop(g) \/ NoticeClose(g)
                \/ Redial(g) \/ Redialled(g)

RabbitNext ==
    \/ RabbitConnect \/ RabbitConnected \/ RabbitClose
    \/ \E g \in Goroutines : Reconnect(g)
    \/ NetworkDown \/ NetworkUp

(* The goroutines run, Connect returns, and the network comes back.        *)
RabbitFairness ==
    /\ WF_rabbitVars(RabbitConnected) /\ WF_rabbitVars(NetworkUp)
    /\ \A g \in Goroutines : WF_rabbitVars(Reconnect(g))

RabbitSpec == RabbitInit /\ [][RabbitNext]_rabbitVars /\ RabbitFairness

-----------------------------------------------------------------------------
(* An established connection that is not closed survives every failure of  *)
(* the network or of a channel: reconnect (connection.go:176-214) ends     *)
(* with r.Connection open at the server and announced to the subscribers,  *)
(* and a closed one stays closed, unless Close overlapped a reconnection:  *)
(* that goroutine does not look at r.close while it dials.                 *)
Reconnected ==
    outlived \/ (/\ ~panicked
                 /\ IF app = "up" THEN current \in alive /\ connected /\ waitClosed
                                  ELSE ~connected)
Reconnects == <>[]Reconnected
=============================================================================
