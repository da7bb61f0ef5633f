---------------------------- MODULE BrokerServer ----------------------------
(***************************************************************************)
(* The broker servers transport/<broker>/server.go: a lifecycle (Start,    *)
(* Stop) and a registration surface (RegisterSubscriber) around a broker   *)
(* driver.  Start, Stop and any number of registrations run concurrently;  *)
(* the server's mutex covers single blocks only, and Subscribe, Unsubscribe*)
(* and Disconnect run outside it, so each block is one action.             *)
(*                                                                         *)
(* The twelve servers run the same code up to one decision of Start: after *)
(* a failed subscription nine of them roll back through Stop, three keep   *)
(* the error in s.err and stay started.                                    *)
(*                                                                         *)
(* The first part of the module is the subscription side of the drivers    *)
(* under broker/, the last request-reply over a driver.                    *)
(* Definitions named Mutant... are faulty variants of the one after them.  *)
(***************************************************************************)
EXTENDS Naturals, Sequences, FiniteSets

CONSTANTS Topics,       \* the topics subscribers are registered for
          None,         \* Go's nil Subscriber
          Registrars,   \* goroutines that call RegisterSubscriber
          MaxFailures,  \* refusals of the broker explored
          MaxCalls      \* calls of Start and RegisterSubscriber explored

-----------------------------------------------------------------------------
(***************************************************************************)
(* Every driver implements Connect, Subscribe, Unsubscribe and Disconnect  *)
(* over a SubscriberSyncMap (broker/subscriber.go), the "manager", which   *)
(* holds one Subscriber per topic.  The drivers differ in a few decisions  *)
(* only; each of their four methods is the record of its decisions.        *)
(*                                                                         *)
(* Connect                                                                 *)
(*   refusable    it can return an error                                   *)
(*   opens        it opens the subscribers that are already managed        *)
(*   onConnect    a goroutine opens what is managed later, closed or not   *)
(* Subscribe                                                               *)
(*   order        its steps: "enter" checks the client, "open" starts the  *)
(*                consumer at the broker, "replace" unsubscribes the       *)
(*                topic's managed subscriber, "add" manages the new one    *)
(*   fails        the steps the broker can refuse                          *)
(*   needsClient  "open" fails while the client is down                    *)
(*   detached     a goroutine consumes later, and looks at the Subscriber's*)
(*                closed flag only before it does                          *)
(* Unsubscribe                                                             *)
(*   topicScoped  it ends the client's consumption of the topic, whichever *)
(*                Subscriber object it is called on                        *)
(*   once         a second call returns early                              *)
(* Disconnect                                                              *)
(*   guarded      it returns early when the client is down                 *)
(*   clears       it calls subscribers.Clear()                             *)
(*   kills        closing the client ends every consumer opened on it      *)
(*   poisons      a consumer opened after it never receives                *)
(***************************************************************************)
Checked   == <<"enter", "open", "replace", "add">>
Unchecked == <<"open", "replace", "add">>

Connects    == [refusable |-> TRUE, opens |-> FALSE, onConnect |-> FALSE]
OnClient    == [order |-> Checked, fails |-> {"open"}, needsClient |-> TRUE,
                detached |-> FALSE]
OnItsOwn    == [OnClient EXCEPT !.needsClient = FALSE]
Ends        == [topicScoped |-> FALSE, once |-> FALSE]
Closes      == [guarded |-> TRUE, clears |-> TRUE, kills |-> TRUE,
                poisons |-> FALSE]
ClosesPool  == [Closes EXCEPT !.kills = FALSE]

KafkaConnect         == Connects
KafkaSubscribe       == [OnItsOwn EXCEPT !.order = Unchecked, !.fails = {}]
KafkaUnsubscribe     == [Ends EXCEPT !.once = TRUE]
KafkaDisconnect      == ClosesPool

NatsConnect          == Connects
NatsSubscribe        == [OnClient EXCEPT !.order = Unchecked]
NatsUnsubscribe      == Ends
NatsDisconnect       == [Closes EXCEPT !.guarded = FALSE]

JetStreamConnect     == Connects
JetStreamSubscribe   == [OnClient EXCEPT !.order = Unchecked]
JetStreamDisconnect  == [Closes EXCEPT !.guarded = FALSE]

RabbitConnect        == Connects
RabbitSubscribe      == [OnClient EXCEPT !.order = <<"replace", "add", "open">>,
                                         !.detached = TRUE]
RabbitUnsubscribe    == Ends
RabbitDisconnect     == [Closes EXCEPT !.guarded = FALSE]

RedisPubSubConnect   == [Connects EXCEPT !.refusable = FALSE]
RedisPubSubSubscribe == OnClient
RedisPubSubUnsubscribe == Ends
RedisPubSubDisconnect == ClosesPool

RedisStreamConnect   == [Connects EXCEPT !.refusable = FALSE]
RedisStreamSubscribe == [OnItsOwn EXCEPT
                            !.order = <<"enter", "replace", "add", "open">>,
                            !.fails = {"enter"}]
RedisStreamUnsubscribe == Ends
RedisStreamDisconnect == ClosesPool

PulsarConnect        == Connects
PulsarSubscribe      == OnClient
PulsarUnsubscribe    == [Ends EXCEPT !.once = TRUE]
PulsarDisconnect     == Closes

StompConnect         == Connects
StompSubscribe       == [OnClient EXCEPT !.order = Unchecked]
StompUnsubscribe     == Ends
StompDisconnect      == [Closes EXCEPT !.guarded = FALSE]

MqttConnect          == [Connects EXCEPT !.onConnect = TRUE]
MqttSubscribe        == [OnClient EXCEPT
                            !.order = <<"enter", "replace", "open", "add">>]
MqttUnsubscribe      == [Ends EXCEPT !.topicScoped = TRUE]
MqttDisconnect       == Closes

NsqConnect           == [Connects EXCEPT !.opens = TRUE]
NsqSubscribe         == [OnItsOwn EXCEPT !.order = Unchecked]
NsqUnsubscribe       == Ends
NsqDisconnect        == ClosesPool

SqsConnect           == Connects
SqsSubscribe         == [OnItsOwn EXCEPT !.fails = {}]
SqsUnsubscribe       == Ends
SqsDisconnect        == ClosesPool

GcpConnect           == Connects
GcpSubscribe         == [OnItsOwn EXCEPT !.fails = {}]
GcpUnsubscribe       == Ends
GcpDisconnect        == Closes

AzureConnect         == Connects
AzureSubscribe       == OnClient
AzureUnsubscribe     == Ends
AzureDisconnect      == Closes

AliyunConnect        == [Connects EXCEPT !.refusable = FALSE]
AliyunSubscribe      == [OnItsOwn EXCEPT !.order = <<"enter", "open">>,
                                         !.fails = {}]
AliyunUnsubscribe    == [Ends EXCEPT !.once = TRUE]
AliyunDisconnect     == [ClosesPool EXCEPT !.clears = FALSE]

RocketV2Connect      == [Connects EXCEPT !.refusable = FALSE]
RocketV2Subscribe    == [OnItsOwn EXCEPT !.order = Unchecked]
RocketV2Unsubscribe  == Ends
RocketV2Disconnect   == [ClosesPool EXCEPT !.clears = FALSE]

RocketV5Connect      == [Connects EXCEPT !.refusable = FALSE]
RocketV5Subscribe    == [OnItsOwn EXCEPT !.order = <<"open", "add">>]
RocketV5Unsubscribe  == [topicScoped |-> TRUE, once |-> TRUE]
RocketV5Disconnect   == [Closes EXCEPT !.clears = FALSE, !.poisons = TRUE]

Driver(connect, subscribe, unsubscribe, disconnect) ==
    [connect |-> connect, subscribe |-> subscribe,
     unsubscribe |-> unsubscribe, disconnect |-> disconnect]

Kafka       == Driver(KafkaConnect, KafkaSubscribe, KafkaUnsubscribe, KafkaDisconnect)
Nats        == Driver(NatsConnect, NatsSubscribe, NatsUnsubscribe, NatsDisconnect)
JetStream   == Driver(JetStreamConnect, JetStreamSubscribe, NatsUnsubscribe,
                      JetStreamDisconnect)
Rabbit      == Driver(RabbitConnect, RabbitSubscribe, RabbitUnsubscribe,
                      RabbitDisconnect)
RedisPubSub == Driver(RedisPubSubConnect, RedisPubSubSubscribe,
                      RedisPubSubUnsubscribe, RedisPubSubDisconnect)
RedisStream == Driver(RedisStreamConnect, RedisStreamSubscribe,
                      RedisStreamUnsubscribe, RedisStreamDisconnect)
Pulsar      == Driver(PulsarConnect, PulsarSubscribe, PulsarUnsubscribe,
                      PulsarDisconnect)
Stomp       == Driver(StompConnect, StompSubscribe, StompUnsubscribe, StompDisconnect)
Mqtt        == Driver(MqttConnect, MqttSubscribe, MqttUnsubscribe, MqttDisconnect)
Nsq         == Driver(NsqConnect, NsqSubscribe, NsqUnsubscribe, NsqDisconnect)
Sqs         == Driver(SqsConnect, SqsSubscribe, SqsUnsubscribe, SqsDisconnect)
Gcp         == Driver(GcpConnect, GcpSubscribe, GcpUnsubscribe, GcpDisconnect)
Azure       == Driver(AzureConnect, AzureSubscribe, AzureUnsubscribe, AzureDisconnect)
Aliyun      == Driver(AliyunConnect, AliyunSubscribe, AliyunUnsubscribe,
                      AliyunDisconnect)
RocketV2    == Driver(RocketV2Connect, RocketV2Subscribe, RocketV2Unsubscribe,
                      RocketV2Disconnect)
RocketV5    == Driver(RocketV5Connect, RocketV5Subscribe, RocketV5Unsubscribe,
                      RocketV5Disconnect)

AllDrivers == {Kafka, Nats, JetStream, Rabbit, RedisPubSub, RedisStream, Pulsar,
               Stomp, Mqtt, Nsq, Sqs, Gcp, Azure, Aliyun, RocketV2, RocketV5}

-----------------------------------------------------------------------------
(* The state d of driver v: up (connected), the manager map, the consumers *)
(* that receive (live), the Subscribers whose closed flag is set, whether  *)
(* the channel that stops the receive loop stays closed (poisoned), and    *)
(* the detached goroutines: started, and past their look at closed; and    *)
(* whether the goroutine of onConnect is under way (reopening).            *)
NewDriver == [up |-> FALSE, manager |-> [t \in Topics |-> None],
              live |-> {}, closed |-> {}, poisoned |-> FALSE,
              spawned |-> {}, unclosed |-> {}, reopening |-> FALSE]

Managed(d) == {d.manager[t] : t \in Topics} \ {None}

UnsubscribeAll(v, d, S) ==
    LET called == IF v.unsubscribe.once THEN S \ d.closed ELSE S
        ends(x) == IF v.unsubscribe.topicScoped
                   THEN \E s \in called : s.topic = x.topic
                   ELSE x \in called
    IN  [d EXCEPT !.closed = @ \cup called, !.live = {x \in @ : ~ends(x)}]

Unsubscribe(v, d, s) == UnsubscribeAll(v, d, {s})

(* SubscriberSyncMap: Clear empties the map, then unsubscribes them all.   *)
Clear(v, d) == UnsubscribeAll(v, [d EXCEPT !.manager = [t \in Topics |-> None]],
                              Managed(d))

Add(d, s) == [d EXCEPT !.manager[s.topic] = s]

RemoveOnly(d, t) == [d EXCEPT !.manager[t] = None]

(* "open": the consumer receives from now on, unless the client it needs   *)
(* is gone.  A topicScoped client has one route per topic.                 *)
Receives(v, d) == /\ ~d.poisoned
                  /\ d.up \/ ~(v.disconnect.kills \/ v.connect.opens)

Open(v, d, s) ==
    IF v.subscribe.detached THEN [d EXCEPT !.spawned = @ \cup {s}]
    ELSE IF ~Receives(v, d) \/ s \in d.closed THEN d
    ELSE [d EXCEPT !.live = {s} \cup IF v.unsubscribe.topicScoped
                                     THEN {x \in @ : x.topic # s.topic}
                                     ELSE @]

(* resubscribe: look at closed, then consume unless the connection closed. *)
LookAtClosed(d, s) ==
    [d EXCEPT !.spawned = @ \ {s},
              !.unclosed = IF s \in d.closed THEN @ ELSE @ \cup {s}]

Consume(d, s) ==
    [d EXCEPT !.unclosed = @ \ {s}, !.live = IF d.up THEN @ \cup {s} ELSE @]

OpenManaged(v, d) ==
    [d EXCEPT !.live = @ \cup IF v.connect.opens THEN Managed(d) \ d.closed
                                                 ELSE {}]

(* onConnect: the broker may refuse some of what it subscribes again.      *)
Reopened(d, S) ==
    [d EXCEPT !.reopening = FALSE,
              !.live = IF d.up THEN S \cup {x \in @ : \A s \in S : s.topic # x.topic} ELSE @]

Connect(v, d) == [OpenManaged(v, d) EXCEPT !.up = TRUE,
                                           !.reopening = @ \/ v.connect.onConnect]

Disconnect(v, d) ==
    IF v.disconnect.guarded /\ ~d.up THEN d
    ELSE LET c == IF v.disconnect.clears THEN Clear(v, d) ELSE d
         IN  [c EXCEPT !.up = FALSE,
                       !.live = IF v.disconnect.kills THEN {} ELSE @,
                       !.poisoned = v.disconnect.poisons]

-----------------------------------------------------------------------------
Starter == "starter"
Stopper == "stopper"
Threads == Registrars \cup {Starter, Stopper}

(* The decisions of each server.  Start: after a failed subscription it   *)
(* rolls back.  Stop: it keeps the options of the registrations.           *)
(* RegisterSubscriber: a stopped server defers.  doRegisterSubscriber: a   *)
(* subscription is recorded only after started is read again under the     *)
(* lock.  doRegisterSubscriberMap: it takes the options out of the map.    *)
RollsBack  == [rollback |-> TRUE]
KeepsError == [rollback |-> FALSE]
Keeps      == [keeps |-> TRUE]
Defers     == [defers |-> TRUE]
Rechecks   == [recheck |-> TRUE]
Takes      == [takes |-> TRUE]

MutantKafkaStop == [keeps |-> FALSE]
KafkaStart == RollsBack
KafkaStop == Keeps
KafkaRegister == Defers
KafkaRecord == Rechecks
KafkaResume == Takes

NatsStart == RollsBack
NatsStop == Keeps
NatsRegister == Defers
NatsRecord == Rechecks
NatsResume == Takes

RedisStart == RollsBack
RedisStop == Keeps
RedisRegister == Defers
RedisRecord == Rechecks
RedisResume == Takes

RabbitStart == RollsBack
RabbitStop == Keeps
RabbitRegister == Defers
RabbitRecord == Rechecks
RabbitResume == Takes

RocketStart == RollsBack
RocketStop == Keeps
RocketRegister == Defers
RocketRecord == Rechecks
RocketResume == Takes

PulsarStart == RollsBack
PulsarStop == Keeps
PulsarRegister == Defers
PulsarRecord == Rechecks
PulsarResume == Takes

MqttStart == RollsBack
MqttStop == Keeps
MqttRegister == Defers
MqttRecord == Rechecks
MqttResume == Takes

NsqStart == RollsBack
NsqStop == Keeps
NsqRegister == Defers
NsqRecord == Rechecks
NsqResume == Takes

SqsStart == RollsBack
SqsStop == Keeps
SqsRegister == Defers
SqsRecord == Rechecks
SqsResume == Takes

ActiveMQStart == KeepsError
ActiveMQStop == Keeps
ActiveMQRegister == Defers
ActiveMQRecord == Rechecks
ActiveMQResume == Takes

GcpStart == KeepsError
GcpStop == Keeps
GcpRegister == Defers
GcpRecord == Rechecks
GcpResume == Takes

AzureStart == KeepsError
AzureStop == Keeps
AzureRegister == Defers
AzureRecord == Rechecks
AzureResume == Takes

Server(start, stop, register, record, resume, driver) ==
    [start |-> start, stop |-> stop, register |-> register, record |-> record,
     resume |-> resume, driver |-> driver]

AllServers ==
    {Server(KafkaStart, KafkaStop, KafkaRegister, KafkaRecord, KafkaResume, Kafka)}
    \cup {Server(NatsStart, NatsStop, NatsRegister, NatsRecord, NatsResume, d) :
            d \in {Nats, JetStream}}
    \cup {Server(RedisStart, RedisStop, RedisRegister, RedisRecord, RedisResume, d) :
            d \in {RedisPubSub, RedisStream}}
    \cup {Server(RabbitStart, RabbitStop, RabbitRegister, RabbitRecord, RabbitResume, Rabbit)}
    \cup {Server(RocketStart, RocketStop, RocketRegister, RocketRecord, RocketResume, d) :
            d \in {Aliyun, RocketV2, RocketV5}}
    \cup {Server(PulsarStart, PulsarStop, PulsarRegister, PulsarRecord, PulsarResume, Pulsar)}
    \cup {Server(MqttStart, MqttStop, MqttRegister, MqttRecord, MqttResume, Mqtt)}
    \cup {Server(NsqStart, NsqStop, NsqRegister, NsqRecord, NsqResume, Nsq)}
    \cup {Server(SqsStart, SqsStop, SqsRegister, SqsRecord, SqsResume, Sqs)}
    \cup {Server(ActiveMQStart, ActiveMQStop, ActiveMQRegister, ActiveMQRecord, ActiveMQResume, Stomp)}
    \cup {Server(GcpStart, GcpStop, GcpRegister, GcpRecord, GcpResume, Gcp)}
    \cup {Server(AzureStart, AzureStop, AzureRegister, AzureRecord, AzureResume, Azure)}

VARIABLES server,     \* the variant
          orderly,    \* Start and RegisterSubscriber are not called while
                      \* another call is in progress (Stop may be)
          drv,        \* the driver's state (BrokerDriver)
          started,    \* s.started
          err,        \* s.err # nil, the sticky error
          opts,       \* the topics of s.subscriberOpts
          subs,       \* s.subscribers
          thread,     \* each goroutine's place in the code
          fresh,      \* the number of Subscriber objects made
          failures, calls,  \* what the bounds count
          wanted,     \* history: topics RegisterSubscriber accepted
          refused     \* history: topics whose Subscribe returned an error

serverVars == <<server, orderly, drv, started, err, opts, subs, thread, fresh,
                failures, calls, wanted, refused>>

fixed   == <<server, orderly>>
table   == <<started, err, opts, subs>>
budget  == <<failures, calls>>
history == <<wanted, refused>>

V == server.driver

Quiet == /\ \A c \in Threads : thread[c].pc = "idle"
         /\ drv.spawned = {} /\ drv.unclosed = {} /\ ~drv.reopening

Idle == [pc |-> "idle", topic |-> None, sub |-> None, old |-> None, step |-> 0,
         todo |-> {}, failed |-> FALSE]

Goto(c, pc) == thread' = [thread EXCEPT ![c].pc = pc]

(* doRegisterSubscriber returns to Start's loop or to the caller.          *)
Returned(c) == IF c = Starter THEN [thread[c] EXCEPT !.pc = "next"] ELSE Idle

ServerInit ==
    /\ server \in AllServers /\ orderly \in BOOLEAN
    /\ drv = NewDriver
    /\ started = FALSE /\ err = FALSE
    /\ opts = {} /\ subs = [t \in Topics |-> None]
    /\ thread = [c \in Threads |-> Idle]
    /\ fresh = 0 /\ failures = 0 /\ calls = 0
    /\ wanted = {} /\ refused = {}

(* Start returns at once on a sticky error and on a running server.        *)
Start ==
    /\ thread[Starter].pc = "idle" /\ calls < MaxCalls
    /\ ~err /\ ~started /\ (orderly => Quiet)
    /\ calls' = calls + 1
    /\ Goto(Starter, "connect")
    /\ UNCHANGED <<fixed, drv, table, fresh, failures, history>>

StartConnect ==
    /\ thread[Starter].pc = "connect"
    /\ \/ /\ drv' = Connect(V, drv)
          /\ Goto(Starter, "mark")
          /\ UNCHANGED <<err, failures>>
       \/ /\ V.connect.refusable /\ failures < MaxFailures
          /\ failures' = failures + 1
          /\ drv' = OpenManaged(V, drv)
          /\ err' = TRUE
          /\ thread' = [thread EXCEPT ![Starter] = Idle]
    /\ UNCHANGED <<fixed, started, opts, subs, fresh, calls, history>>

StartMark ==
    /\ thread[Starter].pc = "mark"
    /\ started' = TRUE
    /\ Goto(Starter, "take")
    /\ UNCHANGED <<fixed, drv, err, opts, subs, fresh, budget, history>>

(* doRegisterSubscriberMap takes the cached registrations out of the map.  *)
TakeOpts ==
    /\ thread[Starter].pc = "take"
    /\ thread' = [thread EXCEPT ![Starter].pc = "next", ![Starter].todo = opts]
    /\ opts' = IF server.resume.takes THEN {} ELSE opts
    /\ UNCHANGED <<fixed, drv, started, err, subs, fresh, budget, history>>

NextTopic ==
    /\ thread[Starter].pc = "next"
    /\ \E t \in thread[Starter].todo :
          thread' = [thread EXCEPT ![Starter] =
                        [@ EXCEPT !.pc = "subscribe", !.topic = t, !.step = 1,
                                  !.todo = @ \ {t}]]
    /\ UNCHANGED <<fixed, drv, table, fresh, budget, history>>

StartEnd ==
    /\ thread[Starter].pc = "next" /\ thread[Starter].todo = {}
    /\ IF thread[Starter].failed /\ server.start.rollback
       THEN Goto(Starter, "stop") /\ UNCHANGED err
       ELSE /\ thread' = [thread EXCEPT ![Starter] = Idle]
            /\ err' = (err \/ thread[Starter].failed)
    /\ UNCHANGED <<fixed, drv, started, opts, subs, fresh, budget, history>>

(* RegisterSubscriber: under the lock, cache the registration of a stopped *)
(* server; a running one registers outside the lock.                       *)
RegisterSubscriber(c, t) ==
    /\ thread[c].pc = "idle" /\ calls < MaxCalls
    /\ orderly => Quiet
    /\ calls' = calls + 1
    /\ IF started \/ ~server.register.defers
       THEN /\ thread' = [thread EXCEPT ![c] = [@ EXCEPT !.pc = "subscribe",
                                                         !.topic = t, !.step = 1]]
            /\ UNCHANGED <<opts, wanted>>
       ELSE /\ opts' = opts \cup {t}
            /\ wanted' = wanted \cup {t}
            /\ UNCHANGED thread
    /\ UNCHANGED <<fixed, drv, started, err, subs, fresh, failures, refused>>

(* One step of the driver's Subscribe.                                     *)
At(c, step) == /\ thread[c].pc = "subscribe"
               /\ V.subscribe.order[thread[c].step] = step

Advance(c) ==
    LET last == thread[c].step = Len(V.subscribe.order)
    IN  [thread[c] EXCEPT !.step = @ + 1, !.pc = IF last THEN "record" ELSE @]

(* Subscribe returned an error: nothing is recorded, not even the options. *)
Refuse(c) ==
    LET t == thread[c].topic
    IN  /\ refused' = refused \cup {t}
        /\ drv' = IF drv.manager[t] = thread[c].sub THEN RemoveOnly(drv, t) ELSE drv
        /\ thread' = [thread EXCEPT ![c] = [Returned(c) EXCEPT
                                               !.failed = (c = Starter),
                                               !.sub = None]]

Refused(c, step) ==
    \/ /\ step = "enter" /\ ~drv.up
       /\ Refuse(c) /\ UNCHANGED failures
    \/ /\ step = "open" /\ V.subscribe.needsClient /\ ~drv.up
       /\ Refuse(c) /\ UNCHANGED failures
    \/ /\ step \in V.subscribe.fails /\ failures < MaxFailures
       /\ Refuse(c) /\ failures' = failures + 1

SubscribeEnter(c) ==
    /\ At(c, "enter")
    /\ \/ Refused(c, "enter")
       \/ /\ drv.up
          /\ thread' = [thread EXCEPT ![c] = Advance(c)]
          /\ UNCHANGED <<drv, failures, refused>>
    /\ UNCHANGED <<fixed, table, fresh, calls, wanted>>

(* The Subscriber object is made by the first step that needs it.          *)
Sub(c) == IF thread[c].sub = None THEN [topic |-> thread[c].topic, n |-> fresh + 1]
                                  ELSE thread[c].sub

SubscribeOpen(c) ==
    /\ At(c, "open")
    /\ \/ Refused(c, "open") /\ UNCHANGED fresh
       \/ /\ drv.up \/ ~V.subscribe.needsClient
          /\ drv' = Open(V, drv, Sub(c))
          /\ fresh' = IF thread[c].sub = None THEN fresh + 1 ELSE fresh
          /\ thread' = [thread EXCEPT ![c] = [Advance(c) EXCEPT !.sub = Sub(c)]]
          /\ UNCHANGED <<failures, refused>>
    /\ UNCHANGED <<fixed, table, calls, wanted>>

SubscribeReplace(c) ==
    /\ At(c, "replace")
    /\ LET old == drv.manager[thread[c].topic]
       IN  drv' = IF old = None THEN drv ELSE Unsubscribe(V, drv, old)
    /\ thread' = [thread EXCEPT ![c] = Advance(c)]
    /\ UNCHANGED <<fixed, table, fresh, budget, history>>

SubscribeAdd(c) ==
    /\ At(c, "add")
    /\ drv' = Add(drv, Sub(c))
    /\ fresh' = IF thread[c].sub = None THEN fresh + 1 ELSE fresh
    /\ thread' = [thread EXCEPT ![c] = [Advance(c) EXCEPT !.sub = Sub(c)]]
    /\ UNCHANGED <<fixed, table, budget, history>>

(* The goroutine resubscribe of a detached Subscriber, and onConnect's.    *)
Resubscribe ==
    /\ \/ \E s \in drv.spawned : drv' = LookAtClosed(drv, s)
       \/ \E s \in drv.unclosed : drv' = Consume(drv, s)
       \/ drv.reopening /\ \E S \in SUBSET Managed(drv) : drv' = Reopened(drv, S)
    /\ UNCHANGED <<fixed, table, thread, fresh, budget, history>>

(* The locked block of doRegisterSubscriber: started is checked again, so  *)
(* that a subscription that lost the race against Stop is not recorded.    *)
RecordSub(c) ==
    /\ thread[c].pc = "record"
    /\ LET t == thread[c].topic
           s == thread[c].sub
           record == started \/ ~server.record.recheck
       IN  /\ subs' = IF record THEN [subs EXCEPT ![t] = s] ELSE subs
           /\ opts' = opts \cup {t}
           /\ wanted' = wanted \cup {t}
           /\ thread' = [thread EXCEPT ![c].pc = "settle",
                                       ![c].old = IF record THEN subs[t] ELSE s]
    /\ UNCHANGED <<fixed, drv, started, err, fresh, budget, refused>>

(* Outside the lock: unsubscribe the replaced subscriber, or the new one   *)
(* when the server has stopped in the meantime.                            *)
SettleOld(c) ==
    /\ thread[c].pc = "settle"
    /\ drv' = IF thread[c].old = None THEN drv
                                      ELSE Unsubscribe(V, drv, thread[c].old)
    /\ thread' = [thread EXCEPT ![c] = [Returned(c) EXCEPT !.sub = None,
                                                           !.old = None]]
    /\ UNCHANGED <<fixed, table, fresh, budget, history>>

(* Stop, called by the application or by Start's rollback.                 *)
StopCheck(c) ==
    /\ \/ thread[c].pc = "stop"
       \/ c = Stopper /\ thread[c].pc = "idle"
    /\ IF started
       THEN Goto(c, "mark stopped") /\ UNCHANGED err
       ELSE err' = FALSE /\ thread' = [thread EXCEPT ![c] = Idle]
    /\ UNCHANGED <<fixed, drv, started, opts, subs, fresh, budget, history>>

StopMark(c) ==
    /\ thread[c].pc = "mark stopped"
    /\ started' = FALSE
    /\ Goto(c, "snapshot")
    /\ UNCHANGED <<fixed, drv, err, opts, subs, fresh, budget, history>>

StopSnapshot(c) ==
    /\ thread[c].pc = "snapshot"
    /\ thread' = [thread EXCEPT ![c].pc = "unsubscribe",
                                ![c].todo = {subs[t] : t \in Topics} \ {None}]
    /\ subs' = [t \in Topics |-> None]
    /\ opts' = IF server.stop.keeps THEN opts ELSE {}
    /\ UNCHANGED <<fixed, drv, started, err, fresh, budget, history>>

StopUnsubscribe(c) ==
    /\ thread[c].pc = "unsubscribe"
    /\ drv' = UnsubscribeAll(V, drv, thread[c].todo)
    /\ Goto(c, "disconnect")
    /\ UNCHANGED <<fixed, table, fresh, budget, history>>

StopDisconnect(c) ==
    /\ thread[c].pc = "disconnect"
    /\ drv' = Disconnect(V, drv)
    /\ err' = FALSE
    /\ thread' = [thread EXCEPT ![c] = Idle]
    /\ UNCHANGED <<fixed, started, opts, subs, fresh, budget, history>>

ServerNext ==
    \/ Start \/ StartConnect \/ StartMark \/ TakeOpts \/ NextTopic \/ StartEnd
    \/ Resubscribe
    \/ \E c \in Registrars, t \in Topics : RegisterSubscriber(c, t)
    \/ \E c \in Threads :
          \/ SubscribeEnter(c) \/ SubscribeOpen(c) \/ SubscribeReplace(c)
          \/ SubscribeAdd(c) \/ RecordSub(c) \/ SettleOld(c)
          \/ StopCheck(c) \/ StopMark(c) \/ StopSnapshot(c) \/ StopUnsubscribe(c)
          \/ StopDisconnect(c)

ServerSpec == ServerInit /\ [][ServerNext]_serverVars

-----------------------------------------------------------------------------
(* No subscription outlives its owner: once no call is in progress, every  *)
(* consumer that receives is the one the server holds for its topic, so a  *)
(* stopped server has none (the started re-check of server.go:190-206).    *)
(* A detached goroutine can miss its Subscriber's end and is left out, and *)
(* so is a Subscriber MQTT's onConnect opened again after its end: the     *)
(* manager still had it, the end having come between Clear and Add.        *)
NoOrphan ==
    Quiet /\ ~V.subscribe.detached =>
        \A s \in drv.live : subs[s.topic] = s \/ (V.connect.onConnect /\ s \in drv.closed)

(* Every topic whose registration was accepted is consumed by a started    *)
(* server, through any number of restarts and whatever Stop interrupts     *)
(* (server.go:123-124 keeps the options, 217-232 subscribes again), unless *)
(* the broker refused it.  It needs callers that do not overlap Start with *)
(* another call, and a driver whose Unsubscribe ends one subscription.     *)
RegisteredIsConsumed ==
    /\ Quiet /\ started /\ orderly
    /\ ~V.unsubscribe.topicScoped
    => \A t \in wanted \ refused : \E s \in drv.live : s.topic = t

-----------------------------------------------------------------------------
(***************************************************************************)
(* broker/request_reply.go: GenericRequest over any driver of              *)
(* BrokerDriver, and responders that use ReplyTo.  A request subscribes to *)
(* its reply topic, its own or one it shares (WithReplyTopic), publishes,  *)
(* waits for the reply or the deadline, and unsubscribes.  Replies can be  *)
(* lost, repeated and late; a Subscriber is [topic, n], n the request.     *)
(***************************************************************************)

CONSTANTS Requests,   \* concurrent calls of GenericRequest: message IDs
          MaxReplies  \* replies the responders send

VARIABLES driver,     \* the driver
          headers,    \* it carries message headers
          shared,     \* the requests share one reply topic
          state,      \* the driver's state
          request,    \* each request
          asked,      \* requests the responders have seen
          replies,    \* replies under way
          sent        \* number of replies sent

requestVars == <<driver, headers, shared, state, request, asked, replies, sent>>

ReplyTopic(r) == IF shared THEN CHOOSE t \in Topics : TRUE ELSE r
Subscriber(r) == [topic |-> ReplyTopic(r), n |-> r]

RequestInit ==
    /\ driver \in AllDrivers \ {Nats, JetStream} /\ headers \in BOOLEAN /\ shared \in BOOLEAN
    /\ state = [NewDriver EXCEPT !.up = TRUE]
    /\ request = [r \in Requests |-> [pc |-> "new", reply |-> None]]
    /\ asked = {} /\ replies = {} /\ sent = 0

(* The driver's Subscribe.  Nobody else touches a reply topic of one's own,*)
(* so its steps are taken together.                                        *)
Does(step) == \E i \in DOMAIN driver.subscribe.order :
                  driver.subscribe.order[i] = step

Subscribed(s) ==
    LET old     == state.manager[s.topic]
        swapped == IF old # None /\ Does("replace")
                   THEN Unsubscribe(driver, state, old) ELSE state
        opened  == Open(driver, swapped, s)
    IN  IF Does("add") THEN Add(opened, s) ELSE opened

(* Unsubscribe(true): a second call of a "once" driver returns early, but  *)
(* for Kafka's; a driver that adds nothing to the manager removes nothing. *)
Unsubscribed(s) ==
    LET ended == Unsubscribe(driver, state, s)
        early == driver.unsubscribe.once /\ s \in state.closed /\ driver # Kafka
    IN  IF Does("add") /\ ~early THEN RemoveOnly(ended, s.topic) ELSE ended

Moves(r, pc) == request' = [request EXCEPT ![r].pc = pc]

(* GenericRequest: subscribe first, then publish, so that no reply comes   *)
(* before the subscription.                                                *)
SubscribeReply(r) ==
    /\ request[r].pc = "new"
    /\ \/ state' = Subscribed(Subscriber(r)) /\ Moves(r, "subscribed")
       \/ driver.subscribe.fails # {} /\ Moves(r, "done") /\ UNCHANGED state
    /\ UNCHANGED <<driver, headers, shared, asked, replies, sent>>

PublishRequest(r) ==
    /\ request[r].pc = "subscribed"
    /\ \/ asked' = asked \cup {r} /\ Moves(r, "waiting")
       \/ Moves(r, "leaving") /\ UNCHANGED asked
    /\ UNCHANGED <<driver, headers, shared, state, replies, sent>>

(* ReplyTo(NewReply): the Correlation-ID of the request goes with it.      *)
ReplyTo(r) ==
    /\ r \in asked /\ sent < MaxReplies
    /\ sent' = sent + 1
    /\ replies' = replies \cup {[cid |-> r, n |-> sent]}
    /\ UNCHANGED <<driver, headers, shared, state, request, asked>>

(* The handler of the reply subscription: another request's reply is       *)
(* ignored if it can be told, and the channel holds one.                   *)
MutantAccepts(r, m) == request[r].reply = None
Accepts(r, m) == (headers => m.cid = r) /\ request[r].reply = None

Handler(r, m) ==
    /\ m \in replies /\ Subscriber(r) \in state.live
    /\ ReplyTopic(m.cid) = ReplyTopic(r)
    /\ replies' = replies \ {m}
    /\ request' = IF Accepts(r, m) THEN [request EXCEPT ![r].reply = m] ELSE request
    /\ UNCHANGED <<driver, headers, shared, state, asked, sent>>

LoseReply(m) ==
    /\ m \in replies
    /\ replies' = replies \ {m}
    /\ UNCHANGED <<driver, headers, shared, state, request, asked, sent>>

(* The select on the reply and on the end of the context.                  *)
Answered(r) ==
    /\ request[r].pc = "waiting" /\ request[r].reply # None
    /\ request' = [request EXCEPT ![r].pc = "leaving"]
    /\ UNCHANGED <<driver, headers, shared, state, asked, replies, sent>>

Deadline(r) ==
    /\ request[r].pc = "waiting"
    /\ request' = [request EXCEPT ![r] = [pc |-> "leaving", reply |-> None]]
    /\ UNCHANGED <<driver, headers, shared, state, asked, replies, sent>>

(* The deferred Unsubscribe(true).                                         *)
MutantLeave(r) ==
    /\ request[r].pc = "leaving"
    /\ state' = Unsubscribe(driver, state, Subscriber(r))
    /\ Moves(r, "done")
    /\ UNCHANGED <<driver, headers, shared, asked, replies, sent>>
Leave(r) ==
    /\ request[r].pc = "leaving"
    /\ state' = Unsubscribed(Subscriber(r))
    /\ Moves(r, "done")
    /\ UNCHANGED <<driver, headers, shared, asked, replies, sent>>

(* A detached driver's goroutine starts the consumer (BrokerDriver).       *)
ConsumeReplies ==
    /\ \/ \E s \in state.spawned : state' = LookAtClosed(state, s)
       \/ \E s \in state.unclosed : state' = Consume(state, s)
    /\ UNCHANGED <<driver, headers, shared, request, asked, replies, sent>>

RequestNext ==
    \/ \E r \in Requests :
          \/ SubscribeReply(r) \/ PublishRequest(r) \/ ReplyTo(r)
          \/ Answered(r) \/ Deadline(r) \/ Leave(r)
          \/ \E m \in replies : Handler(r, m)
    \/ \E m \in replies : LoseReply(m)
    \/ ConsumeReplies

RequestSpec == RequestInit /\ [][RequestNext]_requestVars

-----------------------------------------------------------------------------
(* A request never returns another's reply, duplicated or late ones        *)
(* included, if the driver carries headers or the reply topic is its own   *)
(* (request_reply.go:73-79).                                               *)
ReplyIsMine ==
    headers \/ ~shared =>
        \A r \in Requests : request[r].reply # None => request[r].reply.cid = r

(* Requests with a reply topic of their own leave no subscription behind,  *)
(* neither a consumer nor an entry of the manager (request_reply.go:97-100 *)
(* "the table must not grow without bound"), on every path out.  A         *)
(* detached goroutine can still start a consumer and is left out.          *)
NoReplySubscriptionLeft ==
    ~shared /\ ~driver.subscribe.detached =>
        \A r \in Requests : request[r].pc = "done" =>
            /\ state.manager[r] = None
            /\ \A s \in state.live : s.n # r
=============================================================================
