--------------------------- MODULE BrokerPublish ----------------------------
(***************************************************************************)
(* The way of a message through a driver under broker/: Publish runs the   *)
(* middlewares, internalPublish encodes a clone, publish builds the        *)
(* driver's message, starts a span, writes the trace context into the      *)
(* headers, sends, and ends the span; the consumer's callback continues    *)
(* the trace and gives the handler the headers.                            *)
(*                                                                         *)
(* A driver's functions are sequences of steps:                            *)
(*   chain, marshal, connected, producer, declare   may refuse             *)
(*   clone    the headers of the message, copied (a nil map stays nil)     *)
(*   fresh    a new header map, the message's headers ignored              *)
(*   copy     a new header map with the message's headers                  *)
(*   merge    the headers of the publish options are copied in             *)
(*   adopt    the map of the publish options takes the place of the        *)
(*            headers: it is the caller's own map, not a copy              *)
(*   span     the producer's span starts and is injected                   *)
(*   channel  RabbitMQ's channel for publishing is opened, then set to     *)
(*            confirm mode; either may fail                                *)
(*   send, commit    may fail; resend is another try after a failure;      *)
(*            forget, one whose loop makes no round                        *)
(*   async    the sending, and the end of the span, are left to a callback *)
(*   finish   the span ends with the error of the call                     *)
(*   read     the consumer's headers; parent, its span; find, decode,      *)
(*            handle and ack may fail; end, its span ends                  *)
(* The locks around the look-up of a connection are left out: nothing      *)
(* disconnects here (ProducerCache and BrokerServer are about that).       *)
(* Definitions named Mutant... are faulty variants of the one after them.  *)
(***************************************************************************)
EXTENDS Naturals, Sequences, FiniteSets, Functions

CONSTANTS Publishers,  \* goroutines that each publish one message
          MaxFaults    \* refusals and failures

Nil == [nil |-> TRUE, app |-> {}, trace |-> "none"]
Map(app) == [nil |-> FALSE, app |-> app, trace |-> "none"]

ChainPublishMiddleware(handler) == <<"chain">> \o handler
Marshal(handler) == <<"marshal", "clone">> \o handler

(* The publish functions, and what they become on the way down from        *)
(* Publish.                                                                *)
KafkaRetry(retriesCount) == IF retriesCount = 0 THEN "forget" ELSE "resend"
KafkaMultipleWriter(retriesCount) ==
    <<"connected", "copy", "producer", "span", "send", KafkaRetry(retriesCount), "finish">>
KafkaOneWriter(retriesCount) ==
    <<"connected", "copy", "producer", "span", "send", KafkaRetry(retriesCount), "finish">>
KafkaInternalPublish(publish) == Marshal(publish)
KafkaPublish(publish) == ChainPublishMiddleware(KafkaInternalPublish(publish))

NatsSend            == <<"connected", "fresh", "merge", "span", "send", "finish">>
NatsInternalPublish == Marshal(NatsSend)
NatsPublish         == ChainPublishMiddleware(NatsInternalPublish)
NatsSendRequest     == <<"connected", "fresh", "merge", "span", "send", "finish">>
NatsRequest         == Marshal(NatsSendRequest)

JetStreamSend            == <<"connected", "fresh", "merge", "span", "send", "finish">>
JetStreamInternalPublish == Marshal(JetStreamSend)
JetStreamPublish         == ChainPublishMiddleware(JetStreamInternalPublish)
JetStreamRequest         == <<"connected", "marshal", "fresh", "merge", "span", "send", "finish">>

PulsarSend            == <<"producer", "adopt", "span", "send", "resend", "finish">>
PulsarInternalPublish == Marshal(PulsarSend)
PulsarPublish         == ChainPublishMiddleware(PulsarInternalPublish)

lazyInitPublishChannel  == <<"channel">>
DeclarePublishQueue     == lazyInitPublishChannel \o <<"declare">>
RabbitConnectionPublish == lazyInitPublishChannel \o <<"send">>
MutantRabbitSend(declare) == <<"connected", "span", "copy", "merge">> \o declare
                             \o RabbitConnectionPublish \o <<"finish">>
RabbitSend(declare) == <<"connected", "copy", "merge">> \o declare
                       \o <<"span">> \o RabbitConnectionPublish \o <<"finish">>
RabbitInternalPublish(declare) == Marshal(RabbitSend(declare))
RabbitPublish(declare) == ChainPublishMiddleware(RabbitInternalPublish(declare))

AliyunSend            == <<"connected", "producer", "adopt", "span", "send", "finish">>
AliyunInternalPublish == Marshal(AliyunSend)
AliyunPublish         == ChainPublishMiddleware(AliyunInternalPublish)

RocketV2Send            == <<"producer", "copy", "merge", "span", "send", "resend", "finish">>
RocketV2InternalPublish == Marshal(RocketV2Send)
RocketV2Publish         == ChainPublishMiddleware(RocketV2InternalPublish)

doSend            == <<"span", "send", "finish">>
doSendAsync       == <<"span", "async">>
doSendTransaction == <<"span", "send", "commit", "finish">>
RocketV5Send(how) == <<"producer", "copy", "merge">> \o how
RocketV5InternalPublish(how) == Marshal(RocketV5Send(how))
RocketV5Publish(how) == ChainPublishMiddleware(RocketV5InternalPublish(how))

(* STOMP's frame options are applied in order when the frame is sent, so   *)
(* the headers may be added after the span.                                *)
StompSend            == <<"connected", "fresh", "span", "add", "merge", "send", "finish">>
StompInternalPublish == Marshal(StompSend)
StompPublish         == ChainPublishMiddleware(StompInternalPublish)

MqttSend            == <<"connected", "fresh", "send">>
MqttInternalPublish == Marshal(MqttSend)
MqttPublish         == ChainPublishMiddleware(MqttInternalPublish)

getProducer        == <<"producer">>
NsqSend            == getProducer \o <<"fresh", "send">>
NsqInternalPublish == Marshal(NsqSend)
NsqPublish         == ChainPublishMiddleware(NsqInternalPublish)

RedisPubSubSend            == <<"connected", "fresh", "send">>
RedisPubSubInternalPublish == Marshal(RedisPubSubSend)
RedisPubSubPublish         == ChainPublishMiddleware(RedisPubSubInternalPublish)

RedisStreamSend            == <<"connected", "copy", "send">>
RedisStreamInternalPublish == Marshal(RedisStreamSend)
RedisStreamPublish         == ChainPublishMiddleware(RedisStreamInternalPublish)

resolveQueueUrl    == <<"producer">>
SqsSend            == <<"connected">> \o resolveQueueUrl \o <<"copy", "send">>
SqsInternalPublish == Marshal(SqsSend)
SqsPublish         == ChainPublishMiddleware(SqsInternalPublish)

AzureSend            == <<"connected", "producer", "copy", "send">>
AzureInternalPublish == Marshal(AzureSend)
AzurePublish         == ChainPublishMiddleware(AzureInternalPublish)

GcpSend            == <<"connected", "producer", "copy", "send">>
GcpInternalPublish == Marshal(GcpSend)
GcpPublish         == ChainPublishMiddleware(GcpInternalPublish)

(* What a carrier's Set does with a nil map.                               *)
KafkaCarrier          == "make"   \* a slice: append makes it
NatsCarrier           == "make"
PulsarProducerCarrier == "make"
RabbitProducerCarrier == "assume"
AliyunProducerCarrier == "assume"
RocketV2ProducerCarrier == "make"
RocketV5ProducerCarrier == "make"
StompProducerCarrier  == "make"
(* A consumer's carrier reads the header of the driver's message.          *)
PulsarConsumerCarrier   == {"trace"}
RabbitConsumerCarrier   == {"trace"}
AliyunConsumerCarrier   == {"trace"}
RocketV2ConsumerCarrier == {"trace"}
RocketV5ConsumerCarrier == {"trace"}
StompConsumerCarrier    == {"trace"}

(* startProducerSpan: a child of the span in ctx, set in the carrier.      *)
(* JetStream starts from the context of the options, which is not the      *)
(* caller's.                                                               *)
StartProducerSpan(carrier, ctx) == [set |-> carrier, ctx |-> ctx]
KafkaStartProducerSpan     == StartProducerSpan(KafkaCarrier, "caller")
NatsStartProducerSpan      == StartProducerSpan(NatsCarrier, "caller")
JetStreamStartProducerSpan == StartProducerSpan(NatsCarrier, "background")
PulsarStartProducerSpan    == StartProducerSpan(PulsarProducerCarrier, "caller")
RabbitStartProducerSpan    == StartProducerSpan(RabbitProducerCarrier, "caller")
AliyunStartProducerSpan    == StartProducerSpan(AliyunProducerCarrier, "caller")
RocketV2StartProducerSpan  == StartProducerSpan(RocketV2ProducerCarrier, "caller")
RocketV5StartProducerSpan  == StartProducerSpan(RocketV5ProducerCarrier, "caller")
StompStartProducerSpan     == StartProducerSpan(StompProducerCarrier, "caller")
Untraced == StartProducerSpan("make", "caller")

(* startConsumerSpan and the callback around it: what reaches the handler. *)
StartConsumerSpan(reads) == IF "trace" \in reads THEN <<"parent">> ELSE <<>>
KafkaStartConsumerSpan     == StartConsumerSpan({"trace"})
NatsStartConsumerSpan      == StartConsumerSpan({"trace"})
JetStreamStartConsumerSpan == StartConsumerSpan({"trace"})
PulsarStartConsumerSpan    == StartConsumerSpan(PulsarConsumerCarrier)
RabbitStartConsumerSpan    == StartConsumerSpan(RabbitConsumerCarrier)
AliyunStartConsumerSpan    == StartConsumerSpan(AliyunConsumerCarrier)
RocketV2StartConsumerSpan  == StartConsumerSpan(RocketV2ConsumerCarrier)
RocketV5StartConsumerSpan  == StartConsumerSpan(RocketV5ConsumerCarrier)
StompStartConsumerSpan     == StartConsumerSpan(StompConsumerCarrier)

Traced(start, acks) == start \o <<"read", "decode", "handle">> \o acks \o <<"end">>
Plain(reads)        == reads \o <<"decode", "handle", "ack">>

Driver(publish, span, receive) == [publish |-> publish, span |-> span, receive |-> receive]

Kafka(writer) == Driver(KafkaPublish(writer), KafkaStartProducerSpan,
                        Traced(KafkaStartConsumerSpan, <<"ack">>))
Nats(call)    == Driver(call, NatsStartProducerSpan,
                        Traced(NatsStartConsumerSpan, <<"ack">>))
JetStream(call) == Driver(call, JetStreamStartProducerSpan,
                          Traced(JetStreamStartConsumerSpan, <<"ack">>))
Pulsar   == Driver(PulsarPublish, PulsarStartProducerSpan,
                   Traced(PulsarStartConsumerSpan, <<"try ack">>))
Rabbit(declare) == Driver(RabbitPublish(declare), RabbitStartProducerSpan,
                          Traced(RabbitStartConsumerSpan, <<"try ack">>))
Aliyun   == Driver(AliyunPublish, AliyunStartProducerSpan,
                   Traced(AliyunStartConsumerSpan, <<"ack">>))
RocketV2 == Driver(RocketV2Publish, RocketV2StartProducerSpan,
                   Traced(RocketV2StartConsumerSpan, <<"ack">>))
RocketV5(how) == Driver(RocketV5Publish(how), RocketV5StartProducerSpan,
                        Traced(RocketV5StartConsumerSpan \o <<"find">>, <<"ack">>))
Stomp    == Driver(StompPublish, StompStartProducerSpan,
                   Traced(StompStartConsumerSpan, <<"ack">>))
Mqtt        == Driver(MqttPublish, Untraced, Plain(<<>>))
Nsq         == Driver(NsqPublish, Untraced, Plain(<<>>))
RedisPubSub == Driver(RedisPubSubPublish, Untraced, Plain(<<>>))
RedisStream == Driver(RedisStreamPublish, Untraced, Plain(<<>>))
Sqs         == Driver(SqsPublish, Untraced, Plain(<<"read">>))
Azure       == Driver(AzurePublish, Untraced, Plain(<<"read">>))
Gcp         == Driver(GcpPublish, Untraced, Plain(<<"read">>))

JetStreamDrivers == {JetStream(JetStreamPublish), JetStream(JetStreamRequest)}
RabbitDrivers == {Rabbit(declare) : declare \in {<<>>, DeclarePublishQueue}}
NatsDrivers == {Nats(NatsPublish), Nats(NatsRequest)} \cup JetStreamDrivers
AllPublishDrivers ==
    {Pulsar, Aliyun, RocketV2, Stomp, Mqtt, Nsq, RedisPubSub,
     RedisStream, Sqs, Azure, Gcp}
    \cup {Kafka(KafkaMultipleWriter(n)) : n \in 0..1}
    \cup {Kafka(KafkaOneWriter(n)) : n \in 0..1}
    \cup RabbitDrivers \cup NatsDrivers \cup {RocketV5(how) : how \in {doSend, doSendAsync, doSendTransaction}}

VARIABLES bus,        \* the driver
          tracing,    \* is a tracer configured?
          option,     \* the header map the callers share through an option
          publish,    \* each publisher's call
          receive,    \* the delivery of its message
          channel,    \* RabbitMQ: the channel for publishing
          halfOpen,   \* history: a channel was kept without confirm mode
          faults

publishVars == <<bus, tracing, option, publish, receive, channel, halfOpen, faults>>

Outgoing(headers, uses) ==
    [at |-> 1, given |-> headers, uses |-> uses, headers |-> headers,
     shared |-> FALSE, span |-> "none", parent |-> "none", error |-> FALSE,
     result |-> "none", wire |-> Nil, sent |-> FALSE, confirmed |-> FALSE]
Incoming == [done |-> FALSE, error |-> FALSE, headers |-> Nil, parent |-> "none",
             span |-> "none"]

PublishInit ==
    /\ bus \in AllPublishDrivers
    /\ tracing \in BOOLEAN
    /\ option = Map({"option"})
    /\ publish \in [Publishers -> {Outgoing(h, u) : h \in {Nil, Map({"message"})},
                                                   u \in BOOLEAN}]
    /\ receive = [p \in Publishers |-> Incoming]
    /\ channel = "none" /\ halfOpen = FALSE /\ faults = 0

StepOf(program, at) == IF at \in 1..Len(program) THEN program[at] ELSE "return"
At(p)     == StepOf(bus.publish, publish[p].at)
Active(p) == publish[p].result = "none"
Fault     == faults < MaxFaults /\ faults' = faults + 1

(* A call that fails returns at once, unless a span waits for its end.     *)
Failing(call, program) ==
    IF call.span = "open"
    THEN [call EXCEPT !.error = TRUE, !.at = CHOOSE i \in DOMAIN program : program[i] = "finish"]
    ELSE [call EXCEPT !.error = TRUE, !.result = "error"]

Onwards(p, call) == publish' = [publish EXCEPT ![p] = [call EXCEPT !.at = @ + 1]]

(* The steps between two that others can notice are taken at once; any of  *)
(* those that may refuse can end the call.                                 *)
Refusing == {"chain", "marshal", "connected", "producer", "declare", "commit"}
Building == {"clone", "fresh", "copy", "add", "merge", "adopt"}

Headers(call) == IF call.shared THEN option ELSE call.headers
Combined(map, more) == [map EXCEPT !.nil = FALSE, !.app = @ \cup more.app]

Build(call, step) ==
    CASE step = "fresh" -> [call EXCEPT !.headers = Map({})]
      [] step = "copy"  -> [call EXCEPT !.headers = Combined(Map({}), call.given)]
      [] step = "add"   -> [call EXCEPT !.headers = Combined(@, call.given)]
      [] step = "merge" /\ call.uses -> [call EXCEPT !.headers = Combined(@, option)]
      [] step = "adopt" /\ call.uses -> [call EXCEPT !.shared = TRUE]
      [] OTHER -> call

Prepare(p) ==
    LET local == {i \in publish[p].at..Len(bus.publish) :
                    \A j \in publish[p].at..i : bus.publish[j] \in Refusing \cup Building}
        last  == CHOOSE i \in local : \A j \in local : j <= i
        steps == {bus.publish[i] : i \in local}
        built[i \in {publish[p].at - 1} \cup local] ==
          IF i < publish[p].at THEN publish[p] ELSE Build(built[i - 1], bus.publish[i])
    IN  /\ Active(p) /\ local # {}
        /\ \/ publish' = [publish EXCEPT ![p] = [built[last] EXCEPT !.at = last + 1]]
              /\ UNCHANGED faults
           \/ /\ steps \cap Refusing # {} /\ Fault
              /\ publish' = [publish EXCEPT ![p] = Failing(@, bus.publish)]
        /\ UNCHANGED <<bus, tracing, option, receive, channel, halfOpen>>

OpenChannel(p) ==
    /\ Active(p) /\ At(p) = "channel"
    /\ \/ /\ channel' = IF channel = "none" THEN "confirming" ELSE channel
          /\ Onwards(p, publish[p])
          /\ UNCHANGED <<halfOpen, faults>>
       \/ /\ channel = "none" /\ Fault
          /\ publish' = [publish EXCEPT ![p] = Failing(@, bus.publish)]
          /\ \/ UNCHANGED <<channel, halfOpen>>
             \/ channel' = "plain" /\ halfOpen' = TRUE
    /\ UNCHANGED <<bus, tracing, option, receive>>

(* Injecting writes to the map the call holds, which may be the callers'.  *)
Start(p) ==
    LET call == publish[p]
        open == [call EXCEPT !.span = "open", !.parent = bus.span.ctx]
    IN  /\ Active(p) /\ At(p) = "span"
        /\ CASE ~tracing -> Onwards(p, call) /\ UNCHANGED option
             [] tracing /\ Headers(call).nil /\ bus.span.set = "assume" ->
                  /\ publish' = [publish EXCEPT ![p] = [open EXCEPT !.result = "panic"]]
                  /\ UNCHANGED option
             [] tracing /\ call.shared ->
                  option' = [option EXCEPT !.trace = p] /\ Onwards(p, open)
             [] OTHER ->
                  /\ Onwards(p, [open EXCEPT !.headers = [@ EXCEPT !.nil = FALSE, !.trace = p]])
                  /\ UNCHANGED option
        /\ UNCHANGED <<bus, tracing, receive, channel, halfOpen, faults>>

OnTheWire(p) == [publish[p] EXCEPT !.wire = Headers(publish[p]), !.sent = TRUE,
                                   !.error = FALSE, !.confirmed = (channel = "confirming")]

(* A driver that tries again goes on with its error.                       *)
Send(p) ==
    LET again == StepOf(bus.publish, publish[p].at + 1) \in {"resend", "forget"}
    IN  /\ Active(p) /\ At(p) = "send"
        /\ \/ Onwards(p, OnTheWire(p)) /\ UNCHANGED faults
           \/ /\ Fault
              /\ IF again THEN Onwards(p, [publish[p] EXCEPT !.error = TRUE])
                          ELSE publish' = [publish EXCEPT ![p] = Failing(@, bus.publish)]
        /\ UNCHANGED <<bus, tracing, option, receive, channel, halfOpen>>

(* Kafka's retry first closes the cached writer, which overwrites the      *)
(* error.                                                                  *)
Resend(p) ==
    /\ Active(p) /\ At(p) \in {"resend", "forget"}
    /\ \/ Onwards(p, publish[p])
       \/ At(p) = "forget" /\ Onwards(p, [publish[p] EXCEPT !.error = FALSE])
       \/ publish[p].error /\ Onwards(p, OnTheWire(p))
    /\ UNCHANGED <<bus, tracing, option, receive, channel, halfOpen, faults>>

Finish(p) ==
    LET call == publish[p]
    IN  /\ Active(p) /\ At(p) \in {"finish", "return"}
        /\ publish' = [publish EXCEPT ![p] = [@ EXCEPT
               !.at = Len(bus.publish) + 1,
               !.span = IF @ = "open" THEN (IF call.error THEN "failed" ELSE "ended") ELSE @,
               !.result = IF call.error THEN "error" ELSE "nil"]]
        /\ UNCHANGED <<bus, tracing, option, receive, channel, halfOpen, faults>>

(* doSendAsync answers nil; the client sends and calls back later.         *)
SendAsync(p) ==
    /\ Active(p) /\ At(p) = "async"
    /\ publish' = [publish EXCEPT ![p].result = "nil"]
    /\ UNCHANGED <<bus, tracing, option, receive, channel, halfOpen, faults>>

AsyncPending(p) == At(p) = "async" /\ publish[p].result = "nil"

Callback(p) ==
    LET ended(call, how) == [call EXCEPT !.at = @ + 1,
                                         !.span = IF @ = "open" THEN how ELSE @]
    IN  /\ AsyncPending(p)
        /\ \/ publish' = [publish EXCEPT ![p] = ended(OnTheWire(p), "ended")]
              /\ UNCHANGED faults
           \/ Fault /\ publish' = [publish EXCEPT ![p] = ended(@, "failed")]
        /\ UNCHANGED <<bus, tracing, option, receive, channel, halfOpen>>

(* The consumer's callback for the message of p.  A failed "try ack" is    *)
(* logged only.                                                            *)
Receive(p) ==
    LET steps  == Range(bus.receive)
        traced == tracing /\ "parent" \in steps
        done(error) == [done |-> TRUE, error |-> error,
                        headers |-> IF "read" \in steps THEN publish[p].wire ELSE Nil,
                        parent |-> IF traced THEN publish[p].wire.trace ELSE "none",
                        span |-> CASE ~traced -> "none"
                                   [] traced /\ "end" \notin steps -> "open"
                                   [] OTHER -> IF error THEN "failed" ELSE "ended"]
    IN  /\ publish[p].sent /\ ~receive[p].done
        /\ \/ receive' = [receive EXCEPT ![p] = done(FALSE)] /\ UNCHANGED faults
           \/ Fault /\ receive' = [receive EXCEPT ![p] = done(TRUE)]
        /\ UNCHANGED <<bus, tracing, option, publish, channel, halfOpen>>

PublishNext ==
    \E p \in Publishers :
        \/ Prepare(p) \/ OpenChannel(p) \/ Start(p) \/ Send(p) \/ Resend(p)
        \/ Finish(p) \/ SendAsync(p) \/ Callback(p) \/ Receive(p)

PublishSpec == PublishInit /\ [][PublishNext]_publishVars

(* Drivers whose publish ignores the message's headers (nats.go:253,       *)
(* jetstream_pub.go:51, mqtt.go:253, nsq.go:281, pubsub/redis.go:191), or  *)
(* whose consumer does not read them (stream/subscriber.go:32).            *)
DropHeaders == NatsDrivers \cup {Mqtt, Nsq, RedisPubSub, RedisStream}
(* Drivers that write into the map of a header option (pulsar.go:232,      *)
(* aliyunmq.go:223).                                                       *)
WriteOption == {Pulsar, Aliyun}

(* Kafka's retry loop without a round (kafka.go:445-461).                  *)
Forgetful == {Kafka(KafkaMultipleWriter(0)), Kafka(KafkaOneWriter(0))}

Returned(p)  == publish[p].result \in {"nil", "error"}
Delivered(p) == receive[p].done

(* A publish call ends each span it started, once and with the error it    *)
(* returns, says nil only when the message was handed over (not so for an  *)
(* asynchronous send, nor for Kafka without retries), and never panics     *)
(* (but the Aliyun driver injects into a nil header map); the consumer's   *)
(* span continues the trace of the call that sent this very message, and   *)
(* its headers arrive, unless the driver drops or replaces them; only      *)
(* those that replace them write to the map of the option; a RabbitMQ      *)
(* message goes through a confirming channel unless an earlier attempt     *)
(* left one without (broker/rabbitmq/rabbitmq.go:154-258 and the publish,  *)
(* startProducerSpan and startConsumerSpan of the other drivers;           *)
(* rabbitmq/connection.go:374-401).                                        *)
MessagesArriveWhole ==
    \A p \in Publishers :
        LET out == publish[p]
            in  == receive[p]
            replaced == bus \in WriteOption /\ out.uses
        IN  /\ Returned(p) /\ out.span # "none" =>
                  \/ AsyncPending(p)
                  \/ /\ out.span = IF out.result = "error" \/ ~out.sent THEN "failed" ELSE "ended"
                     /\ out.parent = IF bus \in JetStreamDrivers THEN "background" ELSE "caller"
                  \/ bus \in Forgetful
            /\ out.result = "nil" => out.sent \/ bus \in Forgetful \cup {RocketV5(doSendAsync)}
            /\ out.result = "panic" => bus = Aliyun /\ out.given.nil /\ ~out.uses
            /\ Delivered(p) =>
                  /\ tracing /\ bus.span # Untraced =>
                        /\ in.span = IF in.error THEN "failed" ELSE "ended"
                        /\ in.parent = p \/ replaced
                  /\ ~in.error /\ bus \notin DropHeaders /\ ~replaced
                        => out.given.app \subseteq in.headers.app
                  /\ bus \in RabbitDrivers => out.confirmed \/ halfOpen
            /\ bus \notin WriteOption => option.trace = "none"
=============================================================================
