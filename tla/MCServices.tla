----------------------------- MODULE MCServices -----------------------------
(***************************************************************************)
(* What brokers and servers do for their callers, for TLC: subscribing,    *)
(* publishing and requesting over the brokers, starting and stopping the   *)
(* servers, dispatching messages and requests to handlers, streaming       *)
(* events, and batching log lines.  One component moves in a behaviour;    *)
(* all but the publishing and logging ones share the variables of          *)
(* Registers.                                                              *)
(***************************************************************************)
EXTENDS Registers, BrokerPublish, ProducerCache, LogSink

CONSTANTS
    Topics, None, Registrars, MaxFailures, MaxCalls,             \* BrokerServer
    Requests, MaxReplies,
    MaxRegisters, MaxStarts, MaxStops, MaxServeFaults,           \* Servers
    Handled, MaxAttempts, MaxChain,
    Clients, MaxStreams, MaxEvents, MaxAutoEvents, BufferSize, ConnectionSize, maxEventLogSize   \* SseStream

B == INSTANCE BrokerServer WITH server <- r1, orderly <- r2, drv <- r3, started <- r4,
        err <- r5, opts <- r6, subs <- r7, thread <- r8, fresh <- r9, failures <- r10,
        calls <- r11, wanted <- r12, refused <- r13, driver <- r1, headers <- r2,
        shared <- r3, state <- r4, request <- r5, asked <- r6, replies <- r7, sent <- r8
Q == INSTANCE BrokerServer WITH driver <- r1, headers <- r2, shared <- r3, state <- r4,
        request <- r5, asked <- r6, replies <- r7, sent <- r8, server <- r1, orderly <- r2,
        drv <- r3, started <- r4, err <- r5, opts <- r6, subs <- r7, thread <- r8,
        fresh <- r9, failures <- r10, calls <- r11, wanted <- r12, refused <- r13,
        Topics <- Requests
L == INSTANCE Servers WITH peer <- r1, handlers <- r2, since <- r3, calls <- r4,
        writing <- r5, packet <- r6, packetAt <- r7, handler <- r8, ran <- r9,
        failed <- r10, crashed <- r11, server <- r1, field <- r2, engines <- r3,
        down <- r4, flags <- r5, mu <- r6, call <- r7, ended <- r8, routine <- r9,
        ports <- r10, listener <- r11, registered <- r12, equipped <- r13, told <- r14,
        alone <- r15, serveFaults <- r16, kind <- r1, chain <- r2, thread <- r3,
        req <- r4, held <- r5, strayed <- r6, escaped <- r7
E == INSTANCE SseStream WITH autoStream <- r1, autoReplay <- r2, current <- r3, made <- r4,
        stream <- r5, client <- r6, closer <- r7, publisher <- r8, published <- r9,
        unsubscribed <- r10, received <- r11, abandoned <- r12, eventTTL <- r13

servicesVars == <<registers, producerVars, publishVars, sinkVars>>

-----------------------------------------------------------------------------
\* A component that does not move stands in one of its initial states.
ProducersParked == ProducerInit /\ publishFn = RocketV5Cached
PublishParked ==
    PublishInit /\ bus = Nsq /\ ~tracing /\ publish = [p \in Publishers |-> Outgoing(Nil, FALSE)]
SinkParked == SinkInit /\ sink = "loki"
AllParked == ProducersParked /\ PublishParked /\ SinkParked

ServicesInit ==
    \/ component = "brokerserver" /\ B!ServerInit /\ Idle14 /\ AllParked
    \/ component = "requests" /\ Q!RequestInit /\ Idle9 /\ AllParked
    \/ component = "dispatch" /\ L!DispatchInit /\ Idle12 /\ AllParked
    \/ component = "middleware" /\ L!MiddlewareInit /\ Idle8 /\ AllParked
    \/ component = "servers" /\ L!LifecycleInit /\ Idle17 /\ AllParked
    \/ component = "sse" /\ E!SseInit /\ Idle14 /\ AllParked
    \/ component = "producers" /\ ProducerInit /\ Idle1 /\ PublishParked /\ SinkParked
    \/ component = "publish" /\ PublishInit /\ Idle1 /\ ProducersParked /\ SinkParked
    \/ component = "logsink" /\ SinkInit /\ Idle1 /\ ProducersParked /\ PublishParked

AllStay == UNCHANGED <<producerVars, publishVars, sinkVars>>

ServicesNext ==
    /\ UNCHANGED component
    /\ \/ component = "brokerserver" /\ B!ServerNext /\ Same14 /\ AllStay
       \/ component = "requests" /\ Q!RequestNext /\ Same9 /\ AllStay
       \/ component = "dispatch" /\ L!DispatchNext /\ Same12 /\ AllStay
       \/ component = "middleware" /\ L!MiddlewareNext /\ Same8 /\ AllStay
       \/ component = "servers" /\ L!LifecycleNext /\ Same17 /\ AllStay
       \/ component = "sse" /\ E!SseNext /\ Same14 /\ AllStay
       \/ component = "producers" /\ ProducerNext /\ Same1 /\ UNCHANGED <<publishVars, sinkVars>>
       \/ component = "publish" /\ PublishNext /\ Same1 /\ UNCHANGED <<producerVars, sinkVars>>
       \/ component = "logsink" /\ SinkNext /\ Same1 /\ UNCHANGED <<producerVars, publishVars>>

ServicesSpec == ServicesInit /\ [][ServicesNext]_servicesVars

-----------------------------------------------------------------------------
(* The properties of the components; their modules state them in full.     *)
(* Three are properties of the modules themselves: OneProducerPerTopic of  *)
(* ProducerCache, MessagesArriveWhole of BrokerPublish and                 *)
(* LinesAreAccountedFor of LogSink.                                        *)

\* A broker server knows its consumers, whatever the order and outcome of Start, Stop and
\* RegisterSubscriber: none runs that nobody can stop, and what was registered with a running
\* server and not refused is consumed (transport/kafka/server.go and its kin).
ConsumersAreKnown ==
    component = "brokerserver" => B!NoOrphan /\ B!RegisteredIsConsumed

\* A Start that returned left the server serving, a Stop stopped it, and what was
\* registered in time is served (transport/*/server.go).
ServersObey ==
    component = "servers" => L!CallsTakeEffect /\ L!RegisteredIsServed

\* A packet runs the handler registered for it; whatever way a request ends, the middlewares
\* have undone what they did for it; a request gets a reply to itself and leaves no
\* subscription behind; a subscriber gets a stream's events once and in order
\* (transport/*/server.go, transport/http/middleware, transport/grpc/middleware,
\* broker/request_reply.go, transport/sse).
RequestsAreServed ==
    /\ component = "dispatch" => L!DispatchContract
    /\ component = "middleware" => L!EveryExitIsClean
    /\ component = "requests" => Q!ReplyIsMine /\ Q!NoReplySubscriptionLeft
    /\ component = "sse" => E!OnceAndInOrder
=============================================================================
