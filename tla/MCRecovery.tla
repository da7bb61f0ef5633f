----------------------------- MODULE MCRecovery -----------------------------
(***************************************************************************)
(* What comes right again in the end, for TLC: deliveries and              *)
(* subscriptions through faults and outages, registrations and their       *)
(* watchers, sessions and socket clients, the timer, media and event       *)
(* streams, watched configuration and health.  One component moves in a    *)
(* behaviour; they share the variables of Registers.  Faults and changes   *)
(* are bounded, so that "whenever the world is quiet, soon" is "in the end,*)
(* always".                                                                *)
(***************************************************************************)
EXTENDS Registers

CONSTANTS
    Messages, Workers, MaxFaults,                                 \* BrokerConsume
    MaxOutages,                                                   \* BrokerConsume
    MaxDials, MaxDrops,                                           \* BrokerConsume
    MaxRegisters, MaxLeases, MaxTroubles,                         \* Registry
    MaxStates, MaxRegistrations, MaxUnreachable,                  \* Registry
    Sessions, channelBufSize,                                     \* Sessions
    MaxConnects,                                                  \* Sessions
    TaskIDs, Repeating, MaxTime, MaxAdds, MaxStarts, MaxStops,    \* HpTimer
    Clients, MaxStreams, MaxEvents, MaxAutoEvents, BufferSize, ConnectionSize, maxEventLogSize,   \* SseStream
    Publishers, TrackIDs, MaxPublishes, MaxSubscribes, MaxUploads, MaxLosses, \* SfuRouter
    Watchers, MaxChanges, MaxReadFaults, Readers,                 \* Config
    Checkers, MaxChecks                                           \* Health

D == INSTANCE BrokerConsume WITH callback <- r1, poison <- r2, queue <- r3, out <- r4,
        gone <- r5, work <- r6, faults <- r7, handled <- r8, told <- r9, deliveries <- r10,
        loop <- r1, link <- r2, error <- r3, outages <- r4, loopClosed <- r5, handle <- r6,
        loopPc <- r7, network <- r1, drops <- r2, alive <- r3, current <- r4, dials <- r5,
        connected <- r6, closeClosed <- r7, waitClosed <- r8, app <- r9, goroutine <- r10,
        panicked <- r11, outlived <- r12
R == INSTANCE Registry WITH registrar <- r1, reachable <- r2, troubles <- r3,
        instance <- r4, leases <- r5, pending <- r6, beat <- r7, started <- r8,
        beating <- r9, cancels <- r10, caller <- r11, intent <- r12, spoiled <- r13, listed <- r14,
        watcher <- r1, consumer <- r2, registered <- r3, changes <- r4, online <- r5,
        unreachable <- r6, cached <- r7, refreshing <- r8, events <- r9, armed <- r10,
        orphaned <- r11, snapshot <- r12, closed <- r13, consumerPc <- r14, unseeded <- r15,
        MaxChanges <- MaxRegistrations
S == INSTANCE Sessions WITH srv <- r1, running <- r2, listening <- r3, setup <- r4,
        up <- r5, closing <- r6, table <- r7, told <- r8, pumps <- r9, buffer <- r10,
        at <- r11, todo <- r12, listed <- r13, crashed <- r14, client <- r1, dialled <- r2,
        current <- r3, live <- r4, loops <- r5, reads <- r6, murdered <- r7
T == INSTANCE HpTimer WITH owner <- r1, now <- r2, running <- r3, ctx <- r4, ended <- r5,
        heap <- r6, cancelled <- r7, wakeup <- r8, hasTimer <- r9, loop <- r10,
        stop <- r11, mu <- r12, startCtx <- r13, stopCall <- r14, adds <- r15,
        starts <- r16, stops <- r17, removed <- r18, undead <- r19, crossed <- r20
E == INSTANCE SseStream WITH autoStream <- r1, autoReplay <- r2, current <- r3, made <- r4,
        stream <- r5, client <- r6, closer <- r7, publisher <- r8, published <- r9,
        unsubscribed <- r10, received <- r11, abandoned <- r12, eventTTL <- r13
F == INSTANCE SfuRouter WITH tracks <- r1, media <- r2, subscriptions <- r3, sub <- r4,
        present <- r5, raced <- r6, pc <- r7, wire <- r8, hurt <- r9, subscribes <- r10,
        uploads <- r11, ready <- r12, text <- r13, losses <- r14
G == INSTANCE Config WITH source <- r1, request <- r2, store <- r3, changes <- r4,
        ctx <- r5, faults <- r6, shared <- r7, watch <- r8, crashed <- r9, watchable <- r1,
        value <- r2, readerChanges <- r3, readerFaults <- r4, mergedCtx <- r5, call <- r6,
        sub <- r7, signals <- r8, routine <- r9, out <- r10, closed <- r11, got <- r12,
        gap <- r13, MaxFaults <- MaxReadFaults
P == INSTANCE Health WITH checkers <- r1, asked <- r2, done <- r3, expired <- r4,
        sent <- r5, resultCh <- r6, details <- r7, overall <- r8, answer <- r9,
        changes <- r10, MaxChanges <- MaxChecks

-----------------------------------------------------------------------------
RecoveryInit ==
    \/ component = "delivery" /\ D!DeliveryInit /\ Idle11
    \/ component = "loop" /\ D!LoopInit /\ Idle8
    \/ component = "rabbit" /\ D!RabbitInit /\ Idle13
    \/ component = "heartbeat" /\ R!BeatInit /\ Idle15
    \/ component = "discovery" /\ R!DiscoveryInit /\ Idle16
    \/ component = "sessions" /\ S!SessionInit /\ Idle15
    \/ component = "client" /\ S!ClientInit /\ Idle8
    \/ component = "timer" /\ T!TimerInit
    \/ component = "sse" /\ E!SseInit /\ Idle14
    \/ component = "sfu" /\ F!SfuInit /\ Idle15
    \/ component = "source" /\ G!ConfigInit /\ Idle10
    \/ component = "fallback" /\ G!FallbackInit /\ Idle14
    \/ component = "health" /\ P!HealthInit /\ Idle11

\* InX: a step of component X.
InDelivery == component = "delivery" /\ UNCHANGED component /\ Same11
InLoop == component = "loop" /\ UNCHANGED component /\ Same8
InRabbit == component = "rabbit" /\ UNCHANGED component /\ Same13
InHeartbeat == component = "heartbeat" /\ UNCHANGED component /\ Same15
InDiscovery == component = "discovery" /\ UNCHANGED component /\ Same16
InSessions == component = "sessions" /\ UNCHANGED component /\ Same15
InClient == component = "client" /\ UNCHANGED component /\ Same8
InTimer == component = "timer" /\ UNCHANGED component
InSse == component = "sse" /\ UNCHANGED component /\ Same14
InSfu == component = "sfu" /\ UNCHANGED component /\ Same15
InSource == component = "source" /\ UNCHANGED component /\ Same10
InFallback == component = "fallback" /\ UNCHANGED component /\ Same14
InHealth == component = "health" /\ UNCHANGED component /\ Same11

RecoveryNext ==
    \/ InDelivery /\ D!DeliveryNext
    \/ InLoop /\ D!LoopNext
    \/ InRabbit /\ D!RabbitNext
    \/ InHeartbeat /\ R!BeatNext
    \/ InDiscovery /\ R!DiscoveryNext
    \/ InSessions /\ S!SessionNext
    \/ InClient /\ S!ClientNext
    \/ InTimer /\ T!TimerNext
    \/ InSse /\ E!SseNext
    \/ InSfu /\ F!SfuNext
    \/ InSource /\ G!ConfigNext
    \/ InFallback /\ G!FallbackNext
    \/ InHealth /\ P!HealthNext

\* The fairness of the components, each while it moves.
RecoveryFairness ==
    /\ \A w \in Workers :
        /\ WF_registers(InDelivery /\ D!Deliver(w))
        /\ WF_registers(InDelivery /\ D!Work(w))
    /\ \A m \in Messages : WF_registers(InDelivery /\ D!Expire(m))
    /\ WF_registers(InLoop /\ D!LoopStep) /\ WF_registers(InLoop /\ D!LinkUp)
    /\ WF_registers(InRabbit /\ D!RabbitConnected) /\ WF_registers(InRabbit /\ D!NetworkUp)
    /\ \A g \in D!Goroutines : WF_registers(InRabbit /\ D!Reconnect(g))
    /\ WF_registers(InHeartbeat /\ R!Back)
    /\ WF_registers(InHeartbeat /\ R!Call)
    /\ WF_registers(InHeartbeat /\ R!CancelHeartbeat)
    /\ \A w \in 1 .. MaxLeases : WF_registers(InHeartbeat /\ R!Expire(w))
    /\ \A g \in R!HeartbeatIds : WF_registers(InHeartbeat /\ R!Heartbeat(g))
    /\ WF_registers(InDiscovery /\ R!Reachable)
    /\ WF_registers(InDiscovery /\ R!Rearm)
    /\ WF_registers(InDiscovery /\ R!Poll)
    /\ WF_registers(InDiscovery /\ R!Store)
    /\ WF_registers(InDiscovery /\ R!Seed)
    /\ WF_registers(InDiscovery /\ R!Next)
    /\ WF_registers(InDiscovery /\ R!Rewatch)
    /\ WF_registers(InDiscovery /\ R!End)
    /\ \A s \in Sessions : WF_registers(InSessions /\ ~r14 /\ S!SessionSteps(s))
    /\ \A k \in S!Stoppers : WF_registers(InSessions /\ ~r14 /\ S!StopSteps(k))
    /\ \A l \in S!Conns : WF_registers(InClient /\ S!LoopSteps(l))
    /\ \A l \in T!Loops : WF_registers(InTimer /\ T!LoopStep(l))
    /\ WF_registers(InTimer /\ T!StopLocks)
    /\ WF_registers(InTimer /\ T!StopReturns)
    /\ WF_registers(InTimer /\ T!stopInternal)
    /\ WF_registers(InTimer /\ T!ServerReturns)
    /\ WF_registers(InTimer /\ T!StopEngine)
    /\ WF_registers(InTimer /\ T!Tick)
    /\ \A c \in Clients : WF_registers(InSse /\ E!Handler(c)) /\ WF_registers(InSse /\ E!Closer(c))
    /\ \A s \in E!Streams :
        /\ WF_registers(InSse /\ E!Loop(s))
        /\ SF_registers(InSse /\ E!removeAllSubscribers(s))
    /\ WF_registers(InSfu /\ (\E ok \in BOOLEAN : F!CreateLocalTrackForSubscriber(ok)))
    /\ WF_registers(InSfu /\ F!SubscribeEnds)
    /\ \A s \in F!Sides : WF_registers(InSfu /\ F!SendMessage(s))
    /\ WF_registers(InSfu /\ F!handleSignalRenegotiation)
    /\ WF_registers(InSfu /\ F!clientHandleSignalRenegotiation)
    /\ \A w \in Watchers :
        /\ WF_registers(InSource /\ ~r9 /\ G!GoroutineStep(w))
        /\ WF_registers(InSource /\ ~r9 /\ r5 = "live" /\ G!Receive(w))
    /\ WF_registers(InFallback /\ G!CloseOut)
    /\ WF_registers(InFallback /\ G!WatchValue)
    /\ WF_registers(InFallback /\ r5 = "live" /\ G!ReceiveMerged)
    /\ \A r \in G!R :
        /\ WF_registers(InFallback /\ G!RoutineStep(r))
        /\ WF_registers(InFallback /\ r5 = "done" /\ G!EndSub(r))
    /\ WF_registers(InHealth /\ P!Timeout)
    /\ WF_registers(InHealth /\ P!Collect)
    /\ \A n \in Checkers : WF_registers(InHealth /\ P!Send(n))

RecoverySpec == RecoveryInit /\ [][RecoveryNext]_registers /\ RecoveryFairness

-----------------------------------------------------------------------------
(* The properties of the components; their modules state them in full.     *)
(* Where a module has a type invariant, it is part of them.                *)

\* A message is handled in the end unless its driver settles it early or its handler rejects
\* it, never settled behind the handler's back; a subscription survives outages until it is
\* closed, and then ends; a RabbitMQ connection comes back (broker/*).
ConsumersRecover ==
    /\ [](component = "delivery" => D!DeliveryContract)
    /\ <>[](/\ component = "delivery" => D!AllHandled
            /\ component = "loop" => D!ClosedStops /\ D!SurvivesOutages
            /\ component = "rabbit" => D!Reconnected)

\* A service that stays registered is found, one that is deregistered is not, and a watcher's
\* snapshot is the registry's state (registry/*, selector).
RegistrationsSettle ==
    <>[](/\ component = "heartbeat" => R!DeregisteredStaysGone /\ R!RegisteredComesBack
         /\ component = "discovery" => R!SnapshotCatchesUp /\ R!CloseEndsConsumer)

\* A closed session is forgotten once and for all, shutdowns close what they list and return,
\* and a client's dead connection is replaced by its own loop only
\* (transport/tcp, kcp, websocket, webrtc, webtransport).
SessionsSettle ==
    /\ [](/\ component = "sessions" => S!ClosedIsForgotten /\ S!StopClosesListed
          /\ component = "client" => S!OldLoopSparesNewConn)
    /\ <>[](/\ component = "sessions" => S!Settled
            /\ component = "client" => S!CurrentIsLive)

\* The timer never sleeps past a task, never runs a removed one, and leaves none overdue; a
\* health check ends although a checker hangs, and answers with the worst of what it heard
\* (transport/hptimer, health).
DeadlinesAreKept ==
    /\ [](/\ component = "timer" => T!SleepsRight
          /\ component = "health" => P!AnswersTellTheWorst)
    /\ <>[](/\ component = "timer" => T!NothingOverdue
            /\ component = "health" => P!CheckReturns)

\* A handler of an event stream writes every event once and in order and ends with its
\* subscription, and a media track is forwarded to
\* those who subscribed and negotiated with them (transport/sse, transport/webrtc).
StreamsSettle ==
    /\ [](/\ component = "sse" => E!OnceAndInOrder
          /\ component = "sfu" => F!TypeOK /\ F!ForwardsToSubscribers)
    /\ <>[](/\ component = "sse" => E!HandlersEnded
            /\ component = "sfu" => F!Negotiated)

\* A watcher of a configuration key ends up with its value, and its channel is closed by the
\* goroutine that sends on it (config/*).
ConfigSettles ==
    /\ [](/\ component = "source" => G!TypeOK /\ G!AsksForTheKey /\ G!OnlyTheSenderCloses
          /\ component = "fallback" => G!FallbackTypeOK /\ G!NobodySendsToClosed)
    /\ <>[](/\ component = "source" => G!WatchersCaughtUp /\ G!CancelClosesTheChannel
            /\ component = "fallback" => G!MergedValueSettles /\ G!MergedChannelCloses)
=============================================================================
