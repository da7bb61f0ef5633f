------------------------------ MODULE Servers -------------------------------
(***************************************************************************)
(* Start and Stop of the servers of transport/ that own one engine of a    *)
(* library (an http.Server, a grpc.Server, a cron scheduler, ...).  Each   *)
(* method is the sequence of its steps, in the order of the code; calls of *)
(* Start and Stop run concurrently, the context of a Start may end at any  *)
(* moment, and a server may be started again.                              *)
(*                                                                         *)
(* The second part is the dispatch of packets to registered handlers, the  *)
(* third the middleware around the handlers of HTTP and gRPC.              *)
(* Definitions named Mutant... are faulty variants of the one after them.  *)
(***************************************************************************)
EXTENDS Naturals, Sequences, FiniteSets

CONSTANTS MaxStarts,        \* bound on the calls of Start
          MaxStops,         \* bound on the calls of Stop
          MaxServeFaults    \* bound on engines that fail by themselves

VARIABLES server,           \* one of AllLifecycles
          field,            \* the engine in s.server (s.lis, s.worker), 0 for nil
          engines,          \* engines made so far: 1 .. engines
          down,             \* engines that were shut down for good
          flags,            \* flags of the server that are set
          mu,               \* the call that holds s.mu, 0 for none
          call,             \* each call: the index of its next step, its own engine
          ended,            \* Start calls whose context is done
          routine,          \* each Start's serving goroutine: state and engine
          ports,            \* Start calls whose listener is open
          listener,         \* the Start whose listener is in s.listener, 0 for nil
          registered,       \* a service has been registered
          equipped,         \* engines that know the registered service
          told,             \* Starts found serving by a call of Stop
          alone,            \* Starts called while nothing else went on, and since
          serveFaults

lifecycleVars == <<server, field, engines, down, flags, mu, call, ended, routine, ports,
                   listener, registered, equipped, told, alone, serveFaults>>

Starts == 1 .. MaxStarts
Stops == MaxStarts + 1 .. MaxStarts + MaxStops
MaxEngines == MaxStarts + 1

-----------------------------------------------------------------------------
(* The steps.  "x?" returns early when x holds, "?x" when it does not.     *)
HttpStart == <<"listen">>
HttpStop == <<>>
StdStart == HttpStart \o <<"make", "spawn", "wait", "shutdown">>
StdStop == HttpStop \o <<"?field", "shutdown">>
ChiStart == HttpStart \o <<"make", "spawn", "wait", "shutdown">>
ChiStop == HttpStop \o <<"?field", "shutdown">>
GinStart == HttpStart \o <<"make", "spawn", "wait", "shutdown">>
GinStop == HttpStop \o <<"?field", "shutdown">>
FiberStop == HttpStop \o <<"once?", "set once", "shutdown">>
FiberStart == HttpStart \o <<"spawn", "wait">> \o FiberStop
Http3Start == <<"stopped?", "set ever", "listen", "spawn", "wait end">>
Http3Stop == <<"stop if ever", "shutdown", "clear err">>
GrpcStop == <<"?field", "shutdown">>
GrpcStart == <<"ensure", "listen", "spawn", "wait">> \o GrpcStop
ThriftStart == <<"make", "spawn", "wait", "shutdown">>
ThriftStop == <<"?field", "shutdown">>
TrpcStart == <<"err?", "started?", "make", "spawn", "wait end", "set started">>
TrpcStop == <<"?started", "clear started", "shutdown", "clear err">>
McpStart == <<"err?", "started?", "spawn", "set started">>
McpStop == <<"?started", "clear started", "take", "clear err", "shutdown own">>
GraphqlStart == <<"evict", "listen", "make", "spawn", "wait", "shutdown">>
GraphqlStop == <<"?field", "forget listener", "shutdown">>
SseStart == <<"listen", "make", "spawn", "wait", "shutdown">>
SseStop == <<"?field", "shutdown">>
SignalrStart == <<"listen", "make", "spawn", "wait ctx", "shutdown">>
SignalrStop == <<"?field", "shutdown">>
SocketioStart == <<"err?", "listen", "renew", "spawn", "wait ctx", "shutdown">>
SocketioStop == <<"shutdown">>
CronStopInternal == <<"shutdown">>
CronStart == <<"lock", "started?", "run", "set started", "wait ctx", "clear started">> \o CronStopInternal
CronStop == <<"lock", "clear started">> \o CronStopInternal
AsynqStopInternal == <<"stopped?", "set stopped", "shutdown">>
AsynqStart == <<"lock", "started?", "clear stopped", "set started", "schedule", "spawn",
                "wait ctx", "clear started">> \o AsynqStopInternal
AsynqStop == <<"lock", "clear started">> \o AsynqStopInternal
StartWorker == <<"create", "spawn", "adopt">>
MachineryStart == <<"err?", "started?">> \o StartWorker \o <<"set started">>
MachineryStop == <<"clear started", "?field", "shutdown", "forget", "clear err">>

(* What the serving goroutine does: "late" takes the engine it finds in    *)
(* the field when it gets to run, "own" the one its Start made, "makes"    *)
(* builds the engine itself.  A goroutine that binds opens the port itself *)
(* and reports in the field and in s.err what became of it.                *)
StartMCPServer == [engine |-> "makes", binds |-> TRUE]
ServeLate == [engine |-> "late", binds |-> FALSE]
ServeLateAndBind == [engine |-> "late", binds |-> TRUE]
ServeOwn == [engine |-> "own", binds |-> FALSE]

(* How registered services reach a new engine: the routes are "shared" by  *)
(* all engines, "replayed" into a new one, or "in" the engine alone.       *)
CreateServer == "replayed"
GrpcRegisterService == "in"
TrpcRegisterService == "in"
SharedMux == "shared"

Lifecycle(n, start, stop, serve, built, lasting, routes) ==
    [name |-> n, start |-> start, stop |-> stop, serve |-> serve, built |-> built,
     lasting |-> lasting, routes |-> routes]
Std == Lifecycle("std", StdStart, StdStop, ServeLate, FALSE, TRUE, SharedMux)
Chi == Lifecycle("chi", ChiStart, ChiStop, ServeLate, FALSE, TRUE, SharedMux)
Gin == Lifecycle("gin", GinStart, GinStop, ServeLate, FALSE, TRUE, SharedMux)
Fiber == Lifecycle("fiber", FiberStart, FiberStop, ServeLate, TRUE, FALSE, SharedMux)
Http3 == Lifecycle("http3", Http3Start, Http3Stop, ServeLate, TRUE, TRUE, SharedMux)
Grpc == Lifecycle("grpc", GrpcStart, GrpcStop, ServeLate, FALSE, TRUE, GrpcRegisterService)
Thrift == Lifecycle("thrift", ThriftStart, ThriftStop, ServeLateAndBind, FALSE, TRUE, SharedMux)
Trpc == Lifecycle("trpc", TrpcStart, TrpcStop, ServeLateAndBind, FALSE, TRUE, TrpcRegisterService)
Mcp == Lifecycle("mcp", McpStart, McpStop, StartMCPServer, FALSE, TRUE, SharedMux)
Graphql == Lifecycle("graphql", GraphqlStart, GraphqlStop, ServeLate, FALSE, TRUE, SharedMux)
Sse == Lifecycle("sse", SseStart, SseStop, ServeLate, FALSE, TRUE, SharedMux)
Signalr == Lifecycle("signalr", SignalrStart, SignalrStop, ServeLate, FALSE, TRUE, SharedMux)
Socketio == Lifecycle("socketio", SocketioStart, SocketioStop, ServeLate, TRUE, TRUE, CreateServer)
Cron == Lifecycle("cron", CronStart, CronStop, ServeLate, TRUE, FALSE, SharedMux)
Asynq == Lifecycle("asynq", AsynqStart, AsynqStop, ServeLate, TRUE, TRUE, SharedMux)
Machinery == Lifecycle("machinery", MachineryStart, MachineryStop, ServeOwn, FALSE, TRUE, SharedMux)
AllLifecycles == {Std, Chi, Gin, Fiber, Http3, Grpc, Thrift, Trpc, Mcp, Graphql, Sse, Signalr,
                  Socketio, Cron, Asynq, Machinery}

-----------------------------------------------------------------------------
LifecycleInit ==
    /\ server \in AllLifecycles
    /\ field = (IF server.built THEN 1 ELSE 0)
    /\ engines = field
    /\ down = {} /\ flags = {} /\ mu = 0
    /\ call = [c \in Starts \cup Stops |-> [at |-> 0, own |-> 0]]
    /\ ended = {}
    /\ routine = [k \in Starts |-> [st |-> "none", on |-> 0]]
    /\ ports = {} /\ listener = 0
    /\ registered = FALSE /\ equipped = {}
    /\ told = {} /\ alone = {}
    /\ serveFaults = 0

Program(c) == IF c \in Starts THEN server.start ELSE server.stop
Running(c) == call[c].at \in 1 .. Len(Program(c))
Serving(k) == routine[k].st = "serving"
Done(c) == call[c].at > Len(Program(c))
At(c, step) == Running(c) /\ Program(c)[call[c].at] = step

(* Go to the next step, or return; s.mu is unlocked by a defer.            *)
GoTo(c, i) == /\ call' = [call EXCEPT ![c].at = i]
              /\ mu' = IF mu = c /\ i > Len(Program(c)) THEN 0 ELSE mu
Step(c) == GoTo(c, call[c].at + 1)
Return(c) == GoTo(c, Len(Program(c)) + 1)

(* Services are registered before the first Start, as the comments ask.    *)
RegisterService ==
    /\ ~registered /\ server.routes # "shared"
    /\ \A k \in Starts : call[k].at = 0
    /\ registered' = TRUE
    /\ LET made == server.routes = "in" /\ field = 0
           e == IF made THEN engines + 1 ELSE field IN
       /\ field' = e
       /\ engines' = IF made THEN e ELSE engines
       /\ equipped' = IF e = 0 THEN {} ELSE {e}
    /\ UNCHANGED <<server, down, flags, mu, call, ended, routine, ports, listener, serveFaults, told, alone>>

(* Calls of Start come one after the other; calls of Stop at any moment.   *)
Invoke(c) ==
    /\ call[c].at = 0
    /\ \A k \in Starts : c \in Starts /\ k < c => call[k].at # 0
    /\ GoTo(c, 1)
    /\ told' = told \cup {k \in Starts : c \in Stops /\ Serving(k) /\ field = routine[k].on}
    /\ alone' = {k \in {c} \cap Starts :
                   /\ \A d \in Starts \cup Stops : ~Running(d)
                   /\ \A j \in Starts : routine[j].st \in {"none", "ended", "failed"}}
    /\ UNCHANGED <<server, field, engines, down, flags, ended, routine, ports, listener,
                   registered, equipped, serveFaults>>

ContextEnds(k) ==
    /\ server.name \notin {"http3", "trpc", "mcp", "machinery"}     \* those do not look at it
    /\ Running(k) /\ k \notin ended
    /\ ended' = ended \cup {k}
    /\ alone' = alone \ {k}
    /\ UNCHANGED <<server, field, engines, down, flags, mu, call, routine, ports, listener,
                   registered, equipped, told, serveFaults>>

(* Early returns on a flag or on a nil field.                              *)
Returns == [err |-> "err?", started |-> "started?", stopped |-> "stopped?", once |-> "once?"]
Sets == [started |-> "set started", stopped |-> "set stopped", once |-> "set once", ever |-> "set ever"]
Clears == [started |-> "clear started", stopped |-> "clear stopped", err |-> "clear err"]
Test(c) ==
    /\ \/ \E g \in DOMAIN Returns :
             /\ At(c, Returns[g])
             /\ IF g \in flags THEN Return(c) ELSE Step(c)
       \/ At(c, "?started") /\ IF "started" \in flags THEN Step(c) ELSE Return(c)
       \/ At(c, "?field") /\ IF field # 0 THEN Step(c) ELSE Return(c)
    /\ UNCHANGED <<server, field, engines, down, flags, ended, routine, ports, listener,
                   registered, equipped, serveFaults, told, alone>>

SetFlag(c) ==
    /\ \/ \E g \in DOMAIN Sets : At(c, Sets[g]) /\ flags' = flags \cup {g}
       \/ \E g \in DOMAIN Clears : At(c, Clears[g]) /\ flags' = flags \ {g}
       \/ At(c, "stop if ever") /\ flags' = flags \cup {"stopped" : g \in flags \cap {"ever"}}
    /\ Step(c)
    /\ UNCHANGED <<server, field, engines, down, ended, routine, ports, listener, registered,
                   equipped, serveFaults, told, alone>>

Lock(c) ==
    /\ At(c, "lock") /\ mu = 0
    /\ mu' = c
    /\ call' = [call EXCEPT ![c].at = @ + 1]
    /\ UNCHANGED <<server, field, engines, down, flags, ended, routine, ports, listener,
                   registered, equipped, serveFaults, told, alone>>

(* net.Listen, refused while the address is in use.                        *)
OpenListener(c) ==
    /\ At(c, "listen")
    /\ IF ports = {} THEN ports' = {c} /\ listener' = c /\ Step(c)
       ELSE UNCHANGED <<ports, listener>> /\ Return(c)
    /\ UNCHANGED <<server, field, engines, down, flags, ended, routine, registered, equipped,
                   serveFaults, told, alone>>

(* graphql drops the listener a previous Start left in the field.          *)
Evict(c) ==
    /\ \/ At(c, "evict") /\ ports' = ports \ {listener}
       \/ At(c, "forget listener") /\ UNCHANGED ports
    /\ listener' = 0
    /\ Step(c)
    /\ UNCHANGED <<server, field, engines, down, flags, ended, routine, registered, equipped,
                   serveFaults, told, alone>>

NewEngine ==
    /\ engines' = engines + 1
    /\ equipped' = equipped \cup {e \in {engines'} : registered /\ server.routes = "replayed"}
Build(c) ==
    /\ \/ At(c, "make") /\ NewEngine /\ field' = engines' /\ Step(c)
       \/ /\ At(c, "ensure") /\ Step(c)
          /\ IF field = 0 THEN NewEngine /\ field' = engines'
             ELSE UNCHANGED <<engines, equipped, field>>
       \/ /\ At(c, "renew") /\ Step(c)
          /\ IF field \in down THEN NewEngine /\ field' = engines'
             ELSE UNCHANGED <<engines, equipped, field>>
       \/ /\ At(c, "create") /\ NewEngine /\ UNCHANGED <<field, mu>>
          /\ call' = [call EXCEPT ![c] = [at |-> @.at + 1, own |-> engines']]
       \/ At(c, "adopt") /\ field' = call[c].own /\ Step(c) /\ UNCHANGED <<engines, equipped>>
       \/ At(c, "forget") /\ field' = 0 /\ Step(c) /\ UNCHANGED <<engines, equipped>>
       \/ /\ At(c, "take") /\ field' = 0 /\ UNCHANGED <<engines, equipped, mu>>
          /\ call' = [call EXCEPT ![c] = [at |-> @.at + 1, own |-> field]]
    /\ UNCHANGED <<server, down, flags, ended, routine, ports, listener, registered, serveFaults, told, alone>>

(* cron's scheduler counts as running from the call on.                    *)
Spawn(c) ==
    /\ \/ /\ At(c, "spawn")
          /\ routine' = [routine EXCEPT ![c] = [st |-> "spawned", on |-> call[c].own]]
       \/ /\ At(c, "run")
          /\ routine' = [routine EXCEPT ![c] = [st |-> "serving", on |-> field]]
    /\ Step(c)
    /\ UNCHANGED <<server, field, engines, down, flags, ended, ports, listener, registered,
                   equipped, serveFaults, told, alone>>

(* asynq's scheduler cannot be started again once it was shut down.        *)
Schedule(c) ==
    /\ At(c, "schedule")
    /\ IF field \in down THEN flags' = flags \ {"started"} /\ Return(c)
       ELSE UNCHANGED flags /\ Step(c)
    /\ UNCHANGED <<server, field, engines, down, ended, routine, ports, listener, registered,
                   equipped, serveFaults, told, alone>>

Wait(c) ==
    /\ \/ At(c, "wait") /\ routine[c].st = "ended" /\ Return(c) /\ UNCHANGED flags
       \/ At(c, "wait") /\ c \in ended /\ Step(c) /\ UNCHANGED flags
       \/ At(c, "wait ctx") /\ c \in ended /\ Step(c) /\ UNCHANGED flags
       \/ At(c, "wait end") /\ routine[c].st = "ended" /\ Step(c) /\ UNCHANGED flags
       \/ /\ At(c, "wait end") /\ routine[c].st = "failed"
          /\ flags' = flags \cup {"err" : n \in {server.name} \cap {"trpc"}}
          /\ Return(c)
       \/ At(c, "wait") /\ routine[c].st = "failed" /\ Return(c) /\ UNCHANGED flags
    /\ UNCHANGED <<server, field, engines, down, ended, routine, ports, listener, registered,
                   equipped, serveFaults, told, alone>>

(* The engine is shut: a lasting one cannot serve again, another one only  *)
(* ends what it serves now.                                                *)
MutantShutdown(c) ==
    /\ At(c, "shutdown") \/ At(c, "shutdown own")
    /\ LET e == IF At(c, "shutdown") THEN field ELSE call[c].own IN
       /\ down' = IF server.lasting THEN down \cup ({e} \ {0}) ELSE down
       /\ routine' = routine
    /\ Step(c)
    /\ UNCHANGED <<server, field, engines, flags, ended, ports, listener, registered, equipped,
                   serveFaults, told, alone>>
Shutdown(c) ==
    /\ At(c, "shutdown") \/ At(c, "shutdown own")
    /\ LET e == IF At(c, "shutdown") THEN field ELSE call[c].own IN
       /\ down' = IF server.lasting THEN down \cup ({e} \ {0}) ELSE down
       /\ routine' = [k \in Starts |->
              IF ~server.lasting /\ routine[k] = [st |-> "serving", on |-> e]
              THEN [routine[k] EXCEPT !.st = "closing"] ELSE routine[k]]
    /\ Step(c)
    /\ UNCHANGED <<server, field, engines, flags, ended, ports, listener, registered, equipped,
                   serveFaults, told, alone>>

-----------------------------------------------------------------------------
(* The serving goroutine of Start k.                                       *)
RoutineMakes(k) ==
    /\ server.serve.engine = "makes" /\ routine[k].st = "spawned" /\ routine[k].on = 0
    /\ NewEngine
    /\ field' = engines'
    /\ routine' = [routine EXCEPT ![k].on = engines']
    /\ UNCHANGED <<server, down, flags, mu, call, ended, ports, listener, registered, serveFaults, told, alone>>

RoutineServes(k) ==
    /\ routine[k].st = "spawned"
    /\ server.serve.engine = "makes" => routine[k].on # 0
    /\ LET e == IF server.serve.engine = "late" THEN field ELSE routine[k].on
           st == IF e \in down THEN "closing"
                 ELSE IF server.serve.binds /\ ports # {} THEN "failing" ELSE "serving" IN
       /\ routine' = [routine EXCEPT ![k] = [st |-> st, on |-> e]]
       /\ ports' = IF server.serve.binds /\ st = "serving" THEN {k} ELSE ports
    /\ UNCHANGED <<server, field, engines, down, flags, mu, call, ended, listener, registered,
                   equipped, serveFaults, told, alone>>

(* Serve returns: the engine was shut down, its listener was closed under  *)
(* it, or it failed.                                                       *)
RoutineStops(k) ==
    /\ routine[k].st = "serving"
    /\ \/ routine[k].on \in down
          /\ routine' = [routine EXCEPT ![k].st = "closing"] /\ UNCHANGED serveFaults
       \/ /\ listener # k /\ k \notin ports /\ server.name = "graphql"
          /\ routine' = [routine EXCEPT ![k].st = "failing"] /\ UNCHANGED serveFaults
       \/ /\ server.name # "cron"
          /\ serveFaults < MaxServeFaults /\ serveFaults' = serveFaults + 1
          /\ routine' = [routine EXCEPT ![k].st = "failing"]
    /\ UNCHANGED <<server, field, engines, down, flags, mu, call, ended, ports, listener,
                   registered, equipped, told, alone>>

(* ... and the goroutine ends; mcp records even a clean end as an error.   *)
RoutineEnds(k) ==
    /\ routine[k].st \in {"closing", "failing"}
    /\ routine' = [routine EXCEPT ![k].st = IF @ = "closing" THEN "ended" ELSE "failed"]
    /\ ports' = ports \ {k}
    /\ IF server.serve.engine = "makes"
       THEN field' = 0 /\ flags' = flags \cup {"err"}
       ELSE UNCHANGED <<field, flags>>
    /\ UNCHANGED <<server, engines, down, mu, call, ended, listener, registered, equipped,
                   serveFaults, told, alone>>

CallStep(c) ==
    /\ Running(c)
    /\ \/ Test(c) \/ SetFlag(c) \/ Lock(c) \/ OpenListener(c) \/ Evict(c) \/ Build(c)
       \/ Spawn(c) \/ Schedule(c) \/ Wait(c) \/ Shutdown(c)
RoutineStep(k) == RoutineMakes(k) \/ RoutineServes(k) \/ RoutineStops(k) \/ RoutineEnds(k)
LifecycleNext ==
    \/ RegisterService
    \/ \E c \in Starts \cup Stops : Invoke(c) \/ CallStep(c)
    \/ \E k \in Starts : ContextEnds(k) \/ RoutineStep(k)

LifecycleSpec == LifecycleInit /\ [][LifecycleNext]_lifecycleVars

-----------------------------------------------------------------------------
(* Methods and goroutines are straight lines, so a server whose calls and  *)
(* goroutines all go on comes to rest; what holds at rest is what a call   *)
(* achieves in the end.                                                    *)
AtRest == /\ \A c \in Starts \cup Stops : ~ENABLED CallStep(c)
          /\ \A k \in Starts : ~ENABLED (RoutineStep(k) /\ serveFaults' = serveFaults)

(* Calls take effect, whatever they overlap with.                          *)
(* 1. A Stop that finds the server serving makes it stop serving.  It does *)
(*    not for fiber (its Once may be spent, fiber_driver.go:202), trpc     *)
(*    (Start says "started" only after Serve, trpc/server.go:86-92), mcp   *)
(*    (the same gap, mcp/server.go:115-122), cron and asynq (Start keeps   *)
(*    s.mu, cron/server.go:97, asynq/server.go:287) and thrift (a Start    *)
(*    that will fail on the port replaces s.server first,                  *)
(*    thrift/server.go:112); two overlapping Starts of graphql may serve   *)
(*    each other's engine (graphql/server.go:101-121), and of machinery    *)
(*    both pass the check and the second worker replaces the first         *)
(*    (machinery/server.go:180,355).                                       *)
(* 2. A Start whose context ends returns and leaves nothing serving; fiber *)
(*    thrift and graphql are excepted for the reasons above, and a second  *)
(*    Start of cron or asynq waits for the lock first.                     *)
(* 3. A Start that is alone, after any history of Starts and Stops, serves *)
(*    (or its engine fails).  grpc, http3 (says so, http3/server.go:106),  *)
(*    trpc, mcp and asynq are good for one Start, and machinery's flag     *)
(*    outlives a failed worker (machinery/server.go:180,195).              *)
TookEffect ==
    \A k \in Starts :
        /\ server.name \notin {"fiber", "trpc", "mcp", "cron", "asynq", "thrift", "graphql", "machinery"} /\ k \in told
              => ~Serving(k)
        /\ server.name \notin {"fiber", "thrift", "graphql"} /\ k \in ended /\ ~At(k, "lock")
              => Done(k) /\ ~Serving(k)
        /\ server.name \notin {"grpc", "http3", "trpc", "mcp", "asynq", "machinery"} /\ k \in alone
              => Serving(k) \/ routine[k].st = "failed"
CallsTakeEffect == ~TookEffect => ~AtRest

(* Services registered before the first Start are served by every engine   *)
(* that serves, also after a restart (socketio replays its registrations   *)
(* into the new engine, socketio/server.go:82-95).  trpc is excepted: its  *)
(* Start replaces the engine RegisterService filled (trpc/server.go:81).   *)
RegisteredIsServed ==
    \A k \in Starts :
        registered /\ server.name # "trpc" /\ Serving(k) => routine[k].on \in equipped

-----------------------------------------------------------------------------
(***************************************************************************)
(* How the socket servers and clients of transport/ hand a received packet *)
(* to the handler of its type, while the application registers and         *)
(* deregisters handlers.  A packet is a type and whether its two layers    *)
(* (the packet, the payload) can be decoded; a handler is the number of    *)
(* the Register call that installed it.                                    *)
(***************************************************************************)

CONSTANTS MaxRegisters      \* bound on the calls of RegisterMessageHandler

VARIABLES peer,             \* one of AllDispatchers
          handlers,         \* messageHandlers: type -> handler, 0 for none
          since,            \* calls of Register for a type since it was last free
          calls,            \* calls of Register so far
          writing,          \* a write of a map without a lock is under way
          packet,           \* the packet being dispatched
          packetAt,               \* the next step of the dispatch, 0 between packets
          handler,          \* the handler found for the packet
          ran, failed,      \* handlers run, and an error returned, for the packet
          crashed           \* the runtime met a concurrent map access

dispatchVars == <<peer, handlers, since, calls, writing, packet, packetAt, handler, ran, failed, crashed>>

Types == {"chat", "trackAvailable"}
Packets == [type : Types, decodes : BOOLEAN, fits : BOOLEAN]
NoPacket == [type |-> "chat", decodes |-> FALSE, fits |-> FALSE]

(* The steps of each peer's functions.  "lock" steps guard the map of      *)
(* handlers; "skip" is "find" where a missing handler of a notification is *)
(* no error.                                                               *)
TcpServerRegister == <<"lock", "keepFirst">>
TcpServerDeregister == <<"lock", "delete">>
TcpServerUnmarshal == <<"decode", "find", "bind">>
TcpServerHandleRaw == TcpServerUnmarshal \o <<"handle">>
TcpClientRegister == <<"keepFirst">>
TcpClientDeregister == <<"delete">>
TcpClientMessageHandler == <<"decode", "find", "bind", "handle">>
KcpServerRegister == <<"lock", "keepFirst">>
KcpServerDeregister == <<"lock", "delete">>
KcpServerUnmarshal == <<"decode", "find", "bind">>
KcpServerHandleRaw == KcpServerUnmarshal \o <<"handle">>
KcpClientRegister == <<"lock", "keepFirst">>
KcpClientDeregister == <<"lock", "delete">>
KcpClientMessageHandler == <<"decode", "find", "bind", "handle">>
WebsocketRegister == <<"lock", "keepFirst">>
WebsocketDeregister == <<"lock", "delete">>
WebsocketUnmarshal == <<"decode", "find", "bind">>
WebsocketHandleRaw == WebsocketUnmarshal \o <<"handle">>
WebrtcServerRegister == <<"lock", "keepFirst">>
WebrtcServerDeregister == <<"lock", "delete">>
WebrtcServerUnmarshal == <<"decode", "find", "bind">>
WebrtcServerHandleRaw == WebrtcServerUnmarshal \o <<"handle">>
WebrtcClientRegister == <<"lock", "keepFirst">>
WebrtcClientDeregister == <<"lock", "delete">>
WebrtcClientUnmarshal == <<"decode", "skip", "bind">>
WebrtcClientMessageHandler == WebrtcClientUnmarshal \o <<"handle">>
WebtransportServerRegister == <<"lock", "keepFirst">>
WebtransportServerDeregister == <<"lock", "delete">>
WebtransportServerMessageHandler == <<"decode", "find", "bind", "handle">>
WebtransportClientRegister == <<"lock", "keepFirst">>
WebtransportClientDeregister == <<"lock", "delete">>
WebtransportClientMessageHandler == <<"decode", "find", "bind", "handle">>

Peer(r, d, m) == [register |-> r, deregister |-> d, dispatch |-> m]
AllDispatchers == {
    Peer(TcpServerRegister, TcpServerDeregister, TcpServerHandleRaw),
    Peer(TcpClientRegister, TcpClientDeregister, TcpClientMessageHandler),
    Peer(KcpServerRegister, KcpServerDeregister, KcpServerHandleRaw),
    Peer(KcpClientRegister, KcpClientDeregister, KcpClientMessageHandler),
    Peer(WebsocketRegister, WebsocketDeregister, WebsocketHandleRaw),
    Peer(WebrtcServerRegister, WebrtcServerDeregister, WebrtcServerHandleRaw),
    Peer(WebrtcClientRegister, WebrtcClientDeregister, WebrtcClientMessageHandler),
    Peer(WebtransportServerRegister, WebtransportServerDeregister, WebtransportServerMessageHandler),
    Peer(WebtransportClientRegister, WebtransportClientDeregister, WebtransportClientMessageHandler)}

Locked(f) == f[1] = "lock"

DispatchInit ==
    /\ peer \in AllDispatchers
    /\ handlers = [t \in Types |-> 0] /\ since = [t \in Types |-> {}]
    /\ calls = 0 /\ writing = FALSE
    /\ packet = NoPacket /\ packetAt = 0 /\ handler = 0
    /\ ran = {} /\ failed = FALSE /\ crashed = FALSE

-----------------------------------------------------------------------------
(* The application's side.  A write of a map without a lock takes a while. *)
MutantRegister(t) ==
    /\ calls < MaxRegisters /\ ~writing
    /\ calls' = calls + 1
    /\ handlers' = [handlers EXCEPT ![t] = calls']
    /\ since' = [since EXCEPT ![t] = @ \cup {calls'}]
    /\ writing' = ~Locked(peer.register)
    /\ UNCHANGED <<peer, packet, packetAt, handler, ran, failed, crashed>>
RegisterMessageHandler(t) ==
    /\ calls < MaxRegisters /\ ~writing
    /\ calls' = calls + 1
    /\ handlers' = [handlers EXCEPT ![t] = IF @ = 0 THEN calls' ELSE @]
    /\ since' = [since EXCEPT ![t] = @ \cup {calls'}]
    /\ writing' = (~Locked(peer.register) /\ handlers[t] = 0)
    /\ UNCHANGED <<peer, packet, packetAt, handler, ran, failed, crashed>>
DeregisterMessageHandler(t) ==
    /\ ~writing
    /\ handlers' = [handlers EXCEPT ![t] = 0]
    /\ since' = [since EXCEPT ![t] = {}]
    /\ writing' = ~Locked(peer.deregister)
    /\ UNCHANGED <<peer, calls, packet, packetAt, handler, ran, failed, crashed>>
WriteEnds ==
    /\ writing
    /\ writing' = FALSE
    /\ UNCHANGED <<peer, handlers, since, calls, packet, packetAt, handler, ran, failed, crashed>>

(* The read loop's side: one packet at a time, one step at a time.  A step *)
(* that fails ends the dispatch with an error.                             *)
Receive ==
    /\ packetAt = 0
    /\ packet' \in Packets
    /\ packetAt' = 1 /\ handler' = 0 /\ ran' = {} /\ failed' = FALSE
    /\ UNCHANGED <<peer, handlers, since, calls, writing, crashed>>
PacketAt(step) == packetAt > 0 /\ peer.dispatch[packetAt] = step
Continue(ok) ==
    /\ packetAt' = (IF ok /\ packetAt < Len(peer.dispatch) THEN packetAt + 1 ELSE 0)
    /\ UNCHANGED <<peer, handlers, since, calls, writing, packet>>
Decode == PacketAt("decode") /\ Continue(packet.decodes) /\ failed' = ~packet.decodes
          /\ UNCHANGED <<handler, ran, crashed>>
GetMessageHandler ==
    /\ PacketAt("find") \/ PacketAt("skip")
    /\ handler' = handlers[packet.type]
    /\ Continue(handler' # 0)
    /\ failed' = (handler' = 0 /\ ~(PacketAt("skip") /\ packet.type = "trackAvailable"))
    /\ IF writing THEN crashed' \in BOOLEAN ELSE UNCHANGED crashed
    /\ UNCHANGED ran
Create == PacketAt("bind") /\ Continue(packet.fits) /\ failed' = ~packet.fits
          /\ UNCHANGED <<handler, ran, crashed>>
Handle == PacketAt("handle") /\ Continue(TRUE) /\ failed' \in BOOLEAN /\ ran' = ran \cup {handler}
          /\ UNCHANGED <<handler, crashed>>

DispatchNext ==
    /\ ~crashed
    /\ \/ \E t \in Types : RegisterMessageHandler(t) \/ DeregisterMessageHandler(t)
       \/ WriteEnds \/ Receive \/ Decode \/ GetMessageHandler \/ Create \/ Handle
DispatchSpec == DispatchInit /\ [][DispatchNext]_dispatchVars

-----------------------------------------------------------------------------
(* While a type stays registered it keeps the handler of the first of the  *)
(* Register calls made since it was last free, however later calls overlap *)
(* with packets; once a packet is through, it was run by at most the one   *)
(* handler found for it, and a packet that ran nothing was reported, a     *)
(* notification without handler at the WebRTC client excepted              *)
(* (tcp/server.go:229-239, 346-417; webrtc/client.go:385-392).             *)
DispatchContract ==
    /\ \A t \in Types : since[t] # {} =>
          handlers[t] \in since[t] /\ \A c \in since[t] : handlers[t] <= c
    /\ ran \subseteq {handler}
    /\ (packetAt = 0 /\ packet.decodes /\ handler # 0) => (ran = {handler}) = packet.fits
    /\ (packetAt = 0 /\ packet # NoPacket /\ ran = {}) =>
          failed \/ (packet.decodes /\ packet.type = "trackAvailable" /\ handler = 0)

-----------------------------------------------------------------------------
(***************************************************************************)
(* The middleware of transport/http and the interceptors of transport/grpc *)
(* as a chain around a handler.  A request goes in through the chain, may  *)
(* be turned away on the way, and comes out again with the handler's       *)
(* outcome or unwinding a panic; the HTTP timeout runs the inner part in a *)
(* goroutine of its own and may leave it behind.                           *)
(***************************************************************************)
CONSTANTS Handled,          \* requests served at the same time
          MaxAttempts,      \* of the Retrier a retry middleware is given
          MaxChain          \* length of the chain

(* One middleware is the sequence of its steps; the next one in the chain  *)
(* runs at "next".  "skip": a skip option may bypass the rest.  "deny":    *)
(* a check that may turn the request away with an error; "allow": the same *)
(* of a circuit breaker, as unavailable (which a Retrier tries again).     *)
(* "defer x" runs x when the middleware is left, by a panic too.           *)
GrpcBreakerUnary == <<"skip", "allow", "next", "mark">>
GrpcBreakerStream == <<"skip", "allow", "next", "mark">>
GrpcBreakerUnaryClient == <<"skip", "allow", "next", "mark">>
GrpcBreakerStreamClient == <<"skip", "allow", "next", "mark">>
GrpcRatelimitUnary == <<"skip", "deny", "next">>
GrpcRatelimitStream == <<"skip", "deny", "next">>
GrpcRatelimitUnaryClient == <<"skip", "deny", "next">>
GrpcRatelimitStreamClient == <<"skip", "deny", "next">>
GrpcRecoveryUnary == <<"defer recover", "next">>
GrpcRecoveryStream == <<"defer recover", "next">>
GrpcRetryUnary == <<"skip", "next", "again">>
GrpcRetryStream == <<"skip", "next", "again">>
GrpcRetryUnaryClient == <<"skip", "next", "again">>
GrpcTimeoutUnary == <<"skip", "deadline", "defer cancel", "next", "expired">>
GrpcTimeoutStream == <<"skip", "deadline", "defer cancel", "next">>
GrpcTimeoutUnaryClient == <<"skip", "deadline", "defer cancel", "next">>
GrpcTimeoutStreamClient == <<"skip", "deadline", "defer cancel", "next">>
GrpcAuthnUnary == <<"skip", "deny", "next">>
GrpcAuthnStream == <<"skip", "deny", "next">>
GrpcAuthnUnaryClient == <<"next">>
GrpcAuthnStreamClient == <<"next">>
GrpcAuthzUnary == <<"skip", "deny", "next">>
GrpcAuthzStream == <<"skip", "deny", "next">>
GrpcAuthzUnaryClient == <<"skip", "deny", "next">>
GrpcAuthzStreamClient == <<"skip", "deny", "next">>
GrpcValidateUnary == <<"skip", "deny", "next">>
GrpcValidateStream == <<"next">>
GrpcErrorsUnary == <<"next", "translate">>
GrpcErrorsStream == <<"next", "translate">>
GrpcErrorsUnaryClient == <<"next", "translate">>
GrpcErrorsStreamClient == <<"next", "translate">>
GrpcMetadataUnary == <<"next">>
GrpcMetadataStream == <<"next">>
GrpcMetadataUnaryClient == <<"next">>
GrpcMetadataStreamClient == <<"next">>
GrpcMetricsUnary == <<"skip", "gauge", "defer zero", "next", "count">>
GrpcMetricsStream == <<"skip", "gauge", "defer zero", "next", "count">>
GrpcMetricsUnaryClient == <<"skip", "gauge", "defer zero", "next", "count">>
GrpcMetricsStreamClient == <<"skip", "gauge", "next", "zero on error">>
GrpcRequestidUnary == <<"next">>
GrpcRequestidStream == <<"next">>
GrpcRequestidUnaryClient == <<"next">>
GrpcRequestidStreamClient == <<"next">>
GrpcLoggingUnary == <<"skip", "next", "log">>
GrpcLoggingStream == <<"skip", "next", "log">>
GrpcLoggingUnaryClient == <<"skip", "next", "log">>
GrpcLoggingStreamClient == <<"skip", "next", "log">>
GrpcTracingUnary == <<"span", "defer end", "next">>
GrpcTracingStream == <<"span", "defer end", "next">>
GrpcTracingUnaryClient == <<"span", "defer end", "next">>
GrpcTracingStreamClient == <<"span", "next", "end on error">>

HttpBreaker == <<"skip", "allow", "next", "mark">>
HttpBreakerKeyed == <<"skip", "allow", "next", "mark">>
HttpRatelimit == <<"skip", "deny", "next">>
HttpRatelimitKeyed == <<"skip", "deny", "next">>
HttpRecovery == <<"defer recover", "next">>
HttpRetry == <<"skip", "next", "again">>
HttpTimeout == <<"skip", "deadline", "defer cancel", "spawn", "next">>
HttpCors == <<"preflight", "next">>
HttpAuthn == <<"deny", "next">>
HttpAuthz == <<"skip", "deny", "next">>
HttpValidate == <<"deny", "next">>
HttpCodec == <<"deny", "next">>
HttpCrypto == <<"skip", "deny", "next", "flush">>
HttpErrors == <<"next">>
HttpMetadata == <<"next">>
MutantHttpMetrics == <<"skip", "gauge", "recorder", "defer release", "next", "count", "zero">>
HttpMetrics == <<"skip", "gauge", "defer zero", "recorder", "defer release", "next", "count">>
HttpRequestid == <<"next">>
HttpLogging == <<"skip", "recorder", "defer release", "next", "log">>
HttpTracing == <<"span", "defer end", "next">>

AllHttp == {HttpBreaker, HttpBreakerKeyed, HttpRatelimit, HttpRatelimitKeyed, HttpRecovery, HttpRetry,
            HttpTimeout, HttpCors, HttpAuthn, HttpAuthz, HttpValidate, HttpCodec, HttpCrypto, HttpErrors,
            HttpMetadata, HttpMetrics, HttpRequestid, HttpLogging, HttpTracing}
AllUnary == {GrpcBreakerUnary, GrpcRatelimitUnary, GrpcRecoveryUnary, GrpcRetryUnary, GrpcTimeoutUnary,
             GrpcAuthnUnary, GrpcAuthzUnary, GrpcValidateUnary, GrpcErrorsUnary, GrpcMetadataUnary,
             GrpcMetricsUnary, GrpcRequestidUnary, GrpcLoggingUnary, GrpcTracingUnary}
AllStream == {GrpcBreakerStream, GrpcRatelimitStream, GrpcRecoveryStream, GrpcRetryStream,
              GrpcTimeoutStream, GrpcAuthnStream, GrpcAuthzStream, GrpcValidateStream, GrpcErrorsStream,
              GrpcMetadataStream, GrpcMetricsStream, GrpcRequestidStream, GrpcLoggingStream,
              GrpcTracingStream}
AllUnaryClient == {GrpcBreakerUnaryClient, GrpcRatelimitUnaryClient, GrpcRetryUnaryClient,
                   GrpcTimeoutUnaryClient, GrpcAuthnUnaryClient, GrpcAuthzUnaryClient,
                   GrpcErrorsUnaryClient, GrpcMetadataUnaryClient, GrpcMetricsUnaryClient,
                   GrpcRequestidUnaryClient, GrpcLoggingUnaryClient, GrpcTracingUnaryClient}
AllStreamClient == {GrpcBreakerStreamClient, GrpcRatelimitStreamClient, GrpcTimeoutStreamClient,
                    GrpcAuthnStreamClient, GrpcAuthzStreamClient, GrpcErrorsStreamClient,
                    GrpcMetadataStreamClient, GrpcMetricsStreamClient, GrpcRequestidStreamClient,
                    GrpcLoggingStreamClient, GrpcTracingStreamClient}

VARIABLES kind,             \* "http", "unary", "stream", "unaryClient" or "streamClient"
          chain,            \* the middlewares, outermost first
          thread,           \* goroutine -> where it is, the recorders it was given, its outcome
          req,              \* request -> what has been done for it
          held,             \* <<recorder, request, position>> taken from the pool
          strayed,          \* a handler wrote the answer of another request
          escaped           \* a panic reached the top of a goroutine nobody guards

middlewareVars == <<kind, chain, thread, req, held, strayed, escaped>>

(* Goroutine 0 of a request is the server's, the others are those of the   *)
(* HTTP timeout; MaxSides bounds them.                                     *)
MaxSides == 2
Threads == Handled \X (0 .. MaxSides)
Recorders == 1 .. (MaxChain + 1) * Cardinality(Handled)

Has(m, step) == \E i \in DOMAIN m : m[i] = step
Defers(m, step) == Has(m, "defer " \o step)
Chains(ms) == UNION {[1 .. n -> ms] : n \in 1 .. MaxChain}

MiddlewareInit ==
    /\ \/ kind = "http" /\ chain \in Chains(AllHttp)
       \/ kind = "unary" /\ chain \in Chains(AllUnary)
       \/ kind = "stream" /\ chain \in Chains(AllStream)
       \/ kind = "unaryClient" /\ chain \in Chains(AllUnaryClient)
       \/ kind = "streamClient" /\ chain \in Chains(AllStreamClient)
    /\ thread = [t \in Threads |-> [phase |-> "idle", at |-> 0, base |-> 0, outcome |-> "none", given |-> {}]]
    /\ req = [r \in Handled |-> [bypassed |-> {}, tries |-> [i \in 1 .. MaxChain |-> 1], owed |-> 0, open |-> {}, ran |-> 0,
                                  panicked |-> FALSE, sides |-> 0]]
    /\ held = {} /\ strayed = FALSE /\ escaped = FALSE

-----------------------------------------------------------------------------
ChainHas(step) == \E i \in DOMAIN chain : Has(chain[i], step)

(* Two requests meet in the pool of recorders only, and with the HTTP      *)
(* timeout a handler left behind may write anywhere: a chain is followed   *)
(* with two when it uses the pool and not the timeout, and its other       *)
(* middlewares use the pool too, run the handler again or stop its panics. *)
First == CHOOSE r \in Handled : TRUE
Served == IF /\ ChainHas("recorder")
             /\ \A i \in DOMAIN chain : \E s \in {"recorder", "again", "defer recover"} : Has(chain[i], s)
          THEN Handled ELSE {First}
Arrive(r) ==
    /\ thread[<<r, 0>>].phase = "idle"
    /\ thread' = [thread EXCEPT ![<<r, 0>>].phase = "in", ![<<r, 0>>].at = 1]
    /\ UNCHANGED <<kind, chain, req, held, strayed, escaped>>

Here(t) == chain[thread[t].at]
Entering(t) == thread[t].phase = "in" /\ thread[t].at <= Len(chain)
Outer(t) == {g \in thread[t].given : g[3] < thread[t].at}    \* recorders of the middlewares further out
Inward(t, given) == thread' = [thread EXCEPT ![t].phase = "in", ![t].at = @ + 1, ![t].given = given]
Outward(t, o) == thread' = [thread EXCEPT ![t].phase = "out", ![t].at = @ - 1, ![t].outcome = o, ![t].given = Outer(t)]

Bypass(t) ==
    /\ Entering(t) /\ Has(Here(t), "skip")
    /\ req' = [req EXCEPT ![t[1]].bypassed = @ \cup {thread[t].at}]
    /\ Inward(t, Outer(t))
    /\ UNCHANGED <<kind, chain, held, strayed, escaped>>

(* Turned away: the middlewares further out see the answer.  A Retrier     *)
(* whose context is done makes no attempt, and its error is dropped.       *)
Reject(t) ==
    /\ Entering(t)
    /\ \/ Has(Here(t), "deny") /\ Outward(t, "failed")
       \/ Has(Here(t), "allow") /\ Outward(t, "unavailable")
       \/ (Has(Here(t), "preflight") \/ Has(Here(t), "again")) /\ Outward(t, "ok")
    /\ UNCHANGED <<kind, chain, req, held, strayed, escaped>>

(* sync.Pool hands out a recorder that nobody holds: one that was put back *)
(* or a new one.  Of those that no goroutine still refers to, which are    *)
(* alike, one stands for all.                                              *)
MutantPoolGet(r) == {CHOOSE p \in Recorders : \A h \in held : h[2] = r => h[1] # p}
PoolGet(r) ==
    LET free == Recorders \ {h[1] : h \in held}
        known == UNION {{g[1] : g \in thread[t].given} : t \in Threads}
    IN  {p \in free : p \in known \/ \A q \in free \ known : p <= q}

(* Let in.  The HTTP timeout starts a goroutine for the inner part and     *)
(* waits.                                                                  *)
Opens(m) == {s \in {"span", "gauge", "deadline"} : Has(m, s)}
Admit(t) ==
    LET m == Here(t)
        r == t[1]
        i == thread[t].at
    IN  /\ Entering(t)
        /\ \E p \in IF Has(m, "recorder") THEN PoolGet(r) ELSE {0} :
             LET taken == IF Has(m, "recorder") THEN {<<p, r, i>>} ELSE {} IN
             /\ held' = held \cup taken
             /\ req' = [req EXCEPT ![r].owed = IF Has(m, "allow") THEN @ + 1 ELSE @,
                                   ![r].open = @ \cup {<<i, s>> : s \in Opens(m)},
                                   ![r].tries = [@ EXCEPT ![i] = 1],
                                   ![r].sides = IF Has(m, "spawn") THEN @ + 1 ELSE @]
             /\ IF Has(m, "spawn")
                THEN /\ req[r].sides < MaxSides
                     /\ thread' = [thread EXCEPT ![t].phase = "waiting",
                                                 ![<<r, req[r].sides + 1>>] =
                            [phase |-> "in", at |-> i + 1, base |-> i, outcome |-> "none", given |-> Outer(t)]]
                ELSE Inward(t, Outer(t) \cup taken)
        /\ UNCHANGED <<kind, chain, strayed, escaped>>

(* The handler runs and writes its answer through the recorders it was     *)
(* handed.  One that has been released meanwhile has no writer: the call   *)
(* panics; one that has been handed out again writes to that request.      *)
Handler(t) ==
    /\ thread[t].phase = "in" /\ thread[t].at > Len(chain)
    /\ \E o \in {"ok", "failed", "unavailable", "panic"} :
         /\ (\E g \in thread[t].given : \A h \in held : h[1] # g[1]) => o = "panic"
         /\ Outward(t, o)
         /\ req' = [req EXCEPT ![t[1]].ran = @ + 1, ![t[1]].panicked = @ \/ o = "panic"]
    /\ strayed' = (strayed \/ \E g \in thread[t].given, h \in held : h[1] = g[1] /\ h[2] # g[2])
    /\ UNCHANGED <<kind, chain, held, escaped>>

(* A Retrier starts another attempt after an answer that may be retried.   *)
Leaving(t) == thread[t].phase = "out" /\ thread[t].at > thread[t].base
Active(t) == thread[t].at \notin req[t[1]].bypassed
Again(t) ==
    /\ Leaving(t) /\ Active(t) /\ Has(Here(t), "again")
    /\ thread[t].outcome = "unavailable" /\ req[t[1]].tries[thread[t].at] < MaxAttempts
    /\ req' = [req EXCEPT ![t[1]].tries[thread[t].at] = @ + 1,
                          ![t[1]].bypassed = {i \in @ : i <= thread[t].at}]
    /\ Inward(t, Outer(t))
    /\ UNCHANGED <<kind, chain, held, strayed, escaped>>

(* Leaving a middleware: the steps after "next" unless a panic passes      *)
(* through, then the deferred ones.                                        *)
Failed(o) == o \in {"failed", "unavailable"}
Closes(m, s, o) ==
    CASE s = "span" -> Defers(m, "end") \/ (Has(m, "end on error") /\ Failed(o))
      [] s = "gauge" -> \/ Defers(m, "zero")
                        \/ Has(m, "zero") /\ o # "panic"
                        \/ Has(m, "zero on error") /\ Failed(o)
      [] s = "deadline" -> Defers(m, "cancel")
After(m, o) ==
    CASE o = "panic" -> IF Defers(m, "recover") THEN {"failed"} ELSE {"panic"}
      [] o = "ok" /\ Has(m, "expired") -> {"ok", "failed"}
      [] OTHER -> {o}
Leave(t) ==
    LET m == Here(t)
        r == t[1]
        o == thread[t].outcome
    IN  /\ Leaving(t)
        /\ IF Active(t)
           THEN /\ \E out \in After(m, o) : Outward(t, out)
                /\ req' = [req EXCEPT ![r].owed = IF Has(m, "mark") /\ o # "panic" THEN @ - 1 ELSE @,
                                      ![r].open = {x \in @ : x[1] # thread[t].at \/ ~Closes(m, x[2], o)}]
                /\ held' = {h \in held : ~(h[2] = r /\ h[3] = thread[t].at /\ Defers(m, "release"))}
           ELSE Outward(t, o) /\ UNCHANGED <<req, held>>
        /\ UNCHANGED <<kind, chain, strayed, escaped>>

(* The top.  net/http recovers a panic of the request's own goroutine; a   *)
(* gRPC server, a caller and the goroutine of a timeout do not.            *)
Finish(t) ==
    /\ thread[t].phase = "out" /\ thread[t].at = thread[t].base
    /\ thread' = [thread EXCEPT ![t].phase = "done"]
    /\ escaped' = (escaped \/ (thread[t].outcome = "panic" /\ (kind # "http" \/ t[2] # 0)))
    /\ UNCHANGED <<kind, chain, req, held, strayed>>

(* HTTP timeout: the inner part is done, or the deadline passes first and  *)
(* it is left running.                                                     *)
Inner(t) == {u \in Threads : u[1] = t[1] /\ u[2] > t[2] /\ thread[u].base = thread[t].at}
Joined(t) ==
    /\ thread[t].phase = "waiting"
    /\ \/ \E u \in Inner(t) : /\ thread[u].phase = "done" /\ \A v \in Inner(t) : v[2] <= u[2]
                              /\ thread' = [thread EXCEPT ![t].phase = "out",
                                                          ![t].outcome = thread[u].outcome]
       \/ thread' = [thread EXCEPT ![t].phase = "out", ![t].outcome = "unavailable"]
    /\ UNCHANGED <<kind, chain, req, held, strayed, escaped>>

MiddlewareNext ==
    /\ ~escaped
    /\ \/ \E r \in Served : Arrive(r)
       \/ \E t \in Threads : \/ Bypass(t) \/ Reject(t) \/ Admit(t) \/ Handler(t)
                             \/ Again(t) \/ Leave(t) \/ Finish(t) \/ Joined(t)
MiddlewareSpec == MiddlewareInit /\ [][MiddlewareNext]_middlewareVars

-----------------------------------------------------------------------------
Over(r) == \A t \in Threads : t[1] = r => \/ thread[t].phase = "done"
                                          \/ t[2] # 0 /\ thread[t].phase = "idle"

(* However a request ends - answered, turned away half way in, timed out   *)
(* or by a panic - every span, in-flight gauge and deadline opened for it  *)
(* is closed again and every recorder is back in its pool; only the stream *)
(* client keeps a span (until CloseSend) and a gauge open with the stream. *)
(* Every admission of a breaker has been reported to it once, except when  *)
(* the handler panicked.  The handler ran at most once without a retry,    *)
(* at most MaxAttempts times per retry around it, and an answer "ok"       *)
(* without a run is that of a CORS preflight or of a Retrier whose context *)
(* was done.  With the recovery interceptor outermost no panic of a gRPC   *)
(* handler or of an interceptor further in ends the process, and only a    *)
(* handler left behind by the HTTP timeout writes into another answer      *)
(* (http/middleware/metrics/metrics.go:101-106, logging.go:73-74,          *)
(* grpc/middleware/circuitbreaker/circuitbreaker.go:126-138).              *)
EveryExitIsClean ==
    /\ strayed => ChainHas("spawn")
    /\ kind # "http" /\ Defers(chain[1], "recover") => ~escaped
    /\ \A r \in Handled : Over(r) =>
           /\ kind # "streamClient" => req[r].open = {}
           /\ \A h \in held : h[2] # r
           /\ req[r].owed # 0 => req[r].panicked
           /\ req[r].ran <= MaxAttempts ^ Cardinality({i \in DOMAIN chain : Has(chain[i], "again")})
           /\ thread[<<r, 0>>].outcome = "ok" /\ req[r].ran = 0 =>
                  ChainHas("preflight") \/ ChainHas("again")
=============================================================================
