------------------------------ MODULE Registry ------------------------------
(***************************************************************************)
(* How the registrars under registry/ keep one service instance            *)
(* registered: the application calls Register and Deregister, one at a     *)
(* time; each Register starts a heartbeat goroutine; the registry server   *)
(* expires what nobody renews, and can be unreachable for a while.         *)
(*                                                                         *)
(* Each registrar is three records of decisions.  Register:                *)
(*   supersedes   it ends the heartbeat of an earlier Register: "first",   *)
(*                "last" (once the new instance is written) or "no"        *)
(* Deregister:                                                             *)
(*   steps        "delete" the instance, "cancel" the heartbeat, in order  *)
(*   regardless   it cancels even if the server refused to delete          *)
(* the heartbeat:                                                          *)
(*   leased       it renews the lease of its own write; otherwise the      *)
(*                instance, whoever wrote it                               *)
(*   revives      it writes the instance again when that is lost           *)
(*   asks         it looks for its cancellation before it does             *)
(*   quits        it ends at a failed write                                *)
(*   late         a write that timed out may still be applied              *)
(*   cleans       when cancelled it deletes the instance and ends          *)
(*   forever      a cancellation also ends the heartbeats started later    *)
(*   enlists      it can be cancelled only once it has run                 *)
(*   session      the connection keeps the write alive (Zookeeper)         *)
(*                                                                         *)
(* The second part is the other side: the watchers and their consumers.    *)
(* Definitions named Mutant... are faulty variants of the one after them.  *)
(***************************************************************************)
EXTENDS Naturals, Sequences, FiniteSets

CONSTANTS MaxRegisters,  \* calls of Register
          MaxLeases,     \* distinct writes told apart at any time
          MaxTroubles    \* outages of the server and writes timing out

Beats == [leased |-> FALSE, revives |-> FALSE, asks |-> FALSE, quits |-> FALSE,
          late |-> FALSE, cleans |-> FALSE, forever |-> FALSE, enlists |-> FALSE,
          session |-> FALSE]

EtcdRegister      == [supersedes |-> "first"]
MutantEtcdDeregister == [steps |-> <<"delete">>, regardless |-> FALSE]
EtcdDeregister    == [steps |-> <<"delete", "cancel">>, regardless |-> FALSE]
MutantEtcdHeartBeat == [Beats EXCEPT !.leased = TRUE, !.revives = TRUE,
                                   !.asks = TRUE, !.late = TRUE, !.quits = TRUE]
EtcdHeartBeat     == [Beats EXCEPT !.leased = TRUE, !.revives = TRUE,
                                   !.asks = TRUE, !.late = TRUE]

ConsulRegister    == [supersedes |-> "no"]
ConsulDeregister  == [steps |-> <<"delete", "cancel">>, regardless |-> TRUE]
ConsulHeartbeat   == [Beats EXCEPT !.revives = TRUE, !.asks = TRUE,
                                   !.cleans = TRUE, !.forever = TRUE]

EurekaRegister    == [supersedes |-> "no"]
EurekaDeregister  == [steps |-> <<"delete", "cancel">>, regardless |-> FALSE]
EurekaHeartbeat   == [Beats EXCEPT !.revives = TRUE, !.enlists = TRUE]

ZookeeperRegister == [supersedes |-> "no"]
ZookeeperDeregister == [steps |-> <<"delete">>, regardless |-> FALSE]
ZookeeperReRegister == [Beats EXCEPT !.leased = TRUE, !.session = TRUE,
                                     !.revives = TRUE, !.quits = TRUE]

PolarisRegister   == [supersedes |-> "last"]
PolarisDeregister == [steps |-> <<"cancel", "delete">>, regardless |-> FALSE]
PolarisHeartbeat  == Beats

ServicecombRegister == [supersedes |-> "last"]
ServicecombDeregister == [steps |-> <<"cancel", "delete">>, regardless |-> FALSE]
ServicecombHeartbeat == Beats

AllRegistrars ==
    {[register |-> EtcdRegister, deregister |-> EtcdDeregister,
      beat |-> EtcdHeartBeat],
     [register |-> ConsulRegister, deregister |-> ConsulDeregister,
      beat |-> ConsulHeartbeat],
     [register |-> EurekaRegister, deregister |-> EurekaDeregister,
      beat |-> EurekaHeartbeat],
     [register |-> ZookeeperRegister, deregister |-> ZookeeperDeregister,
      beat |-> ZookeeperReRegister],
     [register |-> PolarisRegister, deregister |-> PolarisDeregister,
      beat |-> PolarisHeartbeat],
     [register |-> ServicecombRegister, deregister |-> ServicecombDeregister,
      beat |-> ServicecombHeartbeat]}


VARIABLES registrar,   \* the registrar's decisions
          reachable,   \* whether calls reach the registry server
          troubles,    \* outages and timeouts so far
          instance,    \* the write the server holds for the instance, or 0
          leases,      \* the writes whose lease (session, TTL) is alive
          pending,     \* whether a timed-out write may still be applied
          beat,        \* each heartbeat goroutine
          started,     \* number of calls of Register that succeeded
          beating,     \* the heartbeat a cancellation reaches, 0 for none
          cancels,     \* cancellations running in their own goroutine
          caller,      \* what is left of the call of the application
          intent,      \* history: what the calls so far should have achieved
          spoiled,     \* history: the mishaps described at the properties
          listed       \* Eureka: whether the client's own list has the instance

beatVars == <<registrar, reachable, troubles, instance, leases, pending, beat,
              started, beating, cancels, caller, intent, spoiled, listed>>

HeartbeatIds == 1..MaxRegisters
Running(g) == beat[g].pc \notin {"none", "gone"}

BeatInit ==
    /\ registrar \in AllRegistrars
    /\ reachable = TRUE /\ troubles = 0
    /\ instance = 0 /\ leases = {} /\ pending = FALSE
    /\ beat = [g \in HeartbeatIds |-> [pc |-> "none", lease |-> 0, cancelled |-> FALSE]]
    /\ started = 0 /\ beating = 0 /\ cancels = 0
    /\ caller = <<>>
    /\ intent = "none" /\ spoiled = {} /\ listed = FALSE

-----------------------------------------------------------------------------
(* The registry server.                                                    *)

Fresh == CHOOSE w \in 1..MaxLeases :
             w \notin leases \union {beat[g].lease : g \in HeartbeatIds}

\* g (0: the application) writes the instance under a lease of its own; a
\* write that lands on one that another heartbeat renews takes its place.
Write(g, mishaps) ==
    /\ instance' = Fresh
    /\ leases' = IF registrar.beat.leased THEN leases \union {Fresh} ELSE {Fresh}
    /\ spoiled' = spoiled \union mishaps \union
                    (IF /\ registrar.beat.leased
                        /\ \E h \in HeartbeatIds \ {g} :
                            Running(h) /\ ~beat[h].cancelled /\ beat[h].lease \in leases
                     THEN {"overtaken"} ELSE {})

Delete ==
    /\ instance' = 0
    /\ leases' = IF registrar.beat.leased THEN leases ELSE {}

Outage ==
    /\ reachable /\ troubles < MaxTroubles
    /\ reachable' = FALSE /\ troubles' = troubles + 1
    /\ UNCHANGED <<registrar, instance, leases, pending, beat, started, beating,
                   cancels, caller, intent, spoiled, listed>>

Back ==
    /\ ~reachable
    /\ reachable' = TRUE
    /\ UNCHANGED <<registrar, troubles, instance, leases, pending, beat, started,
                   beating, cancels, caller, intent, spoiled, listed>>

\* Nobody renews w: the heartbeat that does has ended, or cannot reach the
\* server.  (Zookeeper's session is renewed by the connection itself.)
Unrenewed(w) ==
    \/ ~reachable
    \/ /\ ~registrar.beat.session
       /\ ~ \E g \in HeartbeatIds : /\ beat[g].pc \in {"arming", "beat"}
                                    /\ registrar.beat.leased => beat[g].lease = w

Expire(w) ==
    /\ w \in leases /\ Unrenewed(w)
    /\ leases' = leases \ {w}
    /\ instance' = IF instance = w THEN 0 ELSE instance
    /\ UNCHANGED <<registrar, reachable, troubles, pending, beat, started, beating,
                   cancels, caller, intent, spoiled, listed>>

\* The write of an attempt the heartbeat gave up waiting for.
LatePut ==
    /\ pending /\ reachable
    /\ pending' = FALSE
    /\ Write(0, {})
    /\ UNCHANGED <<registrar, reachable, troubles, beat, started, beating, cancels,
                   caller, intent, listed>>

-----------------------------------------------------------------------------
(* The heartbeat goroutine.                                                *)

Goes(g, pc) == beat' = [beat EXCEPT ![g].pc = pc]

\* The goroutine runs: from here on a cancellation finds it.
Arm(g) ==
    /\ beat[g].pc = "arming"
    /\ Goes(g, "beat")
    /\ beating' = IF registrar.beat.enlists THEN g ELSE beating
    /\ UNCHANGED <<registrar, reachable, troubles, instance, leases, pending,
                   started, cancels, caller, intent, spoiled, listed>>

\* It finds itself cancelled; Consul's removes the instance on its way out.
Finish(g) ==
    /\ beat[g].cancelled
    /\ \/ beat[g].pc = "beat"
       \/ beat[g].pc = "lost" /\ registrar.beat.asks
    /\ Goes(g, "gone")
    /\ IF registrar.beat.cleans /\ reachable
       THEN Delete
       ELSE UNCHANGED <<instance, leases>>
    /\ UNCHANGED <<registrar, reachable, troubles, pending, started, beating,
                   cancels, caller, intent, spoiled, listed>>

\* A renewal fails because what it renews is no longer there.
Notice(g) ==
    /\ beat[g].pc = "beat" /\ registrar.beat.revives /\ reachable
    /\ IF registrar.beat.leased THEN beat[g].lease \notin leases ELSE instance = 0
    /\ Goes(g, "lost")
    /\ UNCHANGED <<registrar, reachable, troubles, instance, leases, pending, started,
                   beating, cancels, caller, intent, spoiled, listed>>

\* It decides to write the instance again.
Attempt(g) ==
    /\ beat[g].pc = "lost"
    /\ registrar.beat.asks => ~beat[g].cancelled
    /\ Goes(g, "put")
    /\ UNCHANGED <<registrar, reachable, troubles, instance, leases, pending, started,
                   beating, cancels, caller, intent, spoiled, listed>>

\* The write succeeds, or is refused: the server cannot be reached or the
\* heartbeat's context is over.
Put(g) ==
    /\ beat[g].pc = "put"
    /\ \/ /\ reachable
          /\ Write(g, {})
          /\ beat' = [beat EXCEPT ![g].pc = "beat", ![g].lease = Fresh]
       \/ /\ ~reachable \/ beat[g].cancelled
          /\ Goes(g, IF registrar.beat.quits THEN "gone"
                     ELSE IF registrar.beat.asks THEN "lost" ELSE "beat")
          /\ UNCHANGED <<instance, leases, spoiled>>
    /\ UNCHANGED <<registrar, reachable, troubles, pending, started, beating, cancels,
                   caller, intent, listed>>

\* The heartbeat stops waiting for its write after three seconds.
PutTimeout(g) ==
    /\ beat[g].pc = "put" /\ registrar.beat.late
    /\ troubles < MaxTroubles /\ ~pending
    /\ Goes(g, "lost")
    /\ pending' = TRUE /\ troubles' = troubles + 1
    /\ UNCHANGED <<registrar, reachable, instance, leases, started, beating, cancels,
                   caller, intent, spoiled, listed>>

-----------------------------------------------------------------------------
(* The application.                                                        *)

Cancelled(gs) ==
    [g \in HeartbeatIds |->
        [beat[g] EXCEPT !.cancelled = @ \/ g \in gs]]

\* Who a cancellation reaches.
Reached == IF registrar.beat.forever THEN HeartbeatIds ELSE {beating}

Register ==
    /\ caller = <<>> /\ started < MaxRegisters
    /\ caller' = <<"put">>
    /\ intent' = "none"
    /\ IF registrar.register.supersedes = "first"
       THEN beat' = Cancelled({beating}) /\ beating' = 0
       ELSE UNCHANGED <<beat, beating>>
    /\ UNCHANGED <<registrar, reachable, troubles, instance, leases, pending, started,
                   cancels, spoiled, listed>>

\* Eureka's client lists the instances it finds up, from time to time; a server it
\* cannot reach counts as empty.
Broadcast ==
    /\ registrar.beat.enlists
    /\ listed' = (reachable /\ instance # 0)
    /\ UNCHANGED <<registrar, reachable, troubles, instance, leases, pending, beat, started,
                   beating, cancels, caller, intent, spoiled>>

\* Eureka's Register asks its list, and the server about a service that is not listed.
FindsItUp == registrar.beat.enlists /\ (listed \/ (reachable /\ instance # 0))

\* The instance is written and its heartbeat started; Eureka's Register does
\* neither when it finds the instance up.
RegisterPut ==
    /\ caller = <<"put">>
    /\ caller' = <<>>
    /\ \/ /\ FindsItUp
          /\ started' = started + 1 /\ intent' = "in"
          /\ spoiled' = IF \A g \in HeartbeatIds : Running(g) => beat[g].cancelled
                        THEN spoiled \union {"missed"} ELSE spoiled
          /\ UNCHANGED <<instance, leases, beat, beating>>
       \/ /\ ~FindsItUp /\ ~reachable
          /\ intent' = "none"
          /\ UNCHANGED <<instance, leases, beat, beating, started, spoiled>>
       \/ /\ ~FindsItUp /\ reachable
          /\ LET g == started + 1 IN
             /\ Write(0, IF beat[g].cancelled THEN {"revoked"} ELSE {})
             /\ beat' = [Cancelled(IF registrar.register.supersedes = "last"
                                   THEN {beating} ELSE {})
                         EXCEPT ![g].pc = "arming", ![g].lease = Fresh]
             /\ beating' = IF registrar.beat.enlists THEN beating ELSE g
             /\ started' = g /\ intent' = "in"
    /\ UNCHANGED <<registrar, reachable, troubles, pending, cancels, listed>>

\* The application does not deregister again what a call has deregistered.
Deregister ==
    /\ caller = <<>> /\ started > 0 /\ intent # "out"
    /\ caller' = registrar.deregister.steps
    /\ intent' = "none"
    /\ UNCHANGED <<registrar, reachable, troubles, instance, leases, pending, beat,
                   started, beating, cancels, spoiled, listed>>

Achieved == IF Len(caller) = 1 THEN "out" ELSE "none"

DeregisterDelete ==
    /\ caller # <<>> /\ Head(caller) = "delete"
    /\ IF reachable
       THEN Delete /\ caller' = Tail(caller) /\ intent' = Achieved
       ELSE /\ caller' = IF registrar.deregister.regardless THEN Tail(caller) ELSE <<>>
            /\ UNCHANGED <<instance, leases, intent>>
    /\ UNCHANGED <<registrar, reachable, troubles, pending, beat, started, beating,
                   cancels, spoiled, listed>>

\* Eureka's is sent by a goroutine that Deregister does not wait for.
DeregisterCancel ==
    /\ caller # <<>> /\ Head(caller) = "cancel"
    /\ caller' = Tail(caller)
    /\ intent' = Achieved
    /\ IF registrar.beat.enlists
       THEN cancels' = cancels + 1 /\ UNCHANGED <<beat, beating>>
       ELSE beat' = Cancelled(Reached) /\ beating' = 0 /\ UNCHANGED cancels
    /\ UNCHANGED <<registrar, reachable, troubles, instance, leases, pending, started,
                   spoiled, listed>>

CancelHeartbeat ==
    /\ cancels > 0
    /\ cancels' = cancels - 1
    /\ beat' = Cancelled(Reached)
    /\ spoiled' = IF \/ intent # "out"
                     \/ \E g \in HeartbeatIds \ {beating} : Running(g) /\ ~beat[g].cancelled
                  THEN spoiled \union {"missed"} ELSE spoiled
    /\ UNCHANGED <<registrar, reachable, troubles, instance, leases, pending, started,
                   beating, caller, intent, listed>>

-----------------------------------------------------------------------------

Heartbeat(g) == Arm(g) \/ Finish(g) \/ Notice(g) \/ Attempt(g) \/ Put(g)
Call == RegisterPut \/ DeregisterDelete \/ DeregisterCancel

BeatNext ==
    \/ Outage \/ Back \/ LatePut \/ Broadcast
    \/ \E w \in 1..MaxLeases : Expire(w)
    \/ \E g \in HeartbeatIds : Heartbeat(g) \/ PutTimeout(g)
    \/ Register \/ Deregister \/ Call \/ CancelHeartbeat

BeatFairness ==
    /\ WF_beatVars(Back) /\ WF_beatVars(Call) /\ WF_beatVars(CancelHeartbeat)
    /\ \A w \in 1..MaxLeases : WF_beatVars(Expire(w))
    /\ \A g \in HeartbeatIds : WF_beatVars(Heartbeat(g))

BeatSpec == BeatInit /\ [][BeatNext]_beatVars /\ BeatFairness

\* A service that stays deregistered disappears from the registry for good:
\* whatever its heartbeat was doing when Deregister ran (etcd registry.go:102,
\* consul client.go:236-243, polaris registry.go:207, servicecomb
\* registry.go:189), what it may still have written expires.  Zookeeper's
\* heartbeat (the one with a session) has no end, so it is not held to it.  "missed" is
\* Eureka's: a cancellation that came before the heartbeat had stored its
\* channel, or after another had replaced it, leaves a heartbeat that writes
\* the instance again (client.go:253, 276-281).
DeregisteredStaysGone ==
    ~registrar.beat.session /\ intent = "out" /\ "missed" \notin spoiled => instance = 0

\* A service that stays registered is found again after any outage, for the
\* registrars whose heartbeat writes a lost instance again (etcd
\* registry.go:198-203 "never give up while the context is alive", consul
\* client.go:234, eureka client.go:267-269), unless a mishap happened first:
\* etcd's "overtaken", a timed-out or cancelled write applied after the one
\* whose lease is renewed; Consul's "revoked", a Register after Deregister,
\* whose heartbeat starts with a context already over (client.go:202-205);
\* Eureka's "missed", also a Register that finds the instance up, be it only
\* in a list older than the last Deregister, and leaves it to heartbeats that
\* are all cancelled (eureka.go:81-86, 120-129).  Zookeeper's ends at the
\* first error.
RegisteredComesBack ==
    registrar.beat.revives /\ ~registrar.beat.session /\ intent = "in" /\ spoiled = {}
    => instance # 0

RegistrationsSettle == <>[](DeregisteredStaysGone /\ RegisteredComesBack)

-----------------------------------------------------------------------------
(***************************************************************************)
(* A consumer of a registry's watch stream: selector.WatchedBalancer, which *)
(* keeps a snapshot of the instances for Pick, or the gRPC resolver, which  *)
(* pushes them to the channel; over the watcher of each registry.           *)
(*                                                                          *)
(* A watcher is two records of decisions.  Watch opens it:                  *)
(*   feed     how a change reaches it: "event" (one queued per change),     *)
(*            "oneshot" (an event, then the watch must be set again),       *)
(*            "cache" (a poller refreshes a cache and raises a flag),       *)
(*            "state" (each change queues the new state)                    *)
(*   primes   what the first Next finds waiting: "always" something, "any"  *)
(*            something if there are instances, "never" anything            *)
(*   eager    the flag is raised before the cache is refreshed              *)
(*   nonempty an empty result does not refresh the cache, and a poller that *)
(*            fails at its start is never started again                     *)
(*   offline  with the registry unreachable it "waits", "opens" or "refuses"*)
(* Next waits for it and returns instances:                                 *)
(*   returns  what "server" or "cache" hold, or the "state" queued          *)
(*   fails    it returns an error while the registry cannot be reached      *)
(*   heeds    it ends when the consumer's context is cancelled              *)
(* The states of the registry are 0 (no instance) and 1, 2...               *)
(* Definitions named Mutant... are faulty variants of the one after them.   *)
(***************************************************************************)

CONSTANTS MaxStates,       \* number of non-empty states of the registry
          MaxChanges,      \* changes of the registered instances
          MaxUnreachable   \* times the registry cannot be reached

Opens == [feed |-> "event", primes |-> "always", eager |-> FALSE,
          nonempty |-> FALSE, offline |-> "refuses"]

EtcdWatch  == [Opens EXCEPT !.offline = "waits"]
EtcdNext   == [returns |-> "server", fails |-> TRUE, heeds |-> TRUE]

ZookeeperWatch == [Opens EXCEPT !.feed = "oneshot", !.offline = "opens"]
ZookeeperNext  == [returns |-> "server", fails |-> TRUE, heeds |-> TRUE]

NacosWatch == [Opens EXCEPT !.feed = "cache"]
NacosNext  == [returns |-> "cache", fails |-> FALSE, heeds |-> TRUE]

ConsulWatch   == [Opens EXCEPT !.feed = "cache", !.primes = "any", !.nonempty = TRUE]
ConsulNext    == [returns |-> "cache", fails |-> FALSE, heeds |-> TRUE]

EurekaWatch     == [Opens EXCEPT !.feed = "cache", !.eager = TRUE,
                                   !.offline = "opens"]
EurekaNext      == [returns |-> "cache", fails |-> FALSE, heeds |-> TRUE]

KubernetesWatch == [Opens EXCEPT !.feed = "state", !.primes = "any",
                                   !.offline = "opens"]
KubernetesNext  == [returns |-> "state", fails |-> FALSE, heeds |-> FALSE]

PolarisWatch == [Opens EXCEPT !.feed = "state", !.primes = "never"]
PolarisNext  == [returns |-> "state", fails |-> FALSE, heeds |-> TRUE]

AllWatchers ==
    {[watch |-> EtcdWatch, next |-> EtcdNext],
     [watch |-> ZookeeperWatch, next |-> ZookeeperNext],
     [watch |-> NacosWatch, next |-> NacosNext],
     [watch |-> ConsulWatch, next |-> ConsulNext],
     [watch |-> EurekaWatch, next |-> EurekaNext],
     [watch |-> KubernetesWatch, next |-> KubernetesNext],
     [watch |-> PolarisWatch, next |-> PolarisNext]}

\* The consumer: whether a Watch that fails at first is tried again (by the
\* next Pick), whether Close stops the watcher besides its context, whether it
\* calls Next once before its loop, and whether what it shows may be refused.
MutantWatchedBalancer == [again |-> TRUE, stops |-> FALSE, seeds |-> TRUE, refused |-> FALSE]
WatchedBalancer == [again |-> TRUE, stops |-> TRUE, seeds |-> TRUE, refused |-> FALSE]
DiscoveryResolver == [again |-> FALSE, stops |-> FALSE, seeds |-> FALSE, refused |-> TRUE]
AllConsumers == {WatchedBalancer, DiscoveryResolver}

VARIABLES watcher,      \* the watcher's decisions
          consumer,     \* the consumer's decisions
          registered,   \* the instances the registry holds
          changes,      \* changes so far
          online,       \* whether the registry can be reached
          unreachable,  \* times it could not be
          cached,       \* the poller's cache
          refreshing,   \* result the poller holds but has not stored, or Unknown
          events,       \* what Next will find, oldest first
          armed,        \* the one-shot watch: "off", "on" or "ended"
          orphaned,     \* the service's poller could not be started
          snapshot,     \* the consumer's view of the instances, Unknown before any
          closed,       \* Close was called
          consumerPc,   \* the consumer's goroutine
          unseeded      \* history: the first Next failed, and nothing changed since

discoveryVars == <<watcher, consumer, registered, changes, online, unreachable,
                   cached, refreshing, events, armed, orphaned,
                   snapshot, closed, consumerPc, unseeded>>

\* Values that are not states of the registry: no state, a bare event, an error.
Unknown == MaxStates + 1
Wake    == MaxStates + 2
Failure == MaxStates + 3
States  == 0..MaxStates

DiscoveryInit ==
    /\ watcher \in AllWatchers /\ consumer \in AllConsumers
    /\ registered \in States /\ changes = 0
    /\ online = TRUE /\ unreachable = 0
    /\ cached = 0 /\ refreshing = Unknown
    /\ events = <<>> /\ armed = "off" /\ orphaned = FALSE
    /\ snapshot = Unknown /\ closed = FALSE /\ consumerPc = "idle"
    /\ unseeded = FALSE

Watching == consumerPc \in {"seed", "next", "broken"}
Flagged == IF Watching /\ events = <<>> THEN <<Wake>> ELSE events

-----------------------------------------------------------------------------
(* The registry, and what the watcher's own goroutines make of it.         *)

Change ==
    /\ changes < MaxChanges
    /\ changes' = changes + 1
    /\ \E r \in States \ {registered} :
        /\ registered' = r
        /\ events' = CASE ~Watching -> events
                       [] watcher.watch.feed = "event"   -> Append(events, Wake)
                       [] watcher.watch.feed = "state"   -> Append(events, r)
                       [] watcher.watch.feed = "oneshot" ->
                              IF armed = "on" THEN Append(events, Wake) ELSE events
                       [] OTHER -> events
    /\ armed' = IF armed = "on" THEN "off" ELSE armed
    /\ unseeded' = FALSE
    /\ UNCHANGED <<watcher, consumer, online, unreachable, cached, refreshing, orphaned,
                   snapshot, closed, consumerPc>>

\* Zookeeper's connection tells the watch that is set.
Unreachable ==
    /\ online /\ unreachable < MaxUnreachable
    /\ online' = FALSE /\ unreachable' = unreachable + 1
    /\ IF armed = "on"
       THEN events' = Append(events, Failure) /\ armed' = "off"
       ELSE UNCHANGED <<events, armed>>
    /\ UNCHANGED <<watcher, consumer, registered, changes, cached, refreshing, orphaned,
                   snapshot, closed, consumerPc, unseeded>>

Reachable ==
    /\ ~online
    /\ online' = TRUE
    /\ UNCHANGED <<watcher, consumer, registered, changes, unreachable, cached, refreshing,
                   events, armed, orphaned, snapshot, closed, consumerPc, unseeded>>

\* Zookeeper's watch goroutine sets its watch again once its last event was
\* taken from it, and ends if it cannot.
Rearm ==
    /\ Watching /\ watcher.watch.feed = "oneshot" /\ armed = "off" /\ Len(events) < 2
    /\ IF online
       THEN armed' = "on" /\ UNCHANGED events
       ELSE armed' = "ended" /\ events' = Append(events, Failure)
    /\ UNCHANGED <<watcher, consumer, registered, changes, online, unreachable, cached,
                   refreshing, orphaned, snapshot, closed, consumerPc, unseeded>>

\* The poller finds a change and tells the watcher.  Eureka's runs whether or
\* not there is one, takes an unreachable registry for an empty one, and wakes
\* the watcher first.
Poll ==
    /\ watcher.watch.feed = "cache" /\ ~orphaned
    /\ IF watcher.watch.eager
       THEN /\ refreshing = Unknown
            /\ refreshing' = IF online THEN registered ELSE 0
            /\ UNCHANGED cached
       ELSE /\ Watching /\ online /\ cached # registered
            /\ watcher.watch.nonempty => registered # 0
            /\ cached' = registered
            /\ UNCHANGED refreshing
    /\ events' = Flagged
    /\ UNCHANGED <<watcher, consumer, registered, changes, online, unreachable, armed,
                   orphaned, snapshot, closed, consumerPc, unseeded>>

Store ==
    /\ refreshing # Unknown
    /\ cached' = refreshing /\ refreshing' = Unknown
    /\ UNCHANGED <<watcher, consumer, registered, changes, online, unreachable, events,
                   armed, orphaned, snapshot, closed, consumerPc, unseeded>>

-----------------------------------------------------------------------------
(* The consumer.                                                           *)

\* Watch succeeds: the watcher is new, and its cache, if it has its own, too.
Opened(pc) ==
    /\ consumerPc' = pc
    /\ armed' = "off"
    /\ cached' = IF watcher.watch.feed = "cache" /\ ~watcher.watch.eager /\ ~orphaned
                 THEN registered ELSE cached
    /\ events' = CASE watcher.watch.primes = "never" -> <<>>
                   [] watcher.watch.primes = "always" -> <<Wake>>
                   [] watcher.watch.feed = "state" ->
                          IF registered = 0 THEN <<>> ELSE <<registered>>
                   [] OTHER -> IF cached' = 0 THEN <<>> ELSE <<Wake>>
    /\ UNCHANGED orphaned

\* The first Watch: of the balancer's first Pick, which then calls Next itself, or of
\* the resolver.
Watch ==
    /\ consumerPc = "idle" /\ ~closed
    /\ watcher.watch.offline = "waits" => online
    /\ IF online \/ orphaned \/ watcher.watch.offline = "opens"
       THEN Opened(IF consumer.seeds THEN "seed" ELSE "next")
       ELSE /\ consumerPc' = IF consumer.again THEN "idle" ELSE "gone"
            /\ orphaned' = watcher.watch.nonempty
            /\ UNCHANGED <<armed, cached, events>>
    /\ UNCHANGED <<watcher, consumer, registered, changes, online, unreachable, refreshing,
                   snapshot, closed, unseeded>>

\* What Next returns: Eureka's asks the server about a service it has not cached.
Returned ==
    CASE watcher.next.returns = "server" -> registered
      [] watcher.next.returns = "state" -> Head(events)
      [] watcher.watch.eager /\ cached = 0 -> IF online THEN registered ELSE 0
      [] OTHER -> cached

NextFails == Head(events) = Failure \/ (watcher.next.fails /\ ~online)

\* The Next of the first Pick: its error is dropped and the watcher, which has nothing
\* more to deliver before a change, is kept.
Seed ==
    /\ consumerPc = "seed" /\ ~closed /\ events # <<>>
    /\ events' = Tail(events) /\ consumerPc' = "next"
    /\ IF NextFails
       THEN unseeded' = TRUE /\ UNCHANGED snapshot
       ELSE snapshot' = Returned /\ UNCHANGED unseeded
    /\ UNCHANGED <<watcher, consumer, registered, changes, online, unreachable, cached,
                   refreshing, armed, orphaned, closed>>

\* The loop.  A gRPC channel may refuse a list without addresses, and the resolver
\* ends then.
Next ==
    /\ consumerPc = "next" /\ ~closed /\ events # <<>>
    /\ events' = Tail(events)
    /\ IF NextFails
       THEN consumerPc' = "broken" /\ UNCHANGED snapshot
       ELSE /\ snapshot' = Returned
            /\ consumerPc' \in {"next"} \union (IF consumer.refused /\ Returned = 0 THEN {"gone"} ELSE {})
    /\ UNCHANGED <<watcher, consumer, registered, changes, online, unreachable, cached,
                   refreshing, armed, orphaned, closed, unseeded>>

\* After an error the consumer replaces its watcher; if it cannot, it goes on
\* with the one it has.
MutantRewatch ==
    /\ consumerPc = "broken" /\ ~closed
    /\ consumerPc' = "next"
    /\ UNCHANGED <<watcher, consumer, registered, changes, online, unreachable, refreshing,
                   snapshot, closed, armed, cached, events, orphaned, unseeded>>
Rewatch ==
    /\ consumerPc = "broken" /\ ~closed
    /\ watcher.watch.offline = "waits" => online
    /\ IF online \/ watcher.watch.offline = "opens"
       THEN Opened("next")
       ELSE consumerPc' = "next" /\ UNCHANGED <<armed, cached, events, orphaned>>
    /\ UNCHANGED <<watcher, consumer, registered, changes, online, unreachable, refreshing,
                   snapshot, closed, unseeded>>

Close ==
    /\ ~closed
    /\ closed' = TRUE
    /\ UNCHANGED <<watcher, consumer, registered, changes, online, unreachable, cached,
                   refreshing, events, armed, orphaned, snapshot, consumerPc, unseeded>>

End ==
    /\ closed
    /\ \/ consumerPc \in {"idle", "broken"}
       \/ consumerPc \in {"seed", "next"} /\ (watcher.next.heeds \/ consumer.stops)
    /\ consumerPc' = "gone"
    /\ UNCHANGED <<watcher, consumer, registered, changes, online, unreachable, cached,
                   refreshing, events, armed, orphaned, snapshot, closed, unseeded>>

DiscoveryNext ==
    \/ Change \/ Unreachable \/ Reachable \/ Rearm \/ Poll \/ Store
    \/ Watch \/ Seed \/ Next \/ Rewatch \/ Close \/ End

DiscoverySpec ==
    /\ DiscoveryInit /\ [][DiscoveryNext]_discoveryVars
    /\ WF_discoveryVars(Reachable) /\ WF_discoveryVars(Rearm)
    /\ WF_discoveryVars(Poll) /\ WF_discoveryVars(Store)
    /\ WF_discoveryVars(Seed) /\ WF_discoveryVars(Next) /\ WF_discoveryVars(Rewatch) /\ WF_discoveryVars(End)

\* Once the registry stays as it is, so does the consumer's view of it, and
\* they agree: no event was lost between Watch, Next and the pollers
\* (selector/balancer.go:117-119, resolver.go:76-78).  Only the next change
\* brings this about when the first Next of a balancer failed: its error is
\* dropped and nothing rebuilds the watcher (balancer.go:110-113, etcd
\* watcher.go:46-49).  A resolver that ended shows what it last had: its first
\* Watch failed, or the channel refused an update (resolver.go:81-84,
\* 105-107).  Not promised by
\* Zookeeper's one-shot watch, which misses what changes before it is set
\* again (watcher.go:42-58); by Polaris before its first event; by Consul's
\* poller once the last instance is gone (registry.go:178) or if the first
\* Watch of the service failed (registry.go:144-149).
SnapshotCatchesUp ==
    /\ watcher.watch.feed # "oneshot" /\ watcher.watch.primes # "never"
    /\ Watching /\ ~closed /\ ~orphaned /\ ~unseeded /\ (watcher.watch.nonempty => registered # 0)
    => snapshot = registered \/ (snapshot = Unknown /\ registered = 0)

\* Close ends the consumer's goroutine, wherever it is (balancer.go:74-77,
\* resolver.go:74), except the resolver's on a Kubernetes iterator, whose Next
\* ignores the context (registry.go:305-312).
CloseEndsConsumer ==
    closed /\ ~(consumer = DiscoveryResolver /\ watcher.next = KubernetesNext)
    => consumerPc \in {"idle", "gone"}

DiscoverySettles == <>[](SnapshotCatchesUp /\ CloseEndsConsumer)
=============================================================================
