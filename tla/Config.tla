------------------------------- MODULE Config -------------------------------
(***************************************************************************)
(* The configuration sources of config/: New checks the options, Load      *)
(* reads a key once, WatchValue hands back a channel (buffer 1) on which   *)
(* every new value of the key arrives and which is closed when the context *)
(* ends.  The stores behind the sources are external: one key, whose       *)
(* versions are 1, 2, ... and 0 when it is absent.                         *)
(*                                                                         *)
(* The second part is the fallback reader over several sources.            *)
(* Definitions named Mutant... are faulty variants of the one after them.  *)
(***************************************************************************)
EXTENDS Naturals, Sequences, FiniteSets, FiniteSetsExt

CONSTANTS Watchers,      \* calls of WatchValue on one source
          MaxChanges,    \* bound on the changes of the key
          MaxFaults      \* bound on failed calls and broken streams

VARIABLES source,        \* one of AllSources
          request,       \* the options and the argument of a Load, its answer
          store,         \* the version of the key in the store
          changes,       \* changes made so far
          ctx,           \* the context of the watchers: "live" or "done"
          faults,        \* faults so far
          shared,        \* s.watcher.Events of the file source
          watch,         \* per watcher: the state of its goroutines and channel
          crashed        \* a send on a closed channel ended the process

configVars == <<source, request, store, changes, ctx, faults, shared, watch, crashed>>

(* ----- New and Load ---------------------------------------------------- *)

(* What New refuses to be without ("path": the default key).               *)
ConsulNew == {"client", "path"}
EtcdNew == {"path"}
FileNew == {"path"}
HttpNew == {"path"}
RedisNew == {"client", "path"}
VaultNew == {"client", "path"}
ZookeeperNew == {"client", "path"}
PolarisNew == {"client", "path"}
OssNew == {"client"}
FsNew == {"client"}
EnvNew == {}
NacosNew == {}
KubernetesNew == {}
ApolloNew == {}

(* resolveKey: the caller's key, or the configured one.                    *)
ResolveKey(key, path) == IF key # "" THEN key ELSE path
ConsulResolveKey(key, path) == ResolveKey(key, path)
EtcdResolveKey(key, path) == ResolveKey(key, path)
FileResolveKey(key, path) == ResolveKey(key, path)
HttpResolveKey(key, path) == ResolveKey(key, path)
RedisResolveKey(key, path) == ResolveKey(key, path)
VaultResolveKey(key, path) == ResolveKey(key, path)
ZookeeperResolveKey(key, path) == ResolveKey(key, path)
PolarisResolveFileName(key, path) == ResolveKey(key, path)
OssResolveKey(key, path) == ResolveKey(key, path)
FsResolveKey(key, path) == ResolveKey(key, path)
EnvResolveKey(key, path) == ResolveKey(key, path)
NacosResolveDataID(key, path) == ResolveKey(key, path)
ApolloResolveNamespace(key, path) == ResolveKey(key, path)
KubernetesResolveKey(key, path) == key

(* What Load answers for the version v under the key k; an absent key is   *)
(* nil, an error or data, as the client library tells it.                  *)
Answer(v, absent) == IF v = 0 THEN absent ELSE "value"
ConsulLoad(k, v) == Answer(v, "nil")
EtcdLoad(k, v) == Answer(v, "nil")
RedisLoad(k, v) == Answer(v, "nil")
VaultLoad(k, v) == Answer(v, "nil")
ZookeeperLoad(k, v) == Answer(v, "nil")
FileLoad(k, v) == Answer(v, "error")
HttpLoad(k, v) == Answer(v, "error")
PolarisLoad(k, v) == Answer(v, "data")
NacosLoad(k, v) == Answer(v, "error")
KubernetesLoad(k, v) == IF k = "" THEN "error" ELSE Answer(v, "error")
OssLoad(k, v) == IF k = "" THEN "error" ELSE Answer(v, "error")
FsLoad(k, v) == IF k = "" THEN "error" ELSE Answer(v, "error")
EnvLoad(k, v) == IF k = "" THEN "error" ELSE Answer(v, "nil")
ApolloLoad(k, v) == Answer(v, "data")

(* ----- WatchValue ------------------------------------------------------ *)

(* How a WatchValue works.  kind: "stream" (a goroutine forwards events),  *)
(* "callback" (the library calls a listener), "poll" (a ticker), "node"    *)
(* (one-shot watches); first: the current value is an event of its own;    *)
(* gives: the value of the event, or the key read again; gone: what a      *)
(* deletion does; broken: what a broken stream does.                       *)
Stream(name, first, gives, gone, broken) ==
    [name |-> name, kind |-> "stream", first |-> first, gives |-> gives, gone |-> gone, broken |-> broken]
Other(name, kind) ==
    [name |-> name, kind |-> kind, first |-> FALSE, gives |-> "event", gone |-> "skip", broken |-> "none"]
EtcdWatchValue == Stream("etcd", FALSE, "event", "skip", "end")
ConsulWatchValue == Stream("consul", TRUE, "current", "skip", "none")
KubernetesWatchValue == Stream("kubernetes", TRUE, "event", "end", "end")
PolarisWatchValue == Stream("polaris", FALSE, "event", "send", "none")
RedisWatchValue == Stream("redis", FALSE, "maybe", "send", "lose")
FileWatchValue == Stream("file", FALSE, "read", "skip", "end")
NacosWatchValue == Other("nacos", "callback")
ApolloWatchValue == Other("apollo", "callback")
HttpWatchValue == Other("http", "poll")
OssWatchValue == Other("oss", "poll")
VaultWatchValue == Other("vault", "poll")
ZookeeperWatchValue == Other("zookeeper", "node")

AllSources == {EtcdWatchValue, ConsulWatchValue, KubernetesWatchValue, PolarisWatchValue,
    RedisWatchValue, FileWatchValue, NacosWatchValue, ApolloWatchValue, HttpWatchValue,
    OssWatchValue, VaultWatchValue, ZookeeperWatchValue, Other("env", "none"), Other("fs", "none")}

Needs == [etcd |-> EtcdNew, consul |-> ConsulNew, kubernetes |-> KubernetesNew,
    polaris |-> PolarisNew, redis |-> RedisNew, file |-> FileNew, nacos |-> NacosNew,
    apollo |-> ApolloNew, http |-> HttpNew, oss |-> OssNew, vault |-> VaultNew,
    zookeeper |-> ZookeeperNew, env |-> EnvNew, fs |-> FsNew]
Resolved(name, key, path) ==
    CASE name = "etcd" -> EtcdResolveKey(key, path) [] name = "consul" -> ConsulResolveKey(key, path)
      [] name = "file" -> FileResolveKey(key, path) [] name = "http" -> HttpResolveKey(key, path)
      [] name = "redis" -> RedisResolveKey(key, path) [] name = "vault" -> VaultResolveKey(key, path)
      [] name = "oss" -> OssResolveKey(key, path) [] name = "fs" -> FsResolveKey(key, path)
      [] name = "env" -> EnvResolveKey(key, path) [] name = "nacos" -> NacosResolveDataID(key, path)
      [] name = "zookeeper" -> ZookeeperResolveKey(key, path)
      [] name = "polaris" -> PolarisResolveFileName(key, path)
      [] name = "apollo" -> ApolloResolveNamespace(key, path)
      [] name = "kubernetes" -> KubernetesResolveKey(key, path)
Loaded(name, k, v) ==
    CASE name = "etcd" -> EtcdLoad(k, v) [] name = "consul" -> ConsulLoad(k, v)
      [] name = "file" -> FileLoad(k, v) [] name = "http" -> HttpLoad(k, v)
      [] name = "redis" -> RedisLoad(k, v) [] name = "vault" -> VaultLoad(k, v)
      [] name = "oss" -> OssLoad(k, v) [] name = "fs" -> FsLoad(k, v)
      [] name = "env" -> EnvLoad(k, v) [] name = "nacos" -> NacosLoad(k, v)
      [] name = "zookeeper" -> ZookeeperLoad(k, v) [] name = "polaris" -> PolarisLoad(k, v)
      [] name = "apollo" -> ApolloLoad(k, v) [] name = "kubernetes" -> KubernetesLoad(k, v)

Dormant == [pc |-> "new", armed |-> FALSE, events |-> <<>>, callback |-> "idle", held |-> 0,
            seen |-> 0, out |-> <<>>, closed |-> FALSE, got |-> 0, lost |-> FALSE]

ConfigInit ==
    /\ source \in AllSources
    /\ request \in [client : BOOLEAN, path : {"", "default"}, key : {"", "mine"}, asked : {""}, answer : {"none"}]
    /\ store \in {0, 1} /\ changes = 1
    /\ ctx = "live" /\ faults = 0 /\ crashed = FALSE
    /\ shared = <<>>
    /\ watch = [w \in Watchers |-> Dormant]

Built == "client" \in Needs[source.name] => request.client
Usable == Built /\ ("path" \in Needs[source.name] => request.path # "")

(* New, then one Load (the watchers of the instance have options that      *)
(* pass, which is why only an instance without a watcher loads).           *)
Load ==
    /\ request.answer = "none" /\ \A w \in Watchers : watch[w].pc = "new"
    /\ request' = IF ~Usable THEN [request EXCEPT !.answer = "refused"]
                  ELSE LET k == Resolved(source.name, request.key, request.path)
                       IN [request EXCEPT !.asked = k, !.answer = Loaded(source.name, k, store)]
    /\ UNCHANGED <<source, store, changes, ctx, faults, shared, watch, crashed>>

(* ----- The key and the context ----------------------------------------- *)

Hear(w, e) ==
    IF ~w.armed \/ source.name = "file" THEN w
    ELSE [w EXCEPT !.events = Append(@, e), !.armed = source.kind # "node"]

Write ==
    /\ changes < MaxChanges
    /\ changes' = changes + 1
    /\ \E v \in {changes + 1, 0} :
        /\ v = 0 => store # 0
        /\ store' = v
        /\ watch' = [w \in Watchers |-> Hear(watch[w], v)]
        /\ shared' = IF \E w \in Watchers : watch[w].armed /\ source.name = "file" THEN Append(shared, v) ELSE shared
    /\ UNCHANGED <<source, request, ctx, faults, crashed>>

Cancel ==
    /\ ctx = "live" /\ ctx' = "done"
    /\ UNCHANGED <<source, request, store, changes, faults, shared, watch, crashed>>

Turn(w, state) ==
    /\ watch' = [watch EXCEPT ![w] = state]
    /\ UNCHANGED <<source, request, store, changes, ctx, crashed>>
Quietly == UNCHANGED <<faults, shared>>
Fault == faults < MaxFaults /\ faults' = faults + 1 /\ UNCHANGED shared

End(state) == [state EXCEPT !.pc = "ended", !.closed = TRUE, !.armed = FALSE]
Holding(state, v) == [state EXCEPT !.pc = "send", !.held = v, !.lost = FALSE]

(* WatchValue up to its return: the consumer holds what it loaded.  etcd   *)
(* probes the server, the others subscribe: both can fail.  Only the       *)
(* watchers of the file source share something, so only they come in       *)
(* numbers.                                                                *)
Start(w) ==
    /\ watch[w].pc = "new" /\ source.kind # "none"
    /\ source.name # "file" => \A v \in Watchers : watch[v].pc = "new"
    /\ request = [client |-> TRUE, path |-> "default", key |-> "", asked |-> "", answer |-> "none"]
    /\ \/ /\ Quietly
          /\ Turn(w, [watch[w] EXCEPT !.pc = IF source.kind = "node" THEN "get" ELSE "select",
                                      !.armed = source.kind \in {"stream", "callback"}, !.got = store,
                                      !.events = IF source.first /\ store # 0 THEN <<store>> ELSE <<>>])
       \/ /\ source.kind = "stream" \/ source.name = "nacos"
          /\ Fault /\ Turn(w, [watch[w] EXCEPT !.pc = "refused"])

(* The consumer of the channel.                                            *)
Receive(w) ==
    /\ watch[w].out # <<>>
    /\ Quietly /\ Turn(w, [watch[w] EXCEPT !.got = Head(watch[w].out), !.out = <<>>])

(* ----- The forwarding goroutines --------------------------------------- *)

(* select: the context is done.                                            *)
MutantCtxDone(w) ==
    /\ ctx = "done" /\ watch[w].pc \in {"select", "wait", "existsWait"}
    /\ source.kind # "callback"
    /\ Quietly /\ Turn(w, End(watch[w]))
CtxDone(w) ==
    /\ ctx = "done" /\ watch[w].pc \in {"select", "send", "wait", "existsWait"}
    /\ source.kind # "callback"
    /\ Quietly /\ Turn(w, End(watch[w]))

(* select: out <- data.                                                    *)
Send(w) ==
    /\ watch[w].pc = "send" /\ watch[w].out = <<>>
    /\ Quietly
    /\ Turn(w, [watch[w] EXCEPT !.pc = IF source.kind = "node" THEN "wait" ELSE "select", !.out = <<watch[w].held>>])

(* A stream's next event.                                                  *)
Forward(state, e) ==
    CASE e = 0 /\ source.gone = "end" -> End(state)
      [] e = 0 /\ source.gone = "skip" -> state
      [] OTHER -> Holding(state, e)
TakeEvent(w) ==
    /\ watch[w].pc = "select" /\ source.kind = "stream" /\ source.name # "file"
    /\ watch[w].events # <<>>
    /\ LET e == Head(watch[w].events)
           rest == [watch[w] EXCEPT !.events = Tail(@)]
       IN \/ /\ source.gives \in {"event", "maybe"} /\ (source.gives = "maybe" => e # 0)
             /\ Quietly /\ Turn(w, Forward(rest, e))
          \/ /\ source.gives = "maybe"
             /\ \/ Quietly /\ Turn(w, Holding(rest, store))
                \/ Fault /\ Turn(w, [rest EXCEPT !.lost = TRUE])
          \/ /\ source.gives = "current"
             /\ Quietly /\ Turn(w, Forward([rest EXCEPT !.events = <<>>], store))

(* The file source: every goroutine receives from the one s.watcher.Events *)
(* and reads the file for the event it got.                                *)
TakeFileEvent(w) ==
    /\ watch[w].pc = "select" /\ source.name = "file" /\ shared # <<>>
    /\ shared' = Tail(shared) /\ UNCHANGED <<source, request, store, changes, ctx, faults, crashed>>
    /\ watch' = [v \in Watchers |->
                  IF v # w THEN [watch[v] EXCEPT !.lost = @ \/ watch[v].armed]
                  ELSE IF Head(shared) = 0 \/ store = 0 THEN watch[w]
                  ELSE Holding(watch[w], store)]

(* The stream breaks: the range loop ends, or messages are missed while    *)
(* the library reconnects.                                                 *)
Break(w) ==
    /\ watch[w].pc = "select" /\ source.broken # "none" /\ Fault
    /\ Turn(w, IF source.broken = "end" THEN End(watch[w])
               ELSE [watch[w] EXCEPT !.lost = @ \/ watch[w].events # <<>>, !.events = <<>>])

(* The ticker of http, vault and oss; a poll that fails is one that did    *)
(* not happen, and with its context done every poll fails.  http remembers *)
(* the ETag when the server sends one.                                     *)
HttpTick(w) ==
    /\ store \notin {0, watch[w].seen}
    /\ \E tag \in {store, watch[w].seen} : Turn(w, [Holding(watch[w], store) EXCEPT !.seen = tag])
MutantVaultTick(w) ==
    /\ store \notin {0, watch[w].seen}
    /\ Turn(w, [(IF watch[w].out = <<>> THEN Holding(watch[w], store) ELSE watch[w]) EXCEPT !.seen = store])
VaultTick(w) ==
    /\ store \notin {0, watch[w].seen}
    /\ Turn(w, [Holding(watch[w], store) EXCEPT !.seen = store])
OssTick(w) ==
    /\ store \notin {0, watch[w].seen}
    /\ Turn(w, [watch[w] EXCEPT !.pc = "load", !.seen = store, !.lost = FALSE])
Tick(w) ==
    /\ watch[w].pc = "select" /\ source.kind = "poll" /\ ctx = "live" /\ Quietly
    /\ CASE source.name = "http" -> HttpTick(w)
         [] source.name = "vault" -> VaultTick(w)
         [] source.name = "oss" -> OssTick(w)
OssDownload(w) ==
    /\ watch[w].pc = "load"
    /\ \/ Quietly /\ Turn(w, IF store = 0 THEN [watch[w] EXCEPT !.pc = "select"] ELSE Holding(watch[w], store))
       \/ Fault /\ Turn(w, [watch[w] EXCEPT !.pc = "select", !.lost = TRUE])

(* zookeeper: GetW and ExistsW read the node and arm a one-shot watch.     *)
GetW(w) ==
    /\ watch[w].pc = "get"
    /\ \/ /\ Quietly
          /\ Turn(w, IF store = 0 THEN [watch[w] EXCEPT !.pc = "exists"]
                     ELSE [Holding(watch[w], store) EXCEPT !.armed = TRUE])
       \/ Fault /\ Turn(w, End(watch[w]))
ExistsW(w) ==
    /\ watch[w].pc = "exists"
    /\ \/ Quietly /\ Turn(w, [watch[w] EXCEPT !.pc = "existsWait", !.armed = TRUE, !.lost = store # 0])
       \/ Fault /\ Turn(w, End(watch[w]))
NodeEvent(w) ==
    /\ watch[w].pc \in {"wait", "existsWait"}
    /\ \/ /\ watch[w].events # <<>> /\ Quietly
          /\ Turn(w, IF Head(watch[w].events) = 0 THEN End(watch[w])
                     ELSE [watch[w] EXCEPT !.pc = "get", !.events = <<>>, !.lost = FALSE])
       \/ Fault /\ Turn(w, End(watch[w]))

(* nacos and apollo: the library's goroutine runs the listener, another    *)
(* goroutine takes the listener off and closes the channel.                *)
OnChange(w) ==
    /\ source.kind = "callback" /\ watch[w].callback = "idle" /\ watch[w].events # <<>>
    /\ Quietly
    /\ Turn(w, [watch[w] EXCEPT !.callback = "send", !.held = Head(watch[w].events), !.events = Tail(@)])
CallbackSends(w) ==
    /\ watch[w].callback = "send" /\ UNCHANGED <<source, request, store, changes, ctx, faults, shared>>
    /\ \/ /\ watch[w].closed /\ crashed' = TRUE /\ UNCHANGED watch
       \/ /\ ~watch[w].closed /\ watch[w].out = <<>> /\ UNCHANGED crashed
          /\ watch' = [watch EXCEPT ![w].callback = "idle", ![w].out = <<watch[w].held>>]
       \/ /\ ctx = "done" /\ source.name = "nacos" /\ UNCHANGED crashed
          /\ watch' = [watch EXCEPT ![w].callback = "idle"]
NacosCloser(w) ==
    /\ source.name = "nacos" /\ Quietly
    /\ \/ /\ watch[w].pc = "select" /\ ctx = "done"
          /\ Turn(w, [watch[w] EXCEPT !.pc = "closing", !.armed = FALSE])
       \/ watch[w].pc = "closing" /\ Turn(w, End(watch[w]))
ApolloCloser(w) ==
    /\ source.name = "apollo" /\ Quietly
    /\ \/ /\ watch[w].pc = "select" /\ watch[w].armed
          /\ Turn(w, [watch[w] EXCEPT !.armed = FALSE])
       \/ /\ watch[w].pc = "select" /\ ~watch[w].armed /\ ctx = "done"
          /\ Turn(w, End(watch[w]))

GoroutineStep(w) ==
    \/ CtxDone(w) \/ Send(w) \/ TakeEvent(w) \/ TakeFileEvent(w) \/ Tick(w) \/ OssDownload(w)
    \/ GetW(w) \/ ExistsW(w) \/ NodeEvent(w)
    \/ OnChange(w) \/ CallbackSends(w) \/ NacosCloser(w) \/ ApolloCloser(w)

ConfigNext ==
    ~crashed /\ (\/ Load \/ Write \/ Cancel
                 \/ \E w \in Watchers : Start(w) \/ Receive(w) \/ Break(w) \/ GoroutineStep(w))

(* The goroutines are scheduled, the ticker ticks, and the consumer reads  *)
(* while it has not cancelled.                                             *)
ConfigFairness ==
    \A w \in Watchers :
        /\ WF_configVars(~crashed /\ GoroutineStep(w))
        /\ WF_configVars(~crashed /\ ctx = "live" /\ Receive(w))
ConfigSpec == ConfigInit /\ [][ConfigNext]_configVars /\ ConfigFairness

TypeOK ==
    /\ source \in AllSources /\ store \in 0 .. MaxChanges /\ ctx \in {"live", "done"}
    /\ faults \in 0 .. MaxFaults /\ crashed \in BOOLEAN
    /\ \A w \in Watchers : Len(watch[w].out) <= 1 /\ watch[w].got \in 0 .. MaxChanges

(* A Load that answers asked the store for the caller's key, or for the    *)
(* configured one when the caller gave none, and except for nacos and      *)
(* apollo (whose constructors check nothing) it never asks for the empty   *)
(* key: New's checks (config/consul/config.go:23-45) or those of Load      *)
(* (config/oss/oss.go:67-71) rule it out.                                  *)
AsksForTheKey ==
    request.answer \in {"value", "nil", "data"} =>
        /\ request.asked \in {request.key, request.path}
        /\ request.key # "" => request.asked = request.key
        /\ request.asked = "" => source.name \in {"nacos", "apollo"}

(* Only the goroutine that sends closes the channel, so no watcher but     *)
(* nacos and apollo can send on a closed one (config/etcd/config.go:98).   *)
OnlyTheSenderCloses == crashed => source.name \in {"nacos", "apollo"}

(* Every watcher whose channel stays open ends up with the current value,  *)
(* whatever the order of changes, polls, full channels and faults, unless  *)
(* the last change fell into a gap the code leaves: a file event taken by  *)
(* another watcher (config/file/file.go:127), an object or key whose read  *)
(* failed after its change was noted (config/oss/oss.go:143,               *)
(* config/redis/redis.go:126), a node created between GetW and ExistsW     *)
(* (config/zookeeper/zookeeper.go:86-90).  apollo delivers nothing at all  *)
(* (config/apollo/watcher.go:74).                                          *)
CaughtUp(w) == watch[w].pc \notin {"new", "refused", "ended"} /\ ~watch[w].lost /\ store # 0 => watch[w].got = store
WatchersCaughtUp == source.name # "apollo" => crashed \/ \A w \in Watchers : CaughtUp(w)

(* The channel is closed once the context is done, also when its buffer is *)
(* full and nobody reads it any more (config/config.go:60-62).             *)
CancelClosesTheChannel ==
    ctx = "done" =>
        crashed \/ \A w \in Watchers : watch[w].pc \notin {"new", "refused"} => watch[w].closed

WatchersSettle == <>[](WatchersCaughtUp /\ CancelClosesTheChannel)

-----------------------------------------------------------------------------
(***************************************************************************)
(* config/fallback.go: readers in order of priority.  Load takes the first *)
(* one that answers with data; WatchValue watches every reader that can be *)
(* watched and, on a notification of any of them, loads the effective      *)
(* value again and forwards it.  One goroutine per watched reader does so, *)
(* each on its own, into one channel of buffer 1.                          *)
(***************************************************************************)

CONSTANT Readers         \* the number of readers, at least 1

VARIABLES watchable,     \* readers that implement ValueWatcher
          value,         \* per reader: the version it holds, 0 for none
          readerChanges, readerFaults,
          mergedCtx,           \* "live" or "done"
          call,          \* WatchValue: "none", then the reader it is at, then its answer
          sub,           \* per reader: the state of its own watcher
          signals,       \* per reader: notifications waiting in its channel
          routine,       \* per reader: the goroutine that forwards for it
          out, closed,   \* the merged channel
          got,           \* what the consumer received last
          gap            \* why the consumer may be behind: "none" or a reason

fallbackVars == <<watchable, value, readerChanges, readerFaults, mergedCtx, call, sub, signals, routine, out, closed, got, gap>>
R == 1 .. Readers
Idle == [pc |-> "none", at |-> 1, held |-> 0]

(* The first reader with a value wins.                                     *)
Effective == LET held == {r \in R : value[r] # 0} IN IF held = {} THEN 0 ELSE value[Min(held)]

FallbackInit ==
    /\ watchable \in SUBSET R
    /\ value \in [R -> {0, 1}]
    /\ readerChanges = 1 /\ readerFaults = 0 /\ mergedCtx = "live" /\ call = 0
    /\ sub = [r \in R |-> "none"] /\ signals = [r \in R |-> 0]
    /\ routine = [r \in R |-> Idle]
    /\ out = <<>> /\ closed = FALSE /\ got = 0 /\ gap = "none"

(* A reader's value changes; its watcher notifies of new values, and of a  *)
(* deletion only with some sources.  A change before WatchValue would be   *)
(* another first value.                                                    *)
WriteReader(r) ==
    /\ call # 0
    /\ readerChanges <= MaxChanges /\ readerChanges' = readerChanges + 1
    /\ \E v \in {readerChanges + 1, 0}, told \in BOOLEAN :
        /\ v = 0 => value[r] # 0
        /\ v # 0 => told
        /\ value' = [value EXCEPT ![r] = v]
        /\ signals' = [signals EXCEPT ![r] = IF told /\ sub[r] = "open" THEN @ + 1 ELSE @]
        /\ gap' = IF told /\ sub[r] = "open" THEN gap ELSE "untold"
    /\ UNCHANGED <<watchable, readerFaults, mergedCtx, call, sub, routine, out, closed, got>>

CancelMerged ==
    /\ mergedCtx = "live" /\ mergedCtx' = "done"
    /\ UNCHANGED <<watchable, value, readerChanges, readerFaults, call, sub, signals, routine, out, closed, got, gap>>

(* WatchValue: the watchers of the readers are started one after the       *)
(* other; the first failure returns, and leaves those already started to   *)
(* the context.                                                            *)
WatchValue ==
    /\ call \in R
    /\ \/ /\ call \notin watchable
          /\ UNCHANGED <<sub, readerFaults>> /\ call' = call + 1
       \/ /\ call \in watchable
          /\ sub' = [sub EXCEPT ![call] = "open"] /\ call' = call + 1 /\ UNCHANGED readerFaults
       \/ /\ call \in watchable /\ readerFaults < MaxFaults
          /\ readerFaults' = readerFaults + 1 /\ call' = Readers + 2 /\ UNCHANGED sub
    /\ UNCHANGED <<watchable, value, readerChanges, mergedCtx, signals, routine, out, closed, got, gap>>
BeginWatch ==
    /\ call = 0 /\ call' = IF watchable = {} THEN Readers + 2 ELSE 1
    /\ got' = Effective
    /\ UNCHANGED <<watchable, value, readerChanges, readerFaults, mergedCtx, sub, signals, routine, out, closed, gap>>

Watching == call = Readers + 1 /\ watchable # {}
Busy(r) == routine[r].pc \in {"load", "send"}

(* The goroutines start once every watcher has.                            *)
Go(r) ==
    /\ Watching /\ r \in watchable /\ routine[r].pc = "none"
    /\ routine' = [routine EXCEPT ![r].pc = "select"]
    /\ UNCHANGED <<watchable, value, readerChanges, readerFaults, mergedCtx, call, sub, signals, out, closed, got, gap>>

(* select: a notification, the end of the reader's channel, or ctx.        *)
TakeSignal(r) ==
    /\ routine[r].pc = "select" /\ signals[r] > 0
    /\ signals' = [signals EXCEPT ![r] = @ - 1]
    /\ routine' = [routine EXCEPT ![r] = [pc |-> "load", at |-> 1, held |-> 0]]
    /\ gap' = IF \E q \in R \ {r} : Busy(q) THEN "overlap" ELSE "none"
    /\ UNCHANGED <<watchable, value, readerChanges, readerFaults, mergedCtx, call, sub, out, closed, got>>
EndSub(r) ==
    /\ sub[r] = "open" /\ sub' = [sub EXCEPT ![r] = "closed"]
    /\ \/ mergedCtx = "done" /\ UNCHANGED <<readerFaults, gap>>
       \/ readerFaults < MaxFaults /\ readerFaults' = readerFaults + 1 /\ gap' = "untold"
    /\ UNCHANGED <<watchable, value, readerChanges, mergedCtx, call, signals, routine, out, closed, got>>
EndRoutine(r) ==
    /\ \/ routine[r].pc = "select" /\ (mergedCtx = "done" \/ (sub[r] = "closed" /\ signals[r] = 0))
       \/ routine[r].pc = "send" /\ mergedCtx = "done"
    /\ routine' = [routine EXCEPT ![r].pc = "ended"]
    /\ UNCHANGED <<watchable, value, readerChanges, readerFaults, mergedCtx, call, sub, signals, out, closed, got, gap>>

(* Load, reader by reader: data wins, nil and errors go on; nothing at all *)
(* is an error, and the goroutine waits for the next notification.         *)
LoadNext(r) ==
    /\ routine[r].pc = "load"
    /\ UNCHANGED <<watchable, value, readerChanges, mergedCtx, call, sub, signals, out, closed, got>>
    /\ LET a == routine[r].at
       IN \/ /\ a > Readers
             /\ routine' = [routine EXCEPT ![r].pc = "select"] /\ UNCHANGED <<readerFaults, gap>>
          \/ /\ a <= Readers /\ value[a] # 0
             /\ routine' = [routine EXCEPT ![r].pc = "send", ![r].held = value[a]] /\ UNCHANGED <<readerFaults, gap>>
          \/ /\ a <= Readers /\ value[a] = 0
             /\ routine' = [routine EXCEPT ![r].at = a + 1] /\ UNCHANGED <<readerFaults, gap>>
          \/ /\ a <= Readers /\ readerFaults < MaxFaults
             /\ readerFaults' = readerFaults + 1 /\ gap' = "failed" /\ routine' = [routine EXCEPT ![r].at = a + 1]
ForwardValue(r) ==
    /\ routine[r].pc = "send" /\ out = <<>>
    /\ out' = <<routine[r].held>> /\ routine' = [routine EXCEPT ![r].pc = "select"]
    /\ UNCHANGED <<watchable, value, readerChanges, readerFaults, mergedCtx, call, sub, signals, closed, got, gap>>

(* wg.Wait, then close(out).                                               *)
MutantCloseOut ==
    /\ Watching /\ ~closed /\ mergedCtx = "done"
    /\ closed' = TRUE
    /\ UNCHANGED <<watchable, value, readerChanges, readerFaults, mergedCtx, call, sub, signals, routine, out, got, gap>>
CloseOut ==
    /\ Watching /\ ~closed /\ \A r \in watchable : routine[r].pc = "ended"
    /\ closed' = TRUE
    /\ UNCHANGED <<watchable, value, readerChanges, readerFaults, mergedCtx, call, sub, signals, routine, out, got, gap>>
ReceiveMerged ==
    /\ out # <<>> /\ got' = Head(out) /\ out' = <<>>
    /\ UNCHANGED <<watchable, value, readerChanges, readerFaults, mergedCtx, call, sub, signals, routine, closed, gap>>

RoutineStep(r) == Go(r) \/ TakeSignal(r) \/ EndRoutine(r) \/ LoadNext(r) \/ ForwardValue(r)
FallbackNext ==
    \/ BeginWatch \/ WatchValue \/ CancelMerged \/ CloseOut \/ ReceiveMerged
    \/ \E r \in R : WriteReader(r) \/ EndSub(r) \/ RoutineStep(r)

(* Goroutines are scheduled, the readers' watchers end with the context,   *)
(* and the consumer reads while it has not cancelled.                      *)
FallbackFairness ==
    /\ WF_fallbackVars(CloseOut) /\ WF_fallbackVars(WatchValue)
    /\ WF_fallbackVars(mergedCtx = "live" /\ ReceiveMerged)
    /\ \A r \in R : WF_fallbackVars(RoutineStep(r)) /\ WF_fallbackVars(mergedCtx = "done" /\ EndSub(r))
FallbackSpec == FallbackInit /\ [][FallbackNext]_fallbackVars /\ FallbackFairness

FallbackTypeOK ==
    /\ value \in [R -> 0 .. MaxChanges + 1] /\ call \in 0 .. Readers + 2 /\ Len(out) <= 1
    /\ \A r \in R : routine[r].pc \in {"none", "select", "load", "send", "ended"} /\ routine[r].held \in 0 .. MaxChanges + 1

(* When the values no longer change, the consumer of the merged channel    *)
(* holds the effective one, unless the change was not notified of, a       *)
(* reader failed during the last Load (a lower one then wins,              *)
(* config/fallback.go:43-48), or two goroutines were between Load and send *)
(* together, when the older value may be delivered last (119-124).         *)
MergedValueSettles == Watching /\ ~closed /\ gap = "none" /\ Effective # 0 => got = Effective

(* The merged channel is closed when the context is cancelled              *)
(* (config/fallback.go:75-76), and not before a goroutine that could still *)
(* send to it has ended.                                                   *)
MergedChannelCloses == mergedCtx = "done" /\ Watching => closed
NobodySendsToClosed == closed => \A r \in R : ~Busy(r)

FallbackSettles == <>[](MergedValueSettles /\ MergedChannelCloses)
=============================================================================
