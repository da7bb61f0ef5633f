# go-wind-plugins: TLA+ models

Models of the stateful and concurrent parts of go-wind-plugins, the TLC
configurations that check them on small instances, and TLAPS proofs of what
matters most for every instance. Paths below are relative to `src/`.

## 1. The system

go-wind-plugins is a library of independent plugins: each directory is a Go
module that implements one interface of the go-wind framework, usually on top
of a third-party client. Parts meet in a few places only: the outbox publishes
through a broker, transport servers wrap broker drivers, the selector and the
resolver consume a registry's watch stream, the transports run their handlers
inside middlewares that use breakers, limiters and retries.

| part | module | what is hard about it |
|---|---|---|
| `transaction/outbox` producer and relay | `Outbox` | several relays on one table, leases that run out under a live relay, crashes between two statements, lost answers |
| `transaction/outbox` consumers | `Inbox` | duplicate and concurrent deliveries, a crash between record and handler |
| both, with the broker between them | `OutboxPipeline`, abstract: `EventDelivery` | what producer and consumer promise together |
| `transaction/xa`, `saga`, `tcc` | `XA`, `Saga`, `Tcc` | a failure, a lost answer or a crash in any phase, and recovery |
| `circuitbreaker` (hystrix, sres, vegas) | `Hystrix`, `Sres`, `Admission` | results of several requests interleave, late results, rotation of the ring |
| `ratelimit` (tokenbucket, bbr) | `Admission`, `Bbr` | concurrent waiters, refill rounding, `Close` racing a waiter |
| the bucket ring in hystrix, sres and bbr | `RollingWindow` | rotations that are not aligned with the buckets |
| `retry` | `Retry` | cancellation between attempts, limits of the backoff |
| `broker` drivers: subscribing; `transport/<broker>` servers; request-reply | `BrokerServer` | `Start`, `Stop` and registrations block by block, refused subscriptions, late replies |
| `broker` drivers: publishing; producer caches | `BrokerPublish`; `ProducerCache` | shared header maps, a cached producer that breaks under several publishers |
| `broker` drivers: delivery, receive loops, RabbitMQ reconnection | `BrokerConsume` | acknowledgement around a failing handler, outages, `Unsubscribe` |
| `registry`, `selector`, resolver | `Registry` | lost leases, late writes, watchers that restart |
| `transport` lifecycles, packet dispatch, http and grpc middlewares | `Servers` | overlapping `Start` and `Stop`, panics and timeouts in the middle of a chain |
| `transport` sessions (tcp, kcp, websocket, webrtc, webtransport), server and client | `Sessions` | close racing add, shutdown racing accept, loops of old connections |
| `transport/webrtc` media, `transport/sse`, `transport/hptimer` | `SfuRouter`, `SseStream`, `HpTimer` | both sides offer at once, subscribers that leave during a replay, a task removed while it runs |
| `crud` filters, query languages and pagination | `Filters`, `QueryLanguage` | one filter, seven back ends; converters shared by all requests; a paginator shared by all calls |
| `crud` repositories | `Repository` | tenants, several statements per call |
| `crud` clients, transactions, batches, search clients; `cache` | `DataClients` | `Close` during a call, answers cut short, a function that panics in a transaction, expiry in whole seconds |
| `crud` cached reads | `Caches` | a write between load and store, a flight shared by callers |
| `config` sources and fallback | `Config` | watchers that close, several sources into one channel |
| `security/authz` engines | `Authorizer` | policies replaced during a list of decisions |
| `health` | `Health` | a checker that hangs, a table that changes during a check |
| `log/cloudwatch`, `log/loki` | `LogSink` | overlapping flushes, the sequence token, `Close` |

`PROJECT.json` lists every part with its status, including those not modelled
and why, and every hazard at its line.

## 2. How the modules are built

A module has the state of its component as VARIABLES and one action per method,
handler or step of a goroutine. Where a family of implementations runs the same
code up to a few decisions (the twelve broker servers, the fifteen drivers, the
registrars, the session servers, the repositories, the middlewares), each
implementation is the record of its decisions or the sequence of its steps, one
definition per Go function, and the actions interpret it. `Init` chooses the
implementation, so one run checks them all.

Modules with several parts (`Admission`, `BrokerServer`, `BrokerConsume`,
`Registry`, `Sessions`, `Servers`, `DataClients`, `QueryLanguage`, `Config`) hold
components of one layer. The parts have variables and a specification each.

Definitions named `Mutant...` are faulty variants of the definition that
follows them. No specification uses them. Each shows that a property notices
the fault; `PROJECT.json` says which.

Time is relative: a timestamp is the age it is compared by, a timer is what is
left of it, and `Tick` moves both. Ages saturate where no comparison tells them
apart any more.

### Suites and registers

Most components do not interact. `MCTransactions`, `MCResilience`, `MCServices`,
`MCData` and `MCRecovery` each check many of them in one run: `component` is
chosen in the initial state and only that component moves, so the states are the
sum of the components' states and not the product. `Registers` has the variables
`r1` to `r20`; a suite instantiates its components over them, each over the first
few, and the registers it does not use stay 0 (`IdleN`, `SameN`). A component a
theorem is about keeps its own variables and is extended by the suite (`XA`,
`Saga`, `Tcc`, `Inbox`, the components of `MCResilience`, `ProducerCache`,
`LogSink`, `Caches`), so that the theorem and the run speak of the same definition.

A suite's property is the conjunction of its components' properties, each for
the behaviours in which that component moves; fairness is the components' own,
restricted the same way. Deadlock is not checked in the suites, since most
components come to an end: a `Run` returns, a server stops, a call is answered.

## 3. Transactions

### Outbox

`rows` is the table; a row has its status, its attempts and the ages of
`claimed_at`, `completed_at` and `next_visible_at`. `txn` are the business
transactions, `published` what the broker accepted. A relay has its position in
`Once` and the batch `Claim` returned to it. There is one action for each store
call and for each `Publish`. `Claim` is one step with `SKIP LOCKED` and two
(`ClaimSelect`, `ClaimUpdate`) without, as nothing then keeps another relay
from selecting the same rows in between. `Fail` and `Complete` update by id,
without a look at the claim, as `store.go` does.

`Inbox`: workers deliver messages to handlers wrapped by `Inbox` (record first)
or `Barrier` (record and writes in one transaction). Two deliveries that insert
the same record collide on its primary key.

`OutboxPipeline`: what relays publish is what workers may deliver, any number of
times. `ImplementsPromise` is the refinement of `EventDelivery`: a committed
event takes effect at most once in each handler, and nothing else does.

Faults are crashes, statements that fail and statements that took effect
although the caller saw an error. `Publish` may fail at any time; the others
are bounded by `MaxFaults`. The commit and the rollback of a business transaction
and the broker between relay and Barrier are not code of the package; they are
external in the map.

Bounds: two relays suffice for every race of a live relay with a stale one; a
third would be a second stale one. Two events in batches of two leave a batch
partly settled. Two attempts reach both outcomes of `Fail`. A lease of one tick
can run out at every point of `Once`. The pipeline has one event and one Barrier,
because its properties are about one event at a time.

Fairness: a runnable relay goroutine runs, a dead process is restarted, and time
passes (weak). The broker keeps redelivering what a handler has not
acknowledged (strong, as other deliveries may occupy the workers). Crashes and
failures have no fairness; they are finite in number.

### Coordinators

`XA` follows one `Run` through its loops over the resources: `pc` is the loop,
`cur` the resource, `phase` the field of `xaRes`, `branch` what the database
holds. `ExecOk` and `ExecErr` are the outcomes of a statement: refused, sent
on a lost connection, or lost after it took effect. A session that ends takes
its branch with it unless the branch is prepared. The context may be cancelled
and the process may crash anywhere.

`CommitPending` and `RollbackPending` of the package take any branch an operator
names. The model assumes an operator who first looks at all databases: a branch
is committed only if no other is missing, and rolled back only if no other has
committed. `OperatorWaits` adds that the operator leaves alone what a live
`Run` still drives; with `FALSE`, `AllOrNothing` fails, as an operator can roll
back a branch that `Run` is about to commit. The package cannot know, so this is
a rule for its users. Fairness: `Run` goes on, and the operator attends to what
`Pending` lists.

`Saga` and `Tcc` follow one `Run` over every list of up to three steps or
participants, with every choice of missing functions and of failing calls. A
list of three has a first, a middle and a last member, which is all that the
loops tell apart. A failed TCC `Try` may have reserved before it failed.

## 4. Resilience

`RollingWindow` has the rotation all three copies of the ring share. The clock
runs over one turn of the ring. `Rotated` clears as many buckets as whole bucket
lengths have passed since the last rotation, ending at the current index.

| module | actions | abstraction |
|---|---|---|
| `Hystrix` | `Admit`, `AllowHalfOpens` (the `Allow` that ends the sleep window), `Mark`, `State`, `Close`, `Tick` | a rejected `Allow` changes nothing and is a stutter |
| `Sres` | `Allow`, `Mark`, `Close`, `Tick` | the random draw is a choice wherever the probability is neither 0 nor 1; K is whole |
| `Admission`, vegas | `Admit`, `Succeed`, `Fail`, `Report`, `VegasClose` | whole latencies; smoothing truncates as `time.Duration` does |
| `Admission`, tokenbucket | `Begin` (`Allow`, or entering `Wait`), `Try`, `Wake`, `Cancel`, `Return`, `Close`, `Tick` | tokens in units: a token is `Cost`, a tick adds `Rate` |
| `Bbr` | `Allow` (also `Wait`'s polling), `Done`, `Close`, `Tick` | the estimate is an exact fraction |
| `Retry` | `CheckContext`, `Call`, `Awake`, `Interrupted`, `CancelContext` | whole factor; a random jitter is any value of its range; a timer fires up to `MaxLate` ticks late |

Bounds: two callers, as every race here is between two; a ring of three buckets
of two ticks, the smallest that can be cleared partly and be met between
boundaries; at most three results in the ring, above the volume threshold of
two; latencies below, inside and above the filter of Vegas; four attempts, so
that the exponential backoff passes its cap.

Fairness: for the token bucket, goroutines run, timers fire and time passes; no
context has to end. `Hystrix!FairSpec` and `Sres!FairSpec` add callers that keep
calling `Allow`, without which a breaker has no chance to recover.

## 5. Brokers, servers and logs (`MCServices`)

`BrokerServer`. `transport/<broker>/server.go` wraps a driver of `broker/`. Its mutex
covers single blocks, and `Subscribe`, `Unsubscribe` and `Disconnect` run outside
it; each block is one action, so `Start`, `Stop` and registrations interleave
where the code lets them. A driver is four records (`Connect`, `Subscribe`,
`Unsubscribe`, `Disconnect`). `ConsumersAreKnown`: no consumer runs that nobody
can stop, and what was registered with a running server and not refused is
consumed. MQTT's client also calls `onConnect` after each connect, which subscribes
whatever the manager holds (`Reopened`); a subscriber that ended between `Clear` and
`Add` is opened again by it, and the property says so. The last part is `broker/request_reply.go`: correlation, timeouts,
late replies.

`BrokerPublish`. A driver's `Publish` and its message callback are sequences of
steps; RabbitMQ's is taken with and without a queue to declare.
`MessagesArriveWhole`: what the handler gets are the headers that were
given, with the trace context where the driver carries it, and every span ends.

`ProducerCache`. The drivers that keep a producer between calls: creating,
replacing and closing it happens in locked sections, sending outside of them.
`Begin` is the look at the client before the lookup, which GCP does under another
lock; `Disconnect` has one locked section for the producers and, with GCP, a second
for the client (`DisconnectClient`). A shutdown that may fail leaves the broker
running (`DisconnectFails`), and RocketMQ v5's second `Disconnect` then closes a
closed channel (`DisconnectAgain`). `OneProducerPerTopic` is proved as well (section 9).

`Servers`. Each `Start` and `Stop` of the servers that own one engine is the
sequence of its steps; calls overlap, the context of a `Start` may end at any
moment, and a server may be started again. `ServersObey`: a `Start` that returned
left the server serving, a `Stop` stopped it, and what was registered in time is
served. The second part is the dispatch of packets to handlers while handlers
are registered, the third the http and grpc middlewares as a chain around a
handler that may panic, hang or be retried. `RequestsAreServed`: a packet runs
the handler registered for it; on every exit the middlewares have undone what
they did; a request gets a reply to itself; a subscriber of an event stream gets
its events once and in order, replayed ones included, without a gap but for those
that expired. Two requests share nothing but the pool of response recorders, so a
chain is followed with two requests only where it uses the pool (`Served`).

`LogSink`. A flush takes the buffer under the lock and sends it outside, so
flushes overlap. CloudWatch accepts a batch only with the token of the last one
and is asked for the token once when that is stale. `LinesAreAccountedFor` is
proved as well.

Bounds: one topic and one registrar beside `Start` and `Stop` (a second topic is
treated independently of the first); three publishers on a producer cache, so
that a replacement can itself be replaced; chains of up to two middlewares, so that each stands inside and outside
every other; two loggers and batches of two; an event log that forgets its oldest
event, and fewer events where streams are made on demand (`MaxAutoEvents`). Events
that are comments only are left out.

## 6. Data access and authorization (`MCData`)

`Filters` builds one condition of every kind, and small trees, with the builder of
each back end. A table is one column of four words or NULL, and a built filter
is the set of values it selects; `Holds` is the reference meaning.
`QueryLanguage` goes from the request's JSON query or AIP filter string, taken as
parsed trees, to the expression; its second part walks a table page by page
through the paginator that all calls of a repository share. `Repository` has the methods of eleven
repositories as sequences of statements against a table of four rows (with room
for two more) of two tenants, while another session may write a row and the
connection may break. `DataClients` and `Caches` follow a call of a
client with every answer of its server, a `Close` or a write in between. `SetMulti`
and `GetMulti` go through their keys one by one, and each item may fail: the local
cache then returns, redis goes on with its pipeline. The five
parts of `DataClients` are the search clients, the database clients, the transaction
and session helpers, ClickHouse's batch inserter and the key-value caches of
`cache/`; `CallsAreWhole` says of each that a call leaves nothing open, does all or
what its error tells, and answers what the server holds. The methods of one client
that differ in names alone are one definition. The search methods whose answer
does not mean what it says are listed as `Quirks`: `CreateIndex`, `DeleteIndex` and
`CreateVectorIndex` of Elasticsearch leave the response open; its `DeleteDocument` and
`UpdateDocument` and OpenSearch's `SQLToDSL` and `SearchBySQLWithHighlight` ignore the
HTTP status; OpenSearch's bulk methods ignore the errors of single items.
`Authorizer` has the decisions and list methods of nine engines while
`SetPolicies` replaces their policies. `DecisionsAreConsistent`: a list names what
the subjects may use. ACL, RBAC, IAM and OPA answer by the policies of one moment
of the call; the others ask once per item, and each item is answered by policies in
force during the call. OPA pools the subjects of a call: a deny for one withdraws
the item from all (`policy/*.rego`); its answers come in any order. Engines without
projects answer all of them or none.

`QueriesMeanWhatTheySay` compares with reference definitions (what a filter
means, what a query says, all rows once and in order). `QuietCallsAgree` compares
a repository call that no other session disturbed with the contract of its name; a
call that loses its connection must tell the truth: success is the whole promise,
an error leaves rows it was not asked for alone. It accepts, because the code does
so throughout, that ClickHouse and Doris report a missing row as nil without an
error, that ClickHouse's and Doris' `Update` answers the old or the new row (the
server may apply the mutation later), and that `gorm.Update` answers the unchanged
row when its condition did not match;
`TenantRowsKept` holds of disturbed calls too, but says nothing of `UpdateX` of
ClickHouse and Doris, nor of upserts, nor of a row another session has just written. The methods that do something else
are listed as `Diverging` in `Repository`:

- mongodb: lists drop the options built with the query (limit, skip, sort,
  projection); `BatchCreate` stores the documents before the one that fails.
- entgo: `ListWithPagination` and its tree variant build their query without the
  filter.
- influxdb: lists only count, creates do nothing.
- gorm: `BatchCreate` is one insert per row without a transaction;
  `UpdateWithFilters` reads back with the old filter, which the update may have
  made false.
- clickhouse: `Delete` truncates, `SoftDelete` has no condition but the tenant;
  `UpdateX`, `Upsert` and `UpsertX` are mutations applied later and carry no tenant.
- doris: `UpdateX` and `Upsert` carry no tenant either.
- qdrant and milvus: deletes by key answer with the number of keys sent, which is
  the number of rows only when a tenant is enforced and its points were selected
  first.
- neo4j and weaviate: the methods with numeric ids refuse; a weaviate batch
  stores the objects it can.

## 7. Recovery (`MCRecovery`)

Safety and what must happen in the end for the parts that live through outages:
`BrokerConsume` (messages, receive loops, RabbitMQ's connection), `Registry`
(heartbeats and re-registration of the six registrars that beat; the watchers of
seven registries with the balancer or the resolver), `Sessions`, `HpTimer`,
`Health`, `SseStream`, `SfuRouter` and `Config`.

`ConsumersRecover`, `RegistrationsSettle`, `SessionsSettle`, `DeadlinesAreKept`,
`StreamsSettle` and `ConfigSettles` have the form `[]P /\ <>[]Q`: `Q` is what the
system settles into once the bounded outages, changes and calls are over. The
mishaps after which the code does not recover are named in the comment of each
property with their lines (a late etcd write that overtakes the renewed one, a
Consul `Register` after `Deregister`, Eureka's cancellation before the heartbeat
stored its channel, a watcher whose first `Next` failed, a RabbitMQ `Close` during a
reconnection, an offer that was refused, lost or made over an open one, two
goroutines of the fallback reader between load and send)
and recorded in history variables, so that the property is about all other
behaviours.

RabbitMQ's connection: a dial or the channel after it may fail (`TryConnect`,
`TryConnectFails`; a failed channel leaves its connection open), the first `Connect`
too, and the goroutine that reconnects tries again. `Reconnected`: an established
connection that is not closed comes back and is announced, a closed one stays
closed, unless a reconnection was under way at `Close` (`outlived`).

`Registry`: the balancer asks a new watcher once before its goroutine starts
(`Seed`) and drops the error, and `NextFails` breaks a watcher later. The view has
caught up in the end; after a failed `Seed` (`unseeded`) only from the next change
on. `SfuRouter`: each side of a peer connection makes offers, which may fail, be lost
or, as text, not be readable by a peer; `Negotiated` is about the side none of
whose offers went wrong (`hurt`). `HpTimer`: the engine in its user's hands and the
server around it; each `Start` of the server builds a new engine, and the goroutine
a graceful `Stop` left behind may meet the new one.

Bounds: four dials and three losses of connections or channels, so that a
reconnection itself fails and is lost again; a timer engine gets two tasks from its
user and one under a server, which does nothing with tasks; at most three offers
altogether on a peer connection (`MoreSignals`) and one loss (`MaxLosses`), fewer
where an offer may go wrong, since one is enough to end the negotiation.

Fairness: goroutines that can run do (weak), outages end and leases expire
(weak), the consumer of a channel reads while its context is live (weak). Strong
fairness is assumed once, of `removeAllSubscribers` in `transport/sse`, whose
channel send competes with a loop that serves several channels and picks any
that is ready. Changes, faults, registrations and cancellations have none.

## 8. Runs

| run | module, config | what it shows |
|---|---|---|
| `outbox_lease` | `Outbox`, `OutboxLease.cfg` | two relays whose leases run out under them: no committed event is lost, published early or given up early |
| `outbox_no_lease` | `Outbox`, `OutboxNoLease.cfg` | row locks alone keep a row with one relay and a settled row settled; relays that do not lock deliver twice and lose nothing |
| `transactions` | `MCTransactions` | XA, sagas and TCC keep their contracts and strand nothing; effects are counted; the pipeline implements `EventDelivery` and every committed event is in the end applied or dead |
| `resilience` | `MCResilience` | breakers trip and forget as they should, admissions are paid for, waiters wake, limits recover, retries keep their budget |
| `services` | `MCServices` | section 5 |
| `data` | `MCData` | section 6 |
| `recovery` | `MCRecovery` | section 7 |
| `outbox_done_revived`, `xa_leak`, `saga_missing_do`, `hystrix_stuck`, `sres_stale` | `Outbox`, `XA`, `Saga`, `Hystrix`, `Sres` | violations, below |

### Where code and documentation disagree

Each of these is a run that TLC refutes; `PROJECT.json` quotes the lines.

- `outbox_done_revived`: `Fail` updates by id alone. A relay whose lease ran out
  while its `Publish` was failing turns a row another relay has completed back
  to pending, and it is published again. Barrier consumers absorb the repeat.
- `xa_leak`: when `DB.Conn` fails for a later resource, `Run` returns without
  `rollbackAll`. The first branches stay active on connections that go back to
  the pool.
- `saga_missing_do`: a step without `Do` in the middle of a saga ends `Run` with
  an error and without compensation. `tcc.Run` validates first.
- `hystrix_stuck`: the `Allow` that ends the sleep window sets `halfOpenIn` and
  then falls through to the check of it, so it rejects its own caller. Nobody
  runs the trial and every later `Allow` is rejected. A call of `State` after the
  sleep window avoids this, as it sets the state without the flag.
- `sres_stale`: a rotation restarts the count of elapsed time at the moment of
  the call, and loses the fraction of a bucket that had passed. With a call every
  one and a half buckets the index moves by two where one bucket is cleared.
  A bucket that is always skipped never leaves the window.

### Observations without a run

Met while modelling; each is part of the model, and where a property would fail
because of it, the property says so.

Transactions and resilience:

- `Inbox`: every message without an ID has the same dedupe key, so the second is
  dropped; `transaction/outbox/inbox.go:95-97` says such events are processed
  every time. The relay always sets an ID. `Inbox` has the set `Anonymous` for
  these messages; it is empty in the runs.
- tokenbucket: `Close` does not send to `notify`, so a waiter learns of it from
  its timer, later than `tokenbucket.go:126` suggests. A deficit worth less than
  a nanosecond is truncated to a wait of zero and the caller is admitted without
  paying; `WholeTicks` excludes it. With a burst below one token `Wait` never
  returns nil.
- `Sres`: the acceptance is n/(n+1) without any error, so a healthy breaker also
  rejects now and then; and a higher K rejects more, not less.
- vegas: an open breaker admits nothing. Once the requests in flight have
  ended no latency is recorded, and it stays open. The half-open case of
  `evaluateLocked` is never reached, as `RecordLatency` and `MarkFailure` leave
  the half-open state first. Nothing keeps beta below alpha.
- `Bbr`: `Wait` on a closed limiter polls until its context ends.
- `Retry`: a cancellation during a sleep returns the context's error without the
  last error of `fn`.

Brokers and servers:

- The headers of a message are ignored by NATS, JetStream, MQTT, NSQ and Redis
  pub/sub. A Kafka publish through a replaced writer with no retries left returns
  nil without having written (`broker/kafka/kafka.go:445-461`). RabbitMQ keeps a
  channel on which `Confirm` failed (`broker/rabbitmq/connection.go:386-389`).
- MQTT's `onConnect` subscribes what the subscriber manager holds, a subscriber that
  was closed meanwhile included (`broker/mqtt/mqtt.go:347-360`). RocketMQ v5's
  `Disconnect` closes `done` before it can fail, so calling it again panics
  (`broker/rocketmq/rocketmq-clients/rocketmq.go:214`). RabbitMQ's goroutine does not
  look at `r.close` while it dials (`broker/rabbitmq/connection.go:181-189`).
- After a failed subscription the servers of activemq, azuresb and gcpubsub return
  the error and stay started; the other nine roll back through `Stop`.
- fiber's `Stop` may have spent its `sync.Once`; a second `Start` of thrift replaces
  `s.server` before it fails on the port; overlapping `Start`s of graphql may serve
  each other's engine. trpc and mcp are marked started only after serving, so a
  `Stop` meanwhile returns without effect; `Start` of cron and asynq keeps the lock
  `Stop` needs. grpc, http3 (which says so), trpc, mcp and asynq are good for one
  `Start`. `Start` of http3, trpc, mcp and machinery does not look at its context.
- The goroutine of the http timeout lets a panic escape; the stream timeout of
  grpc cancels at once; the stream interceptor of `validate` ignores its skip list.
- CloudWatch's `Close` cancels the context and then flushes with it, so what is
  buffered is given up (`log/cloudwatch/cloudwatch.go:55-61`).

Sessions, streams and watchers:

- `webrtc`: `addSession` can store a session closed since it looked
  (`session_manager.go:97-104`); an offer that meets an offer is not answered
  (`server.go:811-813`). `webtransport`: the loop of an old connection can
  disconnect a new one (`client.go:309-312`).
- `transport/hptimer`: `Start` holds the server's lock until its context ends, so
  `Stop` (`server.go:113-115`) waits for that instead of ending the engine.
  `Stop` returns when its context has ended, and the goroutine it left behind reads
  `s.hpTimer` only when it runs: it may stop the engine of the next `Start`
  (`server.go:149-152`).
- `selector/balancer.go:107-108`: the first `Next` of a watcher need not be live.
- `config`: nacos and apollo close a channel their callback may still send on;
  the file watchers of one source share an event channel; `oss` remembers the
  ETag before it has loaded (`oss.go:118`, 143); zookeeper misses a change
  between read and watch (`zookeeper.go:86-90`); the fallback reader forwards a
  lower reader's value when a higher one fails (`fallback.go:43-48`).

Data access:

- The AIP filter converter is a singleton with an `err` field; one request's
  error can become another's (`crud/pagination/filter`).
- ClickHouse's and Doris' `NotIn` writes a comma list as IN
  (`filter_processor.go:230`); OpenSearch puts an OR group's parts under `must`;
  an empty IN of MongoDB selects everything; InfluxDB has no OR.
- `ListWithPaging` of ClickHouse, Doris and entgo passes the offset as the page
  size of a token page; OpenSearch's token page repeats the last row; InfluxDB
  ignores the token. Concurrent calls overwrite each other's request in the
  shared paginator.
- Lists cached by gorm and entgo are never invalidated, and a tree is cached
  under the key of the flat list (`crud/entgo/repository_cache.go:367`, 552).
- `cache/local`: a TTL under a second never expires (`local.go:71`), and `SetNX`
  is a `Get` and a `Set`.
- MongoDB's and InfluxDB's `Close` set the field without a lock; a row added to
  ClickHouse's batch inserter between `Close`'s flush and its cancel is lost
  (`batch.go:100-106`).

## 9. Proofs

The runs check small instances. The theorems hold for every value of the
constants that satisfies the named assumptions, which ask only for what the types
and option checks of the code give: counts are natural numbers, sizes that the
code forces to be positive are positive, sets that name different things are
disjoint. TLC evaluates each on the runs.

| module | theorem | states |
|---|---|---|
| `OutboxProofs` | `TypeCorrect`, `OnlyCommitted`, `AtLeastOnce`, `NoEarlyDeath`, `Exclusive`, `SettledForGood` | `TypeOK`, `PublishedOnlyIfCommitted`, `NoEventLost`, `DeadOnlyAfterMaxAttempts`, `ExclusiveClaim`, `SettledIsFinal` |
| `InboxProofs` | `InboxCounts` | `EffectsAreCounted` |
| `DeliveryProofs` | `PipelineImplements` | the pipeline implements the safety part of `EventDelivery` |
| `DeliveryProofs` | `CachedProducers` | `OneProducerPerTopic` |
| `CoordinatorProofs` | `XAAtomic`, `XATwoPhase`, `SagaKeepsContract`, `TccKeepsContract` | `AllOrNothing`, `TwoPhase`, `SagaContract`, `TccContract` |
| `ResilienceProofs` | `TypeCorrect`, `NeverOversleeps`, `PaidFor`, `VegasCorrect`, `RetryCorrect` | `TypeOK`, `NoOversleep`, `AdmissionsArePaidFor`, `VegasContract`, `RetryContract` |
| `WindowProofs` | `HystrixCorrect`, `QuietCorrect` | `HystrixTrials`, `QuietIsForgotten` |
| `LogProofs` | `LinesKept` | `LinesAreAccountedFor` |
| `CacheProofs` | `CachesCorrect` | `CachesKeepTheirWord` |

**Outbox** (`OutboxAssumption`). `NoEventLost` is not inductive: a relay holds a copy
of its batch, and what it does with a row depends on what it has seen. `Delivered`
ties each relay's batch and step to the rows and to what the broker has,
`Counted` the attempts a relay remembers to those in the row, `Owned` a claimed
row to one live relay. `Owned`, and with it `ExclusiveClaim` and `SettledIsFinal`,
is about row locks without a lease; with a lease `SettledIsFinal` is false, which
is the run `outbox_done_revived`.

**Inbox and pipeline** (`InboxAssumption`). `InboxInv` says that the primary key of
the inbox table lets one call at a time past the record of an event (`OneInside`),
and what a record then means for an Inbox and for a Barrier handler. `PipelineInv`
joins it to the outbox's invariants and says that a handler works only on what was
published; each action is then a step of `EventDelivery` or leaves its variables.

**Coordinators** (`XAAssumption`, `SagaAssumption`, `TccAssumption`). `XAInv` has,
for each phase of `Run`, either that nothing is committed or that every branch
voted yes. It needs `OperatorWaits`, an operator who resolves a branch only when no
`Run` drives it; the code leaves this to the operator, so it is a hypothesis of the
two theorems and not an assumption of the module. The invariants of saga and TCC
describe what lies behind and ahead of the loop in each of its phases.

**Resilience** (`TokenBucketAssumption`, `VegasAssumption`). `Asleep` relates a
sleeper's timer to the fill of the bucket; `PaidFor` is stated for amounts that are
whole ticks (`WholeTicks`). `Sampled` relates the smallest latency to the base.

**Retry** (`RetryAssumption`). The budget alone is not inductive: a sleep must be
known to be planned within it, and an attempt to begin no later than a late timer
makes it, so the invariant ties the wait of a sleep to the time left
and the last answer to the branch that gave up. That `ExponentialBackoff.Delay`
computes its formula is a fact about its loop for any number of rounds
(`RoundsFacts`), proved by the smallest round that would be wrong.

**Windows** (`RollingWindowAssumption`, `HystrixAssumption`, `SresAssumption`,
`BbrAssumption`). The sums over the ring are functions of the prefix length; that a
cleared ring adds up to nothing, and that one more result raises a sum by one, is
proved by the smallest prefix that would be wrong. `HystrixInvariant` says that a
half-open period whose trial is to come has admitted none, whatever late results
arrived, and that the results in the ring were all heard since the breaker last
closed. `SresInvariant` and `BbrInvariant` say that a rotation is never later than
the last call, so that after a window of quiet the next rotation clears every
bucket, at any phase. `QuietCorrect` speaks of both specifications at once, as the
property does.

**Producer caches.** `ProducerInv` has two cases. A driver that never replaces its
producer keeps the open one in the cache (`KeptOpen`), whatever overlaps. For the
others `Settled` says where the one producer is at each step of the one call under
way. Overlapping calls of these drivers are outside the property itself: two
replacements can each store theirs, and the cache forgets one that is open.

**Log adapters** (`SinkAssumption`). `SinkInv` says that the places of lines are
disjoint and cover all of them (`Placed`), that no flush, buffer or store repeats a
line (`Once`), which thread must be on its way to a full buffer (`FullIsTaken`), that
the buffers of the other sink stay empty (`Unused`), how the token of a flush
relates to the service's while no flush overlapped (`InTurn`), and what a line is
given up for (`Blamed`). Every action is first shown to be one of eight moves of
lines, and the invariant to be kept by each move.

**Record cache** (`CacheAssumption`). Freshness is about what a reader finds,
which depends on every write so far. `CacheInvariant` says that a copy older than
some write is marked late or is still to be met by that write's invalidation
(`Pursued`: its scan is to come, or its scan found the key and the delete is to
come), and that writers under way have different versions. A copy that nothing
pursues is then current when a call that begins now reads it.

## 10. What is only model-checked

- Everything that must happen in the end, and `CallsTakeEffect`, which uses
  ENABLED: the proof system has neither fairness nor ENABLED. This includes the
  eventual half of the six properties of `MCRecovery` and of `EventDelivery`.
- `QueriesMeanWhatTheySay` and `DecisionsAreConsistent`: `Filters`, `QueryLanguage`
  and `Authorizer` walk trees with RECURSIVE operators, which the proof system cannot
  use. Recursion over numbers is no obstacle: `Retry` and the windows use recursive
  functions, and their proofs go by the smallest counterexample.
- `CallsAreWhole`, `QuietCallsAgree`, `TenantRowsKept`, `ConsumersAreKnown`,
  `MessagesArriveWhole`, `ServersObey` and `RequestsAreServed` range over dozens of
  programs given as sequences of steps (one per method, driver or server). An
  invariant has to say, for every position of every program, what holds there,
  which is long where each run of a program is short and TLC enumerates them
  all. They have no proof here and are checked within the bounds given above.
- The safety halves of the properties of `MCRecovery` are stated together with the
  halves about what must happen in the end, and have no proof of their own.

## 11. What is left out

`PROJECT.json` lists every part with its status and reason. Left out are generated
code, wrappers that forward one call to a library (most log, metrics, tracing and
encoding adapters), the wire formats, and the libraries and services themselves,
which appear only through what the code sees of them. Message contents, names and
payloads are members of small sets. Time is a counter where code compares times,
and otherwise a timeout may come at any moment. Data races are modelled where a
property depends on one (the shared paginator, the AIP converter, the clients'
`Close`); elsewhere an unlocked access is one atomic step.
