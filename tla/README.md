# AegisRPC in TLA+

A model of AegisRPC, a gateway between JSON-RPC clients and a pool of Ethereum
nodes: TLA+ modules translated from the Go source, TLC configurations that check
them on small instances, and TLAPS proofs for every value of the constants.

## The system

| Part | State | Operations | Meets |
|---|---|---|---|
| Health checks (`upstream/health.go`, `markLaggingNodes`) | health flag and height per node | round: probe every node, lag pass, head callback | routing reads the flags; the finality checker reads the head; main cancels |
| Pool, router, retry loops (`upstream.go`, `router.go`, `handler.go`, `connectUpstream`) | one shared counter | `Next`, `NextWithCapability`, three retry loops | every request and every WebSocket (re)connect shares the counter |
| WebSocket session (`proxy/ws.go`) | `subs`, `upToClient`, `pending`, replay buffer, channel | `run`, `replaySubscriptions`, `pump`, `forwardToClient`, `forwardToUpstream` | three kinds of goroutines; client and upstreams come and go |
| In-memory cache (`cache/cache.go`) | map, recency list | `Get`, `Set`, `Delete`, eviction, sweep | handler goroutines and the sweep share a mutex |
| Finality checker (`cache/finality.go`) | head | `SetHead`, `IsFinalized`, `Classify` | written by health checks, read by the handler |
| JSON-RPC handler (`proxy/handler.go`) | singleflight group | cached path, negative cache, direct path, batches | cache, finality checker, router |
| Redis store (`cache/redis.go`) | degraded flag | `Get`, `Set`, `Delete` with timeouts | replaces the in-memory cache |
| Configuration (`config/config.go`) | the `Config` | defaults, file, variables, flags, `Validate` | read by main |
| HTTP server, main (`httpapi/server.go`, `main.go`) | draining flag, lifecycle context, logger | start-up, `Start`, `Shutdown`, teardown order | starts and cancels everything else |
| Prober, origin normalisation, metrics | little or none | sequential code | see "Not modelled" |

What is hard to test here: verdicts that routing sees half stored; a counter that
several scans advance at once; a reader goroutine that outlives the connection it
reads; a replay that fails half way; deadlines that race with late frames; clocks
read before a mutex is taken; requests served in the middle of a health round; a
write whose reply is lost; a signal in the middle of all this. `PROJECT.json` lists
these hazards at their lines.

## Modules

| Module | Models | One action is |
|---|---|---|
| `HealthChecks` | a health-check goroutine and its probes | a probe's answer, one store of `checkNode`, one iteration of the lag pass |
| `Routing` / `MCRouting` | pool, router and the three retry loops | one atomic operation on the counter, or one node looked at |
| `WSSession` / `MCWSSession` | one session | one critical section, one frame read, one write, one case of the `select` in `pump` |
| `LruCache` / `MCLruCache` | the in-memory cache | one critical section, or a clock read before it |
| `RpcHandler` / `MCRpcHandler` | `ServeHTTP`, the finality checker and the singleflight group | one access to the cache, the group or the head, or one fetch |
| `Gateway` / `MCGateway` | `RpcHandler` composed with `HealthChecks` | a step of either, a routing decision, or a node that catches up |
| `RedisStore` / `MCRedisStore` | the shared store | a command sent, executed, answered or failed; the swap of the flag; the log line |
| `Store` | what `store.go` promises the handler | abstract `Set`, `Get`, `Forget` |
| `Config` | how the sources become a `Config` | (functions, no actions) |
| `Main` / `MCMain` | the process: start-up, requests, `HealthChecks`, teardown | one call of `main` or of the server that others can observe |
| `XProofs`, for every X above but `Store`, `Config` and `RpcHandler` | theorems about X | |
| `WSSessionInv`, `WSSessionSteps` | the invariant of a session, and the first part of the theorems about it | |

Definitions keep the names of the source. Operators marked "Faulty variant" are
plausible mistakes; `PROJECT.json` pairs each with the property it must break.

**HealthChecks.** `StoreHealthy` and `StoreHeight` are separate, as in
`checkNode`. A probe's answer is one of the ways an HTTP exchange can end. The
unsigned subtraction of the lag test is modulo `Word`. `outcome` is a history
variable: what the last probe of a node returned.

**Routing.** `call[c]` is one caller in its loop. Its kind says which loop it is:
`proxyDirect`, `fetchFromUpstream` (which stops at a 429) or `connectUpstream`
(which uses `Next`). The counter is kept modulo N; the code's counter is a
`uint64` whose own wrap-around after 2^64 calls is left out. `steady` and
`steadyScan` are histories: the nodes able to serve since the call, or since the
scan, began. So is `overtaken`: the callers whose counter another caller moved during
their call. `Next` takes its slots one at a time, so two interleaved scans can each
meet the same unhealthy node twice, and `Next` can return nil although a node was
healthy throughout (`upstream.go:102` says "or nil if none available"). In the same
way a retry loop can spend two tries on one node. `NextNilMeansNoneSteady` and
`GivesUpAfterAll` therefore speak of callers that were not overtaken;
`RouteNilMeansNoneSteady` needs no such condition.

**WSSession.** Goroutine 0 executes `run`; goroutine e > 0 is the reader that
`pump` started for the e-th connection. `forwardToClient` is up to three steps:
look up or claim (first critical section), register (second), write. A connection
is up, silent (open but no longer answering) or down; frames received before it
closed can still be read. A subscription is named by the number of the request
that asked for it; an id is `SubId(e, k)`, given by upstream e. `UniqueIds` states
that upstreams do not reuse each other's ids, which the code relies on. Reads are
merged with the first critical section that follows, and the critical section of
`forwardToUpstream` with its write: no other goroutine can tell them apart. The
answer to an `eth_unsubscribe` is passed through and left out. In `main` nothing
cancels the request context while a session runs; `CancelContext` is the
situation of `TestServeWS_ContextCancel_ClosesSession`. `stuck` says that
`pump` is inside a write to its upstream. Such a write has no deadline, unlike one to the
client: with a silent upstream whose window is full it returns when the peer takes the
data, when the connection drops, or never, and meanwhile `pump` looks at neither the
reader's end, the client, the context nor the ticker. The writes of a replay can block in
the same way, as the step `SendReplay` that is not taken. `orphaned` is a history:
`pump` has returned while its reader was still running, as it does when a write to the
upstream, or the rejection of a subscribe, fails.

**RpcHandler.** `call[c]` is one request in `ServeHTTP`: negative lookup, lookup, `sf.Do`
as leader or waiter, fetch, `Set`, delivery. The layer is chosen at the start and used at
the `Set`. A request is a method, one per case of `Classify`, and its params; it is its
own key. The chain is the environment: it grows, and it may replace blocks with fewer than
`Depth` blocks on top. A node answers from the chain up to its own height, and null
beyond; all nodes change to a replacing block at once, so two nodes on different forks at
the same height are not modelled. Three assumptions are not the handler's own: nodes in
rotation are within `Lag` of the published head (what `HealthChecks` shows *between*
rounds; during a round a lagging node is routable for a moment, between `SetHealthy` and
the lag pass), the head does not go back, and `Lag <= Depth` (true of the defaults 10 and
12, enforced by nothing). `Gateway` drops the first two.

**Gateway.** The handler's `ServeHTTP` is answered from the height of the node it was
routed to (`via`), which is whatever node had its flag set at that moment; the flags
and the head are those of `HealthChecks`. Nodes have heights of their own (`real`),
catch up when they like and report the truth. `calm` is a history: no health round was
in progress since the request came in.

**LruCache and Store.** The list is a sequence of elements, the map a set of keys.
`Set` and `deleteExpired` read the clock before the mutex, so each is two steps.
`LruCache!Promise` is `Store` with the map read through the list; `ImplementsStore`
says that each step is a step of the store or changes nothing of it. `touched` is a
history of uses, independent of the list. `Stays` removes elements from a list; it is a
recursive function, which the proofs can reason about.

**RedisStore.** The server is external: it executes a command when it likes, its reply may
be lost and the client library try again, and an update that its caller gave up may be
executed afterwards. That the library ends a command is assumed: its context has
`redisOpTimeout`, and where go-redis bounds a read or a write by its own timeouts instead
of the context, those end it. `Store` with `Remote` TRUE lets a `Get` miss what is there,
and nothing else: in particular a late `Set` is a `Set` of its own, which brings back an
old mutable value with a full lifetime. `Set` of `Store` writes any entry, so the promise
does not say which of two racing `Set`s wins. Another replica of the gateway looks like
more callers. `lines` counts warnings minus recoveries in the log.

**Config and Main.** What a source says about a field is absent, empty, malformed or a
value, and fields of one kind are treated alike. `peekFlag` walks all arguments, so an
input also has `stray` text that looks like a logger flag to it but not to `flag.Parse`
(the value of another flag, or an argument after the last one), before or after the flag.
An action of `Main` is a call that others can observe: setting the flag, closing the
listener, the end of a wait. Requests are reduced to what they share with the rest: they
look a key up, fetch, and keep the answer. What a fetch finds in the rotation is the
subject of `Routing`. `HealthChecks` runs beside them with nodes that answer every probe
that is not cut short. Sessions are hijacked from the server, which does not wait for
them, and use no store. `overdue` is a history of the deadlines that have passed.

## Runs

| Run | Instance | Shows |
|---|---|---|
| `HealthChecks` | 2 nodes, threshold 1, heights 0..3, words of 16 | between rounds what is in rotation is fresh and holds the head; the lag pass spares a node; nothing is stored after `done`; cancellation closes `done`; a recovered node returns |
| `Routing` | 2 nodes, one of which serves `debug_`; 2 callers, all loops | nil from `NextWithCapability` is honest under concurrency; nil from `Next`, and giving up, are honest for callers not overtaken; loops end unless a node never answers |
| `WSSession` | 2 connections, 3 requests, 1 notification, writes that block or are refused, a pending cap of 2 | tables inverse to each other, nothing misrouted, no given id lost; two goroutines write to the client at once only when one of them rejects a subscribe; while no reader is orphaned, subscriptions are live whenever `pump` runs and the client can place every notification |
| `WSSessionLive` | 2 connections, 2 subscribes, 2 notifications, every cap 1 | unless a write to the upstream blocks for ever, a session ends with its client and a silent upstream is left; no goroutine is leaked; a subscribe is answered or lost with its upstream; buffers stay bounded when frames overflow them |
| `RpcHandler` | 2 callers, one numbered block, 3 heights, depth and lag 1 | what is kept for ever stays right; failures are forgotten; callers are answered unless their upstream never answers |
| `Gateway` | 2 nodes, 1 caller, one numbered block and an uncacheable method, 2 heights, depth and lag 1 | what is kept for ever about a numbered block is never a replaced block; outside rounds it is never null either |
| `LruCache` | 3 keys, room for 2, 2 callers | map and list agree; entries leave for a reason; the store's promise with racing `Set`s; expired entries are swept |
| `RedisStore` | 1 key, 2 writes, 2 callers, 2 late commands | the store's promise; commands end; lines and flag add up; a recovery is noticed |
| `Main` | 2 requests, 2 nodes, every field in all its sources | precedence of the sources; the early logger agrees with the late one; the store is closed after its users; the rotation is empty only after an aborted probe; the signal ends the process |

Three runs state what the repository says and show that the code does otherwise:

- `GatewayLag`: "Automatically filters out lagging nodes, preventing frontends from
  receiving stale data or non-existent blocks" (`README.md:8`). `checkNode` puts a node
  back in rotation before the lag pass has compared heights (`health.go:92`). A request
  routed in between is answered null for a block that is final, and the null is kept
  for ever. `CalmAnswersAreFinal` shows that rounds in progress are the only gap.
- `WSSessionStaleRegister`: "subscriptions are replayed on the new upstream"
  (`ws.go:80`). A failed upstream write leaves the old reader running; what it
  registers after the snapshot is not replayed. `PumpedSubsAreLive` says the same of
  sessions without an orphaned reader, and holds.
- `RpcHandlerByHash`: "Hash-addressed: content-unique, re-org-proof"
  (`finality.go:107`). A node answers null for a transaction that is not mined yet;
  the handler keeps that null without a lifetime. The same holds for an answer whose
  block is replaced later.

Read off the code and not the subject of a run: a node that answered its probe with 429 is
taken out by the lag pass of the same round, because its height is old (`health.go:143`
wants it tried); a write to the client that times out ends the reader only, and `run`
dials the next upstream (`ws.go:122` says that the session is terminated); the answer for
the tag `finalized` is kept for ever; a negative entry hides a positive one for a second;
"If no Pong arrives ... pump returns false" (`ws.go:352`) does not hold while `pump` is
inside a write to that upstream; of a repeated flag `peekFlag` takes the first and
`flag.Parse` the last, and `peekFlag` also takes arguments that are no flags to
`flag.Parse`; that invalid variables are ignored "so that a single typo does not prevent
the server from starting" (`config.go:180`) holds for numbers, durations and lists, not
for words and values out of range, which `Validate` rejects; probes aborted by the signal
mark their nodes unhealthy, so that draining requests can be refused for want of a node.

**Bounds.** Two nodes suffice for a node that lags another, and for a scan that wraps
around past an unhealthy or incapable node; two callers, for a scan that another one
disturbs. With depth and lag both 1 the two limits meet,
which is the worst case `LagAssumption` allows. Two connections are one failover; heights up to
3 with threshold 1 put nodes on both sides of the boundary. Three requests allow
two subscriptions and a cancellation. A clock of 3 lets an entry with lifetime 1 be
valid, valid for the last time, and expired. `MaxConns`, `MaxOps`, `MaxNotes` and
`MaxTime` bound the models, not the code. The caps `ChanCap`, `PendingCap` and
`ReplayCap` stand for 8, 1024 and the configured value, made small so that they
are reached. In `Gateway` one caller meets every interleaving of a request with a round;
an entry that expires looks to the handler like one that is evicted, so its clock stands
still. Its cfg has a view that drops the variables no guard and no property of that run
reads. In `RedisStore` two late commands can be executed in either order. `MCMain`
tries each field by itself in all its sources, and the two pairs of fields that
`Validate` relates. `LruCache` and `RedisStore` write one value that stays and one
that expires.

**Fairness.** Health checks: the ticker fires and every probe returns (`probeTimeout`).
The exit of the goroutine is strongly fair, since `select` chooses at random among ready
cases. Routing: the goroutine of a call runs and a dial ends at its `HandshakeTimeout`.
Neither the handler nor the reverse proxy sets a deadline, so no answer is assumed:
`CallsEnd` says that a loop ends unless one node never answers it. `RpcHandler`:
goroutines run; that an upstream answers is not assumed, and `CallersAreAnswered` excepts
the callers of a flight whose upstream never does. Session: goroutines that can run do;
reads end at their deadline and client writes at `clientWriteTimeout`. A write to a silent
upstream may block for ever (`InUpstreamWrite`), so `run` is fair only outside one;
`SessionEnds` and `SilentUpstreamIsLeft` except the session that stays in such a write.
Nothing else is assumed of client or upstreams, the failing Ping is not fair, and
`SubscribesAreLostWithUpstreams` has the fairness of answers as its hypothesis.
`SessionEnds` holds for finitely many failed connections: `MaxConns` bounds them, while an
upstream that refuses every replay would keep `run` busy for ever. A client that stalls
and stays does not end the session and is not meant by it. Cache: the ticker of
`cleanupLoop` fires until it returns. Redis: goroutines run, and a command gets its reply
or fails (strongly fair, as retries end at `redisOpTimeout` or at the timeouts of
go-redis). Main: `main` runs, and both of its waits end at their deadline; nothing is
assumed of requests and probes. `Gateway` has no liveness property.

## Proofs

Every safety property that a passing run checks is also a theorem, for every value of
the constants that satisfies the assumptions named below. `PROJECT.json` pairs each
theorem with its property. What follows is the argument of each module.

`HealthChecksProofs`, for any number of nodes, threshold and heights:
`TypeCorrect`, `FreshRotation`, `HeadIsHeld`, `LagPassIsSafe`, `QuietAfterDone`. They
rest on an inductive invariant that says what each phase of a round has established:
while marking, `best` is at least every height in rotation and is held by a node in
rotation (or is 0), and the nodes already passed do not lag. `FreshRotation` alone
is not inductive, since nothing in it speaks of a round half done. The lemma
`GuardedSubtraction` says the unsigned subtraction is exact under its guard.

`RoutingProofs`, for any pool and any callers: `TypeCorrect`, `NilIsHonest`,
`NextNilIsHonest`, `NoNodeIsPassedOver`. The invariant behind `NilIsHonest`: a node that
could serve since the scan began is not at any of the slots already passed. `SlotsCover`
says that N consecutive slots modulo N are all nodes, so at the end there is no such
node. The other two count backwards from the counter (`Swept`): as long as nobody else
moved it, the last `try` slots before it, and those of the scan in progress, hold no
steady node that was not tried. Each try sweeps at least one slot, so N tries sweep
all; `Next` moves the counter at every slot, `NextWithCapability` only once, and `Swept`
has a clause for each.

`GatewayProofs`, first part, about `RpcHandler`, for any callers, requests, depth and any
lag up to it: `TypeCorrect`, `FinalityIsSound`, `ErrorsAreNotRemembered`.
`FinalityIsSound` follows the answer from the classification to the cache: a numbered
request whose layer is not mutable asks for a block with `Depth` confirmations under the
head, which every node in rotation has and no reorganisation replaces; what its leader is
about to store, and what is stored without an expiry, is that block.
`FailuresOK`: a negative entry ends at most `NegTTL` after a failure that is on record.

`GatewayProofs`, second part, about `Gateway`, for any pool, threshold and depth:
`KeptIsSound` and `CalmIsFinal`. It uses the invariant of `HealthChecksProofs` through
`INSTANCE`, and the lemmas of the first part. The head may go back here, so the argument
is made with the tip of the chain: no published or reported height is beyond it
(`NodesOK`), hence what is classified as final is buried for ever (`KeptOK`). A calm
request adds that its node is still in rotation and, by `FreshRotation`, has the block
(`CalmOK`).

`LruCacheProofs`, for any keys, callers, cap and lifetimes: `MapFollowsList`,
`NothingLeavesUnasked`, `CacheRefinesStore`. `ListOK` strengthens `MapMatchesList`: the
list and the history of uses have the same keys in the same order, which makes the last
element the least recently used one. The lemmas before it say what `Stays` leaves of a
list: they are inductions over the length, made with the least number of a non-empty set,
since an induction theorem with an operator parameter is out of reach. The refinement
takes each action to a step of `Store` or a stutter.

`RedisStoreProofs`, for any keys, writes and finite set of callers: `TypeCorrect`,
`OneLinePerTransition`, `RedisRefinesStore`. `LinesAddUp` is inductive; the work is in the
cardinalities, where a caller enters or leaves one of the two sets of pending lines at
each swap or log line. The refinement: a command is executed in one step, which is the
step of `Store`; all else stutters.

`MainProofs`, for any inputs, clients and nodes: `SourcesAreOrdered`, `LoggersAgree`,
`StoreClosesLast`, `RotationIsKept`. `SetupOK` keeps `cfg` equal to what the
layers make of the sources, and `LayerByLayer` says what that is field by field.
`TeardownOK` records what each stage of the teardown leaves behind for the next.
`ProbesOK` says that the rotation has a node unless a probe failed, which only an aborted
one does; that the lag pass keeps it so comes from `HealthChecksProofs` through
`INSTANCE`.

The session, for any numbers of connections, requests and notifications and any caps.
`WSSessionInv` defines the invariant. `WSSessionSteps` has the lemmas on queues and on
what each step changes, and proves `TypeCorrect`, `TablesAgree`,
`NotesStayWithTheirSubscription`, `GivenIdsAreKept` and `WritersMeetOnlyThere`.
`WSSessionProofs` extends it and proves `BuffersStayBounded` (which counts the pending
subscribes), `SubscriptionsAreLive` and `NotificationsAreRecognised`. The invariant is
built in layers:

| Layer | Says | Needed because |
|---|---|---|
| `Shape` | types, and which variables are in use in which phase of `run` | every other step relies on it |
| `Wire` | what is on connection e carries ids given by upstream e; nothing is on a connection before it is current | an id must tell from which upstream it comes, or a late frame could be taken for a new one |
| `Tokens` | a request of the client is in one place: queue, connection, answer, claim or table | otherwise a subscription could be registered twice |
| `RoutesAgree` | `subs` and `upToClient` are inverse | the registered id is new by `Wire` and `Tokens` |
| `NotedOK` | a notification being written is about the subscription it names | `subs` may change between lookup and write |
| `Given` | an id known to the client, or on its way there, is tracked or cancelled | registration and write are separate steps |
| `Writers` | unless orphaned, only the reader of the current connection runs, and only beside `pump` or after it | `run` writes to the client too |
| `Live` | unless orphaned, the current upstream serves what is tracked, answered or claimed | the replay answers come one by one, and a claim is registered later |
| `Heard` | unless orphaned, the current upstream notifies only of what the session knows | a notification may overtake the answer to its subscribe |

The type invariant of each module is proved: as `TypeCorrect`, within `MapMatchesList` for
`LruCache`, within the inductive invariant for `Gateway`. `RedisStoreProofs` states the
one of `RedisStore`; `Main` needs only the part in `TeardownOK`.

Assumptions: `NAssumption`, `HeightAssumption` (health checks), `CallerAssumption`
(routing), `RequestAssumption`, `LagAssumption` (handler and gateway), `PoolAssumption`
(gateway and `Main`), `InputAssumption` (a source says one of the things `Raws` lists),
`StoreAssumption`, `CacheAssumption` (numbers are numbers; finitely many callers of
Redis), `SessionAssumption` and `UniqueIds` (session). TLC evaluates all of them on the
instances of the runs.

Only model-checked: the liveness properties, since TLAPS does not do fairness and ENABLED:
`CancelClosesDone`, `RecoveredNodeReturns`, `CallsEnd`, `CallersAreAnswered`,
`SessionEnds`, `SilentUpstreamIsLeft`, `GoroutinesEnd`, `SubscribesAreLostWithUpstreams`,
`ExpiredAreSwept`, `CommandsEnd`, `RecoveryIsNoticed`, `SignalEndsProcess`. RECURSIVE
operators are out of the provers' reach, and they treat `SelectSeq` as a symbol they know
nothing of; the proved modules use recursive functions instead.

The larger proof modules make Zenon the default prover (`USE ZenonT(40)`); a leaf that
needs arithmetic, sequences or record sets cites `SMT`. Either half of the session takes
about a quarter of an hour, the other modules a few minutes at most.

## Not modelled

Metrics and logging keep no state that the gateway reads, except for the degraded flag
of the Redis store and the set-up of the logger, which are modelled. The prober is three
sequential requests that nothing in the program calls, and `SetCapabilities` is called by
tests only. The static `Classify` of `layer.go` is called by its test only. The examples
are not part of the gateway. `CacheKey`, `wsToHTTP`, `httpToWS`, the JSON rewriting and
the origin normalisation are pure functions on strings. A signal before `NotifyContext`
ends the process at once.

Hazards without a property have a note in `PROJECT.json`: ids that upstreams share, an
upstream that refuses every replay, the tag `finalized`. Request ids are distinct in
`WSSession`; what a client that reuses the id of a lost subscribe gets is not modelled.
For each the code's behaviour is known and no statement of the repository excludes it.

## Plan

`WSSession`: ids that upstreams share and request ids that a client reuses, once the
repository says what should happen.
