# A TLA+ verification of ratelimit

TLA+ models of the Go rate limit service in `src/`, checked with TLC on small
instances and, where a property matters most, proved with TLAPS for every value
of the constants. `PROJECT.json` maps each definition to the source lines it
stands for.

## The system

A request carries descriptors. The service finds the rule of each (the
configuration tree), and asks a cache to charge the hits. The cache keeps one
counter per descriptor and window in Redis or memcached, optionally remembers
over-limit keys in a local cache, and turns each counter value into a status
and statistics. Around it are the configuration providers, the health checker
and the server.

| Part | Source | State and hard cases | Module |
|---|---|---|---|
| Base limiter | `limiter/base_limiter.go` | statuses, statistics, local-cache write, refund script | `BaseLimiter` |
| Fixed-window cache | `redis/fixed_cache_impl.go` | counters, TTLs, GET then INCRBY, two Redis servers, errors half way | `RedisCache` |
| Windows | `limiter/cache_key.go`, `utils/time.go`, `utils/utilities.go` | bucket, TTL, reset; calendar months, week start | `Windows` |
| Redis client | `redis/deadline.go`, `redis/driver_impl.go` | deadline, tokens, abandoned goroutines, cluster groups | `RedisClient`, `PipeDo` |
| Redis client, start to end | `redis/driver_impl.go`, `redis/cache_impl.go` | connect, PING, retry; trace callbacks of several pools | `RedisPool` |
| Health checker | `server/health.go` | components, SIGTERM | `HealthChecker` |
| Configuration | `config/config_impl.go`, `config/config_xds.go` | loading and merging files, wildcards, shared thresholds, lookup | `Config` |
| Service | `service/ratelimit.go` | reload against requests, quota and shadow mode, headers, metadata | `Service` |
| Memcached cache | `memcached/cache_impl.go` | read, then asynchronous increment; add race; worker pool | `MemcachedCache` |
| Providers | `provider/*.go` | event channel, xDS retry loop, Stop | `Provider` |
| Life cycle | `server/server_impl.go`, `service_cmd/runner` | Start against Stop, order of closing, signals | `Process` |
| Credentials, settings, statistics sinks, tracing, TLS, command-line tools | | | not modelled, see below |

`Process` composes `RedisPool`, `HealthChecker` and `Provider`; `Service` uses
`Config` and `BaseLimiter`; `RedisCache` and `MemcachedCache` use `BaseLimiter`.

## Modules

**BaseLimiter** holds the pure part of `BaseRateLimiter`. A status is the answer,
the remaining capacity, the amounts added to the statistics, and whether the key
goes into the local cache. `UintSub` wraps like the uint64 difference
`limitAfterIncrease - hitsAddend`; the modulus is a constant. The near-limit
ratio is an exact fraction; the code multiplies in `float32`, whose rounding is
not modelled.

**RedisCache** is `DoLimit`. A caller is one call, and its steps interleave:

| Action | Code |
|---|---|
| `Begin`, `LookUp` | `GenerateCacheKeys`, the local-cache loop |
| `StartGet`, `BuildAfterGet` | the GET round of `stopCacheKeyIncrementWhenOverlimit` and the near-limit decision |
| `Build`, `SetupPipeline` | what is sent, with which charge and TTL (jitter included) |
| `SendPerSecond`, `Reply` | the two `PipeDo` calls, one after the other |
| `Respond` | one status, its statistics, the local-cache write |
| `ExecGet`, `ExecIncrBy`, `ExecExpire`, `ExecEval` | Redis executes one command; INCRBY and EXPIRE are separate |
| `GiveUp`, `PipelineFails` | `checkError` panics: the deadline (what was sent goes on running), or a broken connection (the rest is lost) |
| `Tick`, `Expire`, `Evict` | the clock, expiry in Redis, eviction in freecache |

A cache key is the descriptor and the start of its window; the text of the key is
abstracted. Window functions are constants with an assumption: a TTL evaluated at
time t reaches the end of every window entered by t. `WindowsProofs!TTLReachesEnd`
proves that of the code's window functions. `tally` is a history variable that no
action reads. Commands are executed in descriptor order, as with a single or
sentinel Redis.

**Windows** evaluates key, TTL and reset of one request at three times, for every
unit, week start and month setting. The calendar of Go's `time` package is
external.

**PipeDo** states what a client promises: receivers are written exactly when no
error is returned, commands of one key keep their order, a refused call is never
sent, a failed one may be applied later. **RedisClient** is `clientImpl.do` with
the goroutine that outlives its caller, the in-flight channel, and the execution
of a pipeline in single, serial-cluster and concurrent-cluster mode. It
implements `PipeDo` (`ImplementsPipeDo`).

**MemcachedCache** is `DoLimit` of the memcached backend. A call reads its
counters (`GetMulti`), decides (`Answer`), counts a task in the wait group and
hands it over (`Submit`, two steps); an idle worker takes the task or a new
worker runs it (`runAsync`). A task
is a sequence of steps per key (`Increment`, `AddItem`, increment again), so
tasks, calls, expiry and the clock interleave. An operation may fail. A
decrement of a refund stops at zero; an expiration above
`MaxRelativeExpiration` is an absolute time. A counter above `Int32Max` fails
`ParseInt` and is taken for zero (`Decode`).

**Config** loads YAML into the tree (`loadConfig`, `loadDescriptors` with all their
checks; the tree is a function from composite keys to nodes plus the ordered
wildcards) and looks limits up in it (`GetLimit` as `Match`, `Walk`, `Resolved`).
Texts that are matched are sequences of characters, because wildcards match
characters; statistics names are sequences of parts. The second half of the
module is the reference: `ReferenceLimit`, `ReferenceCounter` and `ValidFiles`
say on the YAML itself, with a recursive `Glob`, what the tree must find.

**Service** is `SetConfig` against `ShouldRateLimit`. Loaded configurations are
objects on a heap; a request keeps a reference to one (`Begin`), calls the cache
(`DoLimit`: any counter values), loops over the statuses (`Judge`) and answers
(`Respond`). Quota groups, replaced and unlimited rules, both shadow modes, both
kinds of headers, advertised backends and merged metadata are in it.

**HealthChecker**, **RedisPool**, **Provider**, **Process**:

| Actions | Code |
|---|---|
| `Ok`, `Fail`, `NewHealthChecker`, `SigtermHealth` | `server/health.go` |
| `ConnCreated`, `ConnCreatedReports`, `ConnClosed`, `ConnClosedReads`, `ConnClosedReports` | the callbacks of `poolTrace`, split where another goroutine can step in |
| `Connect`, `Ping`, `Closed`, `Retry`, `Ready`, `newClientDies` | `newClientImpl`, `retryOrDie` |
| `Snapshot`, `RuntimeUpdate` | `FileProvider` |
| `initializeAndWatch`, `Fetch`, `FetchFails`, `FetchPanics`, `retryGrpcConn`, `BackOff`, `StopReceived` | `XdsGrpcSotwProvider`; the ignored error of `InitConnect` leaves a watcher without a new stream |
| `NewServer`, `createLimiter`, `NewService`, `Start`, `startGrpc`, `Listen`, `ServeReturns`, `CloseLimiter` | `Runner.Run`, `NewService`, `server.Start` |
| `Receive`, `ReportConfig`, `Install` | `SetConfig`; an event error that is none of the loader's ends the process |
| `Signal`, `Cancel`, `Stop`, `Drained`, `StopProvider` | signals, `handleGracefulShutdown`, `Stop` |
| `BeginRequest`, `EndRequest` | a request on the gRPC or the HTTP listener |

A deployment (`settings`) fixes the pools, the provider, the health options and
the verdicts of the loader on the versions published. `lostAtStart` is a
history variable.

The `MC*` modules give the constants their values. Definitions marked "a slip"
are plausible mistakes next to the definition they alter; no specification uses
them. They serve to confirm that each property notices the mistake.

## Runs

| Run | Question | Result |
|---|---|---|
| `redis_core` | hits, refunds, failures and the end of a window on one counter, three calls | holds |
| `redis_two` | two rules, one in shadow mode on the per-second Redis, one pipeline failing after the other was applied, local cache, jitter | holds |
| `redis_stop` | the stop mode on two rules, and that every call returns | holds |
| `redis_stop_shadow` | the stop mode with a shadow rule | violated |
| `redis_refund_local` | refunds with the local cache | violated |
| `windows` | key, TTL and reset around all kinds of boundaries | holds |
| `redis_client` | deadline, tokens, groups, refinement of `PipeDo` | holds |
| `redis_client_refused` | refusals only while commands are in flight | violated |
| `memcached` | asynchronous increments: hits counted once, answers on true reads within the limit, expirations, workers | holds |
| `request` | loading and lookup against the reference; answers during reloads | holds |
| `request_metadata` | requests do not modify the configuration | violated |
| `process` | health, reloads and shutdown of the whole process | holds |

The violated properties are disagreements between documents and code:

- **Stop mode and shadow rules.** A shadow rule that is over its limit makes the
  other rules of the request be charged nothing, so an enforced rule beside it
  admits more than its limit. The trace has two interleaved calls; a sequence of
  calls after the shadow rule is exhausted has the same effect.
- **Refunds and the local cache.** A refund leaves the key in the local cache,
  which goes on denying capacity that Redis has again.
- **Refusal with nothing in flight.** The goroutine sends its result before it
  gives its token back, so a caller's next call may be refused.
- **Metadata of the configuration.** `mergeMetadata` puts a rule's metadata into
  the response by reference and merges the next rule's into it. A request that
  matches two rules with a common field changes the configuration for all later
  requests, without a lock.

Two limits of the stop mode are visible in the model and excluded from
`redis_stop`, because GET and INCRBY are not atomic and no document promises it: a
refund, or the expiry of a counter, between the two makes a request be charged
less than it was admitted for. `redis_stop` therefore has no refunds, and
`AdmittedWithinLimit` speaks of open windows.

Behaviours that the models contain and the properties except by name. Three of
them disagree with a document or a comment:

- **Health without a connection.** Between PING and the report of `newClientImpl`
  connections may be lost (`lostAtStart`), and Redis is reported healthy without
  one until the pool dials again or a close reports. `README.md:1442` describes
  the setting as "whether to return health check failure if there is no active
  redis connection".
- **Advertised backends.** A descriptor outside quota mode that names the backend
  and model of an exhausted quota group is still advertised. The comments at
  `ratelimit.go:475` and `:487` speak of "the unique (backend_name,
  model_name_override) pairs that still have quota" and of "passed quota
  descriptors". `PassedBackendsHaveQuota` states what holds of quota descriptors.
- **Separator of counters.** Keys and values are joined with underscores, so two
  descriptors with underscores in their texts can share a counter, where
  `README.md:436` promises "a unique limit" per value. The probes of `request`
  reach such a pair; `CounterSharedAsConfigured` says that counters stay apart
  only for texts without the separator.

The others are not promised otherwise:

- `ShutdownCompletes` speaks of shutdowns that begin while serving. A signal
  before `httpServer` is set stops nothing that `Run` waits for, and `NewService`
  waits for the first configuration without looking at the context; in both
  cases the process does not end.
- An xDS dial that returns an error makes the provider's goroutine send to the
  channel only it receives from. `LatestConfigInstalled` excepts that state; the
  process still shuts down, because the provider is stopped last.
- Memcached overruns a limit in four cases, and `TrueReadsKeepLimit` says in no
  other: calls that overlap (documented), a read that failed, one request that
  names a counter twice (both descriptors are judged by the same read), and a
  counter beyond the 32 bits of the decoder.
- A Redis counter whose pipeline broke between INCRBY and EXPIRE has no TTL until
  a later request sets one. `NoImmortalCounter` says that nothing else leaves
  such a counter; the call that erred is excepted.
- When only quota groups deny a request, its headers show a limit with nothing
  remaining, which need not be the one that denied it (`HeadersExplainAnswer`). The
  settings that switch the headers are constant in a process.
- Requests on `/json` are not waited for when the limiter is closed.

### Bounds

- Clock 0 to 2 (1 in `redis_stop`), windows of one and two seconds: keys and TTLs
  fall into different windows, counters expire, late commands recreate them.
- Limits of 1 and 3 with hits of 1, 2 and 5: below, between and beyond both
  thresholds in one step. Near ratio 1/2. `UintModulus` 1000 exceeds every value,
  so a wrapped difference is large, as in the code.
- Three calls on one counter, two on two rules: two calls that race and one that
  refunds. Calls are symmetric; symmetry is not used where a liveness property is
  checked.
- `windows`: the first two weeks, month and year ends of 1970, and both ends of
  February 1972, at offsets around the hour and midnight; a request takes at most
  `MaxDelay` = 3601 seconds.
- `redis_client`: a pipeline of three commands on two keys beside a `DoCmd`, one
  token, all modes, pool sizes and parallelism settings of `AllSettings`.
- `memcached`: two calls on two keys, one failing operation, a clock of two
  instants, `MaxRelativeExpiration` 1 so that both forms of expiration occur.
  `Int32Max` is 3 and one limit 4, so that a counter can outgrow the decoder
  before its limit; one request names that counter twice.
- `request`: every wildcard pattern of up to three characters over two letters,
  against every value of up to three, and values with the separator; nested shared thresholds, quota groups,
  replaced rules, every kind of invalid file; one request while two
  configurations are loaded. Two requests meet only in the configuration, whose
  modification is the other run.
- `process`: two pools of one connection and one of two, with as many callbacks
  at once; memcached with either provider; versions that are full, empty,
  rejected, malformed or make the loader panic; two broken streams, dials or
  `InitConnect` calls; one request per listener.
  A run of one signal is enough, as the runner reads one.

### Fairness

`RedisCache`: weak fairness of each caller's own step (its goroutine is
scheduled), and of "Redis executes the command or the connection fails" (the I/O
timeout). `RedisClient`: weak fairness of the goroutines only. `ReturnsByDeadline`
assumes nothing of Redis; `TokensComeBack` assumes the I/O timeout (`IOTimeout`)
in its statement. `MemcachedCache`: weak fairness of each call's steps, of
each task's operations and of its end (goroutines are scheduled, an operation of
memcached returns, with an error at its timeout).
`Process`: weak fairness of main, the signal goroutines, the service's and the
provider's goroutines and Stop, and of the end of a gRPC call (a Redis call has a
deadline); that of the provider includes that the management server can be
reached again. Nothing is assumed of radix, of new requests, of signals or of
new versions.

## Proofs

| Theorem | States |
|---|---|
| `RedisCacheProofs!StatusTelescopes` | what an answer adds to over_limit and near_limit is the growth of the corresponding part of the counter |
| `RedisCacheProofs!Invariance`, `TypeCorrect` | `IInv`, `TypeOK` |
| `RedisCacheProofs!AdmissionSafe` | `WindowAdmission`: a window admits at most its limit and the refunds |
| `RedisCacheProofs!CountersOutlive` | `CounterOutlivesWindow` |
| `RedisCacheProofs!LocalDenialSafe` | `LocalDenialJustified` |
| `RedisCacheProofs!TTLsSafe` | `NoImmortalCounter` |
| `RedisCacheProofs!LocalDenialCurrent` | `LocalDenialAgreesWithRedis`, if no request refunds |
| `RedisCacheAnswersProofs!AnswersSafe` | `AnsweredWithinLimit`, without the stop mode |
| `RedisCacheAnswersProofs!AdmittedSafe` | `AdmittedWithinLimit`; in the stop mode if no rule is in shadow mode and no request refunds |
| `RedisCacheAnswersProofs!StatsSafe` | `StatsAddUp`, for rules with one limit and without the stop mode |
| `WindowsProofs!TTLReachesEnd`, `TTLSafe` | a TTL reaches the end of the key's window |
| `WindowsProofs!WindowTypes`, `BucketSafe`, `ResetSafe`, `LegacyWeeks` | `TypeOK`, `BucketIsWindowStart`, `ResetEndsWindow`, `ThursdayWeeksAreLegacyWeeks` |
| `RedisClientProofs!ClientInvariance`, `InflightSafe` | `IInv`, `InflightBound` |
| `RedisClientProofs!ClientImplementsPipeDo` | the client implements `PipeDo` |
| `MemcachedCacheProofs!MemcachedInvariance`, `MemcachedTypes` | `IInv`, `TypeOK` |
| `MemcachedCacheProofs!ExpirationSafe` | `CounterOutlivesWindow` |
| `MemcachedCacheProofs!FlushSafe` | `FlushedBeforeReturn` |
| `MemcachedCacheProofs!HitsSafe`, `OverrunSafe` | `HitsAccounted`, `TrueReadsKeepLimit` |
| `ProcessProofs!ProcessInvariance` | `IInv` |
| `ProcessProofs!ReadinessSafe`, `ConnectionsSafe` | `ReadinessNeverReturns`, `NoConnectionsIsUnhealthy` |
| `ProcessProofs!ConfigHealthSafe`, `DrainSafe` | `ConfigHealthAgrees`, `LimiterClosedAfterDrain` |

`WindowAdmission` is not inductive: it says nothing of the counter. `IInv` of
RedisCache adds that while a window is open its counter holds every admitted hit
that was not refunded (`WindowAccount`), which needs that the counter is not
dropped (`CounterOutlivesWindow`), which needs that every command still to be
executed carries a TTL that reaches the end of its window
(`PendingTTLReachesEnd`). `AnswerAccount` ties an answer to what was charged; it
carries `LocalDenialJustified`.

The statements about callers need more than `IInv`. For `AnsweredWithinLimit` and
`AdmittedWithinLimit` the hits granted in an open window, summed over the
descriptors of all calls, are at most what the counter admitted (`GrantInv`); in
the stop mode a call that was charged nothing because of what it read is over
the limit in the status, too, which holds while counters do not fall (`Reads`;
hence no refunds) and every rule is enforced (hence no shadow rule: the finding
above is its counterexample). For `StatsAddUp`, what the statistics hold and what
the calls under way will still write add up to what the counters hold, call by
call (`StatusTelescopes`). For `NoImmortalCounter` every counter without a TTL has
a call between its two commands, or one that erred there. `SumProofs` has what
the provers need about sums over finite sets.

`IInv` of RedisClient relates, per call, the caller, its goroutine and the channel,
and per command its group, its execution and its reply. Each step of the client
is then a step of `PipeDo` or leaves its variables alone.

`IInv` of MemcachedCache says of a task between Increment and Add that the
expiration it carries, relative or absolute, reaches the end of the window
whenever memcached receives it; and of the workers that no two run the same task,
that what they run has begun and not ended, and that the wait group is the number
of such tasks. A zero wait group then means that the caller's own task has ended.
For `HitsAccounted` the counter, the hits on their way and the lost hits are the
hits that were asked for, task by task; for `TrueReadsKeepLimit` a call that read
the truth found in the counter, or lost, all hits of the calls before it.
The assumptions bound the expirations (now + TTL + jitter fits an int32) and say
that a TTL reaches the end of every window entered before; the latter is
`WindowsProofs!TTLReachesEnd` for the code's windows.

`IInv` of Process has four parts. `HealthInv`: the process is healthy only if every
component is and no SIGTERM came. `DrainInv`: how far main and Stop have come
determines what is closed and which calls can be in progress. `ConfigInv`: the
report on a configuration is about the version installed next. `PoolInv`: while
Redis is reported healthy some pool has a connection, or a callback that will
report is under way. `DeploymentAssumption` only says that a deployment with the
active connection check has a pool. The `IInv`s of these two modules hold
on the instances of their runs, too (TLC); the runs do not repeat what is proved.

Assumptions: the named ASSUMEs of each module, which TLC evaluates in the runs, and
the hypotheses in the table. The calendar (`Windows`, external) is defined by the
days of the months; `WindowsAssumption` says that the instants lie in it, and what
the window functions compute from it is proved for every set of such instants.

Only model-checked: all liveness properties, which are out of the prover's reach,
and all of `Config` and `Service`, because the walk over the tree is a recursive
operator.

## Not modelled

- **Client construction.** The dialer (TLS, authentication, timeouts), the panics
  of `newClientImpl` on contradictory settings, the connection wrapper that closes
  on READONLY, and the AWS token source: library I/O and start-up checks without
  state shared between calls.
- **Cluster interleavings under RedisCache.** `RedisCache` executes a pipeline in
  descriptor order. What a cluster may reorder is in `RedisClient` and `PipeDo`
  (order per key only); the composition is not checked. Its counters are per key,
  so the proofs about one counter do not rest on an order between keys.
- **Memcached servers.** The list of servers, its refresh from SRV records, TLS.
- **YAML.** Decoding and `validateYamlKeys`; a file that does not decode is one kind
  of invalid file. Of metadata the model keeps which fields there are and who
  refers to them, not the conversion of values.
- **Server.** Handler bodies, the debug listener, the certificate provider, tracing
  and interceptors. They hold no state the other parts read.
- **Settings, statistics sinks, command-line tools.** Constants, output, and one-shot
  programs.
- `float32` rounding of the near-limit threshold.
