------------------------------ MODULE RedisCache ------------------------------
(***************************************************************************)
(* fixedRateLimitCacheImpl.DoLimit: concurrent rate limit calls against    *)
(* one Redis keyspace, with a per-instance local cache of over-limit keys. *)
(*                                                                         *)
(* A caller is one DoLimit call.  Its steps interleave with those of the   *)
(* other callers, with the passing of time, with the expiry of counters    *)
(* and with the failure of a pipeline at any point.  Redis executes one    *)
(* command at a time; the commands of one pipeline need not be adjacent.   *)
(* A caller that gave up at its deadline leaves its pipeline running.      *)
(*                                                                         *)
(* A cache key is <<descriptor, start of window>>: it does not contain the *)
(* limit.  Time is in seconds.  Redis expires a key at some point of the   *)
(* second its TTL names, freecache at the start of it.                     *)
(***************************************************************************)
EXTENDS BaseLimiter, Sequences, FiniteSetsExt

CONSTANTS
  Callers,        \* the DoLimit calls of a behaviour
  Instances,      \* ratelimit processes sharing the Redis server
  Host,           \* Host[c]: the instance that serves caller c
  Descriptors,    \* descriptors that match a rule
  Unmatched,      \* a descriptor for which GetLimit found no limit
  PerSecondKeys,  \* descriptors sent to the dedicated per-second Redis
  Shadow,         \* descriptors whose rule is in shadow mode
  Limits,         \* Limits[d]: the values requests_per_unit may have for d
  MaxLimit,       \* MaxLimit[d]: the largest of them
  Requests,       \* sequences of [d, limit, hits, neg]
  LocalCacheEnabled,
  StopCacheKeyIncrementWhenOverlimit,
  Jitter,         \* the values of Int63n(ExpirationJitterMaxSeconds), {0} when off
  MaxTime,        \* bound on the clock
  BucketStart(_, _),       \* start of descriptor d's window at time t
  WindowEnd(_, _),         \* end of descriptor d's window at time t
  ExpirationSeconds(_, _)  \* TTL of a counter of descriptor d, evaluated at t

Time == 0 .. MaxTime

Entry == [d : Descriptors \cup {Unmatched}, limit : Nat, hits : Nat, neg : BOOLEAN]

\* The last conjunct of the window part is what the Windows module shows of the
\* code's windows: a TTL evaluated at t outlives every window entered by then.
ASSUME RedisCacheAssumption ==
  /\ Host \in [Callers -> Instances]
  /\ Unmatched \notin Descriptors
  /\ PerSecondKeys \subseteq Descriptors
  /\ Shadow \subseteq Descriptors
  /\ Limits \in [Descriptors -> SUBSET Nat]
  /\ MaxLimit \in [Descriptors -> Nat]
  /\ \A d \in Descriptors : \A l \in Limits[d] : l <= MaxLimit[d]
  /\ Requests \subseteq Seq(Entry)
  /\ \A req \in Requests :
       /\ req # <<>>
       /\ \A i \in 1 .. Len(req) :
            req[i].d # Unmatched => req[i].limit \in Limits[req[i].d]
  /\ LocalCacheEnabled \in BOOLEAN
  /\ StopCacheKeyIncrementWhenOverlimit \in BOOLEAN
  /\ Jitter \subseteq Nat /\ Jitter # {}
  /\ MaxTime \in Nat
  /\ \A d \in Descriptors, t \in Time :
       /\ BucketStart(d, t) \in 0 .. t
       /\ WindowEnd(d, t) \in Nat
       /\ t < WindowEnd(d, t)
       /\ WindowEnd(d, BucketStart(d, t)) = WindowEnd(d, t)
       /\ ExpirationSeconds(d, t) \in Nat \ {0}
       /\ \A s \in 0 .. t : WindowEnd(d, s) <= t + ExpirationSeconds(d, t)

VARIABLES
  now,         \* the clock
  store,       \* Redis: the counter of every key
  localCache,  \* per instance: expiry of a poisoned key, 0 when absent
  pc,          \* where each caller is in DoLimit
  call,        \* the local variables of each caller
  stats,       \* the statistics of each descriptor's rule
  tally        \* history, read by no action: what a window admitted and refunded

vars == <<now, store, localCache, pc, call, stats, tally>>

-----------------------------------------------------------------------------
(* Keys, counters and calls *)

Keys == {<<d, BucketStart(d, t)>> : d \in Descriptors, t \in Time}

End(k) == WindowEnd(k[1], k[2])

NoTTL == -1

Counter == [live : BOOLEAN, n : Nat, exp : Nat \cup {NoTTL}]

NoCounter == [live |-> FALSE, n |-> 0, exp |-> NoTTL]

NoStats == [total |-> 0, totalNegative |-> 0, over |-> 0, near |-> 0,
            within |-> 0, overLocal |-> 0, shadow |-> 0]

NoTally == [adm |-> 0, ref |-> 0, chg |-> 0]

\* The local variables of a call for req whose keys are generated at time t.
NewCall(req, t) ==
  LET all(v) == [i \in 1 .. Len(req) |-> v] IN
  [req |-> req, t |-> t, i |-> 1, op |-> "none",
   over |-> all(FALSE), near |-> all(FALSE), reply |-> all(0), ttl |-> all(0),
   charge |-> all(0), code |-> all("none"),
   sent |-> {}, later |-> {}, half |-> FALSE]

Indexes(c) == 1 .. Len(call[c].req)

Ent(c, i) == call[c].req[i]

\* GenerateCacheKey returns an empty key when there is no limit.
Limited(c, i) == Ent(c, i).d # Unmatched

\* The clock is read once, before the first key is generated.
Key(c, i) == <<Ent(c, i).d, BucketStart(Ent(c, i).d, call[c].t)>>

Counts(c, i) == Limited(c, i) /\ ~Ent(c, i).neg

IsOverLimitWithLocalCache(inst, k) == LocalCacheEnabled /\ now < localCache[inst][k]

AnyOver(c) == \E i \in Indexes(c) : call[c].over[i]

-----------------------------------------------------------------------------
(* Redis: one command on one counter.  External, but DecrementScript is the *)
(* program's own.                                                           *)

INCRBY(ctr, n) ==
  IF ctr.live THEN [ctr EXCEPT !.n = @ + n]
              ELSE [live |-> TRUE, n |-> n, exp |-> NoTTL]

EXPIRE(ctr, at) == IF ctr.live THEN [ctr EXCEPT !.exp = at] ELSE ctr

\* Slips: the script without its EXPIRE, and without its clamp at zero.
DecrementScriptNoExpire(ctr, n, at) ==
  IF ~ctr.live THEN ctr
  ELSE [live |-> TRUE, n |-> Larger(0, ctr.n - n), exp |-> NoTTL]

DecrementScriptNoClamp(ctr, n, at) ==
  IF ~ctr.live THEN ctr
  ELSE [live |-> TRUE, n |-> ctr.n - n, exp |-> at]

\* SET drops the TTL of the key, EXPIRE restores it.
DecrementScript(ctr, n, at) ==
  IF ~ctr.live THEN ctr
  ELSE [live |-> TRUE, n |-> Larger(0, ctr.n - n), exp |-> at]

GET(ctr) == IF ctr.live THEN ctr.n ELSE 0

\* A key is due in the second its TTL names.
Due(k) == store[k].live /\ store[k].exp # NoTTL /\ store[k].exp <= now

-----------------------------------------------------------------------------
(* The steps of DoLimit *)

AddStats(d, delta) ==
  stats' = [stats EXCEPT ![d] = [s \in DOMAIN @ |-> @[s] + delta[s]]]

Begin(c, req) ==
  /\ pc[c] = "idle"
  /\ pc' = [pc EXCEPT ![c] = "lookup"]
  /\ call' = [call EXCEPT ![c] = NewCall(req, now)]
  /\ UNCHANGED <<now, store, localCache, stats, tally>>

\* One descriptor: its hits are counted (GenerateCacheKeys) and its key is
\* looked up in the local cache.  The statistics are only ever added to, so
\* counting the hits together with the lookup hides no interleaving.
LookUp(c) ==
  LET i == call[c].i IN
  /\ pc[c] = "lookup"
  /\ pc' = [pc EXCEPT ![c] = IF i = Len(call[c].req) THEN "decide" ELSE "lookup"]
  /\ call' = [call EXCEPT
       ![c].i = i + 1,
       ![c].over[i] = Counts(c, i) /\ IsOverLimitWithLocalCache(Host[c], Key(c, i))]
  /\ IF Limited(c, i)
     THEN AddStats(Ent(c, i).d,
            [NoStats EXCEPT !.total = IF Ent(c, i).neg THEN 0 ELSE Ent(c, i).hits,
                            !.totalNegative = IF Ent(c, i).neg THEN Ent(c, i).hits ELSE 0])
     ELSE UNCHANGED stats
  /\ UNCHANGED <<now, store, localCache, tally>>

\* The indexes of a pipeline for Redis and for the per-second Redis.
MainPart(c, S) == {i \in S : Ent(c, i).d \notin PerSecondKeys}
PerSecondPart(c, S) == {i \in S : Ent(c, i).d \in PerSecondKeys}

\* With stopCacheKeyIncrementWhenOverlimit the counters are read first.
StartGet(c) ==
  LET S == {i \in Indexes(c) : Counts(c, i)} IN
  /\ pc[c] = "decide"
  /\ StopCacheKeyIncrementWhenOverlimit /\ ~AnyOver(c)
  /\ pc' = [pc EXCEPT ![c] = "get"]
  /\ call' = [call EXCEPT ![c].op = "get", ![c].sent = MainPart(c, S),
                          ![c].later = PerSecondPart(c, S)]
  /\ UNCHANGED <<now, store, localCache, stats, tally>>

\* A slip: a key that is near its own limit is not charged either.
getHitsAddendValueNoneCharged(hits, isCacheKeyOverlimit, isCacheKeyNearlimit, isNearLimit) ==
  IF StopCacheKeyIncrementWhenOverlimit /\ (isCacheKeyOverlimit \/ isCacheKeyNearlimit)
  THEN 0 ELSE hits

getHitsAddendValue(hits, isCacheKeyOverlimit, isCacheKeyNearlimit, isNearLimit) ==
  IF /\ StopCacheKeyIncrementWhenOverlimit
     /\ isCacheKeyOverlimit \/ (isCacheKeyNearlimit /\ ~isNearLimit)
  THEN 0 ELSE hits

\* Every descriptor with a key that the local cache did not deny is sent.
PipelineIndexes(c) == {i \in Indexes(c) : Limited(c, i) /\ ~call[c].over[i]}

\* The TTL is evaluated when the pipeline is built, later than the key.
\* A slip: one second short.
TTLShort(d, jitter) == ExpirationSeconds(d, now) + jitter - 1

TTL(d, jitter) == ExpirationSeconds(d, now) + jitter

SetupPipeline(c, near) ==
  LET S == PipelineIndexes(c)
      anyNear == \E i \in Indexes(c) : near[i]
  IN \E jitter \in [Indexes(c) -> Jitter] :
       /\ pc' = [pc EXCEPT ![c] = IF S = {} THEN "respond" ELSE "incr"]
       /\ call' = [call EXCEPT
            ![c].i = 1, ![c].op = "incr", ![c].near = near,
            ![c].sent = MainPart(c, S), ![c].later = PerSecondPart(c, S),
            ![c].reply = [i \in Indexes(c) |-> 0],
            ![c].ttl = [i \in Indexes(c) |->
               IF i \in S THEN TTL(Ent(c, i).d, jitter[i]) ELSE 0],
            ![c].charge = [i \in Indexes(c) |->
               IF i \in S
               THEN getHitsAddendValue(Ent(c, i).hits, AnyOver(c), anyNear, near[i])
               ELSE 0]]
       /\ UNCHANGED <<now, store, localCache, stats, tally>>

Build(c) ==
  /\ pc[c] = "decide"
  /\ ~StopCacheKeyIncrementWhenOverlimit \/ AnyOver(c)
  /\ SetupPipeline(c, call[c].near)

\* Both GET pipelines answered: the key is near the limit when this request
\* would take it over.
BuildAfterGet(c) ==
  /\ pc[c] = "get" /\ call[c].sent = {} /\ call[c].later = {}
  /\ SetupPipeline(c, [i \in Indexes(c) |->
       Counts(c, i) /\ call[c].reply[i] + Ent(c, i).hits > Ent(c, i).limit])

\* A slip: only the second round sends the per-second pipeline.
SendPerSecondIncrOnly(c) ==
  /\ pc[c] = "incr" /\ call[c].sent = {} /\ call[c].later # {}
  /\ call' = [call EXCEPT ![c].sent = call[c].later, ![c].later = {}]
  /\ UNCHANGED <<now, store, localCache, pc, stats, tally>>

\* The first PipeDo returned without error, the per-second pipeline is sent.
SendPerSecond(c) ==
  /\ pc[c] \in {"get", "incr"} /\ call[c].sent = {} /\ call[c].later # {}
  /\ call' = [call EXCEPT ![c].sent = call[c].later, ![c].later = {}]
  /\ UNCHANGED <<now, store, localCache, pc, stats, tally>>

Reply(c) ==
  /\ pc[c] = "incr" /\ call[c].sent = {} /\ call[c].later = {}
  /\ pc' = [pc EXCEPT ![c] = "respond"]
  /\ UNCHANGED <<now, store, localCache, call, stats, tally>>

LimitInfo(c, i) ==
  [limit |-> Ent(c, i).limit, shadow |-> Ent(c, i).d \in Shadow,
   before |-> UintSub(call[c].reply[i], Ent(c, i).hits), after |-> call[c].reply[i]]

StatusOf(c, i) ==
  IF ~Limited(c, i) THEN UnlimitedStatus
  ELSE IF Ent(c, i).neg
  THEN GetResponseDescriptorStatusForNegativeHits(Ent(c, i).limit, call[c].reply[i])
  ELSE GetResponseDescriptorStatus(LimitInfo(c, i), call[c].over[i], Ent(c, i).hits)

\* One descriptor's status: the answer, its statistics, the local cache.  After
\* the last one only the request and the answer are left of the call.
Respond(c) ==
  LET i == call[c].i
      st == StatusOf(c, i)
  IN
  /\ pc[c] = "respond"
  /\ pc' = [pc EXCEPT ![c] = IF i = Len(call[c].req) THEN "done" ELSE "respond"]
  /\ call' = [call EXCEPT ![c] =
       IF i = Len(@.req)
       THEN [NewCall(@.req, @.t) EXCEPT !.code = [call[c].code EXCEPT ![i] = st.code]]
       ELSE [@ EXCEPT !.i = i + 1, !.code[i] = st.code]]
  /\ IF Limited(c, i)
     THEN AddStats(Ent(c, i).d,
            [NoStats EXCEPT !.over = st.delta.over, !.near = st.delta.near,
                            !.within = st.delta.within,
                            !.overLocal = st.delta.overLocal,
                            !.shadow = st.delta.shadow])
     ELSE UNCHANGED stats
  /\ localCache' = IF LocalCacheEnabled /\ st.poison
                   THEN [localCache EXCEPT ![Host[c]][Key(c, i)] =
                           now + ExpirationSeconds(Ent(c, i).d, now)]
                   ELSE localCache
  /\ UNCHANGED <<now, store, tally>>

-----------------------------------------------------------------------------
(* Redis executes the pipelines, in the order of the descriptors *)

First(c, h) == h \in call[c].sent /\ \A j \in call[c].sent : h <= j

ExecGet(c) == \E h \in Indexes(c) :
  /\ call[c].op = "get" /\ First(c, h)
  /\ call' = [call EXCEPT ![c].reply[h] = GET(store[Key(c, h)]),
                          ![c].sent = @ \ {h}]
  /\ UNCHANGED <<now, store, localCache, pc, stats, tally>>

\* History: every charge, and the charges a window admitted while it was open.
CountCharge(k, n, limit, after) ==
  tally' = [tally EXCEPT ![k] =
    [adm |-> IF now < End(k) /\ after <= limit THEN @.adm + n ELSE @.adm,
     ref |-> @.ref, chg |-> @.chg + n]]

\* A slip: the value is read before it is incremented.
ExecIncrByStale(c) == \E h \in Indexes(c) :
  LET k == Key(c, h) IN
  /\ call[c].op = "incr" /\ First(c, h) /\ ~Ent(c, h).neg /\ ~call[c].half
  /\ store' = [store EXCEPT ![k] = INCRBY(@, call[c].charge[h])]
  /\ call' = [call EXCEPT ![c].reply[h] = GET(store[k]), ![c].half = TRUE]
  /\ CountCharge(k, call[c].charge[h], Ent(c, h).limit, GET(store[k]))
  /\ UNCHANGED <<now, localCache, pc, stats>>

ExecIncrBy(c) == \E h \in Indexes(c) :
  LET k == Key(c, h)
      ctr == INCRBY(store[k], call[c].charge[h])
  IN
  /\ call[c].op = "incr" /\ First(c, h) /\ ~Ent(c, h).neg /\ ~call[c].half
  /\ store' = [store EXCEPT ![k] = ctr]
  /\ call' = [call EXCEPT ![c].reply[h] = ctr.n, ![c].half = TRUE]
  /\ CountCharge(k, call[c].charge[h], Ent(c, h).limit, ctr.n)
  /\ UNCHANGED <<now, localCache, pc, stats>>

ExecExpire(c) == \E h \in Indexes(c) :
  LET k == Key(c, h) IN
  /\ call[c].op = "incr" /\ First(c, h) /\ call[c].half
  /\ store' = [store EXCEPT ![k] = EXPIRE(@, now + call[c].ttl[h])]
  /\ call' = [call EXCEPT ![c].half = FALSE, ![c].sent = @ \ {h}]
  /\ UNCHANGED <<now, localCache, pc, stats, tally>>

ExecEval(c) == \E h \in Indexes(c) :
  LET k == Key(c, h)
      ctr == DecrementScript(store[k], Ent(c, h).hits, now + call[c].ttl[h])
  IN
  /\ call[c].op = "incr" /\ First(c, h) /\ Ent(c, h).neg
  /\ store' = [store EXCEPT ![k] = ctr]
  /\ call' = [call EXCEPT ![c].reply[h] = GET(ctr), ![c].sent = @ \ {h}]
  /\ tally' = [tally EXCEPT ![k] =
       [adm |-> @.adm, ref |-> @.ref + Ent(c, h).hits, chg |-> @.chg]]
  /\ UNCHANGED <<now, localCache, pc, stats>>

-----------------------------------------------------------------------------
(* Failures.  checkError panics with a RedisError: DoLimit does not answer. *)

\* A PipeDo is outstanding, or its reply has not been seen yet.
Waiting(c) == pc[c] = "incr" \/ (pc[c] = "get" /\ \E i \in Indexes(c) : Counts(c, i))

\* The deadline passed: what was sent keeps running in the background.
GiveUp(c) ==
  /\ Waiting(c)
  /\ pc' = [pc EXCEPT ![c] = "error"]
  /\ call' = [call EXCEPT ![c].later = {}]
  /\ UNCHANGED <<now, store, localCache, stats, tally>>

\* The connection broke or timed out: the rest of the pipeline is not executed.
PipelineFails(c) ==
  /\ Waiting(c) \/ pc[c] = "error"
  /\ call[c].sent # {}
  /\ pc' = [pc EXCEPT ![c] = "error"]
  /\ call' = [call EXCEPT ![c] = NewCall(@.req, @.t)]
  /\ UNCHANGED <<now, store, localCache, stats, tally>>

-----------------------------------------------------------------------------
(* Time, expiry and eviction *)

Tick ==
  /\ now < MaxTime
  /\ \A k \in Keys : ~Due(k)
  /\ now' = now + 1
  /\ localCache' = [inst \in Instances |-> [k \in Keys |->
       IF localCache[inst][k] <= now + 1 THEN 0 ELSE localCache[inst][k]]]
  /\ UNCHANGED <<store, pc, call, stats, tally>>

Expire(k) ==
  /\ Due(k)
  /\ store' = [store EXCEPT ![k] = NoCounter]
  /\ UNCHANGED <<now, localCache, pc, call, stats, tally>>

\* freecache drops entries when it is full, and may refuse a Set.
Evict(inst, k) ==
  /\ localCache[inst][k] # 0
  /\ localCache' = [localCache EXCEPT ![inst][k] = 0]
  /\ UNCHANGED <<now, store, pc, call, stats, tally>>

Terminated ==
  /\ \A c \in Callers : pc[c] \in {"done", "error"} /\ call[c].sent = {}
  /\ UNCHANGED vars

-----------------------------------------------------------------------------

Init ==
  /\ now = 0
  /\ store = [k \in Keys |-> NoCounter]
  /\ localCache = [inst \in Instances |-> [k \in Keys |-> 0]]
  /\ pc = [c \in Callers |-> "idle"]
  /\ call = [c \in Callers |-> NewCall(<<>>, 0)]
  /\ stats = [d \in Descriptors |-> NoStats]
  /\ tally = [k \in Keys |-> NoTally]

CallerStep(c) ==
  \/ LookUp(c) \/ StartGet(c) \/ Build(c) \/ BuildAfterGet(c)
  \/ SendPerSecond(c) \/ Reply(c) \/ Respond(c)

RedisStep(c) == ExecGet(c) \/ ExecIncrBy(c) \/ ExecExpire(c) \/ ExecEval(c)

Environment ==
  \/ Tick
  \/ \E k \in Keys : Expire(k)
  \/ \E inst \in Instances, k \in Keys : Evict(inst, k)

Next ==
  \/ \E c \in Callers, req \in Requests : Begin(c, req)
  \/ \E c \in Callers : CallerStep(c) \/ RedisStep(c) \/ GiveUp(c) \/ PipelineFails(c)
  \/ Environment
  \/ Terminated

Spec == Init /\ [][Next]_vars

\* The goroutine of a call is scheduled; Redis executes what it was sent, or the
\* I/O timeout fails the connection.
Fairness == \A c \in Callers :
  WF_vars(CallerStep(c)) /\ WF_vars(RedisStep(c) \/ PipelineFails(c))

FairSpec == Spec /\ Fairness

-----------------------------------------------------------------------------
(* Properties *)

\* The local variables of a call for req.
CallOf(req) ==
  [req : {req}, t : Time, i : 1 .. Len(req) + 1, op : {"none", "get", "incr"},
   over : [1 .. Len(req) -> BOOLEAN], near : [1 .. Len(req) -> BOOLEAN],
   reply : [1 .. Len(req) -> Nat], ttl : [1 .. Len(req) -> Nat],
   charge : [1 .. Len(req) -> Nat], code : [1 .. Len(req) -> {"none", OK, OVER_LIMIT}],
   sent : SUBSET (1 .. Len(req)), later : SUBSET (1 .. Len(req)), half : BOOLEAN]

\* Type invariant: counters are naturals with or without a TTL, and a call
\* only ever addresses descriptors of its own request that have a limit.  The
\* loops over the descriptors stay within the request.
TypeOK ==
  /\ now \in Time
  /\ store \in [Keys -> Counter]
  /\ localCache \in [Instances -> [Keys -> Nat]]
  /\ pc \in [Callers -> {"idle", "lookup", "decide", "get", "incr", "respond", "done", "error"}]
  /\ DOMAIN call = Callers
  /\ \A c \in Callers :
       /\ call[c].req \in Requests \cup {<<>>}
       /\ call[c] \in CallOf(call[c].req)
       /\ call[c].t <= now
       /\ \A i \in call[c].sent \cup call[c].later : Limited(c, i)
       /\ pc[c] # "idle" => call[c].req \in Requests
       /\ pc[c] \in {"lookup", "incr", "respond"} => call[c].i \in Indexes(c)
  /\ stats \in [Descriptors -> [total : Nat, totalNegative : Nat, over : Nat, near : Nat,
                                within : Nat, overLocal : Nat, shadow : Nat]]
  /\ tally \in [Keys -> [adm : Nat, ref : Nat, chg : Nat]]

\* The purpose of the program: while its window is open, a counter admits
\* (INCRBY answers a value within the limit) no more hits than the limit and
\* what was refunded, whatever the interleaving, whichever pipelines broke
\* half way and whoever gave up on them (DoLimit, INCRBY/EXPIRE/EVAL).
WindowAdmission == \A k \in Keys : tally[k].adm <= MaxLimit[k[1]] + tally[k].ref

\* A counter with a TTL is not dropped before its window ends, although the key
\* and the TTL are computed at different times and every request overwrites the
\* TTL (ExpirationSeconds, jitter, EXPIRE, the decrement script).
CounterOutlivesWindow == \A k \in Keys :
  store[k].live /\ store[k].exp # NoTTL => End(k) <= store[k].exp

\* Only a broken pipeline leaves a counter without a TTL: otherwise some call is
\* between its INCRBY and its EXPIRE on that very key.
NoImmortalCounter == \A k \in Keys :
  store[k].live /\ store[k].exp = NoTTL =>
    \E c \in Callers : \E i \in Indexes(c) :
      /\ Limited(c, i) /\ Key(c, i) = k
      /\ pc[c] = "error" \/ (First(c, i) /\ call[c].half)

\* A key in the local cache was charged more than one of the limits its rule
\* had: the local cache never denies a window that stayed within its limit.
LocalDenialJustified == \A inst \in Instances, k \in Keys :
  localCache[inst][k] # 0 => \E l \in Limits[k[1]] : l < tally[k].chg

\* A local denial agrees with Redis: within the window the counter of a locally
\* cached key is still over the limit.
LocalDenialAgreesWithRedis == \A inst \in Instances, k \in Keys :
  now < localCache[inst][k] /\ now < End(k) =>
    \E l \in Limits[k[1]] : l < GET(store[k])

\* The inductive invariant behind these properties.  A command that is
\* still to be executed carries a TTL that reaches the end of its window; while
\* a window is open its counter holds every admitted hit that was not refunded;
\* a counter never exceeds what was charged, nor does an answer.
PendingTTLReachesEnd == \A c \in Callers : \A i \in call[c].sent \cup call[c].later :
  call[c].op = "incr" => End(Key(c, i)) <= now + call[c].ttl[i]

WindowAccount == \A k \in Keys :
  /\ now < End(k) => tally[k].adm <= GET(store[k]) + tally[k].ref
  /\ GET(store[k]) <= tally[k].chg

AnswerAccount == \A c \in Callers :
  /\ pc[c] \in {"incr", "respond"} => call[c].op = "incr"
  /\ \A i \in Indexes(c) :
       call[c].op = "incr" /\ Counts(c, i) => call[c].reply[i] <= tally[Key(c, i)].chg

IInv ==
  /\ TypeOK /\ CounterOutlivesWindow /\ PendingTTLReachesEnd
  /\ WindowAccount /\ WindowAdmission /\ AnswerAccount /\ LocalDenialJustified

\* The descriptors of all calls, and those of them that charge key k.
Pairs == UNION {{c} \X Indexes(c) : c \in Callers}

ChargesOn(k) == {ci \in Pairs : Counts(ci[1], ci[2]) /\ Key(ci[1], ci[2]) = k}

Answered(k) == {ci \in ChargesOn(k) : call[ci[1]].code[ci[2]] = OK}

SumHits(S) == SumFunctionOnSet([ci \in S |-> Ent(ci[1], ci[2]).hits], S)

\* What clients see: the hits answered OK for a rule that is enforced never
\* exceed the limit plus the refunds while the window is open.
AnsweredWithinLimit == \A k \in Keys :
  now < End(k) /\ k[1] \notin Shadow =>
    SumHits(Answered(k)) <= MaxLimit[k[1]] + tally[k].ref

\* All descriptors of the request were answered OK, before any window ended.
AdmittedCaller(c) ==
  /\ pc[c] = "done"
  /\ \A i \in Indexes(c) :
       call[c].code[i] = OK /\ (Limited(c, i) => now < End(Key(c, i)))

\* The same for whole requests: with stopCacheKeyIncrementWhenOverlimit a request
\* all of whose descriptors are OK was charged on every one of them, although
\* what to charge was decided on counters read earlier, so that the hits of such
\* requests stay within the limit of every enforced rule they touch.
AdmittedWithinLimit == \A k \in Keys :
  now < End(k) /\ k[1] \notin Shadow =>
    SumHits({ci \in Answered(k) : AdmittedCaller(ci[1])}) <= MaxLimit[k[1]] + tally[k].ref

Quiet == \A c \in Callers : pc[c] \in {"idle", "done"}

\* When no call is under way, none failed and no counter of a rule expired (a
\* late INCRBY would start it afresh) or outgrew a uint64, the statistics of the rule add up,
\* however the calls overtook each other between INCRBY and the status:
\* over_limit is what the counters hold beyond the limit plus what the local
\* cache denied, near_limit what they hold between the two thresholds, and a
\* shadow rule reports every over-limit hit as overridden.
StatsAddUp == \A d \in Descriptors :
  LET l == MaxLimit[d]
      ks == {k \in Keys : k[1] = d}
  IN Quiet /\ (\A k \in ks : GET(store[k]) = tally[k].chg /\ tally[k].chg < UintModulus) =>
       /\ stats[d].over = stats[d].overLocal
                           + SumFunctionOnSet([k \in ks |-> Excess(tally[k].chg, l)], ks)
       /\ stats[d].near = SumFunctionOnSet([k \in ks |-> NearPart(tally[k].chg, l)], ks)
       /\ stats[d].shadow = IF d \in Shadow THEN stats[d].over ELSE 0

\* Every call returns: with an answer, or with a Redis error.
EveryCallReturns == \A c \in Callers :
  pc[c] = "lookup" ~> pc[c] \in {"done", "error"}

=============================================================================
