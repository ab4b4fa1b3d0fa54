---------------------------- MODULE MemcachedCache ----------------------------
(***************************************************************************)
(* rateLimitMemcacheImpl.DoLimit: a call reads the counters, answers from   *)
(* what it read, and leaves the increments to a task that runs after the    *)
(* answer (increaseAsync), on an idle worker or on a new one (runAsync).    *)
(*                                                                          *)
(* memcached executes one operation at a time.  An operation that fails may *)
(* have been executed or not.  Reading several keys is one step: no         *)
(* property here relates two keys.  The statistics of the rules are those   *)
(* of BaseLimiter and are left out.                                         *)
(***************************************************************************)
EXTENDS BaseLimiter, Sequences, FiniteSets, FiniteSetsExt

CONSTANTS
  Calls,          \* the DoLimit calls of a behaviour
  Rules,          \* the rules
  Unmatched,      \* stands for a descriptor without a limit (empty cache key)
  Limit,          \* Limit[r]: requests_per_unit
  Requests,       \* sequences of [r, hits, neg]
  Jitter,         \* the values of Int63n(expirationJitterMaxSeconds), {0} when off
  LocalCacheEnabled,
  MaxRelativeExpiration,   \* memcachedMaxRelativeExpirationSeconds
  Int32Max,       \* the range of an expiration and of ParseInt(.., 10, 32)
  MaxTime,        \* bound on the clock
  MaxErrors,      \* bound on the failed operations
  BucketStart(_, _), WindowEnd(_, _), ExpirationSeconds(_, _)  \* as in RedisCache

Time == 0 .. MaxTime

Entry == [r : Rules \cup {Unmatched}, hits : Nat, neg : BOOLEAN]

ASSUME MemcachedAssumption ==
  /\ IsFiniteSet(Calls) /\ {"none", "idle", "gone"} \cap Calls = {}
  /\ Unmatched \notin Rules
  /\ Limit \in [Rules -> Nat]
  /\ Requests \subseteq Seq(Entry)
  /\ Jitter \subseteq Nat /\ Jitter # {}
  /\ LocalCacheEnabled \in BOOLEAN
  /\ MaxRelativeExpiration \in Nat /\ Int32Max \in Nat
  /\ MaxTime \in Nat /\ MaxErrors \in Nat
  /\ \A r \in Rules, t \in Time :
       /\ BucketStart(r, t) \in 0 .. t
       /\ WindowEnd(r, t) \in Nat
       /\ t < WindowEnd(r, t)
       /\ WindowEnd(r, BucketStart(r, t)) = WindowEnd(r, t)
       /\ ExpirationSeconds(r, t) \in Nat \ {0}
       /\ \A j \in Jitter : t + ExpirationSeconds(r, t) + j <= Int32Max
       /\ \A s \in 0 .. t : WindowEnd(r, s) <= t + ExpirationSeconds(r, t)

VARIABLES
  now,         \* the clock
  store,       \* memcached: the counter of every key
  localCache,  \* expiry of a poisoned key, 0 when absent
  call,        \* the local variables of each call
  task,        \* increaseAsync of each call: the descriptor it is at, and its step
  worker,      \* the goroutine a call started in runAsync, if any, and what it runs
  waitGroup,   \* tasks submitted and not finished
  autoFlush,   \* AutoFlushForIntegrationTests
  errors,      \* failed operations, as counted by statsCollectingClient
  tally        \* history, read by no action

vars == <<now, store, localCache, call, task, worker, waitGroup, autoFlush, errors, tally>>

-----------------------------------------------------------------------------
(* Keys, calls and tasks *)

Keys == {<<r, BucketStart(r, t)>> : r \in Rules, t \in Time}

End(k) == WindowEnd(k[1], k[2])

NoCounter == [live |-> FALSE, n |-> 0, exp |-> 0]

NoTally == [asked |-> 0, lost |-> 0, ref |-> 0, exact |-> 0]

Idle == [pc |-> "idle", req |-> <<>>, t |-> 0, over |-> {}, value |-> <<>>, exact |-> {}]

Indexes(c) == 1 .. Len(call[c].req)

Ent(c, i) == call[c].req[i]

Key(c, i) == <<Ent(c, i).r, BucketStart(Ent(c, i).r, call[c].t)>>

Limited(c, i) == Ent(c, i).r # Unmatched

KeysOf(c) == {Key(c, i) : i \in {j \in Indexes(c) : Limited(c, j)}}

\* The descriptors increaseAsync does not skip.
Charged(c) == {i \in Indexes(c) : Limited(c, i) /\ i \notin call[c].over}

\* The next descriptor the task of c works on; beyond the request when done.
From(c, i) ==
  LET S == {j \in Charged(c) : j >= i} IN
  IF S = {} THEN Len(call[c].req) + 1 ELSE Min(S)

NoTask == [i |-> 0, op |-> "none", exp |-> 0]

Start(c, i) == [i |-> From(c, i), op |-> "first", exp |-> 0]

Running(c) == task[c].op \notin {"none", "done"}

\* The hits of the descriptors S of c.
SumHits(c, S) == SumFunctionOnSet([i \in S |-> Ent(c, i).hits], S)

\* The hits task c has yet to add to k, or to take from it when neg.
Pending(c, k, neg) == SumHits(c,
  {i \in Charged(c) : Running(c) /\ i >= task[c].i /\ Ent(c, i).neg = neg /\ Key(c, i) = k})

\* The hits on the way to k, or from it, of all tasks.
AllPending(k, neg) == SumFunctionOnSet([c \in Calls |-> Pending(c, k, neg)], Calls)

-----------------------------------------------------------------------------
(* memcached: external *)

Live(k) == store[k].live

Add(k, n, exp) == [live |-> TRUE, n |-> n, exp |-> exp]

\* When memcached drops an item it is given at time t with this expiration.
Deadline(t, expiration) ==
  IF expiration < 0 THEN t
  ELSE IF expiration <= MaxRelativeExpiration THEN t + expiration ELSE expiration

Due(k) == Live(k) /\ store[k].exp <= now

-----------------------------------------------------------------------------
(* DoLimit *)

\* Keys are generated and looked up in the local cache; refunds skip the lookup.
Begin(c, req) ==
  LET key(i) == <<req[i].r, BucketStart(req[i].r, now)>> IN
  /\ call[c].pc = "idle"
  /\ call' = [call EXCEPT ![c] =
       [pc |-> "get", req |-> req, t |-> now,
        over |-> {i \in 1 .. Len(req) : /\ req[i].r # Unmatched /\ ~req[i].neg
                                        /\ now < localCache[key(i)]},
        value |-> [i \in 1 .. Len(req) |-> 0],
        exact |-> {}]]
  /\ UNCHANGED <<now, store, localCache, task, worker, waitGroup, autoFlush, errors, tally>>

\* The text of a counter, parsed as a signed 32-bit number; 0 when it does not fit.
Decode(n) == IF n <= Int32Max THEN n ELSE 0

\* History: what c reads is what descriptor i will be added to.  No other call has
\* hits on the way to the counter, no other descriptor of c hits it, and its
\* number is one that Decode returns.
ReadsTrue(c, i) ==
  /\ \A d \in Calls \ {c} : call[d].pc = "answer" \/ Running(d) => Key(c, i) \notin KeysOf(d)
  /\ \A j \in Charged(c) : Key(c, j) = Key(c, i) /\ ~Ent(c, j).neg => j = i
  /\ store[Key(c, i)].n <= Int32Max

\* GetMulti.  An error is only logged: what was not returned counts as zero.
GetMulti(c) ==
  LET live == {i \in Charged(c) : Live(Key(c, i))} IN
  /\ call[c].pc = "get"
  /\ \E got \in SUBSET live, failed \in BOOLEAN :
       /\ IF failed THEN Charged(c) # {} /\ errors < MaxErrors ELSE got = live
       /\ errors' = IF failed THEN errors + 1 ELSE errors
       /\ call' = [call EXCEPT
            ![c].pc = "answer",
            ![c].value = [i \in Indexes(c) |-> IF i \in got THEN Decode(store[Key(c, i)].n) ELSE 0],
            ![c].exact = {i \in Charged(c) : ~failed /\ ReadsTrue(c, i)}]
  /\ UNCHANGED <<now, store, localCache, task, worker, waitGroup, autoFlush, tally>>

\* A slip: a call is judged by the hits before its own.
StatusOfBefore(c, i) ==
  IF Limited(c, i) /\ call[c].value[i] > Limit[Ent(c, i).r]
  THEN [UnlimitedStatus EXCEPT !.code = OVER_LIMIT] ELSE UnlimitedStatus

StatusOf(c, i) ==
  LET before == call[c].value[i]
      hits == Ent(c, i).hits
      limit == Limit[Ent(c, i).r]
  IN IF ~Limited(c, i) THEN UnlimitedStatus
     ELSE IF Ent(c, i).neg
     THEN GetResponseDescriptorStatusForNegativeHits(limit, Larger(0, before - hits))
     ELSE GetResponseDescriptorStatus(
            [limit |-> limit, shadow |-> FALSE, before |-> before, after |-> before + hits],
            i \in call[c].over, hits)

IdleWorkers == {w \in Calls : worker[w].runs = "idle"}

\* A slip: the task is queued although no worker waits for it.
runAsyncQueued(c) ==
  IF IdleWorkers # {}
  THEN \E w \in IdleWorkers : worker' = [worker EXCEPT ![w] = [runs |-> c, handed |-> TRUE]]
  ELSE UNCHANGED worker

\* The task goes to a worker that waits for one, or else to a new goroutine.  A
\* worker between its last task and its select does not wait yet.
runAsync(c) ==
  \/ \E w \in IdleWorkers : worker' = [worker EXCEPT ![w] = [runs |-> c, handed |-> TRUE]]
  \/ worker' = [worker EXCEPT ![c] = [runs |-> c, handed |-> FALSE]]

\* What the history gains from the answer of c to its descriptors on k.
HitsOn(c, k, S) == SumHits(c, {i \in S \cap Charged(c) : Key(c, i) = k})

\* The statuses, with their local-cache writes, and the closure of the task.
Answer(c) ==
  LET plus == {i \in Indexes(c) : Limited(c, i) /\ ~Ent(c, i).neg}
      ok == {i \in plus : StatusOf(c, i).code = OK}
      poisoned == {Key(c, i) : i \in {j \in plus : StatusOf(c, j).poison}}
  IN
  /\ call[c].pc = "answer"
  /\ call' = [call EXCEPT ![c].pc = "add"]
  /\ localCache' = [k \in Keys |->
       IF LocalCacheEnabled /\ k \in poisoned
       THEN now + ExpirationSeconds(k[1], now) ELSE localCache[k]]
  /\ task' = [task EXCEPT ![c] = Start(c, 1)]
  /\ tally' = [k \in Keys |-> [tally[k] EXCEPT
       !.asked = @ + HitsOn(c, k, plus),
       !.ref = @ + HitsOn(c, k, Indexes(c) \ plus),
       !.exact = @ + HitsOn(c, k, ok \cap call[c].exact)]]
  /\ UNCHANGED <<now, store, worker, waitGroup, autoFlush, errors>>

AtSubmit(c, pc, next) ==
  /\ call[c].pc = pc
  /\ call' = [call EXCEPT ![c].pc = next]
  /\ UNCHANGED <<now, store, localCache, task, autoFlush, errors, tally>>

AfterSubmit == IF autoFlush THEN "flush" ELSE "done"

\* A slip: the wait group counts the task when it has been handed over.
SubmitFirst(c) ==
  \/ AtSubmit(c, "add", "hand") /\ runAsync(c) /\ UNCHANGED waitGroup
  \/ AtSubmit(c, "hand", AfterSubmit) /\ waitGroup' = waitGroup + 1 /\ UNCHANGED worker

\* waitGroup.Add, then runAsync: the worker may be done before this call goes on.
Submit(c) ==
  \/ AtSubmit(c, "add", "hand") /\ waitGroup' = waitGroup + 1 /\ UNCHANGED worker
  \/ AtSubmit(c, "hand", AfterSubmit) /\ runAsync(c) /\ UNCHANGED waitGroup

Flush(c) ==
  /\ call[c].pc = "flush" /\ waitGroup = 0
  /\ call' = [call EXCEPT ![c].pc = "done"]
  /\ UNCHANGED <<now, store, localCache, task, worker, waitGroup, autoFlush, errors, tally>>

-----------------------------------------------------------------------------
(* increaseAsync: one operation of memcached per step *)

At(c) == task[c].i

\* Some worker runs the task and has a descriptor left; op is where it is.
Working(c, ops, neg) ==
  /\ \E w \in Calls : worker[w].runs = c
  /\ task[c].op \in ops /\ At(c) \in Indexes(c)
  /\ Ent(c, At(c)).neg = neg

NextTask(c) == task' = [task EXCEPT ![c] = Start(c, At(c) + 1)]

SetCounter(k, ctr) == store' = [store EXCEPT ![k] = ctr]

Lose(k, n) == tally' = [tally EXCEPT ![k].lost = @ + n]

ToInt32(n) == ((n + Int32Max + 1) % (2 * (Int32Max + 1))) - (Int32Max + 1)

\* A slip: always relative.
memcacheExpirationRelative(expirationSeconds) == ToInt32(expirationSeconds)

memcacheExpiration(expirationSeconds) ==
  ToInt32(IF expirationSeconds > MaxRelativeExpiration
          THEN now + expirationSeconds ELSE expirationSeconds)

\* Increment, the first time or after a lost race to Add.  A miss leads to Add;
\* the second time it only is logged.
Increment(c) ==
  LET k == Key(c, At(c))
      hits == Ent(c, At(c)).hits
  IN
  /\ Working(c, {"first", "again"}, FALSE)
  /\ IF Live(k)
     THEN SetCounter(k, [store[k] EXCEPT !.n = @ + hits]) /\ NextTask(c) /\ UNCHANGED tally
     ELSE IF task[c].op = "first"
     THEN /\ \E j \in Jitter : task' = [task EXCEPT
               ![c].op = "add",
               ![c].exp = memcacheExpiration(ExpirationSeconds(k[1], now) + j)]
          /\ UNCHANGED <<store, tally>>
     ELSE Lose(k, hits) /\ NextTask(c) /\ UNCHANGED store
  /\ UNCHANGED <<now, localCache, call, worker, waitGroup, autoFlush, errors>>

\* A slip: losing the race to Add is taken for success.
AddItemNoRetry(c) ==
  LET k == Key(c, At(c)) IN
  /\ Working(c, {"add"}, FALSE)
  /\ IF Live(k) THEN UNCHANGED store
     ELSE SetCounter(k, Add(k, Ent(c, At(c)).hits, Deadline(now, task[c].exp)))
  /\ NextTask(c)
  /\ UNCHANGED <<now, localCache, call, worker, waitGroup, autoFlush, errors, tally>>

AddItem(c) ==
  LET k == Key(c, At(c)) IN
  /\ Working(c, {"add"}, FALSE)
  /\ IF Live(k)
     THEN task' = [task EXCEPT ![c].op = "again", ![c].exp = 0] /\ UNCHANGED store
     ELSE /\ SetCounter(k, Add(k, Ent(c, At(c)).hits, Deadline(now, task[c].exp)))
          /\ NextTask(c)
  /\ UNCHANGED <<now, localCache, call, worker, waitGroup, autoFlush, errors, tally>>

\* memcached floors at zero; a miss is ignored.
Decrement(c) ==
  LET k == Key(c, At(c)) IN
  /\ Working(c, {"first"}, TRUE)
  /\ SetCounter(k, [store[k] EXCEPT !.n = Larger(0, @ - Ent(c, At(c)).hits)])
  /\ NextTask(c)
  /\ UNCHANGED <<now, localCache, call, worker, waitGroup, autoFlush, errors, tally>>

\* An operation fails, executed or not: it is logged and the next descriptor follows.
OperationFails(c) ==
  LET k == Key(c, At(c))
      hits == Ent(c, At(c)).hits
      neg == Ent(c, At(c)).neg
  IN
  /\ Working(c, {"first", "add", "again"}, neg)
  /\ errors < MaxErrors
  /\ errors' = errors + 1
  /\ NextTask(c)
  /\ \/ /\ UNCHANGED store
        /\ IF neg THEN UNCHANGED tally ELSE Lose(k, hits)
     \/ /\ Live(k) <=> task[c].op # "add"
        /\ SetCounter(k, IF neg THEN [store[k] EXCEPT !.n = Larger(0, @ - hits)]
                         ELSE IF task[c].op = "add" THEN Add(k, hits, Deadline(now, task[c].exp))
                         ELSE [store[k] EXCEPT !.n = @ + hits])
        /\ UNCHANGED tally
  /\ UNCHANGED <<now, localCache, call, worker, waitGroup, autoFlush>>

\* The task is done; a worker counts the tasks handed to it.
TaskDone(w) ==
  LET c == worker[w].runs IN
  /\ c \in Calls /\ At(c) > Len(call[c].req)
  /\ waitGroup' = waitGroup - 1
  /\ task' = [task EXCEPT ![c] = [NoTask EXCEPT !.op = "done"]]
  /\ worker' = [worker EXCEPT ![w].runs = "idle"]
  /\ UNCHANGED <<now, store, localCache, call, autoFlush, errors, tally>>

\* The worker's ticker: it leaves after a period without tasks.
WorkerTick(w) ==
  /\ worker[w].runs = "idle"
  /\ worker' = [worker EXCEPT ![w] = [runs |-> IF @.handed THEN "idle" ELSE "gone",
                                      handed |-> FALSE]]
  /\ UNCHANGED <<now, store, localCache, call, task, waitGroup, autoFlush, errors, tally>>

-----------------------------------------------------------------------------

Tick ==
  /\ now < MaxTime
  /\ \A k \in Keys : ~Due(k)
  /\ now' = now + 1
  /\ localCache' = [k \in Keys |-> IF localCache[k] <= now + 1 THEN 0 ELSE localCache[k]]
  /\ UNCHANGED <<store, call, task, worker, waitGroup, autoFlush, errors, tally>>

Expire(k) ==
  /\ Due(k)
  /\ SetCounter(k, NoCounter)
  /\ UNCHANGED <<now, localCache, call, task, worker, waitGroup, autoFlush, errors, tally>>

Evict(k) ==
  /\ localCache[k] # 0
  /\ localCache' = [localCache EXCEPT ![k] = 0]
  /\ UNCHANGED <<now, store, call, task, worker, waitGroup, autoFlush, errors, tally>>

Terminated ==
  /\ \A c \in Calls : call[c].pc = "done" /\ ~Running(c)
  /\ UNCHANGED vars

Init ==
  /\ now = 0
  /\ store = [k \in Keys |-> NoCounter]
  /\ localCache = [k \in Keys |-> 0]
  /\ call = [c \in Calls |-> Idle]
  /\ task = [c \in Calls |-> NoTask]
  /\ worker = [c \in Calls |-> [runs |-> "none", handed |-> FALSE]]
  /\ waitGroup = 0
  /\ autoFlush \in BOOLEAN
  /\ errors = 0
  /\ tally = [k \in Keys |-> NoTally]

CallStep(c) == GetMulti(c) \/ Answer(c) \/ Submit(c) \/ Flush(c)

TaskStep(c) == Increment(c) \/ AddItem(c) \/ Decrement(c) \/ OperationFails(c)

Next ==
  \/ \E c \in Calls, req \in Requests : Begin(c, req)
  \/ \E c \in Calls : CallStep(c) \/ TaskStep(c) \/ TaskDone(c) \/ WorkerTick(c)
  \/ Tick
  \/ \E k \in Keys : Expire(k) \/ Evict(k)
  \/ Terminated

Spec == Init /\ [][Next]_vars

\* Goroutines are scheduled, and an operation of memcached returns.
Fairness == \A c \in Calls :
  WF_vars(CallStep(c)) /\ WF_vars(TaskStep(c)) /\ WF_vars(TaskDone(c))

FairSpec == Spec /\ Fairness

-----------------------------------------------------------------------------
(* Properties *)

\* Type invariant.
TypeOK ==
  /\ now \in Time
  /\ store \in [Keys -> [live : BOOLEAN, n : Nat, exp : Nat]]
  /\ localCache \in [Keys -> Nat]
  /\ \A c \in Calls :
       /\ call[c].pc \in {"idle", "get", "answer", "add", "hand", "flush", "done"}
       /\ call[c].req \in Requests \cup {<<>>}
       /\ call[c].t \in 0 .. now
       /\ call[c].over \subseteq {i \in Indexes(c) : Limited(c, i)}
       /\ call[c].value \in [Indexes(c) -> Nat]
       /\ task[c] \in [i : Nat, op : {"none", "first", "add", "again", "done"}, exp : Int]
       /\ worker[c] \in [runs : Calls \cup {"none", "idle", "gone"}, handed : BOOLEAN]
  /\ waitGroup \in Nat /\ errors \in 0 .. MaxErrors

\* Every hit a call was answered for reaches the counter of an open window
\* exactly once, whoever wins the race between Increment, Add and Increment of
\* several tasks, or it is still on its way; a hit is lost only by an operation
\* that was reported as failed (increaseAsync, statsCollectingClient).
HitsAccounted == \A k \in Keys :
  /\ now < End(k) /\ tally[k].ref = 0 =>
       store[k].n + AllPending(k, FALSE) + tally[k].lost = tally[k].asked
  /\ now < End(k) /\ tally[k].lost > 0 => errors > 0

\* A limit is overrun only for these reasons: calls that overlap (the documented
\* race), a read that failed, a request that names a counter twice (both are judged
\* by one read), or a counter that ParseInt with 32 bits refuses and the call takes
\* for zero.  The hits of all other descriptors that were answered OK stay within
\* the limit, the lost hits and the refunds.
TrueReadsKeepLimit == \A k \in Keys :
  now < End(k) => tally[k].exact <= Limit[k[1]] + tally[k].lost + tally[k].ref

\* The expiration memcached is given, relative or absolute (memcacheExpiration),
\* keeps a counter until its window ends, although it is computed before the Add
\* is executed.
CounterOutlivesWindow == \A k \in Keys : store[k].live => End(k) <= store[k].exp

\* With AutoFlushForIntegrationTests a call returns only after its own hits were
\* sent: the wait group counts the task before anyone waits for it.
FlushedBeforeReturn == \A c \in Calls :
  autoFlush /\ call[c].pc = "done" => ~Running(c)

\* Every task is run to its end: handing it over never loses it, although workers
\* leave when idle.
EveryTaskRuns == \A c \in Calls : Running(c) ~> ~Running(c)

=============================================================================
