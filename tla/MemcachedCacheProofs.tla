------------------------- MODULE MemcachedCacheProofs -------------------------
(***************************************************************************)
(* The safety of MemcachedCache for every set of calls, rules, requests and  *)
(* windows.  IInv says of each call what its task may still do, and of the   *)
(* workers that each runs a task of its own that the wait group counts; from *)
(* it follow the types, the expiration of counters and the wait group.       *)
(* HitsInv balances the counters against the hits asked for, on their way    *)
(* and lost; ExactInv bounds what is admitted on true reads by what they     *)
(* read.                                                                     *)
(***************************************************************************)
EXTENDS MemcachedCache, SumProofs, FiniteSetTheorems, NaturalsInduction, TLAPS

PcType == {"idle", "get", "answer", "add", "hand", "flush", "done"}

CallOf(req) ==
  [pc : PcType, req : {req}, t : Time, over : SUBSET (1 .. Len(req)),
   value : [1 .. Len(req) -> Nat], exact : SUBSET (1 .. Len(req))]

Early == {"idle", "get", "answer"}

\* Between the answer and the return of runAsync.
Submitting == {"add", "hand"}

\* A call at time n.
CallInv(q, n) ==
  /\ q.req \in Requests \cup {<<>>}
  /\ q \in CallOf(q.req)
  /\ q.t <= n
  /\ \A i \in q.over : q.req[i].r # Unmatched

TaskType == [i : Nat, op : {"none", "first", "add", "again", "done"}, exp : Int]

Active(tk) == tk.op \notin {"none", "done"}

\* Its task: what it will do to a key that is limited, and that the expiration it
\* carries reaches the end of the key's window whenever memcached receives it.
TaskInv(q, tk, n) ==
  /\ tk \in TaskType
  /\ q.pc \in Early => tk.op = "none"
  /\ q.pc \in Submitting => Active(tk)
  /\ Active(tk) /\ tk.i \in 1 .. Len(q.req) => q.req[tk.i].r # Unmatched
  /\ tk.op = "add" =>
       /\ tk.i \in 1 .. Len(q.req)
       /\ 0 <= tk.exp
       /\ WindowEnd(q.req[tk.i].r, q.t)
            <= IF tk.exp <= MaxRelativeExpiration THEN n + tk.exp ELSE tk.exp

WorkerType == [runs : Calls \cup {"none", "idle", "gone"}, handed : BOOLEAN]

\* The tasks that have been added to the wait group and are not done.
Tasks == {c \in Calls : Active(task[c]) /\ call[c].pc # "add"}

\* Each worker runs a task of its own, which was handed to it; the wait group
\* counts the tasks, before they are handed over.
WorkInv ==
  /\ worker \in [Calls -> WorkerType]
  /\ \A c \in Calls : call[c].pc \in Early \cup Submitting => worker[c].runs = "none"
  /\ \A w \in Calls : worker[w].runs \in Calls =>
       worker[w].runs \in Tasks /\ call[worker[w].runs].pc # "hand"
  /\ \A v, w \in Calls : worker[v].runs \in Calls /\ worker[v].runs = worker[w].runs => v = w
  /\ waitGroup = Cardinality(Tasks)
  /\ \A c \in Calls : autoFlush /\ call[c].pc = "done" => c \notin Tasks

Counter == [live : BOOLEAN, n : Nat, exp : Nat]

CounterInv(k, ctr) == ctr \in Counter /\ (ctr.live => End(k) <= ctr.exp)

CallsInv ==
  /\ call = [c \in Calls |-> call[c]]
  /\ task \in [Calls -> TaskType]
  /\ \A c \in Calls : CallInv(call[c], now) /\ TaskInv(call[c], task[c], now)

StoreInv ==
  /\ store \in [Keys -> Counter]
  /\ \A k \in Keys : CounterInv(k, store[k])

RestInv == now \in Time /\ localCache \in [Keys -> Nat] /\ errors \in 0 .. MaxErrors

IInv == CallsInv /\ StoreInv /\ WorkInv /\ RestInv

-----------------------------------------------------------------------------
(* Keys, expirations and the walk over the descriptors *)

\* The descriptors of a call, none before it begins.
LEMMA RequestType ==
  ASSUME NEW c \in Calls, CallInv(call[c], now)
  PROVE  call[c].req \in Seq(Entry)
<1>2. <<>> \in Seq(Entry)
  OBVIOUS
<1> QED BY <1>2, Zenon, MemcachedAssumption DEF CallInv

\* A call's key of a descriptor that has a limit is one of Keys, and its window
\* is the one that the call's clock reading lies in.
LEMMA KeyOfEntry ==
  ASSUME NEW c \in Calls, CallInv(call[c], now), now \in Time,
         NEW i \in Indexes(c), Limited(c, i)
  PROVE  /\ Key(c, i) \in Keys
         /\ Key(c, i)[1] = Ent(c, i).r /\ Ent(c, i).r \in Rules
         /\ End(Key(c, i)) = WindowEnd(Ent(c, i).r, call[c].t)
         /\ WindowEnd(Ent(c, i).r, call[c].t) \in Nat
         /\ Ent(c, i).hits \in Nat
<1>2. Ent(c, i) \in Entry
  BY RequestType DEF Indexes, Ent
<1> DEFINE r == Ent(c, i).r
           t == call[c].t
<1> QED BY <1>2, MemcachedAssumption DEF End, CallInv, CallOf, Entry, Limited, Key, Keys

\* The least element of a non-empty set of natural numbers is in it.
LEMMA MinIn ==
  ASSUME NEW S \in SUBSET Nat, S # {}
  PROVE  Min(S) \in S
<1>1. PICK x \in S : \A y \in S : ~(<<y, x>> \in OpToRel(<, Nat))
  BY NatLessThanWellFounded, WFMin, Zenon
<1>2. \A y \in S : x <= y
  <2> SUFFICES ASSUME NEW y \in S, y < x PROVE FALSE
    OBVIOUS
  <2> QED BY <1>1, Zenon DEF OpToRel
<1> QED BY <1>2, Zenon DEF Min

\* The task goes to a descriptor with a limit, or past the request.
LEMMA FromType ==
  ASSUME NEW c \in Calls, CallInv(call[c], now), NEW i \in Nat
  PROVE  /\ Start(c, i) \in TaskType
         /\ Start(c, i).op = "first"
         /\ Start(c, i).i \in Indexes(c) => Limited(c, Start(c, i).i)
<1> DEFINE S == {j \in Charged(c) : j >= i}
<1>2. S \in SUBSET Nat /\ \A j \in S : Limited(c, j)
  BY DEF Charged, Indexes
<1>3. From(c, i) \in Nat /\ (From(c, i) \in Indexes(c) => Limited(c, From(c, i)))
  <2>1. CASE S = {}
    BY <2>1 DEF From, Indexes
  <2>2. CASE S # {}
    BY <1>2, <2>2, MinIn, Zenon DEF From
  <2> QED BY <2>1, <2>2, Zenon
<1> QED BY <1>3 DEF Start, TaskType

\* An expiration in range is not changed by the conversion to 32 bits.
LEMMA ToInt32Fits ==
  ASSUME NEW n \in 0 .. Int32Max
  PROVE  ToInt32(n) = n
BY MemcachedAssumption, SMTT(30) DEF ToInt32

\* Whenever memcached receives it, the expiration computed at time now keeps the
\* counter until the end of every window that had begun by then.
LEMMA ExpirationReaches ==
  ASSUME NEW r \in Rules, NEW s \in Nat, now \in Time, s <= now, NEW j \in Jitter
  PROVE  LET e == memcacheExpiration(ExpirationSeconds(r, now) + j) IN
         /\ e \in Nat
         /\ WindowEnd(r, s) <= IF e <= MaxRelativeExpiration THEN now + e ELSE e
<1> DEFINE x == ExpirationSeconds(r, now) + j
<1>1. x \in Nat /\ j \in Nat /\ now \in Nat
  BY MemcachedAssumption DEF Time
<1>4. WindowEnd(r, s) \in Nat
  BY MemcachedAssumption DEF Time
<1> HIDE DEF x
<1>7. CASE x > MaxRelativeExpiration
  BY <1>1, <1>4, <1>7, ToInt32Fits, MemcachedAssumption DEF memcacheExpiration
<1>8. CASE ~(x > MaxRelativeExpiration)
  BY <1>1, <1>4, <1>8, ToInt32Fits, MemcachedAssumption DEF memcacheExpiration
<1> QED BY <1>7, <1>8, Zenon

\* What a task sets a counter to keeps it well-formed.
LEMMA CounterKept ==
  ASSUME NEW k \in Keys, CounterInv(k, store[k]), NEW n \in Nat
  PROVE  /\ CounterInv(k, [store[k] EXCEPT !.n = @ + n])
         /\ CounterInv(k, [store[k] EXCEPT !.n = Larger(0, @ - n)])
         /\ CounterInv(k, NoCounter)
BY DEF CounterInv, Counter, Larger, NoCounter

-----------------------------------------------------------------------------
(* What is left when one call, one task or one counter changes *)

\* A step that changes one call and its task keeps the rest of CallsInv.
LEMMA OneCall ==
  ASSUME CallsInv, NEW c \in Calls, NEW q, NEW tk,
         call' = [call EXCEPT ![c] = q], task' = [task EXCEPT ![c] = tk], now' = now,
         CallInv(q, now), TaskInv(q, tk, now)
  PROVE  CallsInv'
BY Zenon DEF CallsInv, TaskInv

\* A step that changes one task only.
LEMMA OneTask ==
  ASSUME CallsInv, NEW c \in Calls, NEW tk,
         UNCHANGED <<call, now>>, task' = [task EXCEPT ![c] = tk],
         TaskInv(call[c], tk, now)
  PROVE  CallsInv'
BY OneCall, Zenon DEF CallsInv

\* An operation of memcached changes one counter.
LEMMA OneCounter ==
  ASSUME StoreInv, NEW k \in Keys, NEW ctr, CounterInv(k, ctr), SetCounter(k, ctr)
  PROVE  StoreInv'
BY Zenon DEF StoreInv, SetCounter, CounterInv

\* The workers, when no task starts or ends.
LEMMA WorkersKept ==
  ASSUME WorkInv, UNCHANGED <<worker, waitGroup, autoFlush>>, Tasks' = Tasks,
         \A d \in Calls : call'[d].pc \in Early \cup Submitting
                            => call[d].pc \in Early \cup Submitting,
         \A d \in Calls : call'[d].pc = "hand" => call[d].pc = "hand",
         \A d \in Calls : call'[d].pc = "done" => call[d].pc = "done" \/ d \notin Tasks
  PROVE  WorkInv'
BY Zenon DEF WorkInv

\* A step of a running task leaves it running.
LEMMA TaskRunsOn ==
  ASSUME CallsInv, WorkInv, NEW c \in Calls, NEW tk, Active(task[c]), Active(tk),
         task' = [task EXCEPT ![c] = tk],
         UNCHANGED <<call, worker, waitGroup, autoFlush>>
  PROVE  WorkInv'
BY WorkersKept DEF Tasks

-----------------------------------------------------------------------------
(* One lemma per action *)

\* Nothing has begun: no task, no counter.
LEMMA InitInv == Init => IInv
<1> SUFFICES ASSUME Init PROVE IInv
  BY Zenon
<1>3. CallInv(Idle, 0) /\ TaskInv(Idle, NoTask, 0) /\ NoTask \in TaskType
  BY MemcachedAssumption DEF NoTask, TaskType, TaskInv, Idle, CallInv, CallOf, PcType, Time, Submitting,
     Active
<1>4. CallsInv
  BY <1>3, Zenon DEF Init, CallsInv
<1>7. RestInv
  BY MemcachedAssumption DEF Init, RestInv, Time
<1> QED BY <1>4, <1>7, FS_EmptySet, MemcachedAssumption, Zenon DEF IInv, Init, StoreInv, CounterInv,
           Counter, NoCounter, Tasks, Active, NoTask, WorkInv, WorkerType, Idle, Submitting, Early

\* DoLimit up to GetMulti: the local-cache hits are descriptors with a limit.
LEMMA BeginInv ==
  ASSUME IInv, NEW c \in Calls, NEW req \in Requests, Begin(c, req)
  PROVE  IInv'
<1> DEFINE over == {i \in 1 .. Len(req) : /\ req[i].r # Unmatched /\ ~req[i].neg
                                          /\ now < localCache[<<req[i].r, BucketStart(req[i].r, now)>>]}
           zero == [i \in 1 .. Len(req) |-> 0]
           no == {}
           q == [pc |-> "get", req |-> req, t |-> now, over |-> over, value |-> zero,
                 exact |-> no]
<1>0. no \in SUBSET (1 .. Len(req))
  BY Zenon
<1> HIDE DEF over, zero, no
<1>1. call' = [call EXCEPT ![c] = q] /\ call[c].pc = "idle"
  BY Zenon DEF Begin, over, zero, no
<1>5. CallInv(q, now)
  BY <1>0 DEF CallInv, CallOf, PcType, over, zero, IInv, RestInv, Time
<1>10. WorkInv'
  BY <1>1, WorkersKept DEF IInv, Begin, Tasks, Early, Submitting, CallsInv, CallInv, CallOf
<1>11. q.pc = "get" /\ task[c] \in TaskType /\ task[c].op = "none"
  BY <1>1, Zenon DEF IInv, CallsInv, TaskInv, Early
<1> HIDE DEF q
<1>12. TaskInv(q, task[c], now)
  BY <1>11, Zenon DEF TaskInv, Active, Submitting
<1> QED BY <1>1, <1>5, <1>10, <1>12, Zenon DEF Begin, IInv, StoreInv, RestInv, CallsInv

\* GetMulti, with what it decodes of the counters it got.
LEMMA GetMultiInv ==
  ASSUME IInv, NEW c \in Calls, GetMulti(c)
  PROVE  IInv'
<1> DEFINE live == {i \in Charged(c) : Live(Key(c, i))}
<1>1. PICK got \in SUBSET live, failed \in BOOLEAN :
        /\ failed => errors < MaxErrors
        /\ errors' = IF failed THEN errors + 1 ELSE errors
        /\ call' = [call EXCEPT
            ![c].pc = "answer",
            ![c].value = [i \in Indexes(c) |-> IF i \in got THEN Decode(store[Key(c, i)].n) ELSE 0],
            ![c].exact = {i \in Charged(c) : ~failed /\ ReadsTrue(c, i)}]
  BY Zenon DEF GetMulti
<1> DEFINE value == [i \in Indexes(c) |-> IF i \in got THEN Decode(store[Key(c, i)].n) ELSE 0]
           exact == {i \in Charged(c) : ~failed /\ ReadsTrue(c, i)}
           q == [call[c] EXCEPT !.pc = "answer", !.value = value, !.exact = exact]
<1>2. CallInv(call[c], now) /\ now \in Time
  BY Zenon DEF IInv, CallsInv, RestInv
<1>3. value \in [1 .. Len(call[c].req) -> Nat]
  BY <1>2, KeyOfEntry, Zenon DEF Charged, IInv, StoreInv, Counter, Decode, Indexes
<1>4. exact \in SUBSET (1 .. Len(call[c].req))
  BY Zenon DEF Charged, Indexes
<1>5. call' = [call EXCEPT ![c] = q]
  BY <1>1, Zenon
<1> HIDE DEF value, exact
<1>6. CallInv(q, now) /\ q.pc = "answer"
  BY <1>2, <1>3, <1>4, Zenon DEF CallInv, CallOf, PcType
<1> HIDE DEF q
<1>12. errors' \in 0 .. MaxErrors
  <2>2. errors' = errors \/ (errors < MaxErrors /\ errors' = errors + 1)
    BY <1>1, Zenon
  <2> QED BY <2>2, MemcachedAssumption DEF IInv, RestInv
<1> QED BY <1>5, <1>6, <1>12, WorkersKept, Zenon DEF GetMulti, IInv, StoreInv, RestInv, CallsInv,
           Tasks, Early, Submitting, TaskInv, Active

\* Flush returns when the wait group is zero: no task is left, the caller's included.
LEMMA FlushInv ==
  ASSUME IInv, NEW c \in Calls, Flush(c)
  PROVE  IInv'
<1> DEFINE q == [call[c] EXCEPT !.pc = "done"]
<1>1. call' = [call EXCEPT ![c] = q] /\ call[c].pc = "flush" /\ waitGroup = 0
  BY Zenon DEF Flush
<1>3. CallInv(q, now) /\ q.pc = "done" /\ q.req = call[c].req /\ q.t = call[c].t
  BY Zenon DEF CallInv, CallOf, PcType, IInv, CallsInv
<1> HIDE DEF q
<1>7. Tasks = {}
  BY FS_Subset, MemcachedAssumption, <1>1, FS_EmptySet, Zenon DEF Tasks, IInv, WorkInv
<1>8. Tasks' = {}
  BY <1>1, <1>3, <1>7, Zenon DEF Tasks, Flush, IInv, CallsInv
<1> QED BY <1>1, <1>3, <1>7, <1>8, WorkersKept, Zenon DEF Flush, IInv, StoreInv, RestInv, CallsInv,
           Early, Submitting, TaskInv

\* The answer, the local-cache writes and the task: it is not counted yet.
LEMMA AnswerInv ==
  ASSUME IInv, NEW c \in Calls, Answer(c)
  PROVE  IInv'
<1> DEFINE q == [call[c] EXCEPT !.pc = "add"]
           tk == Start(c, 1)
<1>1. call' = [call EXCEPT ![c] = q] /\ call[c].pc = "answer"
  BY Zenon DEF Answer
<1>2. CallInv(call[c], now) /\ task[c].op = "none" /\ now \in Time
  BY <1>1, Zenon DEF IInv, CallsInv, TaskInv, Early, RestInv
<1>4. CallInv(q, now) /\ q.pc = "add" /\ q.req = call[c].req
  BY <1>2, Zenon DEF CallInv, CallOf, PcType
<1> HIDE DEF q
<1>5. /\ tk \in TaskType /\ tk.op = "first"
      /\ tk.i \in 1 .. Len(call[c].req) => call[c].req[tk.i].r # Unmatched
  BY <1>2, FromType, Zenon DEF Indexes, Limited, Ent
<1>6. task' = [task EXCEPT ![c] = tk] /\ now' = now
  BY Zenon DEF Answer
<1> HIDE DEF tk
<1>7. TaskInv(q, tk, now)
  BY <1>4, <1>5, Zenon DEF TaskInv, Early, Active
<1>9. WorkInv'
  <2>1. Tasks' = Tasks
    BY <1>1, <1>2, <1>4, <1>5, <1>6, Zenon DEF Tasks, Active, IInv, CallsInv
  <2> QED BY <1>1, <1>4, <2>1, WorkersKept, Zenon DEF IInv, CallsInv, Answer, Early, Submitting
<1>10. localCache' \in [Keys -> Nat]
  <2>1. \A k \in Keys : now + ExpirationSeconds(k[1], now) \in Nat
    <3>1. \A r \in Rules : now + ExpirationSeconds(r, now) \in Nat
      BY <1>2, MemcachedAssumption DEF Time
    <3>2. \A k \in Keys : k[1] \in Rules
      BY DEF Keys
    <3> QED BY <3>1, <3>2, Zenon
  <2>2. PICK poisoned : localCache' = [k \in Keys |->
           IF LocalCacheEnabled /\ k \in poisoned
           THEN now + ExpirationSeconds(k[1], now) ELSE localCache[k]]
    BY Zenon DEF Answer
  <2> QED BY <2>1, <2>2, Zenon DEF IInv, RestInv
<1> QED BY <1>1, <1>4, <1>6, <1>7, <1>9, <1>10, OneCall, Zenon DEF Answer, IInv,
           StoreInv, RestInv

\* waitGroup.Add: one more task is counted.
LEMMA AddedInv ==
  ASSUME CallsInv, WorkInv, NEW c \in Calls, AtSubmit(c, "add", "hand"),
         waitGroup' = waitGroup + 1, UNCHANGED worker
  PROVE  WorkInv'
<1>1. /\ call[c].pc = "add" /\ call'[c].pc = "hand" /\ UNCHANGED <<task, autoFlush>>
      /\ \A d \in Calls \ {c} : call'[d] = call[d]
  BY DEF AtSubmit, CallsInv, CallInv, CallOf
<1>2. Active(task[c]) /\ c \notin Tasks
  BY <1>1, Zenon DEF CallsInv, TaskInv, Submitting, Tasks
<1>3. Tasks' = Tasks \cup {c}
  BY <1>1, <1>2 DEF Tasks
<1>4. waitGroup' = Cardinality(Tasks')
  <2>2. Cardinality(Tasks \cup {c}) = Cardinality(Tasks) + 1
    BY <1>2, FS_AddElement, FS_Subset, MemcachedAssumption, Zenon DEF Tasks
  <2> QED BY <1>3, <2>2, Zenon DEF WorkInv
<1>5. \A w \in Calls : worker[w].runs # c
  BY <1>2, Zenon DEF WorkInv
<1> QED BY <1>1, <1>3, <1>4, <1>5 DEF WorkInv, Early, Submitting

\* runAsync: the task goes to a worker that waits or to a new one.
LEMMA HandedInv ==
  ASSUME CallsInv, WorkInv, NEW c \in Calls, AtSubmit(c, "hand", AfterSubmit),
         runAsync(c), UNCHANGED waitGroup
  PROVE  WorkInv'
<1>1. /\ call[c].pc = "hand" /\ call'[c].pc = AfterSubmit /\ UNCHANGED <<task, autoFlush>>
      /\ \A d \in Calls \ {c} : call'[d] = call[d]
  BY DEF AtSubmit, CallsInv, CallInv, CallOf
<1>2. AfterSubmit \in {"flush", "done"} /\ (autoFlush => AfterSubmit = "flush")
  BY Zenon DEF AfterSubmit
<1>3. c \in Tasks /\ worker[c].runs = "none" /\ \A w \in Calls : worker[w].runs # c
  BY <1>1, Zenon DEF CallsInv, TaskInv, WorkInv, Submitting, Tasks
<1>4. Tasks' = Tasks
  BY <1>1, <1>2 DEF Tasks
<1>5. PICK w \in Calls, h \in BOOLEAN :
        /\ worker' = [worker EXCEPT ![w] = [runs |-> c, handed |-> h]]
        /\ worker[w].runs = "idle" \/ w = c
  BY Zenon DEF runAsync, IdleWorkers
<1>6. worker' \in [Calls -> WorkerType]
  BY <1>5 DEF WorkInv, WorkerType
<1>7. \A d \in Calls : worker'[d].runs = IF d = w THEN c ELSE worker[d].runs
  BY <1>5 DEF WorkInv
<1> HIDE DEF AfterSubmit
<1> QED BY <1>1, <1>2, <1>3, <1>4, <1>5, <1>6, <1>7 DEF WorkInv, Early, Submitting

\* The two steps of the submission.
LEMMA SubmitInv ==
  ASSUME IInv, NEW c \in Calls, Submit(c)
  PROVE  IInv'
<1>1. PICK pc, next : AtSubmit(c, pc, next) /\ <<pc, next>> \in {<<"add", "hand">>, <<"hand", AfterSubmit>>}
  BY Zenon DEF Submit
<1>2. pc \in Submitting /\ next \in {"hand", "flush", "done"}
  BY <1>1, Zenon DEF Submitting, AfterSubmit
<1> DEFINE q == [call[c] EXCEPT !.pc = next]
<1>3. call' = [call EXCEPT ![c] = q] /\ call[c].pc = pc
  BY <1>1, Zenon DEF AtSubmit
<1>4. CallInv(call[c], now) /\ TaskInv(call[c], task[c], now)
  BY Zenon DEF IInv, CallsInv
<1>5. CallInv(q, now) /\ q.pc = next /\ q.req = call[c].req /\ q.t = call[c].t
  BY <1>2, <1>4, Zenon DEF CallInv, CallOf, PcType
<1> HIDE DEF q
<1>6. TaskInv(q, task[c], now)
  BY <1>2, <1>3, <1>4, <1>5, Zenon DEF TaskInv, Early, Submitting
<1>7. CallsInv'
  BY <1>1, <1>3, <1>5, <1>6, Zenon DEF IInv, CallsInv, AtSubmit
<1>8. WorkInv'
  BY AddedInv, HandedInv, Zenon DEF Submit, IInv
<1> QED BY <1>1, <1>7, <1>8, Zenon DEF IInv, StoreInv, RestInv, AtSubmit

\* The key and the hits of the descriptor a running task is at.
LEMMA TaskAt ==
  ASSUME IInv, NEW c \in Calls, Active(task[c]), At(c) \in Indexes(c)
  PROVE  /\ Key(c, At(c)) \in Keys
         /\ CounterInv(Key(c, At(c)), store[Key(c, At(c))])
         /\ Key(c, At(c))[1] = Ent(c, At(c)).r /\ Ent(c, At(c)).r \in Rules
         /\ End(Key(c, At(c))) = WindowEnd(Ent(c, At(c)).r, call[c].t)
         /\ WindowEnd(Ent(c, At(c)).r, call[c].t) \in Nat
         /\ Ent(c, At(c)).hits \in Nat
BY KeyOfEntry, Zenon DEF IInv, CallsInv, TaskInv, Limited, Ent, Indexes, At, RestInv, StoreInv

\* Going on to the next descriptor.
LEMMA NextTaskInv ==
  ASSUME IInv, NEW c \in Calls, Active(task[c]), NextTask(c),
         UNCHANGED <<now, call, worker, waitGroup, autoFlush>>
  PROVE  CallsInv' /\ WorkInv'
<1> DEFINE tk == Start(c, At(c) + 1)
<1>1. CallInv(call[c], now) /\ TaskInv(call[c], task[c], now)
  BY Zenon DEF IInv, CallsInv
<1>2. At(c) + 1 \in Nat
  BY <1>1 DEF TaskInv, TaskType, At
<1>3. /\ tk \in TaskType /\ tk.op = "first"
      /\ tk.i \in 1 .. Len(call[c].req) => call[c].req[tk.i].r # Unmatched
  BY <1>1, <1>2, FromType, Zenon DEF Indexes, Limited, Ent
<1>4. task' = [task EXCEPT ![c] = tk]
  BY Zenon DEF NextTask
<1> HIDE DEF tk
<1> QED BY <1>1, <1>3, <1>4, OneTask, TaskRunsOn, Zenon DEF IInv, TaskInv, Active

\* The item a task adds lives until the end of its window.
LEMMA AddKept ==
  ASSUME IInv, NEW c \in Calls, task[c].op = "add"
  PROVE  CounterInv(Key(c, At(c)), Add(Key(c, At(c)), Ent(c, At(c)).hits, Deadline(now, task[c].exp)))
<1> DEFINE e == task[c].exp
           d == Deadline(now, e)
<1>1. TaskInv(call[c], task[c], now) /\ now \in Nat
  BY DEF IInv, CallsInv, RestInv, Time
<1>2. e \in Int /\ 0 <= e /\ At(c) \in Indexes(c) /\ Active(task[c])
  BY <1>1, Zenon DEF TaskInv, TaskType, At, Indexes, Active
<1>5. WindowEnd(Ent(c, At(c)).r, call[c].t) <= d
  BY <1>1, <1>2 DEF TaskInv, Ent, At, Deadline
<1> HIDE DEF d
<1> QED BY <1>1, <1>2, <1>5, TaskAt DEF d, Add, CounterInv, Counter, Deadline

\* Increment: the counter, the expiration for Add, or the next descriptor.
LEMMA IncrementInv ==
  ASSUME IInv, NEW c \in Calls, Increment(c)
  PROVE  IInv'
<1> DEFINE k == Key(c, At(c))
           hits == Ent(c, At(c)).hits
<1>1. Active(task[c]) /\ At(c) \in Indexes(c)
  BY Zenon DEF Increment, Working, Active
<1>2. UNCHANGED <<now, localCache, call, worker, waitGroup, autoFlush, errors>>
  BY Zenon DEF Increment
<1>3. RestInv'
  BY <1>2, Zenon DEF IInv, RestInv
<1>4. k \in Keys /\ CounterInv(k, store[k]) /\ k[1] \in Rules /\ hits \in Nat /\ k[1] = Ent(c, At(c)).r
  BY <1>1, TaskAt, Zenon
<1>5. CASE Live(k)
  BY <1>5, <1>4, CounterKept, OneCounter, <1>1, <1>3, NextTaskInv, Zenon DEF Increment, IInv
<1>6. CASE ~Live(k) /\ task[c].op = "first"
  <2>1. PICK j \in Jitter : task' = [task EXCEPT
             ![c].op = "add",
             ![c].exp = memcacheExpiration(ExpirationSeconds(k[1], now) + j)]
    BY <1>6, Zenon DEF Increment
  <2> DEFINE e == memcacheExpiration(ExpirationSeconds(k[1], now) + j)
             tk == [task[c] EXCEPT !.op = "add", !.exp = e]
  <2>2. task' = [task EXCEPT ![c] = tk]
    BY <2>1, Zenon
  <2>3. /\ TaskInv(call[c], task[c], now) /\ CallInv(call[c], now)
        /\ now \in Time /\ call[c].t \in Nat /\ call[c].t <= now
    BY DEF IInv, CallsInv, RestInv, CallInv, CallOf, Time
  <2>4. e \in Nat /\ WindowEnd(k[1], call[c].t) <= IF e <= MaxRelativeExpiration THEN now + e ELSE e
    BY <2>3, <1>4, ExpirationReaches, Zenon
  <2> HIDE DEF e
  <2>5. tk.op = "add" /\ tk.exp = e /\ tk.i = task[c].i /\ tk \in TaskType
    <3>2. e \in Int
      BY <2>4
    <3> QED BY <2>3, <3>2, Zenon DEF TaskType, TaskInv
  <2> HIDE DEF tk
  <2>6. call[c].pc \notin Early
    BY <2>3, <1>1, Zenon DEF TaskInv, Active
  <2>7. TaskInv(call[c], tk, now)
    <3>1. k[1] = call[c].req[tk.i].r /\ tk.i \in 1 .. Len(call[c].req)
      BY <1>1, <1>4, <2>5, Zenon DEF Ent, At, Indexes
    <3>2. call[c].req[tk.i].r # Unmatched
      BY <3>1, <1>4, MemcachedAssumption, Zenon
    <3> HIDE DEF k
    <3> QED BY <3>1, <3>2, <2>4, <2>5, <2>6 DEF TaskInv, Active
  <2> QED BY <1>3, <1>6, <2>2, <2>5, <2>7, OneTask, TaskRunsOn, Zenon DEF IInv, Increment, StoreInv,
             Active
<1>7. CASE ~Live(k) /\ task[c].op # "first"
  BY <1>7, <1>1, <1>3, NextTaskInv, Zenon DEF Increment, IInv, StoreInv
<1> QED BY <1>5, <1>6, <1>7, Zenon

\* Add, won or lost.
LEMMA AddItemInv ==
  ASSUME IInv, NEW c \in Calls, AddItem(c)
  PROVE  IInv'
<1> DEFINE k == Key(c, At(c))
           item == Add(k, Ent(c, At(c)).hits, Deadline(now, task[c].exp))
<1>5. CASE Live(k)
  <2> DEFINE e == 0
             tk == [task[c] EXCEPT !.op = "again", !.exp = e]
  <2>1. task' = [task EXCEPT ![c] = tk] /\ UNCHANGED store
    BY <1>5, Zenon DEF AddItem
  <2>0. e \in Int
    OBVIOUS
  <2> HIDE DEF e
  <2>3. tk.op = "again" /\ tk.i = task[c].i /\ tk \in TaskType
    BY <2>0, Zenon DEF TaskType, IInv, CallsInv
  <2> HIDE DEF tk
  <2> QED BY <2>1, <2>3, TaskRunsOn, Zenon DEF IInv, RestInv, Active, TaskInv, CallsInv, AddItem,
             Working, StoreInv
<1>6. CASE ~Live(k)
  BY <1>6, AddKept, OneCounter, NextTaskInv, TaskAt, Zenon DEF AddItem, IInv, RestInv, Working, Active
<1> QED BY <1>5, <1>6, Zenon

\* Decrement, floored at zero.
LEMMA DecrementInv ==
  ASSUME IInv, NEW c \in Calls, Decrement(c)
  PROVE  IInv'
BY TaskAt, CounterKept, OneCounter, NextTaskInv, Zenon DEF Decrement, Working, Active, IInv, RestInv

\* A failed operation, executed or not.
LEMMA OperationFailsInv ==
  ASSUME IInv, NEW c \in Calls, OperationFails(c)
  PROVE  IInv'
<1> DEFINE k == Key(c, At(c))
           hits == Ent(c, At(c)).hits
           neg == Ent(c, At(c)).neg
<1>4. RestInv'
  BY MemcachedAssumption DEF OperationFails, IInv, RestInv
<1> QED BY <1>4, NextTaskInv, CounterKept, AddKept, OneCounter, TaskAt, Zenon DEF IInv,
           OperationFails, Working, Active, StoreInv

\* The last of a task: the wait group and the set of tasks shrink together.
LEMMA TaskDoneInv ==
  ASSUME IInv, NEW w \in Calls, TaskDone(w)
  PROVE  IInv'
<1> DEFINE c == worker[w].runs
           tk == [NoTask EXCEPT !.op = "done"]
<1>1. c \in Calls /\ task' = [task EXCEPT ![c] = tk]
  BY Zenon DEF TaskDone
<1>3. UNCHANGED <<now, store, localCache, call, autoFlush, errors>>
  BY Zenon DEF TaskDone
<1>4. tk.op = "done" /\ tk \in TaskType
  BY DEF NoTask, TaskType
<1> HIDE DEF tk
<1>7. WorkInv'
  <2>2. Tasks' = Tasks \ {c}
    BY <1>1, <1>3, <1>4, Zenon DEF Tasks, Active, IInv, CallsInv
  <2>3. waitGroup' = Cardinality(Tasks')
    <3>2. Cardinality(Tasks \ {c}) = Cardinality(Tasks) - 1
      BY <1>1, FS_RemoveElement, FS_Subset, MemcachedAssumption, Zenon DEF Tasks, IInv, WorkInv
    <3> QED BY <2>2, <3>2, Zenon DEF IInv, WorkInv, TaskDone
  <2>11. \A d \in Calls : autoFlush' /\ call'[d].pc = "done" => d \notin Tasks'
    BY <2>2, <1>3, Zenon DEF IInv, WorkInv
  <2> QED BY <2>2, <2>3, <2>11, MemcachedAssumption DEF WorkInv, IInv, WorkerType, TaskDone
<1>8. c \in Tasks /\ call[c].pc # "hand" /\ TaskInv(call[c], task[c], now)
  BY <1>1, Zenon DEF IInv, WorkInv, CallsInv
<1>9. TaskInv(call[c], tk, now)
  BY <1>4, <1>8, Zenon DEF TaskInv, Active, Tasks, Submitting
<1> QED BY <1>1, <1>3, <1>7, <1>9, OneTask, Zenon DEF IInv, StoreInv, RestInv

\* A worker stays or leaves; it runs no task.
LEMMA WorkerTickInv ==
  ASSUME IInv, NEW w \in Calls, WorkerTick(w)
  PROVE  IInv'
BY MemcachedAssumption, ZenonT(30) DEF WorkerTick, IInv, WorkInv, WorkerType, Tasks, CallsInv, StoreInv,
   RestInv

\* Time passes between the computation of an expiration and its use: that only
\* moves the deadline of a relative expiration further away.
LEMMA TickInv ==
  ASSUME IInv, Tick
  PROVE  IInv'
<1>2. now' = now + 1 /\ now' \in Time /\ now \in Nat
  BY MemcachedAssumption DEF Tick, IInv, RestInv, Time
<1>4. CallsInv'
  <2>1. ASSUME NEW c \in Calls PROVE CallInv(call[c], now') /\ TaskInv(call[c], task[c], now')
    <3>1. CallInv(call[c], now) /\ TaskInv(call[c], task[c], now)
      BY Zenon DEF IInv, CallsInv
    <3>4. TaskInv(call[c], task[c], now')
      <4>1. CASE task[c].op = "add"
        <5> DEFINE i == task[c].i
                   e == task[c].exp
                   end == WindowEnd(call[c].req[i].r, call[c].t)
        <5>2. end \in Nat
          BY <3>1, <4>1, TaskAt, Zenon DEF At, Ent, Indexes, Active, TaskInv
        <5>3. end <= IF e <= MaxRelativeExpiration THEN now + e ELSE e
          BY <3>1, <4>1, Zenon DEF TaskInv
        <5> HIDE DEF end
        <5>4. end <= IF e <= MaxRelativeExpiration THEN now' + e ELSE e
          BY <1>2, <3>1, <4>1, <5>2, <5>3 DEF TaskInv, TaskType
        <5> QED BY <3>1, <5>4, Zenon DEF TaskInv, end
      <4>2. CASE task[c].op # "add"
        BY <3>1, <4>2, Zenon DEF TaskInv
      <4> QED BY <4>1, <4>2, Zenon
    <3> QED BY <1>2, <3>1, <3>4 DEF CallInv, CallOf, Time
  <2> QED BY <2>1, Zenon DEF IInv, CallsInv, Tick
<1> QED BY <1>2, <1>4, WorkersKept, Zenon DEF IInv, StoreInv, RestInv, Tick, Tasks

\* memcached drops a counter, or the local cache a key.
LEMMA ExpireEvictInv ==
  ASSUME IInv, NEW k \in Keys, Expire(k) \/ Evict(k)
  PROVE  IInv'
<1>5. RestInv'
  BY DEF Expire, Evict, IInv, RestInv
<1> QED BY <1>5, WorkersKept, OneCounter, Zenon DEF IInv, CallsInv, Tasks, Expire, Evict, CounterInv,
           Counter, NoCounter, StoreInv

-----------------------------------------------------------------------------

\* The inductive invariant: every call's task carries an expiration that reaches
\* the end of its window, and the wait group counts the tasks the workers run.
THEOREM MemcachedInvariance == Spec => []IInv
<1>1. ASSUME IInv, [Next]_vars PROVE IInv'
  <2>1. ASSUME NEW c \in Calls, NEW req \in Requests, Begin(c, req) PROVE IInv'
    BY <1>1, <2>1, BeginInv, Zenon
  <2>2. ASSUME NEW c \in Calls, CallStep(c) PROVE IInv'
    BY <1>1, <2>2, GetMultiInv, AnswerInv, SubmitInv, FlushInv, Zenon DEF CallStep
  <2>3. ASSUME NEW c \in Calls, TaskStep(c) PROVE IInv'
    BY <1>1, <2>3, IncrementInv, AddItemInv, DecrementInv, OperationFailsInv, Zenon DEF TaskStep
  <2>4. ASSUME NEW c \in Calls, TaskDone(c) \/ WorkerTick(c) PROVE IInv'
    BY <1>1, <2>4, TaskDoneInv, WorkerTickInv, Zenon
  <2>5. CASE Tick
    BY <1>1, <2>5, TickInv, Zenon
  <2>6. ASSUME NEW k \in Keys, Expire(k) \/ Evict(k) PROVE IInv'
    BY <1>1, <2>6, ExpireEvictInv, Zenon
  <2>7. CASE UNCHANGED vars
    BY <1>1, <2>7, Zenon DEF vars, IInv, CallsInv, StoreInv, WorkInv, RestInv, Tasks
  <2> QED BY <1>1, <2>1, <2>2, <2>3, <2>4, <2>5, <2>6, <2>7, Zenon DEF Next, Terminated
<1> QED BY <1>1, InitInv, PTL DEF Spec

\* Type correctness; the wait group of the tasks never is negative (Done without
\* Add panics in sync.WaitGroup).
THEOREM MemcachedTypes == Spec => []TypeOK
<1>1. ASSUME IInv PROVE TypeOK
  <2>1. waitGroup \in Nat
    <3>1. IsFiniteSet(Tasks)
      BY FS_Subset, MemcachedAssumption, Zenon DEF Tasks
    <3> QED BY <1>1, <3>1, FS_CardinalityType, Zenon DEF IInv, WorkInv
  <2>2. ASSUME NEW c \in Calls
        PROVE  /\ call[c].pc \in {"idle", "get", "answer", "add", "hand", "flush", "done"}
               /\ call[c].req \in Requests \cup {<<>>}
               /\ call[c].t \in 0 .. now
               /\ call[c].over \subseteq {i \in Indexes(c) : Limited(c, i)}
               /\ call[c].value \in [Indexes(c) -> Nat]
               /\ task[c] \in TaskType
               /\ worker[c] \in WorkerType
    <3>1. CallInv(call[c], now) /\ now \in Nat /\ MaxTime \in Nat
      BY <1>1, MemcachedAssumption DEF IInv, CallsInv, RestInv, Time
    <3>2. call[c].pc \in PcType /\ call[c].t \in Time /\ call[c].t <= now
      BY <3>1, Zenon DEF CallInv, CallOf
    <3>3. call[c].t \in 0 .. now
      BY <3>1, <3>2 DEF Time
    <3>4. call[c].over \subseteq {i \in Indexes(c) : Limited(c, i)}
      BY <3>1, Zenon DEF CallInv, CallOf, Indexes, Limited, Ent
    <3>5. call[c].value \in [Indexes(c) -> Nat] /\ call[c].req \in Requests \cup {<<>>}
      BY <3>1, Zenon DEF CallInv, CallOf, Indexes
    <3>6. task[c] \in TaskType /\ worker[c] \in WorkerType
      BY <1>1, Zenon DEF IInv, CallsInv, WorkInv
    <3> QED BY <3>2, <3>3, <3>4, <3>5, <3>6, Zenon DEF PcType
  <2> QED BY <1>1, <2>1, <2>2, Zenon DEF TypeOK, IInv, StoreInv, RestInv, Counter, TaskType,
             WorkerType
<1> QED BY <1>1, MemcachedInvariance, PTL

\* Every counter of memcached outlives its window, whenever the Add that creates
\* it is executed (memcacheExpiration).
THEOREM ExpirationSafe == Spec => []CounterOutlivesWindow
<1>1. IInv => CounterOutlivesWindow
  BY Zenon DEF IInv, StoreInv, CounterInv, CounterOutlivesWindow
<1> QED BY <1>1, MemcachedInvariance, PTL

\* A call with AutoFlushForIntegrationTests returns only after its own task has
\* ended, for any number of calls, tasks and workers (DoLimit, runAsync).
THEOREM FlushSafe == Spec => []FlushedBeforeReturn
<1>1. IInv => FlushedBeforeReturn
  BY Zenon DEF IInv, WorkInv, Tasks, Active, Running, FlushedBeforeReturn
<1> QED BY <1>1, MemcachedInvariance, PTL


-----------------------------------------------------------------------------
(* The hits on their way *)

KeyIn(q, i) == <<q.req[i].r, BucketStart(q.req[i].r, q.t)>>

ChargedIn(q) == {i \in 1 .. Len(q.req) : q.req[i].r # Unmatched /\ i \notin q.over}

HitsIn(q, S) == SumFunctionOnSet([i \in S |-> q.req[i].hits], S)

\* The descriptors a task has left on k.
Left(q, tk, k, neg) ==
  {i \in ChargedIn(q) : Active(tk) /\ i >= tk.i /\ q.req[i].neg = neg /\ KeyIn(q, i) = k}

\* What a call and its task have in common with the model's operators.
LEMMA PendingIs ==
  ASSUME NEW c \in Calls, NEW k, NEW neg
  PROVE  /\ Pending(c, k, neg) = HitsIn(call[c], Left(call[c], task[c], k, neg))
         /\ Pending(c, k, neg)' = HitsIn(call'[c], Left(call'[c], task'[c], k, neg))
         /\ Charged(c) = ChargedIn(call[c])
         /\ \A i : Key(c, i) = KeyIn(call[c], i)
BY Zenon DEF Pending, SumHits, HitsIn, Left, Charged, ChargedIn, KeyIn, Key, Ent, Limited, Running,
   Active, Indexes

\* The hits of a call are natural numbers.
LEMMA HitsType ==
  ASSUME NEW q, q.req \in Seq(Entry), NEW S \in SUBSET (1 .. Len(q.req))
  PROVE  /\ IsFiniteSet(S) /\ HitsIn(q, S) \in Nat
         /\ \A i \in S : q.req[i].hits \in Nat /\ q.req[i].neg \in BOOLEAN
<1>1. IsFiniteSet(S)
  <2>1. IsFiniteSet(1 .. Len(q.req))
    BY FS_Interval
  <2> QED BY <2>1, FS_Subset, Zenon
<1>2. ASSUME NEW i \in S PROVE q.req[i].hits \in Nat /\ q.req[i].neg \in BOOLEAN
  <2>2. q.req[i] \in Entry
    OBVIOUS
  <2> QED BY <2>2, Zenon DEF Entry
<1> QED BY <1>1, <1>2, SumType, Zenon DEF HitsIn

\* The hits of one descriptor and of the others.
LEMMA HitsWithout ==
  ASSUME NEW q, q.req \in Seq(Entry), NEW S \in SUBSET (1 .. Len(q.req)), NEW i \in S
  PROVE  HitsIn(q, S) = q.req[i].hits + HitsIn(q, S \ {i})
<1> DEFINE f == [j \in S |-> q.req[j].hits]
           g == [j \in S \ {i} |-> q.req[j].hits]
<1>1. IsFiniteSet(S) /\ \A j \in S : f[j] \in Int
  BY HitsType
<1>2. SumFunctionOnSet(f, S) = f[i] + SumFunctionOnSet(f, S \ {i})
  BY <1>1, SumRemove
<1> QED BY <1>1, <1>2, SumSame, FS_Subset DEF HitsIn

\* No descriptor, no hits; more descriptors, more hits.
LEMMA HitsOrder ==
  ASSUME NEW q, q.req \in Seq(Entry), NEW T \in SUBSET (1 .. Len(q.req)), NEW S \in SUBSET T
  PROVE  HitsIn(q, S) <= HitsIn(q, T) /\ HitsIn(q, {}) = 0
BY HitsType, SumSubset, SumEmpty, Zenon DEF HitsIn

\* From skips only descriptors that are not charged.
LEMMA FromSkips ==
  ASSUME NEW c \in Calls, CallInv(call[c], now), NEW i \in Nat
  PROVE  /\ \A j \in Charged(c) : j >= From(c, i) <=> j >= i
         /\ From(c, i) \in Indexes(c) => From(c, i) \in Charged(c)
<1> DEFINE S == {j \in Charged(c) : j >= i}
<1>2. S \in SUBSET Nat /\ Charged(c) \subseteq Nat
  BY DEF Charged, Indexes
<1>3. CASE S = {}
  BY <1>3 DEF From, Charged, Indexes
<1>4. CASE S # {}
  <2>1. PICK m \in S : \A n \in S : m <= n
    BY <1>2, <1>4, LeastElement, Zenon
  <2>3. Min(S) \in S /\ \A y \in S : Min(S) =< y
    BY <2>1, Zenon DEF Min
  <2>4. From(c, i) = Min(S)
    BY Zenon DEF From
  <2> HIDE DEF S
  <2>6. ASSUME NEW j \in Charged(c) PROVE j >= Min(S) <=> j >= i
    BY <1>2, <2>3 DEF S
  <2> QED BY <1>2, <2>3, <2>4 DEF S
<1> QED BY <1>3, <1>4, Zenon

\* The descriptors of a call, none before it begins.
LEMMA ReqType ==
  ASSUME NEW q, NEW n, CallInv(q, n)
  PROVE  q.req \in Seq(Entry)
<1>2. <<>> \in Seq(Entry)
  OBVIOUS
<1> QED BY <1>2, Zenon, MemcachedAssumption DEF CallInv

\* What is left to a task is part of its request.
LEMMA LeftType ==
  ASSUME NEW q, NEW n, CallInv(q, n), NEW tk, NEW k, NEW neg
  PROVE  /\ Left(q, tk, k, neg) \in SUBSET (1 .. Len(q.req))
         /\ HitsIn(q, Left(q, tk, k, neg)) \in Nat
BY ReqType, HitsType, Zenon DEF Left, ChargedIn

\* When one call or its task changes, so does its part of what is on the way.
LEMMA FlowOfOne ==
  ASSUME CallsInv, CallsInv', NEW c \in Calls, NEW k, NEW neg,
         \A d \in Calls \ {c} : call'[d] = call[d] /\ task'[d] = task[d]
  PROVE  /\ AllPending(k, neg)' = (AllPending(k, neg) - Pending(c, k, neg)) + Pending(c, k, neg)'
         /\ AllPending(k, neg) \in Nat /\ AllPending(k, neg)' \in Nat
         /\ Pending(c, k, neg) \in Nat /\ Pending(c, k, neg)' \in Nat
<1> DEFINE f == [d \in Calls |-> Pending(d, k, neg)]
           g == [d \in Calls |-> Pending(d, k, neg)']
<1>1. ASSUME NEW d \in Calls PROVE Pending(d, k, neg) \in Nat /\ Pending(d, k, neg)' \in Nat
  BY LeftType, PendingIs DEF CallsInv
<1>2. ASSUME NEW d \in Calls \ {c} PROVE Pending(d, k, neg) = Pending(d, k, neg)'
  BY PendingIs
<1>3. AllPending(k, neg) = SumFunctionOnSet(f, Calls) /\ AllPending(k, neg)' = SumFunctionOnSet(g, Calls)
  BY Zenon DEF AllPending
<1>4. (\A d \in Calls : f[d] \in Nat /\ g[d] \in Nat) /\ \A d \in Calls \ {c} : f[d] = g[d]
  BY <1>1, <1>2, Zenon
<1>5. f[c] = Pending(c, k, neg) /\ g[c] = Pending(c, k, neg)'
  BY Zenon
<1> HIDE DEF f, g
<1>6. SumFunctionOnSet(g, Calls) = SumFunctionOnSet(f, Calls) - f[c] + g[c]
  BY <1>4, SumChange, MemcachedAssumption
<1> QED BY <1>3, <1>4, <1>5, <1>6, SumType, MemcachedAssumption, Zenon

\* Nothing changes for the tasks.
LEMMA FlowKept ==
  ASSUME UNCHANGED <<call, task>>, NEW k, NEW neg
  PROVE  AllPending(k, neg)' = AllPending(k, neg)
BY DEF AllPending, Pending, SumHits, Charged, Running, Ent, Key, Limited, Indexes

\* What is on the way is a natural number.
LEMMA FlowType ==
  ASSUME CallsInv, NEW k, NEW neg
  PROVE  AllPending(k, neg) \in Nat
BY LeftType, PendingIs, SumType, MemcachedAssumption DEF CallsInv, AllPending

\* The descriptor a task leaves behind is no longer on the way.
LEMMA PendingNext ==
  ASSUME CallsInv, NEW c \in Calls, Active(task[c]), At(c) \in Charged(c),
         call' = call, task'[c] = Start(c, At(c) + 1), NEW k, NEW neg
  PROVE  Pending(c, k, neg)' = Pending(c, k, neg)
           - (IF Key(c, At(c)) = k /\ Ent(c, At(c)).neg = neg THEN Ent(c, At(c)).hits ELSE 0)
<1> DEFINE q == call[c]
           i == At(c)
           S == Left(q, task[c], k, neg)
           T == Left(q, task'[c], k, neg)
           here == Key(c, i) = k /\ Ent(c, i).neg = neg
<1>1. CallInv(q, now) /\ task[c] \in TaskType
  BY Zenon DEF CallsInv
<1>2. i \in Nat /\ i + 1 \in Nat /\ i = task[c].i
  BY <1>1 DEF TaskType, At
<1>4. \A j \in ChargedIn(q) : j >= From(c, i + 1) <=> j >= i + 1
  BY <1>1, <1>2, FromSkips, PendingIs, Zenon
<1>5. ChargedIn(q) \subseteq Nat /\ i \in ChargedIn(q)
  BY PendingIs DEF ChargedIn
<1>6. T = {j \in S : j # i}
  BY <1>2, <1>4, <1>5 DEF Left, Start, Active
<1>7. i \in S <=> here
  <2>1. KeyIn(q, i) = Key(c, i) /\ q.req[i].neg = Ent(c, i).neg
    BY PendingIs, Zenon DEF Ent
  <2> HIDE DEF q, i
  <2> QED BY <1>2, <1>5, <2>1 DEF Left
<1>8. Pending(c, k, neg) = HitsIn(q, S) /\ Pending(c, k, neg)' = HitsIn(q, T)
  BY PendingIs, Zenon
<1>9. S \in SUBSET (1 .. Len(q.req)) /\ HitsIn(q, S) \in Nat /\ q.req \in Seq(Entry)
      /\ HitsIn(q, T) \in Nat
  BY <1>1, LeftType, ReqType, Zenon
<1>10. Ent(c, i).hits = q.req[i].hits
  BY Zenon DEF Ent
<1> HIDE DEF S, T, q, i
<1>11. CASE here
  <2>1. HitsIn(q, S) = q.req[i].hits + HitsIn(q, S \ {i}) /\ T = S \ {i}
    BY <1>6, <1>7, <1>9, <1>11, HitsWithout, ZenonT(30)
  <2>2. q.req[i].hits \in Nat
    BY <1>7, <1>9, <1>11, HitsType, Zenon
  <2> QED BY <1>8, <1>9, <1>10, <1>11, <2>1, <2>2 DEF i
<1>12. CASE ~here
  <2>2. HitsIn(q, S) - 0 = HitsIn(q, S)
    BY <1>9
  <2> QED BY <1>6, <1>7, <1>8, <1>12, <2>2, Zenon DEF i
<1> QED BY <1>11, <1>12, Zenon

\* A task that stays at its descriptor.
LEMMA PendingStays ==
  ASSUME NEW c \in Calls, Active(task[c]), Active(task'[c]), task'[c].i = task[c].i,
         call' = call, NEW k, NEW neg
  PROVE  Pending(c, k, neg)' = Pending(c, k, neg)
<1>1. Left(call[c], task'[c], k, neg) = Left(call[c], task[c], k, neg)
  BY Zenon DEF Left
<1> QED BY <1>1, PendingIs

\* A call without a task, or with one that is through, has nothing on the way.
LEMMA PendingNone ==
  ASSUME NEW c \in Calls, NEW k, NEW neg, CallInv(call[c], now), task[c] \in TaskType,
         ~Active(task[c]) \/ task[c].i > Len(call[c].req)
  PROVE  Pending(c, k, neg) = 0
<1>3. Left(call[c], task[c], k, neg) = {}
  BY DEF Left, ChargedIn, TaskType
<1>4. HitsIn(call[c], {}) = 0
  BY SumEmpty, Zenon DEF HitsIn
<1> QED BY <1>3, <1>4, PendingIs, Zenon

\* The answer puts all charged descriptors on the way.
LEMMA PendingAnswered ==
  ASSUME CallsInv, NEW c \in Calls, NEW k, NEW neg, task'[c] = Start(c, 1),
         call'[c].req = call[c].req, call'[c].t = call[c].t, call'[c].over = call[c].over
  PROVE  Pending(c, k, neg)' =
           HitsIn(call[c], {i \in Charged(c) : Ent(c, i).neg = neg /\ Key(c, i) = k})
<1> DEFINE q == call[c]
           S == {i \in Charged(c) : Ent(c, i).neg = neg /\ Key(c, i) = k}
           T == Left(call'[c], task'[c], k, neg)
<1>1. CallInv(q, now)
  BY Zenon DEF CallsInv
<1>2. \A j \in ChargedIn(q) : j >= From(c, 1)
  BY <1>1, FromSkips, PendingIs DEF ChargedIn
<1>4. ChargedIn(call'[c]) = ChargedIn(q) /\ \A i : KeyIn(call'[c], i) = KeyIn(q, i)
  BY Zenon DEF ChargedIn, KeyIn
<1>5. Charged(c) = ChargedIn(q) /\ (\A i : KeyIn(q, i) = Key(c, i)) /\ \A i : Ent(c, i) = q.req[i]
  BY PendingIs, Zenon DEF Ent
<1>7. HitsIn(call'[c], T) = HitsIn(q, S)
  BY <1>2, <1>4, <1>5 DEF HitsIn, Left, Start, Active
<1> QED BY <1>7, PendingIs, Zenon

-----------------------------------------------------------------------------
(* The account of a counter *)

Tally == [asked : Nat, lost : Nat, ref : Nat, exact : Nat]

\* In an open window the hits that were answered for are in the counter, on the
\* way or lost, but for what the refunds took.
Balance(k) ==
  now < End(k) =>
    /\ store[k].n + AllPending(k, FALSE) + tally[k].lost <= tally[k].asked
    /\ tally[k].asked + AllPending(k, TRUE)
         <= store[k].n + AllPending(k, FALSE) + tally[k].lost + tally[k].ref
    /\ tally[k].lost > 0 => errors > 0

\* The descriptor a task is at was not denied by the local cache; an item is only
\* added for hits, and the second Increment finds it until its window ends.
AheadOf(q, tk, n, counter) == Active(tk) /\ tk.i \in 1 .. Len(q.req) =>
  /\ tk.i \in ChargedIn(q)
  /\ tk.op \in {"add", "again"} => ~q.req[tk.i].neg
  /\ tk.op = "again" /\ n < End(KeyIn(q, tk.i)) => counter[KeyIn(q, tk.i)].live

AheadInv == \A c \in Calls : AheadOf(call[c], task[c], now, store)

AccountInv ==
  /\ tally \in [Keys -> Tally]
  /\ \A k \in Keys :
       /\ Balance(k)
       /\ ~Live(k) => store[k].n = 0
       /\ tally[k].exact <= tally[k].asked

HitsInv == AheadInv /\ AccountInv

\* A step of a task: x hits are lost, the others reach the counter or, when the
\* task stays at its descriptor, are still on the way.
TaskEffect(c, x, tk) ==
  LET k == Key(c, At(c))
      h == Ent(c, At(c)).hits
      neg == Ent(c, At(c)).neg
  IN
  /\ UNCHANGED <<now, call>> /\ task' = [task EXCEPT ![c] = tk]
  /\ errors \in Nat /\ errors' \in Nat /\ errors <= errors'
  /\ x > 0 /\ now < End(k) => errors' > 0
  /\ tally' = [tally EXCEPT ![k].lost = @ + x]
  /\ \A m \in Keys \ {k} : store'[m] = store[m]
  /\ (Live(k) => store'[k].live) /\ (~store'[k].live => store'[k].n = 0)
  /\ \/ /\ tk.i = At(c) /\ tk.op \in {"add", "again"} /\ ~neg
        /\ tk.op = "again" => Live(k)
        /\ x = 0 /\ store'[k].n = store[k].n
     \/ /\ tk = Start(c, At(c) + 1)
        /\ ~neg => store'[k].n + x = store[k].n + h
        /\ neg => x = 0 /\ store'[k].n <= store[k].n /\ store[k].n - h <= store'[k].n

\* The fields of a counter that an operation of memcached leaves behind.
LEMMA CounterSet ==
  ASSUME StoreInv, NEW k \in Keys, NEW ctr, SetCounter(k, ctr)
  PROVE  store'[k] = ctr /\ \A m \in Keys \ {k} : store'[m] = store[m]
BY Zenon DEF StoreInv, SetCounter

\* Adding to a counter and taking from it.
LEMMA CounterFields ==
  ASSUME StoreInv, NEW k \in Keys, NEW h \in Nat
  PROVE  /\ store[k].n \in Nat
         /\ [store[k] EXCEPT !.n = @ + h].live = store[k].live
         /\ [store[k] EXCEPT !.n = @ + h].n = store[k].n + h
         /\ [store[k] EXCEPT !.n = Larger(0, @ - h)].live = store[k].live
         /\ [store[k] EXCEPT !.n = Larger(0, @ - h)].n = Larger(0, store[k].n - h)
BY Zenon DEF StoreInv, Counter

\* Nothing is lost.
LEMMA NothingLost ==
  ASSUME AccountInv, NEW k \in Keys, UNCHANGED tally
  PROVE  tally' = [tally EXCEPT ![k].lost = @ + 0]
BY DEF AccountInv, Tally

\* What a working task is at.
LEMMA AtWork ==
  ASSUME IInv, HitsInv, NEW c \in Calls, TaskStep(c)
  PROVE  /\ Active(task[c]) /\ At(c) \in Charged(c) /\ At(c) \in Indexes(c)
         /\ Key(c, At(c)) \in Keys /\ Ent(c, At(c)).hits \in Nat /\ Ent(c, At(c)).neg \in BOOLEAN
         /\ End(Key(c, At(c))) \in Nat /\ now \in Nat /\ errors \in Nat
         /\ task[c].op \in {"add", "again"} => ~Ent(c, At(c)).neg
         /\ task[c].op = "again" /\ now < End(Key(c, At(c))) => Live(Key(c, At(c)))
<1>1. Active(task[c]) /\ At(c) \in Indexes(c)
  BY Zenon DEF TaskStep, Increment, AddItem, Decrement, OperationFails, Working, Active
<1>4. Ent(c, At(c)) \in Entry
  BY <1>1, ReqType DEF Ent, Indexes, IInv, CallsInv
<1>5. now \in Nat /\ errors \in Nat
  BY DEF IInv, RestInv, Time
<1> QED BY <1>1, <1>4, <1>5, TaskAt, PendingIs, Zenon DEF AheadOf, Entry, At, Ent, Indexes, Live,
           HitsInv, AheadInv

\* The effect of Increment.
LEMMA IncrementEffect ==
  ASSUME IInv, HitsInv, NEW c \in Calls, Increment(c)
  PROVE  \E x \in Nat : \E tk : TaskEffect(c, x, tk)
<1> DEFINE k == Key(c, At(c))
           h == Ent(c, At(c)).hits
           next == Start(c, At(c) + 1)
<1>2. /\ Active(task[c]) /\ k \in Keys /\ h \in Nat /\ ~Ent(c, At(c)).neg
      /\ errors \in Nat /\ now \in Nat
      /\ task[c].op = "again" /\ now < End(k) => Live(k)
      /\ task[c].op \in {"first", "again"}
  BY AtWork, Zenon DEF Increment, Working, TaskStep
<1>3. UNCHANGED <<now, call, errors>>
  BY Zenon DEF Increment
<1>0. errors' \in Nat /\ errors <= errors' /\ ~(0 > 0)
  BY <1>2, <1>3
<1>4. CASE Live(k)
  <2> DEFINE up == [store[k] EXCEPT !.n = @ + h]
  <2>1. SetCounter(k, up) /\ task' = [task EXCEPT ![c] = next] /\ UNCHANGED tally
    BY <1>4, Zenon DEF Increment, NextTask
  <2>7. up.live /\ up.n = store[k].n + h /\ store[k].n \in Nat
    BY <1>2, <1>4, CounterFields, Zenon DEF IInv, Live
  <2> HIDE DEF up
  <2>6. TaskEffect(c, 0, next)
    BY <1>0, <1>2, <1>3, <2>1, <2>7, NothingLost, CounterSet DEF TaskEffect, HitsInv, IInv
  <2> QED BY <2>6, Zenon
<1>5. CASE ~Live(k) /\ task[c].op = "first"
  <2>1. PICK j \in Jitter : task' = [task EXCEPT
             ![c].op = "add", ![c].exp = memcacheExpiration(ExpirationSeconds(k[1], now) + j)]
    BY <1>5, Zenon DEF Increment
  <2> DEFINE e == memcacheExpiration(ExpirationSeconds(k[1], now) + j)
             tk == [task[c] EXCEPT !.op = "add", !.exp = e]
  <2>2. task' = [task EXCEPT ![c] = tk]
    BY <2>1, Zenon
  <2> HIDE DEF e
  <2>5. tk.op = "add" /\ tk.i = At(c)
    BY DEF At
  <2> HIDE DEF tk
  <2> QED BY <1>0, <1>2, <1>5, <2>2, <2>5, NothingLost, Zenon DEF TaskEffect, Increment, HitsInv,
             AccountInv
<1>6. CASE ~Live(k) /\ task[c].op # "first"
  BY <1>6, <1>2, <1>0, Zenon DEF Increment, NextTask, Lose, HitsInv, AccountInv, TaskEffect
<1> QED BY <1>4, <1>5, <1>6, Zenon

\* The effect of Add.
LEMMA AddItemEffect ==
  ASSUME IInv, HitsInv, NEW c \in Calls, AddItem(c)
  PROVE  \E x \in Nat : \E tk : TaskEffect(c, x, tk)
<1> DEFINE k == Key(c, At(c))
           h == Ent(c, At(c)).hits
           next == Start(c, At(c) + 1)
<1>2. /\ Active(task[c]) /\ k \in Keys /\ h \in Nat /\ ~Ent(c, At(c)).neg
      /\ errors \in Nat /\ now \in Nat
  BY AtWork, Zenon DEF AddItem, Working, TaskStep
<1>3. UNCHANGED <<now, call, errors, tally>>
  BY Zenon DEF AddItem
<1>0. errors' \in Nat /\ errors <= errors' /\ ~(0 > 0)
  BY <1>2, <1>3
<1>6. CASE Live(k)
  <2> DEFINE tk == [task[c] EXCEPT !.op = "again", !.exp = 0]
  <2>1. task' = [task EXCEPT ![c] = tk] /\ UNCHANGED store
    BY <1>6, Zenon DEF AddItem
  <2>3. tk.op = "again" /\ tk.i = At(c)
    BY DEF At
  <2> HIDE DEF tk
  <2> QED BY <1>0, <1>2, <1>3, <1>6, <2>1, <2>3, NothingLost, Zenon DEF TaskEffect, Live, HitsInv
<1>7. CASE ~Live(k)
  <2> DEFINE item == Add(k, h, Deadline(now, task[c].exp))
  <2>1. SetCounter(k, item) /\ task' = [task EXCEPT ![c] = next]
    BY <1>7, Zenon DEF AddItem, NextTask
  <2>2. item.live /\ item.n = h
    BY Zenon DEF Add
  <2> HIDE DEF item
  <2>5. TaskEffect(c, 0, next)
    BY <1>2, <1>3, <1>7, <2>1, <2>2, NothingLost, CounterSet DEF TaskEffect, HitsInv, IInv,
       AccountInv
  <2> QED BY <2>5, Zenon
<1> QED BY <1>6, <1>7, Zenon

\* The effect of Decrement.
LEMMA DecrementEffect ==
  ASSUME IInv, HitsInv, NEW c \in Calls, Decrement(c)
  PROVE  \E x \in Nat : \E tk : TaskEffect(c, x, tk)
<1> DEFINE k == Key(c, At(c))
           h == Ent(c, At(c)).hits
           next == Start(c, At(c) + 1)
           down == [store[k] EXCEPT !.n = Larger(0, @ - h)]
<1>2. /\ Active(task[c]) /\ k \in Keys /\ h \in Nat /\ Ent(c, At(c)).neg
      /\ errors \in Nat /\ now \in Nat
  BY AtWork, Zenon DEF Decrement, Working, TaskStep
<1>3. UNCHANGED <<now, call, errors, tally>> /\ task' = [task EXCEPT ![c] = next] /\ SetCounter(k, down)
  BY Zenon DEF Decrement, NextTask
<1>5. down.live = store[k].live /\ down.n = Larger(0, store[k].n - h) /\ store[k].n \in Nat
  BY <1>2, CounterFields, Zenon DEF IInv
<1> HIDE DEF down
<1>9. TaskEffect(c, 0, next)
  BY <1>2, <1>3, <1>5, NothingLost, CounterSet DEF TaskEffect, Live, HitsInv, IInv, AccountInv,
     Larger
<1> QED BY <1>9, Zenon

\* The effect of an operation that fails.
LEMMA OperationFailsEffect ==
  ASSUME IInv, HitsInv, NEW c \in Calls, OperationFails(c)
  PROVE  \E x \in Nat : \E tk : TaskEffect(c, x, tk)
<1> DEFINE k == Key(c, At(c))
           h == Ent(c, At(c)).hits
           neg == Ent(c, At(c)).neg
           next == Start(c, At(c) + 1)
           down == [store[k] EXCEPT !.n = Larger(0, @ - h)]
           up == [store[k] EXCEPT !.n = @ + h]
           item == Add(k, h, Deadline(now, task[c].exp))
<1>2. /\ Active(task[c]) /\ k \in Keys /\ h \in Nat /\ neg \in BOOLEAN
      /\ errors \in Nat /\ now \in Nat
      /\ task[c].op \in {"add", "again"} => ~neg
  BY AtWork, Zenon DEF TaskStep
<1>3. UNCHANGED <<now, call>> /\ task' = [task EXCEPT ![c] = next] /\ errors' = errors + 1
  BY Zenon DEF OperationFails, NextTask
<1>4. errors' \in Nat /\ errors <= errors' /\ errors' > 0
  BY <1>2, <1>3
<1>5. \/ UNCHANGED store /\ IF neg THEN UNCHANGED tally ELSE Lose(k, h)
      \/ /\ Live(k) <=> task[c].op # "add"
         /\ SetCounter(k, IF neg THEN down ELSE IF task[c].op = "add" THEN item ELSE up)
         /\ UNCHANGED tally
  BY Zenon DEF OperationFails
<1>6. /\ down.live = store[k].live /\ down.n = Larger(0, store[k].n - h) /\ store[k].n \in Nat
      /\ up.live = store[k].live /\ up.n = store[k].n + h
  BY <1>2, CounterFields, Zenon DEF IInv
<1>7. item.live /\ item.n = h
  BY Zenon DEF Add
<1>8. ~Live(k) => store[k].n = 0
  BY <1>2, Zenon DEF HitsInv, AccountInv
<1>10. down.n <= store[k].n /\ store[k].n - h <= down.n /\ (store[k].n = 0 => down.n = 0)
  BY <1>2, <1>6 DEF Larger
<1> HIDE DEF down, up, item
<1>11. CASE UNCHANGED store /\ neg /\ UNCHANGED tally
  <2>2. TaskEffect(c, 0, next)
    BY <1>2, <1>3, <1>6, <1>8, <1>11, NothingLost DEF TaskEffect, Live, HitsInv
  <2> QED BY <2>2, Zenon
<1>12. CASE UNCHANGED store /\ ~neg /\ Lose(k, h)
  BY <1>12, <1>2, <1>3, <1>4, <1>8, Zenon DEF Lose, TaskEffect, Live
<1>13. ASSUME NEW ctr, SetCounter(k, ctr), UNCHANGED tally, (Live(k) => ctr.live),
              ~ctr.live => ctr.n = 0,
              ~neg => ctr.n = store[k].n + h,
              neg => ctr.n <= store[k].n /\ store[k].n - h <= ctr.n
       PROVE  \E x \in Nat : \E tk : TaskEffect(c, x, tk)
  <2>2. ~neg => ctr.n + 0 = store[k].n + h
    BY <1>2, <1>6, <1>13
  <2>3. TaskEffect(c, 0, next)
    BY <1>2, <1>3, <1>13, <2>2, NothingLost, CounterSet DEF TaskEffect, HitsInv, IInv
  <2> QED BY <2>3, Zenon
<1>14. CASE neg /\ SetCounter(k, down) /\ UNCHANGED tally
  BY <1>6, <1>8, <1>10, <1>13, <1>14, Zenon DEF Live
<1>15. CASE ~neg /\ task[c].op = "add" /\ ~Live(k) /\ SetCounter(k, item) /\ UNCHANGED tally
  BY <1>2, <1>7, <1>8, <1>13, <1>15
<1>16. CASE ~neg /\ Live(k) /\ SetCounter(k, up) /\ UNCHANGED tally
  BY <1>6, <1>13, <1>16, Zenon DEF Live
<1> QED BY <1>5, <1>11, <1>12, <1>14, <1>15, <1>16, Zenon

\* A task that stays where it is, while no counter of an open window goes away.
LEMMA AheadOne ==
  ASSUME IInv, AheadInv, NEW d \in Calls, NEW n \in Nat, NEW counter, now <= n,
         \A k \in Keys : Live(k) /\ n < End(k) => counter[k].live
  PROVE  AheadOf(call[d], task[d], n, counter)
<1> SUFFICES ASSUME Active(task[d]), At(d) \in Indexes(d), AheadOf(call[d], task[d], now, store)
             PROVE  AheadOf(call[d], task[d], n, counter)
  BY Zenon DEF AheadInv, AheadOf, At, Indexes
<1> DEFINE k == KeyIn(call[d], At(d))
<1>2. now \in Nat
  BY SMTT(30) DEF IInv, RestInv, Time
<1>3. n < End(k) => now < End(k)
  BY <1>2, TaskAt, PendingIs
<1> QED BY <1>3, TaskAt, PendingIs, Zenon DEF AheadOf, At, Live

\* The same for all calls, but for those that have no task.
LEMMA AheadKept ==
  ASSUME IInv, AheadInv, now <= now', now' \in Nat,
         \A d \in Calls : (call'[d] = call[d] /\ task'[d] = task[d]) \/ ~Active(task'[d]),
         \A k \in Keys : Live(k) /\ now' < End(k) => store'[k].live
  PROVE  AheadInv'
BY AheadOne, Zenon DEF AheadOf, AheadInv

\* The numbers of an account, before and after a step.
LEMMA BalanceStep ==
  ASSUME CallsInv, CallsInv', NEW k \in Keys, Balance(k), now' < End(k) => now < End(k),
         store[k].n \in Nat, store'[k].n \in Nat, tally[k] \in Tally, tally'[k] \in Tally,
         errors \in Nat, errors' \in Nat, errors <= errors',
         now' < End(k) =>
           /\ (store'[k].n + AllPending(k, FALSE)' + tally'[k].lost)
                - (store[k].n + AllPending(k, FALSE) + tally[k].lost) <= tally'[k].asked - tally[k].asked
           /\ (tally'[k].asked + AllPending(k, TRUE)') - (tally[k].asked + AllPending(k, TRUE))
                <= (store'[k].n + AllPending(k, FALSE)' + tally'[k].lost + tally'[k].ref)
                   - (store[k].n + AllPending(k, FALSE) + tally[k].lost + tally[k].ref)
           /\ tally'[k].lost > tally[k].lost => errors' > 0
  PROVE  Balance(k)'
<1> DEFINE p == AllPending(k, FALSE)
           r == AllPending(k, TRUE)
           p1 == AllPending(k, FALSE)'
           r1 == AllPending(k, TRUE)'
<1>1. p \in Nat /\ r \in Nat
  BY FlowType, Zenon
<1>2. p1 \in Nat /\ r1 \in Nat
  <2>1. ASSUME NEW neg PROVE AllPending(k, neg)' \in Nat
    BY LeftType, PendingIs, SumType, MemcachedAssumption DEF CallsInv, AllPending
  <2> QED BY <2>1, Zenon
<1> HIDE DEF p, r, p1, r1
<1> SUFFICES ASSUME now' < End(k)
             PROVE  /\ store'[k].n + p1 + tally'[k].lost <= tally'[k].asked
                    /\ tally'[k].asked + r1 <= store'[k].n + p1 + tally'[k].lost + tally'[k].ref
                    /\ tally'[k].lost > 0 => errors' > 0
  BY Zenon DEF Balance, p1, r1
<1>4. /\ store[k].n + p + tally[k].lost <= tally[k].asked
      /\ tally[k].asked + r <= store[k].n + p + tally[k].lost + tally[k].ref
      /\ tally[k].lost > 0 => errors > 0
  BY Zenon DEF Balance, p, r
<1>5. /\ (store'[k].n + p1 + tally'[k].lost) - (store[k].n + p + tally[k].lost)
           <= tally'[k].asked - tally[k].asked
      /\ (tally'[k].asked + r1) - (tally[k].asked + r)
           <= (store'[k].n + p1 + tally'[k].lost + tally'[k].ref)
              - (store[k].n + p + tally[k].lost + tally[k].ref)
      /\ tally'[k].lost > tally[k].lost => errors' > 0
  BY Zenon DEF p, r, p1, r1
<1> QED BY <1>1, <1>2, <1>4, <1>5 DEF Tally

\* The lost hits of one key.
LEMMA LostOf ==
  ASSUME NEW k \in Keys, NEW x \in Nat, tally \in [Keys -> Tally],
         tally' = [tally EXCEPT ![k].lost = @ + x]
  PROVE  /\ tally' \in [Keys -> Tally]
         /\ tally'[k].asked = tally[k].asked /\ tally'[k].ref = tally[k].ref
         /\ tally'[k].exact = tally[k].exact /\ tally'[k].lost = tally[k].lost + x
         /\ \A m \in Keys \ {k} : tally'[m] = tally[m]
BY DEF Tally

\* A step of a task keeps the accounts.
LEMMA TaskAccounts ==
  ASSUME IInv, IInv', HitsInv, NEW c \in Calls, TaskStep(c), NEW x \in Nat, NEW tk,
         TaskEffect(c, x, tk)
  PROVE  AccountInv'
<1> DEFINE k0 == Key(c, At(c))
           h == Ent(c, At(c)).hits
           neg == Ent(c, At(c)).neg
<1>1. /\ Active(task[c]) /\ At(c) \in Charged(c) /\ k0 \in Keys /\ h \in Nat /\ neg \in BOOLEAN
      /\ now \in Nat
  BY AtWork, Zenon
<1>2. /\ tally' \in [Keys -> Tally]
      /\ tally'[k0].asked = tally[k0].asked /\ tally'[k0].ref = tally[k0].ref
      /\ tally'[k0].exact = tally[k0].exact /\ tally'[k0].lost = tally[k0].lost + x
      /\ \A m \in Keys \ {k0} : tally'[m] = tally[m]
  BY <1>1, LostOf, Zenon DEF HitsInv, AccountInv, TaskEffect
<1>4. call' = call /\ now' = now /\ errors \in Nat /\ errors' \in Nat /\ errors <= errors'
      /\ (x > 0 /\ now < End(k0) => errors' > 0) /\ (~store'[k0].live => store'[k0].n = 0)
  BY Zenon DEF TaskEffect
<1>5. CallsInv /\ CallsInv' /\ StoreInv /\ StoreInv'
  BY Zenon DEF IInv
<1>6. \A d \in Calls : task'[d] = IF d = c THEN tk ELSE task[d]
  BY <1>5, Zenon DEF TaskEffect, CallsInv
<1> DEFINE stays == tk.i = At(c) /\ tk.op \in {"add", "again"} /\ x = 0 /\ store'[k0].n = store[k0].n
           goes == /\ tk = Start(c, At(c) + 1)
                   /\ ~neg => store'[k0].n + x = store[k0].n + h
                   /\ neg => x = 0 /\ store'[k0].n <= store[k0].n /\ store[k0].n - h <= store'[k0].n
<1>7. stays \/ goes
  BY ZenonT(30) DEF TaskEffect
<1>8. ASSUME NEW k, NEW b
      PROVE  /\ AllPending(k, b) \in Nat /\ AllPending(k, b)' \in Nat
             /\ stays => AllPending(k, b)' = AllPending(k, b)
             /\ goes => AllPending(k, b)' = AllPending(k, b) - (IF k0 = k /\ neg = b THEN h ELSE 0)
  BY <1>4, <1>5, <1>6, FlowOfOne, <1>1, PendingStays, PendingNext DEF Active, At
<1>9. \A k \in Keys : store[k].n \in Nat /\ store'[k].n \in Nat
  BY <1>5, Zenon DEF StoreInv, Counter
<1>12. ASSUME NEW k \in Keys, k = k0 PROVE Balance(k)'
  <2> DEFINE p == AllPending(k, FALSE)
             r == AllPending(k, TRUE)
             p1 == AllPending(k, FALSE)'
             r1 == AllPending(k, TRUE)'
  <2>1. p \in Nat /\ r \in Nat /\ p1 \in Nat /\ r1 \in Nat
    BY <1>8, Zenon
  <2>2. stays => p1 = p /\ r1 = r
    BY <1>8, Zenon
  <2>3. goes => /\ neg => p1 = p - 0 /\ r1 = r - h
                /\ ~neg => p1 = p - h /\ r1 = r - 0
    BY <1>1, <1>8, <1>12, Zenon
  <2> HIDE DEF p, r, p1, r1, k0, h, neg
  <2>4. /\ (store'[k].n + p1 + tally'[k].lost) - (store[k].n + p + tally[k].lost)
             <= tally'[k].asked - tally[k].asked
        /\ (tally'[k].asked + r1) - (tally[k].asked + r)
             <= (store'[k].n + p1 + tally'[k].lost + tally'[k].ref)
                - (store[k].n + p + tally[k].lost + tally[k].ref)
    BY <1>1, <1>2, <1>7, <1>9, <1>12, <2>1, <2>2, <2>3, SMTT(30) DEF Tally, HitsInv, AccountInv
  <2>5. now' < End(k) => (tally'[k].lost > tally[k].lost => errors' > 0)
    BY <1>2, <1>4 DEF Tally, HitsInv, AccountInv
  <2> QED BY <1>2, <1>4, <1>5, <1>9, <2>4, <2>5, BalanceStep, Zenon DEF p, r, p1, r1, HitsInv,
             AccountInv
<1>13. ASSUME NEW k \in Keys \ {k0} PROVE Balance(k)'
  <2>1. AllPending(k, FALSE)' = AllPending(k, FALSE) /\ AllPending(k, TRUE)' = AllPending(k, TRUE)
    <3>1. ASSUME NEW b PROVE AllPending(k, b)' = AllPending(k, b)
      BY <1>8, <1>7, <1>13, SMTT(30)
    <3> QED BY <3>1, ZenonT(30)
  <2>3. errors > 0 => errors' > 0
    BY <1>4
  <2> QED BY <2>1, <2>3, Zenon DEF Balance, HitsInv, AccountInv, TaskEffect
<1>14. ASSUME NEW k \in Keys PROVE (~store'[k].live => store'[k].n = 0) /\ tally'[k].exact <= tally'[k].asked
  BY <1>2, <1>4 DEF HitsInv, AccountInv, Live, TaskEffect
<1> HIDE DEF k0
<1> QED BY <1>2, <1>12, <1>13, <1>14, Zenon DEF AccountInv, Live

\* A step of a task keeps what lies ahead of every task.
LEMMA TaskAhead ==
  ASSUME IInv, IInv', HitsInv, NEW c \in Calls, TaskStep(c), NEW x \in Nat, NEW tk,
         TaskEffect(c, x, tk)
  PROVE  AheadInv'
<1> DEFINE k0 == Key(c, At(c))
<1>2. call' = call /\ now' = now /\ (Live(k0) => store'[k0].live)
      /\ \A m \in Keys \ {k0} : store'[m] = store[m]
  BY Zenon DEF TaskEffect
<1>3. \A d \in Calls : task'[d] = IF d = c THEN tk ELSE task[d]
  BY Zenon DEF TaskEffect, IInv, CallsInv
<1>6. ASSUME NEW d \in Calls, d # c PROVE AheadOf(call'[d], task'[d], now', store')
  BY <1>2, <1>3, <1>6, AheadOne, AtWork DEF HitsInv, Live
<1>7. AheadOf(call[c], tk, now', store')
  <2>1. CASE tk = Start(c, At(c) + 1)
    <3>3. tk.i \in Indexes(c) => tk.i \in Charged(c)
      BY <2>1, FromSkips, SMTT(30) DEF At, IInv, CallsInv, TaskType, Start
    <3> QED BY <2>1, <3>3, PendingIs, Zenon DEF AheadOf, Indexes, Start
  <2>2. CASE tk.i = At(c) /\ tk.op \in {"add", "again"} /\ ~Ent(c, At(c)).neg /\ (tk.op = "again" => Live(k0))
    BY <1>2, <2>2, AtWork, PendingIs, Zenon DEF AheadOf, Ent
  <2> QED BY <2>1, <2>2, Zenon DEF TaskEffect
<1> QED BY <1>2, <1>3, <1>6, <1>7, Zenon DEF AheadInv

\* A step that puts nothing on the way and drops counters of closed windows only.
LEMMA AccountsKept ==
  ASSUME IInv, IInv', HitsInv, UNCHANGED tally, now <= now', errors <= errors',
         \A k \in Keys : /\ AllPending(k, FALSE)' = AllPending(k, FALSE)
                         /\ AllPending(k, TRUE)' = AllPending(k, TRUE)
                         /\ store'[k] = store[k] \/ (store'[k] = NoCounter /\ End(k) <= now')
  PROVE  AccountInv'
<1>2. ASSUME NEW k \in Keys
      PROVE  Balance(k)' /\ (~store'[k].live => store'[k].n = 0)
  <2>0. End(k) \in Nat
    BY MemcachedAssumption DEF Keys, End
  <2>2. CASE store'[k] = store[k]
    <3>1. (errors > 0 => errors' > 0) /\ (now' < End(k) => now < End(k))
      BY <2>0 DEF IInv, RestInv, Time
    <3> QED BY <2>2, <3>1, Zenon DEF HitsInv, AccountInv, Live, Balance
  <2>3. CASE store'[k] = NoCounter /\ End(k) <= now'
    <3>1. ~(now' < End(k))
      BY <2>0, <2>3 DEF IInv, RestInv, Time
    <3>3. NoCounter.n = 0
      BY Zenon DEF NoCounter
    <3> QED BY <2>3, <3>1, <3>3, Zenon DEF Balance
  <2> QED BY <2>2, <2>3, Zenon
<1> QED BY <1>2, Zenon DEF HitsInv, AccountInv, Live

\* Nothing is on the way of a call whose task has not started, or has ended.
LEMMA NoneAfter ==
  ASSUME NEW c \in Calls, NEW k, NEW neg, ~Active(task'[c])
  PROVE  Pending(c, k, neg)' = 0
<1>1. Left(call'[c], task'[c], k, neg) = {}
  BY Zenon DEF Left
<1>2. HitsIn(call'[c], {}) = 0
  BY SumEmpty, Zenon DEF HitsIn
<1> QED BY <1>1, <1>2, PendingIs, Zenon

\* The steps of one call, when its part of what is on the way stays as it is.
LEMMA FlowOfOneKept ==
  ASSUME CallsInv, CallsInv', NEW c \in Calls, NEW k, NEW neg,
         \A d \in Calls \ {c} : call'[d] = call[d] /\ task'[d] = task[d],
         Pending(c, k, neg)' = Pending(c, k, neg)
  PROVE  AllPending(k, neg)' = AllPending(k, neg)
BY FlowOfOne

\* The beginning of a call and its reading of the counters.
LEMMA EarlyHits ==
  ASSUME IInv, IInv', HitsInv, NEW c \in Calls, (\E req \in Requests : Begin(c, req)) \/ GetMulti(c)
  PROVE  HitsInv'
<1>1. UNCHANGED <<now, store, task, tally>> /\ call[c].pc \in {"idle", "get"}
  BY Zenon DEF Begin, GetMulti
<1>2. \A d \in Calls \ {c} : call'[d] = call[d]
  BY Zenon DEF Begin, GetMulti, IInv, CallsInv
<1>3. ~Active(task[c]) /\ CallInv(call[c], now) /\ task[c] \in TaskType
  BY <1>1, Zenon DEF IInv, CallsInv, TaskInv, Active, Early
<1>5. errors <= errors'
  <2>1. errors' = errors \/ errors' = errors + 1
    BY Zenon DEF Begin, GetMulti
  <2> QED BY <2>1 DEF IInv, RestInv
<1>6. ASSUME NEW k, NEW neg PROVE AllPending(k, neg)' = AllPending(k, neg)
  BY <1>1, <1>3, PendingNone, NoneAfter, <1>2, FlowOfOneKept, SMTT(30) DEF IInv
<1>7. now <= now' /\ now' \in Nat
  BY <1>1 DEF IInv, RestInv, Time
<1> QED BY <1>1, <1>2, <1>3, <1>5, <1>6, <1>7, AccountsKept, AheadKept, ZenonT(30) DEF HitsInv, Live

\* A step that changes the program counter of one call only.
LEMMA CounterOnlyHits ==
  ASSUME IInv, IInv', HitsInv, NEW c \in Calls, NEW pc, call' = [call EXCEPT ![c].pc = pc],
         UNCHANGED <<now, store, task, tally, errors>>
  PROVE  HitsInv'
<1>1. UNCHANGED <<now, store, task, tally, errors>>
  BY Zenon
<1>4. call'[c].req = call[c].req /\ call'[c].t = call[c].t /\ call'[c].over = call[c].over
  OBVIOUS
<1>7. ASSUME NEW k, NEW neg PROVE AllPending(k, neg)' = AllPending(k, neg)
  <2>1. Left(call'[c], task'[c], k, neg) = Left(call[c], task[c], k, neg)
    BY <1>1, <1>4, Zenon DEF Left, ChargedIn, KeyIn
  <2>2. HitsIn(call'[c], Left(call[c], task[c], k, neg)) = HitsIn(call[c], Left(call[c], task[c], k, neg))
    BY <1>4 DEF HitsIn
  <2> QED BY <2>1, <2>2, FlowOfOneKept, PendingIs DEF IInv
<1>8. now <= now' /\ now' \in Nat /\ errors <= errors'
  BY <1>1 DEF IInv, RestInv, Time
<1>10. AheadInv'
  <2>3. AheadOf(call'[c], task'[c], now', store')
    BY <1>1, <1>4, <1>8, AheadOne, Zenon DEF AheadOf, ChargedIn, KeyIn, HitsInv, Live
  <2> QED BY <2>3 DEF AheadInv, HitsInv
<1> QED BY <1>1, <1>7, <1>8, <1>10, AccountsKept, Zenon DEF HitsInv

\* Submit and Flush.
LEMMA LateHits ==
  ASSUME IInv, IInv', HitsInv, NEW c \in Calls, Submit(c) \/ Flush(c)
  PROVE  HitsInv'
<1>1. PICK pc : call' = [call EXCEPT ![c].pc = pc] /\ UNCHANGED <<now, store, task, tally, errors>>
  BY Zenon DEF Submit, AtSubmit, Flush
<1> QED BY <1>1, CounterOnlyHits, Zenon

\* The clock, the stores and the workers.
LEMMA EnvironmentHits ==
  ASSUME IInv, IInv', HitsInv, UNCHANGED <<call, task, tally, errors>>, now <= now',
         \A k \in Keys : store'[k] = store[k] \/ (store'[k] = NoCounter /\ End(k) <= now')
  PROVE  HitsInv'
<1>1. now \in Nat /\ errors \in Nat /\ now' \in Nat
  BY DEF IInv, RestInv, Time
<1>2. ASSUME NEW k, NEW neg PROVE AllPending(k, neg)' = AllPending(k, neg)
  BY FlowKept, Zenon
<1>3. errors <= errors'
  BY <1>1
<1>5. ASSUME NEW k \in Keys, Live(k), now' < End(k) PROVE store'[k].live
  <2>1. ~(End(k) <= now')
    BY <1>1, <1>5, MemcachedAssumption DEF Keys, End
  <2> QED BY <2>1, <1>5 DEF Live
<1> QED BY <1>1, <1>2, <1>3, <1>5, AheadKept, AccountsKept, Zenon DEF HitsInv

\* The end of a task: it has no descriptor left.
LEMMA TaskDoneHits ==
  ASSUME IInv, IInv', HitsInv, NEW w \in Calls, TaskDone(w)
  PROVE  HitsInv'
<1> DEFINE c == worker[w].runs
<1>1. /\ c \in Calls /\ At(c) > Len(call[c].req)
      /\ UNCHANGED <<now, store, call, tally, errors>>
      /\ task' = [task EXCEPT ![c] = [NoTask EXCEPT !.op = "done"]]
  BY Zenon DEF TaskDone
<1> HIDE DEF c
<1>6. ASSUME NEW k, NEW neg PROVE AllPending(k, neg)' = AllPending(k, neg)
  BY <1>1, PendingNone, NoneAfter, FlowOfOneKept DEF At, IInv, Active, CallsInv
<1>7. now <= now' /\ now' \in Nat /\ errors <= errors'
  BY <1>1 DEF IInv, RestInv, Time
<1> QED BY <1>1, <1>6, <1>7, AccountsKept, AheadKept, ZenonT(30) DEF HitsInv, Live, Active, IInv, CallsInv,
           NoTask

\* The descriptors of c on k that are charged, hits or refunds.
ChargedOn(c, k, neg) == {i \in Charged(c) : Ent(c, i).neg = neg /\ Key(c, i) = k}

\* Those of them that read the counter truly and are answered OK.
GrantedOn(c, k) == {i \in ChargedOn(c, k, FALSE) : StatusOf(c, i).code = OK /\ i \in call[c].exact}

\* What the answer adds to the history of a key.
LEMMA AnswerTally ==
  ASSUME IInv, tally \in [Keys -> Tally], NEW c \in Calls, Answer(c)
  PROVE  /\ tally' \in [Keys -> Tally]
         /\ \A k \in Keys :
              /\ HitsIn(call[c], ChargedOn(c, k, FALSE)) \in Nat
              /\ HitsIn(call[c], ChargedOn(c, k, TRUE)) \in Nat
              /\ HitsIn(call[c], GrantedOn(c, k)) \in Nat
              /\ HitsIn(call[c], GrantedOn(c, k)) <= HitsIn(call[c], ChargedOn(c, k, FALSE))
              /\ tally'[k].asked = tally[k].asked + HitsIn(call[c], ChargedOn(c, k, FALSE))
              /\ tally'[k].ref = tally[k].ref + HitsIn(call[c], ChargedOn(c, k, TRUE))
              /\ tally'[k].lost = tally[k].lost
              /\ tally'[k].exact = tally[k].exact + HitsIn(call[c], GrantedOn(c, k))
<1> DEFINE plus == {i \in Indexes(c) : Limited(c, i) /\ ~Ent(c, i).neg}
           ok == {i \in plus : StatusOf(c, i).code = OK}
           A(k) == HitsOn(c, k, plus)
           R(k) == HitsOn(c, k, Indexes(c) \ plus)
           E(k) == HitsOn(c, k, ok \cap call[c].exact)
<1>1. tally' = [k \in Keys |-> [tally[k] EXCEPT !.asked = @ + A(k), !.ref = @ + R(k),
                                                !.exact = @ + E(k)]]
  BY Zenon DEF Answer
<1>4. \A i \in Indexes(c) : Ent(c, i).neg \in BOOLEAN
  <2>1. \A i \in Indexes(c) : Ent(c, i) \in Entry
    BY ReqType DEF Indexes, Ent, IInv, CallsInv
  <2> QED BY <2>1, Zenon DEF Entry
<1>5. ASSUME NEW k \in Keys
      PROVE  /\ A(k) = HitsIn(call[c], ChargedOn(c, k, FALSE))
             /\ R(k) = HitsIn(call[c], ChargedOn(c, k, TRUE))
             /\ E(k) = HitsIn(call[c], GrantedOn(c, k))
  BY <1>4, Zenon DEF SumHits, HitsIn, Ent, ChargedOn, Charged, GrantedOn, HitsOn
<1>6. ASSUME NEW k \in Keys
      PROVE  /\ HitsIn(call[c], ChargedOn(c, k, FALSE)) \in Nat
             /\ HitsIn(call[c], ChargedOn(c, k, TRUE)) \in Nat
             /\ HitsIn(call[c], GrantedOn(c, k)) \in Nat
             /\ HitsIn(call[c], GrantedOn(c, k)) <= HitsIn(call[c], ChargedOn(c, k, FALSE))
  BY HitsType, HitsOrder, ReqType, Zenon DEF ChargedOn, Charged, Indexes, GrantedOn, IInv, CallsInv
<1>7. \A k \in Keys : A(k) \in Nat /\ R(k) \in Nat /\ E(k) \in Nat
  BY <1>5, <1>6, Zenon
<1> HIDE DEF A, R, E
<1>8. ASSUME NEW k \in Keys
      PROVE  /\ tally'[k] \in Tally
             /\ tally'[k].asked = tally[k].asked + A(k)
             /\ tally'[k].ref = tally[k].ref + R(k)
             /\ tally'[k].lost = tally[k].lost
             /\ tally'[k].exact = tally[k].exact + E(k)
  <2> DEFINE t == tally[k]
             u == A(k)
             v == R(k)
             w == E(k)
             s == tally'[k]
  <2>2. t \in Tally /\ u \in Nat /\ v \in Nat /\ w \in Nat
    BY <1>7, Zenon
  <2>3. s = [t EXCEPT !.asked = @ + u, !.ref = @ + v, !.exact = @ + w]
    BY <1>1, Zenon
  <2> HIDE DEF t, u, v, w, s
  <2> DEFINE x == t.asked + u
             y == t.ref + v
             z == t.exact + w
             o == [t EXCEPT !.asked = x, !.ref = y, !.exact = z]
  <2>4. x \in Nat /\ y \in Nat /\ z \in Nat
    BY <2>2 DEF Tally
  <2>5. s = o
    BY <2>3, Zenon
  <2> HIDE DEF x, y, z
  <2>6. o \in Tally /\ o.asked = x /\ o.ref = y /\ o.exact = z /\ o.lost = t.lost
    BY <2>2, <2>4, Zenon DEF Tally
  <2> HIDE DEF o
  <2> QED BY <2>5, <2>6, Zenon DEF s, t, u, v, w, x, y, z
<1> QED BY <1>1, <1>5, <1>6, <1>8, Zenon

\* The answer: the hits asked for and those put on the way are the same.
LEMMA AnswerHits ==
  ASSUME IInv, IInv', HitsInv, NEW c \in Calls, Answer(c)
  PROVE  HitsInv'
<1>1. UNCHANGED <<now, store, errors>> /\ task' = [task EXCEPT ![c] = Start(c, 1)]
      /\ call[c].pc = "answer" /\ \E pc : call' = [call EXCEPT ![c].pc = pc]
  BY Zenon DEF Answer
<1>2. CallsInv /\ CallsInv' /\ StoreInv /\ CallInv(call[c], now)
  BY Zenon DEF IInv, CallsInv
<1>4. task'[c] = Start(c, 1) /\ call'[c].req = call[c].req /\ call'[c].t = call[c].t
      /\ call'[c].over = call[c].over
  <2>1. call[c] \in CallOf(call[c].req)
    BY <1>2, Zenon DEF CallInv
  <2> QED BY <2>1, <1>1, <1>2 DEF CallOf, CallsInv
<1>5. ~Active(task[c]) /\ task[c] \in TaskType
  BY <1>1, Zenon DEF IInv, CallsInv, TaskInv, Active, Early
<1>6. now \in Nat /\ errors \in Nat
  BY DEF IInv, RestInv, Time
<1>7. ASSUME NEW k, NEW neg
      PROVE  /\ AllPending(k, neg)' = AllPending(k, neg) + HitsIn(call[c], ChargedOn(c, k, neg))
             /\ AllPending(k, neg) \in Nat /\ HitsIn(call[c], ChargedOn(c, k, neg)) \in Nat
  <2>2. Pending(c, k, neg)' = HitsIn(call[c], ChargedOn(c, k, neg))
    BY <1>2, <1>4, PendingAnswered, Zenon DEF ChargedOn
  <2> DEFINE p == AllPending(k, neg)
             p1 == AllPending(k, neg)'
             a == HitsIn(call[c], ChargedOn(c, k, neg))
  <2> HIDE DEF p, p1, a
  <2> QED BY <1>1, <1>2, <1>5, <2>2, FlowOfOne, PendingNone
<1>8. tally \in [Keys -> Tally]
  BY Zenon DEF HitsInv, AccountInv
<1>9. /\ tally' \in [Keys -> Tally]
      /\ \A k \in Keys :
           /\ HitsIn(call[c], GrantedOn(c, k)) \in Nat
           /\ HitsIn(call[c], GrantedOn(c, k)) <= HitsIn(call[c], ChargedOn(c, k, FALSE))
           /\ tally'[k].asked = tally[k].asked + HitsIn(call[c], ChargedOn(c, k, FALSE))
           /\ tally'[k].ref = tally[k].ref + HitsIn(call[c], ChargedOn(c, k, TRUE))
           /\ tally'[k].lost = tally[k].lost
           /\ tally'[k].exact = tally[k].exact + HitsIn(call[c], GrantedOn(c, k))
  BY <1>8, AnswerTally, Zenon
<1>10. ASSUME NEW k \in Keys
       PROVE  /\ Balance(k)' /\ (~store'[k].live => store'[k].n = 0)
              /\ tally'[k].exact <= tally'[k].asked
  <2> DEFINE n == store[k].n
             l == tally[k].lost
             a == tally[k].asked
             f == tally[k].ref
             x == tally[k].exact
             p == AllPending(k, FALSE)
             r == AllPending(k, TRUE)
             p1 == AllPending(k, FALSE)'
             r1 == AllPending(k, TRUE)'
             u == HitsIn(call[c], ChargedOn(c, k, FALSE))
             v == HitsIn(call[c], ChargedOn(c, k, TRUE))
             y == HitsIn(call[c], GrantedOn(c, k))
  <2>1. /\ n \in Nat /\ p \in Nat /\ r \in Nat /\ u \in Nat /\ v \in Nat /\ y \in Nat /\ y <= u
        /\ p1 = p + u /\ r1 = r + v
    BY <1>2, <1>7, <1>9, Zenon DEF StoreInv, Counter
  <2>2. l \in Nat /\ a \in Nat /\ f \in Nat /\ x \in Nat
    BY <1>8, Zenon DEF Tally
  <2>3. Balance(k) /\ (~store[k].live => store[k].n = 0) /\ x <= a
    BY Zenon DEF HitsInv, AccountInv, Live
  <2>4. tally'[k].asked = a + u /\ tally'[k].ref = f + v /\ tally'[k].lost = l
        /\ tally'[k].exact = x + y
    BY <1>9, Zenon
  <2> HIDE DEF n, l, a, f, x, p, r, p1, r1, u, v, y
  <2>5. /\ (n + p1 + l) - (n + p + l) <= (a + u) - a
        /\ ((a + u) + r1) - (a + r) <= (n + p1 + l + (f + v)) - (n + p + l + f)
    BY <2>1, <2>2
  <2>6. ~(l > l) /\ errors <= errors' /\ errors' \in Nat /\ (now' < End(k) => now < End(k))
    BY <2>2, <1>1, <1>6
  <2>7. store'[k].n = n /\ store'[k].n \in Nat /\ tally'[k] \in Tally /\ tally[k] \in Tally
    BY <1>1, <1>8, <1>9, <2>1, Zenon DEF n
  <2>8. Balance(k)'
    BY <2>3, <2>4, <2>5, <2>6, <2>7, <1>2, <1>6, BalanceStep, Zenon DEF n, l, a, f, p, r, p1, r1
  <2> QED BY <1>1, <2>1, <2>2, <2>3, <2>4, <2>8
<1>12. AheadInv'
  <2>4. AheadOf(call'[c], task'[c], now', store')
    BY <1>4, <1>2, FromSkips, SMTT(30) DEF Start, Charged, ChargedIn, Indexes, Limited, Ent, AheadOf
  <2> QED BY <1>1, <2>4, SMTT(30) DEF AheadInv, HitsInv
<1> QED BY <1>9, <1>10, <1>12, Zenon DEF HitsInv, AccountInv, Live

\* No hit was asked for yet.
LEMMA HitsInit == Init => HitsInv
<1> SUFFICES ASSUME Init PROVE HitsInv
  BY Zenon
<1>4. ASSUME NEW k, NEW neg PROVE AllPending(k, neg) = 0
  BY PendingNone, SumType, MemcachedAssumption, InitInv DEF IInv, CallsInv, Init, Active,
     NoTask, AllPending
<1>5. ASSUME NEW k \in Keys
      PROVE  Balance(k) /\ (~Live(k) => store[k].n = 0) /\ tally[k].exact <= tally[k].asked
  <2>4. Balance(k)
    <3> DEFINE p == AllPending(k, FALSE)
               r == AllPending(k, TRUE)
    <3>1. p = 0 /\ r = 0
      BY <1>4, Zenon
    <3> HIDE DEF p, r
    <3>2. /\ store[k].n + p + tally[k].lost <= tally[k].asked
          /\ tally[k].asked + r <= store[k].n + p + tally[k].lost + tally[k].ref
          /\ ~(tally[k].lost > 0)
      BY <3>1 DEF Init, NoCounter, NoTally
    <3> QED BY <3>2, Zenon DEF Balance, p, r
  <2> QED BY <2>4 DEF Init, NoCounter, NoTally
<1> QED BY <1>5 DEF HitsInv, AccountInv, Init, AheadInv, AheadOf, NoTask, Tally, NoTally

\* Every step keeps the accounts.
LEMMA HitsNext ==
  ASSUME IInv, IInv', HitsInv, [Next]_vars
  PROVE  HitsInv'
<1>0. now \in Nat
  BY DEF IInv, RestInv, Time
<1>1. ASSUME NEW c \in Calls, NEW req \in Requests, Begin(c, req) PROVE HitsInv'
  BY <1>1, EarlyHits, Zenon
<1>2. ASSUME NEW c \in Calls, CallStep(c) PROVE HitsInv'
  BY <1>2, EarlyHits, AnswerHits, LateHits, Zenon DEF CallStep
<1>3. ASSUME NEW c \in Calls, TaskStep(c) PROVE HitsInv'
  BY <1>3, IncrementEffect, AddItemEffect, DecrementEffect, OperationFailsEffect, TaskAccounts,
     TaskAhead DEF TaskStep, HitsInv
<1>4. ASSUME NEW c \in Calls, TaskDone(c) PROVE HitsInv'
  BY <1>4, TaskDoneHits, Zenon
<1>5. ASSUME NEW c \in Calls, WorkerTick(c) PROVE HitsInv'
  BY <1>0, <1>5, EnvironmentHits DEF WorkerTick
<1>6. CASE Tick
  BY <1>0, <1>6, EnvironmentHits DEF Tick
<1>7. ASSUME NEW k \in Keys, Expire(k) PROVE HitsInv'
  <2>4. End(k) <= now'
    <3>3. End(k) \in Nat
      BY MemcachedAssumption DEF Keys, End
    <3> QED BY <1>0, <1>7, <3>3 DEF Expire, IInv, StoreInv, Counter, CounterInv, Live, Due
  <2> QED BY <1>0, <1>7, <2>4, EnvironmentHits, CounterSet DEF Expire, IInv
<1>8. ASSUME NEW k \in Keys, Evict(k) PROVE HitsInv'
  BY <1>0, <1>8, EnvironmentHits DEF Evict
<1>9. CASE UNCHANGED vars
  BY <1>0, <1>9, EnvironmentHits DEF vars
<1> QED BY <1>1, <1>2, <1>3, <1>4, <1>5, <1>6, <1>7, <1>8, <1>9, Zenon DEF Next, Terminated

\* In an open window every hit a call was answered for is in the counter, on its
\* way or lost by an operation reported as failed, for every set of calls, rules
\* and requests (increaseAsync).
THEOREM HitsSafe == Spec => []HitsAccounted
<1>1. IInv /\ HitsInv /\ [Next]_vars /\ IInv' => HitsInv'
  BY HitsNext, Zenon
<1>2. IInv /\ HitsInv => HitsAccounted
  <2> SUFFICES ASSUME IInv, HitsInv, NEW k \in Keys, now < End(k)
               PROVE  /\ tally[k].ref = 0 =>
                           store[k].n + AllPending(k, FALSE) + tally[k].lost = tally[k].asked
                      /\ tally[k].lost > 0 => errors > 0
    BY Zenon DEF HitsAccounted
  <2> DEFINE p == AllPending(k, FALSE)
             r == AllPending(k, TRUE)
  <2>1. p \in Nat /\ r \in Nat
    BY FlowType, Zenon DEF IInv
  <2>2. store[k].n \in Nat /\ tally[k] \in Tally
    BY Zenon DEF IInv, StoreInv, Counter, HitsInv, AccountInv
  <2>3. /\ store[k].n + p + tally[k].lost <= tally[k].asked
        /\ tally[k].asked + r <= store[k].n + p + tally[k].lost + tally[k].ref
        /\ tally[k].lost > 0 => errors > 0
    BY Zenon DEF HitsInv, AccountInv, Balance
  <2>4. tally[k].lost \in Nat /\ tally[k].asked \in Nat
    BY <2>2, Zenon DEF Tally
  <2> HIDE DEF p, r
  <2>5. tally[k].ref = 0 => store[k].n + p + tally[k].lost = tally[k].asked
    BY <2>1, <2>2, <2>3, <2>4
  <2> QED BY <2>3, <2>5, Zenon DEF p
<1> QED BY <1>1, <1>2, HitsInit, MemcachedInvariance, PTL DEF Spec

-----------------------------------------------------------------------------
(* What is admitted on true reads *)

\* The counters of which q holds a true value until it answers.
ExactKeys(q) == {KeyIn(q, i) : i \in {j \in ChargedIn(q) : j \in q.exact}}

\* A call that has read and has not answered yet.
Undecided(q) == q.pc = "answer"

\* What q has read is not less than what was admitted on true reads.
ReadsEnough(q, n, t) == \A i \in ChargedIn(q) : LET k == KeyIn(q, i) IN
  i \in q.exact /\ n < End(k) => t[k].exact <= q.value[i] + t[k].lost + t[k].ref

\* A true read is for one descriptor of the request.
ReadsOnce(q) == \A i, j \in ChargedIn(q) :
  i \in q.exact /\ KeyIn(q, j) = KeyIn(q, i) /\ ~q.req[j].neg => j = i

ExactInv ==
  /\ \A c, d \in Calls : Undecided(call[c]) /\ Undecided(call[d]) /\ c # d
                           => ExactKeys(call[c]) \cap ExactKeys(call[d]) = {}
  /\ \A c \in Calls : Undecided(call[c]) => ReadsEnough(call[c], now, tally) /\ ReadsOnce(call[c])
  /\ TrueReadsKeepLimit

\* The history of a key that gains no admitted hits.
Grows(t, u) ==
  /\ t \in Tally /\ u \in Tally /\ u.exact = t.exact
  /\ t.lost <= u.lost /\ t.ref <= u.ref

\* The key of a charged descriptor.
LEMMA ChargedKey ==
  ASSUME IInv, NEW c \in Calls, NEW i \in ChargedIn(call[c])
  PROVE  /\ KeyIn(call[c], i) \in Keys /\ End(KeyIn(call[c], i)) \in Nat
         /\ i \in call[c].exact => KeyIn(call[c], i) \in ExactKeys(call[c])
         /\ call[c].value[i] \in Nat /\ i \in 1 .. Len(call[c].req)
<1>2. i \in Indexes(c) /\ Limited(c, i) /\ Key(c, i) = KeyIn(call[c], i)
  BY PendingIs, Zenon DEF ChargedIn, Indexes, Limited, Ent
<1>4. call[c].value[i] \in Nat
  BY <1>2, Zenon DEF CallInv, CallOf, Indexes, IInv, CallsInv
<1>5. i \in call[c].exact => KeyIn(call[c], i) \in ExactKeys(call[c])
  BY Zenon DEF ExactKeys
<1> QED BY <1>2, <1>4, <1>5, KeyOfEntry, Zenon DEF Indexes, IInv, CallsInv, RestInv

\* What a call has read stays enough while the history grows.
LEMMA EnoughKept ==
  ASSUME IInv, NEW c \in Calls, ReadsEnough(call[c], now, tally), now <= now', now' \in Nat,
         \A k \in ExactKeys(call[c]) : Grows(tally[k], tally'[k])
  PROVE  ReadsEnough(call[c], now', tally')
<1> SUFFICES ASSUME NEW i \in ChargedIn(call[c]), NEW k, k = KeyIn(call[c], i),
                    i \in call[c].exact, now' < End(k)
             PROVE  tally'[k].exact <= call[c].value[i] + tally'[k].lost + tally'[k].ref
  BY Zenon DEF ReadsEnough
<1>1. k \in Keys /\ End(k) \in Nat /\ Grows(tally[k], tally'[k]) /\ call[c].value[i] \in Nat
  BY ChargedKey, Zenon
<1>2. now \in Nat
  BY DEF IInv, RestInv, Time
<1> DEFINE t == tally[k]
           u == tally'[k]
           v == call[c].value[i]
<1>3. /\ t.lost \in Nat /\ u.lost \in Nat
      /\ t.ref \in Nat /\ u.ref \in Nat /\ t.exact \in Nat
      /\ u.exact = t.exact /\ t.lost <= u.lost /\ t.ref <= u.ref
  BY <1>1, Zenon DEF Grows, Tally
<1>4. now < End(k)
  BY <1>1, <1>2
<1>5. t.exact <= v + t.lost + t.ref
  BY <1>4, Zenon DEF ReadsEnough
<1>6. v \in Nat
  BY <1>1, Zenon
<1> HIDE DEF t, u, v
<1>7. u.exact <= v + u.lost + u.ref
  BY <1>3, <1>5, <1>6
<1> QED BY <1>7, Zenon DEF u, v

\* So does what was admitted.
LEMMA OverrunKept ==
  ASSUME IInv, NEW k \in Keys, Grows(tally[k], tally'[k]), now <= now', now' \in Nat,
         TrueReadsKeepLimit, now' < End(k)
  PROVE  tally'[k].exact <= Limit[k[1]] + tally'[k].lost + tally'[k].ref
<1>1. PICK r \in Rules, s \in Time : k = <<r, BucketStart(r, s)>>
  BY DEF Keys
<1>3. End(k) \in Nat /\ Limit[k[1]] \in Nat
  BY <1>1, MemcachedAssumption, Zenon DEF End
<1>4. now \in Nat
  BY DEF IInv, RestInv, Time
<1> DEFINE t == tally[k]
           u == tally'[k]
           v == Limit[k[1]]
<1>5. /\ t.lost \in Nat /\ u.lost \in Nat
      /\ t.ref \in Nat /\ u.ref \in Nat /\ t.exact \in Nat
      /\ u.exact = t.exact /\ t.lost <= u.lost /\ t.ref <= u.ref
  BY Zenon DEF Grows, Tally
<1>7. t.exact <= v + t.lost + t.ref /\ v \in Nat
  BY <1>3, <1>4 DEF TrueReadsKeepLimit
<1> HIDE DEF t, u, v
<1> QED BY <1>5, <1>7 DEF u, v

\* The counters a call holds true values of are counters.
LEMMA ExactKeysType ==
  ASSUME IInv, NEW c \in Calls
  PROVE  ExactKeys(call[c]) \subseteq Keys
BY ChargedKey, Zenon DEF ExactKeys

\* Every step but the reading and the answer.
LEMMA ExactKept ==
  ASSUME IInv, ExactInv, now <= now', now' \in Nat, \A k \in Keys : Grows(tally[k], tally'[k]),
         \A c \in Calls : call'[c] = call[c] \/ ~Undecided(call'[c])
  PROVE  ExactInv'
<1>1. ASSUME NEW c \in Calls, Undecided(call'[c])
      PROVE  ReadsEnough(call'[c], now', tally') /\ ReadsOnce(call'[c])
  <2>2. \A k \in ExactKeys(call[c]) : Grows(tally[k], tally'[k])
    BY ExactKeysType, Zenon
  <2> QED BY <1>1, <2>2, EnoughKept, Zenon DEF ExactInv
<1> QED BY <1>1, OverrunKept, Zenon DEF ExactInv, TrueReadsKeepLimit

\* The history, when it does not change.
LEMMA GrowsSame ==
  ASSUME HitsInv, UNCHANGED tally
  PROVE  \A k \in Keys : Grows(tally[k], tally'[k])
BY DEF HitsInv, AccountInv, Grows, Tally

\* A true read finds in the counter all that was admitted on true reads.
LEMMA ReadEnough ==
  ASSUME IInv, HitsInv, NEW c \in Calls, call[c].pc = "get",
         NEW i \in ChargedIn(call[c]), ReadsTrue(c, i), NEW k, k = KeyIn(call[c], i), now < End(k)
  PROVE  tally[k].exact <= Decode(store[k].n) + tally[k].lost + tally[k].ref
<1>1. k \in Keys /\ k = Key(c, i)
  BY ChargedKey, PendingIs, Zenon
<1>2. ASSUME NEW d \in Calls, NEW b PROVE Pending(d, k, b) = 0
  <2>2. CASE ~Active(task[d])
    BY <2>2, PendingNone, Zenon DEF IInv, CallsInv
  <2>3. CASE Active(task[d])
    <3>3. Running(d) /\ c # d
      BY <2>3, Zenon DEF Running, Active, IInv, CallsInv, TaskInv, Early
    <3>4. k \notin KeysOf(d)
      BY <1>1, <3>3, Zenon DEF ReadsTrue
    <3>5. Left(call[d], task[d], k, b) = {}
      BY <3>4, Zenon DEF Left, KeysOf, KeyIn, Key, Indexes, Limited, Ent, ChargedIn
    <3>6. HitsIn(call[d], {}) = 0
      BY SumEmpty, Zenon DEF HitsIn
    <3> QED BY <3>5, <3>6, PendingIs
  <2> QED BY <2>2, <2>3, Zenon
<1>3. ASSUME NEW b PROVE AllPending(k, b) = 0
  BY <1>2, SumType, MemcachedAssumption, Zenon DEF AllPending
<1> DEFINE p == AllPending(k, FALSE)
           r == AllPending(k, TRUE)
           t == tally[k]
           n == store[k].n
<1>4. p = 0 /\ r = 0
  BY <1>3, Zenon
<1>5. /\ t.asked \in Nat /\ t.lost \in Nat /\ t.ref \in Nat /\ t.exact \in Nat /\ n \in Nat
      /\ t.exact <= t.asked
  BY <1>1, Zenon DEF HitsInv, AccountInv, Tally, IInv, StoreInv, Counter
<1>6. t.asked + r <= n + p + t.lost + t.ref
  BY <1>1, Zenon DEF HitsInv, AccountInv, Balance
<1>7. n <= Int32Max
  BY <1>1, Zenon DEF ReadsTrue
<1> HIDE DEF p, r, t, n
<1>9. t.exact <= n + t.lost + t.ref
  BY <1>4, <1>5, <1>6
<1> QED BY <1>7, <1>9, Zenon DEF t, n, Decode

\* GetMulti.
LEMMA GetMultiExact ==
  ASSUME IInv, IInv', HitsInv, ExactInv, NEW c \in Calls, GetMulti(c)
  PROVE  ExactInv'
<1> DEFINE live == {i \in Charged(c) : Live(Key(c, i))}
<1>1. PICK got \in SUBSET live, failed \in BOOLEAN :
        /\ ~failed => got = live
        /\ call' = [call EXCEPT
            ![c].pc = "answer",
            ![c].value = [i \in Indexes(c) |-> IF i \in got THEN Decode(store[Key(c, i)].n) ELSE 0],
            ![c].exact = {i \in Charged(c) : ~failed /\ ReadsTrue(c, i)}]
  BY Zenon DEF GetMulti
<1> DEFINE value == [i \in Indexes(c) |-> IF i \in got THEN Decode(store[Key(c, i)].n) ELSE 0]
           exact == {i \in Charged(c) : ~failed /\ ReadsTrue(c, i)}
           q == call'[c]
<1>2. q = [call[c] EXCEPT !.pc = "answer", !.value = value, !.exact = exact]
      /\ \A d \in Calls \ {c} : call'[d] = call[d]
  BY <1>1, Zenon DEF IInv, CallsInv
<1>3. UNCHANGED <<now, tally, store>> /\ call[c].pc = "get"
  BY Zenon DEF GetMulti
<1> HIDE DEF value, exact, q
<1>5. /\ q.req = call[c].req /\ q.t = call[c].t /\ q.over = call[c].over
      /\ q.value = value /\ q.exact = exact /\ q.pc = "answer"
  BY <1>2
<1>7. Charged(c) = ChargedIn(call[c]) /\ \A i : Key(c, i) = KeyIn(call[c], i)
  BY PendingIs, Zenon
<1>4. exact = {i \in Charged(c) : ~failed /\ ReadsTrue(c, i)}
  BY Zenon DEF exact
<1>6. ChargedIn(q) = Charged(c) /\ \A i : KeyIn(q, i) = Key(c, i)
  BY <1>5, <1>7, Zenon DEF ChargedIn, KeyIn
<1>8. ReadsEnough(q, now', tally')
  <2> SUFFICES ASSUME NEW i \in ChargedIn(q), NEW k, k = KeyIn(q, i), i \in q.exact, now < End(k)
               PROVE  tally[k].exact <= q.value[i] + tally[k].lost + tally[k].ref
    BY <1>3, Zenon DEF ReadsEnough
  <2>1. i \in Charged(c) /\ ~failed /\ ReadsTrue(c, i)
    BY <1>4, <1>5, Zenon
  <2>2. i \in ChargedIn(call[c]) /\ k = KeyIn(call[c], i) /\ k = Key(c, i)
    BY <1>6, <1>7, <2>1, Zenon
  <2>3. k \in Keys /\ i \in Indexes(c)
    BY <2>2, ChargedKey, Zenon DEF Indexes
  <2>4. ~Live(k) => store[k].n = 0
    BY <2>3, Zenon DEF HitsInv, AccountInv
  <2>6. q.value[i] = Decode(store[k].n)
    <3>1. q.value[i] = IF i \in got THEN Decode(store[k].n) ELSE 0
      BY <1>5, <2>2, <2>3, Zenon DEF value
    <3>2. i \in got <=> Live(k)
      BY <1>1, <2>1, <2>2, Zenon
    <3>3. ~Live(k) => Decode(store[k].n) = 0
      BY <2>4, Zenon DEF Decode
    <3> QED BY <3>1, <3>2, <3>3, Zenon
  <2> QED BY <1>3, <2>1, <2>2, <2>6, ReadEnough, Zenon
<1>9. ASSUME NEW d \in Calls \ {c}, Undecided(call[d])
      PROVE  ExactKeys(q) \cap ExactKeys(call[d]) = {}
  <2>1. ASSUME NEW k \in ExactKeys(q) PROVE k \notin KeysOf(d)
    <3>1. PICK i \in ChargedIn(q) : i \in q.exact /\ k = KeyIn(q, i)
      BY Zenon DEF ExactKeys
    <3>2. ReadsTrue(c, i) /\ k = Key(c, i)
      BY <1>4, <1>5, <1>6, <3>1, Zenon
    <3> QED BY <1>9, <3>2, Zenon DEF ReadsTrue, Undecided
  <2>2. ExactKeys(call[d]) \subseteq KeysOf(d)
    <3> SUFFICES ASSUME NEW i \in ChargedIn(call[d]) PROVE KeyIn(call[d], i) \in KeysOf(d)
      BY Zenon DEF ExactKeys
    <3>1. i \in Charged(d) /\ KeyIn(call[d], i) = Key(d, i)
      BY PendingIs, Zenon
    <3> QED BY <3>1, Zenon DEF KeysOf, Charged
  <2> QED BY <2>1, <2>2, Zenon
<1>10. ReadsOnce(q)
  <2> SUFFICES ASSUME NEW i \in ChargedIn(q), NEW j \in ChargedIn(q), i \in q.exact,
                      KeyIn(q, j) = KeyIn(q, i), ~q.req[j].neg
               PROVE  j = i
    BY Zenon DEF ReadsOnce
  <2>1. ReadsTrue(c, i) /\ j \in Charged(c) /\ Key(c, j) = Key(c, i)
    BY <1>4, <1>5, <1>6, Zenon
  <2>2. ~Ent(c, j).neg
    BY <1>5, Zenon DEF Ent
  <2> QED BY <2>1, <2>2, Zenon DEF ReadsTrue
<1> QED BY <1>2, <1>3, <1>8, <1>9, <1>10, Zenon DEF ExactInv, q, TrueReadsKeepLimit

\* A descriptor that is answered OK still fits under the limit.
LEMMA GrantedFits ==
  ASSUME IInv, NEW c \in Calls, NEW k, NEW i \in GrantedOn(c, k)
  PROVE  /\ call[c].value[i] \in Nat /\ call[c].req[i].hits \in Nat /\ k \in Keys
         /\ call[c].value[i] + call[c].req[i].hits <= Limit[k[1]]
         /\ Limit[k[1]] \in Nat
<1>1. i \in Charged(c) /\ Ent(c, i).neg = FALSE /\ Key(c, i) = k /\ StatusOf(c, i).code = OK
  BY Zenon DEF GrantedOn, ChargedOn
<1>3. i \in Indexes(c) /\ Limited(c, i) /\ i \notin call[c].over
  BY <1>1, Zenon DEF Charged
<1>4. k \in Keys /\ k[1] = Ent(c, i).r /\ Ent(c, i).r \in Rules /\ Ent(c, i).hits \in Nat
  BY <1>1, <1>3, KeyOfEntry, Zenon DEF IInv, CallsInv, RestInv
<1> DEFINE v == call[c].value[i]
           h == Ent(c, i).hits
           l == Limit[k[1]]
<1>6. l \in Nat
  BY <1>4, MemcachedAssumption, Zenon
<1>7. StatusOf(c, i) = GetResponseDescriptorStatus(
        [limit |-> l, shadow |-> FALSE, before |-> v, after |-> v + h], i \in call[c].over, h)
  BY <1>1, <1>3, <1>4, Zenon DEF StatusOf
<1>8. v \in Nat /\ h \in Nat
  BY <1>3, <1>4, Zenon DEF CallInv, CallOf, Indexes, IInv, CallsInv
<1> HIDE DEF v, h, l
<1>9. ASSUME NEW o \in BOOLEAN, v + h > l
      PROVE  GetResponseDescriptorStatus(
        [limit |-> l, shadow |-> FALSE, before |-> v, after |-> v + h], o, h).code = OVER_LIMIT
  BY <1>9, Zenon DEF GetResponseDescriptorStatus, EnforcedStatus
<1>10. ~(v + h > l)
  <2>1. (i \in call[c].over) \in BOOLEAN
    OBVIOUS
  <2> QED BY <1>1, <1>7, <1>9, <2>1, Zenon DEF OK, OVER_LIMIT
<1>11. v + h <= l
  BY <1>6, <1>8, <1>10
<1> QED BY <1>3, <1>4, <1>6, <1>11, Zenon DEF v, h, l, Ent, CallInv, CallOf, Indexes, IInv, CallsInv

\* The answer.
LEMMA AnswerExact ==
  ASSUME IInv, IInv', HitsInv, ExactInv, NEW c \in Calls, Answer(c)
  PROVE  ExactInv'
<1>1. UNCHANGED <<now, store, errors>> /\ call[c].pc = "answer"
      /\ call' = [call EXCEPT ![c].pc = "add"]
  BY Zenon DEF Answer
<1>2. (\A d \in Calls \ {c} : call'[d] = call[d]) /\ ~Undecided(call'[c])
  <2> QED BY <1>1 DEF IInv, CallsInv, Undecided, CallOf, CallInv
<1>4. tally \in [Keys -> Tally]
  BY Zenon DEF HitsInv, AccountInv
<1>5. /\ tally' \in [Keys -> Tally]
      /\ \A k \in Keys :
           /\ HitsIn(call[c], ChargedOn(c, k, FALSE)) \in Nat
           /\ HitsIn(call[c], ChargedOn(c, k, TRUE)) \in Nat
           /\ tally'[k].asked = tally[k].asked + HitsIn(call[c], ChargedOn(c, k, FALSE))
           /\ tally'[k].ref = tally[k].ref + HitsIn(call[c], ChargedOn(c, k, TRUE))
           /\ tally'[k].lost = tally[k].lost
           /\ tally'[k].exact = tally[k].exact + HitsIn(call[c], GrantedOn(c, k))
  BY <1>4, AnswerTally, Zenon
<1>6. ASSUME NEW k \in Keys PROVE tally[k] \in Tally /\ tally'[k] \in Tally
        /\ tally[k].lost <= tally'[k].lost
        /\ tally[k].ref <= tally'[k].ref
  <2> DEFINE v == HitsIn(call[c], ChargedOn(c, k, TRUE))
  <2>2. v \in Nat /\ tally'[k].ref = tally[k].ref + v /\ tally'[k].lost = tally[k].lost
    BY <1>5, Zenon
  <2> HIDE DEF v
  <2> QED BY <1>4, <1>5, <2>2 DEF Tally
<1>7. ASSUME NEW k \in Keys, GrantedOn(c, k) = {}
      PROVE  Grows(tally[k], tally'[k])
  <2>2. tally'[k].exact = tally[k].exact + 0 /\ tally[k].exact \in Nat
    BY <1>4, <1>5, <1>7, SumEmpty, Zenon DEF Tally, HitsIn
  <2> QED BY <1>6, <2>2 DEF Grows
<1>8. ASSUME NEW d \in Calls \ {c}, Undecided(call[d])
      PROVE  ReadsEnough(call'[d], now', tally')
  <2>2. ASSUME NEW k \in ExactKeys(call[d]) PROVE Grows(tally[k], tally'[k])
    <3>1. k \in Keys
      BY ExactKeysType, Zenon
    <3>2. GrantedOn(c, k) = {}
      BY <1>1, <1>8, PendingIs, ChargedKey DEF Undecided, ExactInv, GrantedOn, ChargedOn
    <3> QED BY <3>1, <3>2, <1>7, Zenon
  <2> QED BY <1>1, <1>8, <2>2, EnoughKept DEF ExactInv, IInv, RestInv, Time
<1>9. ASSUME NEW k \in Keys, now' < End(k)
      PROVE  tally'[k].exact <= Limit[k[1]] + tally'[k].lost + tally'[k].ref
  <2>1. CASE GrantedOn(c, k) = {}
    BY <1>1, <1>7, <1>9, <2>1, OverrunKept, SMTT(30) DEF ExactInv, IInv, RestInv, Time
  <2>2. ASSUME NEW i \in GrantedOn(c, k)
        PROVE  tally'[k].exact <= Limit[k[1]] + tally'[k].lost + tally'[k].ref
    <3>3. ReadsEnough(call[c], now, tally) /\ ReadsOnce(call[c])
      BY <1>1, Zenon DEF ExactInv, Undecided
    <3>4. GrantedOn(c, k) = {i}
      <4>1. ASSUME NEW j \in GrantedOn(c, k) PROVE j = i
        BY <3>3, PendingIs, Zenon DEF ReadsOnce, GrantedOn, ChargedOn, Ent
      <4> QED BY <4>1, Zenon
    <3>5. HitsIn(call[c], {i}) = call[c].req[i].hits
      <4>1. {i} \in SUBSET (1 .. Len(call[c].req)) /\ {i} \ {i} = {}
        BY Zenon DEF GrantedOn, ChargedOn, Charged, Indexes
      <4>2. HitsIn(call[c], {i}) = call[c].req[i].hits + HitsIn(call[c], {i} \ {i})
        BY <4>1, HitsWithout, ReqType, Zenon DEF IInv, CallsInv
      <4>5. HitsIn(call[c], {i} \ {i}) = 0
        BY Zenon, SumEmpty DEF HitsIn
      <4> HIDE DEF HitsIn
      <4> QED BY <4>2, <4>5, GrantedFits
    <3>7. tally[k].exact <= call[c].value[i] + tally[k].lost + tally[k].ref
      BY <1>1, <1>9, <3>3, PendingIs DEF ReadsEnough, GrantedOn, ChargedOn
    <3> DEFINE t == tally[k]
               u == tally'[k]
               v == call[c].value[i]
               h == call[c].req[i].hits
               l == Limit[k[1]]
    <3>9. /\ t.lost \in Nat /\ t.ref \in Nat /\ t.exact \in Nat /\ u.lost \in Nat /\ u.ref \in Nat
          /\ t.lost <= u.lost /\ t.ref <= u.ref
      BY <1>6, Zenon DEF Tally
    <3>10. /\ v \in Nat /\ h \in Nat /\ l \in Nat /\ v + h <= l
           /\ t.exact <= v + t.lost + t.ref /\ u.exact = t.exact + h
      BY <1>5, <2>2, <3>4, <3>5, <3>7, GrantedFits, ZenonT(30)
    <3> HIDE DEF t, u, v, h, l
    <3> QED BY <3>9, <3>10 DEF u, l
  <2> QED BY <2>1, <2>2, Zenon
<1> QED BY <1>2, <1>8, <1>9, Zenon DEF ExactInv, TrueReadsKeepLimit

\* No call has read, no hit was admitted.
LEMMA ExactInit == Init => ExactInv
BY MemcachedAssumption, SMTT(30) DEF Init, Undecided, Idle, NoTally, Keys, ExactInv,
   TrueReadsKeepLimit

\* Every step keeps what is admitted on true reads within the limit.
LEMMA ExactNext ==
  ASSUME IInv, IInv', HitsInv, ExactInv, [Next]_vars
  PROVE  ExactInv'
<1>0. now \in Nat /\ now' \in Nat
  BY DEF IInv, RestInv, Time
<1>1. ASSUME NEW c \in Calls, (\E req \in Requests : Begin(c, req)) \/ Submit(c) \/ Flush(c) PROVE ExactInv'
  <2>1. PICK pc \in PcType \ {"answer"} : call'[c].pc = pc
    BY <1>1 DEF Begin, Submit, AtSubmit, AfterSubmit, Flush, IInv, CallsInv, CallInv, CallOf, PcType
  <2>2. UNCHANGED <<now, tally>> /\ \A d \in Calls \ {c} : call'[d] = call[d]
    BY <1>1, Zenon DEF Begin, Submit, AtSubmit, Flush, IInv, CallsInv
  <2> QED BY <1>0, <2>1, <2>2, GrowsSame, ExactKept, SMTT(30) DEF Undecided
<1>2. ASSUME NEW c \in Calls, TaskStep(c) PROVE ExactInv'
  <2>0. PICK x \in Nat : \E tk : TaskEffect(c, x, tk)
    BY <1>2, IncrementEffect, AddItemEffect, DecrementEffect, OperationFailsEffect, Zenon DEF TaskStep
  <2>1. PICK tk : TaskEffect(c, x, tk)
    BY <2>0, Zenon
  <2> DEFINE k0 == Key(c, At(c))
  <2>3. k0 \in Keys
    BY <1>2, AtWork, Zenon
  <2> HIDE DEF k0
  <2>6. ASSUME NEW k \in Keys PROVE Grows(tally[k], tally'[k])
    BY <2>1, <2>3 DEF Tally, Grows, HitsInv, AccountInv, TaskEffect
  <2> QED BY <1>0, <2>1, <2>6, ExactKept DEF TaskEffect
<1>3. ASSUME UNCHANGED <<call, tally>>, now <= now' PROVE ExactInv'
  BY <1>0, <1>3, GrowsSame, ExactKept, Zenon
<1>4. ASSUME NEW c \in Calls, TaskDone(c) \/ WorkerTick(c) PROVE ExactInv'
  BY <1>4, <1>0, <1>3 DEF TaskDone, WorkerTick
<1>5. ASSUME Tick \/ (\E k \in Keys : Expire(k) \/ Evict(k)) \/ UNCHANGED vars PROVE ExactInv'
  BY <1>5, <1>0, <1>3 DEF Tick, Expire, Evict, vars
<1>6. ASSUME NEW c \in Calls, CallStep(c) PROVE ExactInv'
  BY <1>1, <1>6, GetMultiExact, AnswerExact, Zenon DEF CallStep
<1> QED BY <1>1, <1>2, <1>4, <1>5, <1>6 DEF Next, Terminated

\* Whatever is answered OK on a true read keeps the limit: only calls that overlap,
\* failed reads, requests that name a counter twice and counters beyond 32 bits
\* overrun it, for every set of calls, rules and requests (DoLimit, increaseAsync).
THEOREM OverrunSafe == Spec => []TrueReadsKeepLimit
<1>1. IInv /\ HitsInv /\ [Next]_vars /\ IInv' => HitsInv'
  BY HitsNext, Zenon
<1>2. IInv /\ HitsInv /\ ExactInv /\ [Next]_vars /\ IInv' => ExactInv'
  BY ExactNext, Zenon
<1>3. ExactInv => TrueReadsKeepLimit
  BY Zenon DEF ExactInv
<1> QED BY <1>1, <1>2, <1>3, HitsInit, ExactInit, MemcachedInvariance, PTL DEF Spec
=============================================================================
