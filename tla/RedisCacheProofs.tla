--------------------------- MODULE RedisCacheProofs ---------------------------
(***************************************************************************)
(* Proof that IInv is an invariant of RedisCache, for every set of         *)
(* callers, instances, rules, requests and windows, and of what follows    *)
(* from it.                                                                *)
(*                                                                         *)
(* IInv is split into a part about each caller (CallInv) and a part about  *)
(* each key (KeyInv); every action changes one caller and at most one key. *)
(* What BaseLimiter decides and counts comes first; the counters without a *)
(* TTL and the agreement of the local cache with Redis come last, each     *)
(* with the invariant it needs beside IInv.                                *)
(***************************************************************************)
EXTENDS RedisCache, TLAPS

-----------------------------------------------------------------------------
(* What BaseRateLimiter decides and counts, for every limit, hits and ratio *)

LimitInfoType == [limit : Nat, shadow : BOOLEAN, before : Nat, after : Nat]

DeltaType == [over : Nat, near : Nat, within : Nat, overLocal : Nat, shadow : Nat]

\* The near-limit threshold is a natural number no larger than the limit, as
\* the ratio is at most one.
LEMMA NearBelowLimit ==
  ASSUME NEW limit \in Nat
  PROVE  NearLimitThreshold(limit) \in Nat /\ NearLimitThreshold(limit) <= limit
<1> DEFINE p == limit * NearNum
<1>1. p \in Nat /\ p <= limit * NearDen
  BY BaseLimiterAssumption
<1>2. p \div NearDen \in Nat /\ NearDen * (p \div NearDen) <= p
  BY <1>1, BaseLimiterAssumption
<1> DEFINE q == p \div NearDen
<1>3. q \in Nat /\ NearDen * q <= NearDen * limit
  BY <1>1, <1>2, BaseLimiterAssumption
<1> HIDE DEF q
<1>4. q <= limit
  BY <1>3, BaseLimiterAssumption
<1> QED BY <1>3, <1>4 DEF q, NearLimitThreshold

\* A status has an answer and natural statistics, and only a counter over the
\* limit puts the key into the local cache (GetResponseDescriptorStatus).
LEMMA StatusType ==
  ASSUME NEW info \in LimitInfoType, NEW local \in BOOLEAN, NEW hits \in Nat
  PROVE  LET s == GetResponseDescriptorStatus(info, local, hits) IN
         /\ s.code \in {OK, OVER_LIMIT}
         /\ s.delta \in DeltaType
         /\ s.poison \in BOOLEAN
         /\ s.poison => info.limit < info.after
<1> DEFINE near == NearLimitThreshold(info.limit)
<1>1. info.limit \in Nat /\ info.shadow \in BOOLEAN /\ info.before \in Nat /\ info.after \in Nat
  BY DEF LimitInfoType
<1>2. near \in Nat /\ near <= info.limit
  BY <1>1, NearBelowLimit
<1> HIDE DEF near
<1>3. CASE local
  BY <1>1, <1>3 DEF GetResponseDescriptorStatus, EnforcedStatus, Delta, DeltaType,
     increaseShadowModeStats, OK, OVER_LIMIT
<1>4. CASE ~local /\ info.after > info.limit
  <2> DEFINE d == checkOverLimitThreshold(info, hits)
  <2>1. d.over \in Nat /\ d.near \in Nat
    BY <1>1, <1>2, <1>4 DEF checkOverLimitThreshold, Larger, near
  <2>2. increaseShadowModeStats(info, local, hits) \in Nat
    BY <1>1, <1>4 DEF increaseShadowModeStats
  <2> HIDE DEF d
  <2> QED BY <1>1, <1>4, <2>1, <2>2 DEF GetResponseDescriptorStatus, EnforcedStatus,
          Delta, DeltaType, d, OK, OVER_LIMIT
<1>5. CASE ~local /\ ~(info.after > info.limit)
  <2>1. checkNearLimitThreshold(info, hits) \in Nat
    BY <1>1, <1>2 DEF checkNearLimitThreshold, near
  <2> QED BY <1>1, <1>5, <2>1 DEF GetResponseDescriptorStatus, EnforcedStatus,
          Delta, DeltaType, OK, OVER_LIMIT
<1> QED BY <1>3, <1>4, <1>5

\* Whatever the order in which calls get to write their statistics, the sum is
\* right: a call that moved the counter from before to after = before + hits
\* adds to over_limit and near_limit exactly the change of the counter's excess
\* and of its near-limit part, and is OK exactly when the limit is respected.
THEOREM StatusTelescopes ==
  ASSUME NEW info \in LimitInfoType, NEW hits \in Nat,
         info.after = info.before + hits
  PROVE  LET s == EnforcedStatus(info, FALSE, hits) IN
         /\ s.code = OK <=> info.after <= info.limit
         /\ s.delta.over = Excess(info.after, info.limit) - Excess(info.before, info.limit)
         /\ s.delta.near = NearPart(info.after, info.limit) - NearPart(info.before, info.limit)
<1> DEFINE near == NearLimitThreshold(info.limit)
<1> DEFINE r == EnforcedStatus(info, FALSE, hits)
<1> HIDE DEF r
<1>1. info.limit \in Nat /\ info.before \in Nat /\ info.after \in Nat
  BY DEF LimitInfoType
<1>2. near \in Nat /\ near <= info.limit
  BY <1>1, NearBelowLimit
<1> HIDE DEF near
<1>3. CASE info.after > info.limit
  <2> DEFINE d == checkOverLimitThreshold(info, hits)
  <2>1. d.over = Excess(info.after, info.limit) - Excess(info.before, info.limit)
    BY <1>1, <1>3 DEF checkOverLimitThreshold, Excess, Larger
  <2>2. d.near = NearPart(info.after, info.limit) - NearPart(info.before, info.limit)
    BY <1>1, <1>2, <1>3 DEF checkOverLimitThreshold, Excess, NearPart, Larger, near
  <2> HIDE DEF d
  <2>3. r.code = OVER_LIMIT
    BY <1>3 DEF EnforcedStatus, r
  <2>4. r.delta = Delta(d.over, d.near, 0, 0)
    BY <1>3 DEF EnforcedStatus, r, d
  <2>5. r.delta.over = d.over
    BY <2>4 DEF Delta
  <2>6. r.delta.near = d.near
    BY <2>4 DEF Delta
  <2>7. ~(r.code = OK) /\ ~(info.after <= info.limit)
    BY <1>1, <1>3, <2>3 DEF OK, OVER_LIMIT
  <2> QED BY <2>1, <2>2, <2>5, <2>6, <2>7, Zenon DEF r
<1>4. CASE ~(info.after > info.limit)
  <2>1. Excess(info.after, info.limit) = 0 /\ Excess(info.before, info.limit) = 0
    BY <1>1, <1>4 DEF Excess, Larger
  <2>2. checkNearLimitThreshold(info, hits)
          = NearPart(info.after, info.limit) - NearPart(info.before, info.limit)
    BY <1>1, <1>2, <1>4 DEF checkNearLimitThreshold, Excess, NearPart, Larger, near
  <2>3. r.code = OK
    BY <1>4 DEF EnforcedStatus, r
  <2>4. r.delta
          = Delta(0, checkNearLimitThreshold(info, hits), hits, 0)
    BY <1>4 DEF EnforcedStatus, r
  <2>5. r.delta.over = 0
    BY <2>4 DEF Delta
  <2>6. r.delta.near = checkNearLimitThreshold(info, hits)
    BY <2>4 DEF Delta
  <2>7. info.after <= info.limit
    BY <1>1, <1>4
  <2>8. 0 = Excess(info.after, info.limit) - Excess(info.before, info.limit)
    BY <2>1
  <2> QED BY <2>2, <2>3, <2>5, <2>6, <2>7, <2>8, Zenon DEF r
<1> QED BY <1>3, <1>4, Zenon DEF r

-----------------------------------------------------------------------------
(* The two parts of IInv *)

KeyOf(q, i) == <<q.req[i].d, BucketStart(q.req[i].d, q.t)>>

\* The part of IInv that is about a caller at p with local variables q.
CallInv(q, p, n, tl) ==
  /\ q.req \in Requests \cup {<<>>}
  /\ q \in CallOf(q.req)
  /\ q.t <= n
  /\ p # "idle" => q.req \in Requests
  /\ p \in {"lookup", "incr", "respond"} => q.i \in 1 .. Len(q.req)
  /\ \A i \in q.sent \cup q.later :
       /\ q.req[i].d # Unmatched
       /\ q.op = "incr" => WindowEnd(q.req[i].d, q.t) <= n + q.ttl[i]
  /\ p \in {"incr", "respond"} => q.op = "incr"
  /\ \A i \in 1 .. Len(q.req) :
       q.op = "incr" /\ q.req[i].d # Unmatched /\ ~q.req[i].neg
         => q.reply[i] <= tl[KeyOf(q, i)].chg

\* The part of IInv that is about a key with counter ctr and history tl.
KeyInv(k, ctr, tl, n) ==
  /\ ctr \in Counter
  /\ tl \in [adm : Nat, ref : Nat, chg : Nat]
  /\ ctr.live /\ ctr.exp # NoTTL => End(k) <= ctr.exp
  /\ n < End(k) => tl.adm <= GET(ctr) + tl.ref
  /\ GET(ctr) <= tl.chg
  /\ tl.adm <= MaxLimit[k[1]] + tl.ref

PcType == {"idle", "lookup", "decide", "get", "incr", "respond", "done", "error"}

StatsType == [total : Nat, totalNegative : Nat, over : Nat, near : Nat,
              within : Nat, overLocal : Nat, shadow : Nat]

LocalInv(lc, tl) ==
  /\ lc \in [Instances -> [Keys -> Nat]]
  /\ \A inst \in Instances, k \in Keys :
       lc[inst][k] # 0 => \E l \in Limits[k[1]] : l < tl[k].chg

\* A call record and its request, field by field.
LEMMA CallFields ==
  ASSUME NEW req, NEW q \in CallOf(req)
  PROVE  /\ q.req = req /\ q.t \in Time /\ q.i \in 1 .. Len(req) + 1
         /\ q.op \in {"none", "get", "incr"}
         /\ q.over \in [1 .. Len(req) -> BOOLEAN] /\ q.near \in [1 .. Len(req) -> BOOLEAN]
         /\ q.reply \in [1 .. Len(req) -> Nat] /\ q.ttl \in [1 .. Len(req) -> Nat]
         /\ q.charge \in [1 .. Len(req) -> Nat]
         /\ q.code \in [1 .. Len(req) -> {"none", OK, OVER_LIMIT}]
         /\ q.sent \subseteq 1 .. Len(req) /\ q.later \subseteq 1 .. Len(req)
         /\ q.half \in BOOLEAN
BY Zenon DEF CallOf

\* The updates DoLimit makes to its local variables keep their types.
LEMMA CallUpdates ==
  ASSUME NEW req, NEW q \in CallOf(req)
  PROVE  /\ \A i \in 1 .. Len(req) + 1, ov \in [1 .. Len(req) -> BOOLEAN] :
              [q EXCEPT !.i = i, !.over = ov] \in CallOf(req)
         /\ \A i \in 1 .. Len(req) + 1, f \in [1 .. Len(req) -> {"none", OK, OVER_LIMIT}] :
              [q EXCEPT !.i = i, !.code = f] \in CallOf(req)
         /\ \A f \in [1 .. Len(req) -> {"none", OK, OVER_LIMIT}] :
              [q EXCEPT !.code = f] \in CallOf(req)
         /\ \A S, T \in SUBSET (1 .. Len(req)) :
              /\ [q EXCEPT !.op = "get", !.sent = S, !.later = T] \in CallOf(req)
              /\ [q EXCEPT !.sent = S, !.later = T] \in CallOf(req)
              /\ [q EXCEPT !.later = T] \in CallOf(req)
         /\ \A S \in SUBSET (1 .. Len(req)), f \in [1 .. Len(req) -> Nat] :
              [q EXCEPT !.reply = f, !.sent = S] \in CallOf(req)
         /\ \A S \in SUBSET (1 .. Len(req)) :
              [q EXCEPT !.half = FALSE, !.sent = S] \in CallOf(req)
         /\ \A f \in [1 .. Len(req) -> Nat] :
              [q EXCEPT !.reply = f, !.half = TRUE] \in CallOf(req)
BY Zenon DEF CallOf

\* Setting up a pipeline keeps the type of a call.
LEMMA SetupUpdate ==
  ASSUME NEW req, NEW q \in CallOf(req), NEW i \in 1 .. Len(req) + 1,
         NEW near \in [1 .. Len(req) -> BOOLEAN],
         NEW S \in SUBSET (1 .. Len(req)), NEW T \in SUBSET (1 .. Len(req)),
         NEW reply \in [1 .. Len(req) -> Nat], NEW ttl \in [1 .. Len(req) -> Nat],
         NEW charge \in [1 .. Len(req) -> Nat]
  PROVE  [q EXCEPT !.i = i, !.op = "incr", !.near = near, !.sent = S, !.later = T,
                   !.reply = reply, !.ttl = ttl, !.charge = charge] \in CallOf(req)
BY Zenon DEF CallOf

\* A call that begins has nothing in its pipelines.
LEMMA NewCallInv ==
  ASSUME NEW req \in Requests \cup {<<>>}, NEW t \in Time, NEW n \in Nat, t <= n,
         NEW p, p \notin {"incr", "respond"}, NEW tl,
         p # "idle" => req \in Requests
  PROVE  CallInv(NewCall(req, t), p, n, tl)
BY RedisCacheAssumption DEF NewCall, CallOf, CallInv

\* A descriptor of a request: its entry, its key and the end of its window.
LEMMA EntryFacts ==
  ASSUME NEW q, q.req \in Requests \cup {<<>>}, q \in CallOf(q.req),
         NEW i \in 1 .. Len(q.req)
  PROVE  /\ Len(q.req) \in Nat /\ q.req \in Requests
         /\ q.req[i].d \in Descriptors \cup {Unmatched}
         /\ q.req[i].limit \in Nat /\ q.req[i].hits \in Nat /\ q.req[i].neg \in BOOLEAN
         /\ q.req[i].d # Unmatched =>
              /\ q.req[i].d \in Descriptors
              /\ q.req[i].limit \in Limits[q.req[i].d]
              /\ q.req[i].limit <= MaxLimit[q.req[i].d]
              /\ KeyOf(q, i) \in Keys /\ KeyOf(q, i)[1] = q.req[i].d
              /\ End(KeyOf(q, i)) = WindowEnd(q.req[i].d, q.t)
              /\ WindowEnd(q.req[i].d, q.t) \in Nat
<1>1. q.req \in Requests /\ q.req \in Seq(Entry)
  BY RedisCacheAssumption
<1>2. q.req[i] \in Entry
  BY <1>1
<1>4. ASSUME q.req[i].d # Unmatched
      PROVE  /\ q.req[i].d \in Descriptors
             /\ q.req[i].limit \in Limits[q.req[i].d]
             /\ q.req[i].limit <= MaxLimit[q.req[i].d]
  BY <1>2, <1>4, RedisCacheAssumption DEF Entry
<1>5. ASSUME q.req[i].d # Unmatched
      PROVE  /\ KeyOf(q, i) \in Keys /\ KeyOf(q, i)[1] = q.req[i].d
             /\ KeyOf(q, i)[2] = BucketStart(q.req[i].d, q.t)
  BY <1>4, <1>5, CallFields DEF KeyOf, Keys
<1>6. ASSUME q.req[i].d # Unmatched
      PROVE  End(KeyOf(q, i)) = WindowEnd(q.req[i].d, q.t) /\ WindowEnd(q.req[i].d, q.t) \in Nat
  BY <1>4, <1>5, <1>6, RedisCacheAssumption, CallFields DEF End
<1> QED BY <1>1, <1>2, <1>4, <1>5, <1>6 DEF Entry

-----------------------------------------------------------------------------

SplitInv ==
  /\ now \in Time
  /\ store \in [Keys -> Counter]
  /\ tally \in [Keys -> [adm : Nat, ref : Nat, chg : Nat]]
  /\ pc \in [Callers -> PcType]
  /\ DOMAIN call = Callers
  /\ stats \in [Descriptors -> StatsType]
  /\ LocalInv(localCache, tally)
  /\ \A c \in Callers : CallInv(call[c], pc[c], now, tally)
  /\ \A k \in Keys : KeyInv(k, store[k], tally[k], now)

\* The invariant split into parts that the lemmas below treat one by one.
LEMMA SplitImpliesIInv == SplitInv => IInv
<1> SUFFICES ASSUME SplitInv PROVE IInv
  BY Zenon
<1>1. ASSUME NEW c \in Callers
      PROVE  /\ CallInv(call[c], pc[c], now, tally)
             /\ call[c].req \in Requests \cup {<<>>}
             /\ call[c] \in CallOf(call[c].req)
             /\ call[c].sent \cup call[c].later \subseteq 1 .. Len(call[c].req)
  BY CallFields, Zenon DEF SplitInv, CallInv
<1>2. ASSUME NEW c \in Callers, NEW i \in Indexes(c)
      PROVE  Key(c, i) = KeyOf(call[c], i)
  BY Zenon DEF Key, KeyOf, Ent
<1>6. PendingTTLReachesEnd
  BY <1>1, EntryFacts, <1>2 DEF PendingTTLReachesEnd, CallInv, Indexes
<1>7. AnswerAccount
  BY <1>1, <1>2, Zenon DEF AnswerAccount, CallInv, Indexes, Counts, Limited, Ent
<1> QED BY <1>6, <1>7, Zenon DEF IInv, SplitInv, TypeOK, CallInv, LocalInv, PcType, StatsType,
           Limited, Ent, Indexes, KeyInv, CounterOutlivesWindow, WindowAccount,
           WindowAdmission, LocalDenialJustified

\* Nothing is charged or admitted yet.
LEMMA SplitInit == Init => SplitInv
<1> SUFFICES ASSUME Init PROVE SplitInv
  BY Zenon
<1>1. 0 \in Time
  BY RedisCacheAssumption DEF Time
<1>2. \A c \in Callers : CallInv(call[c], pc[c], now, tally)
  <2>1. /\ <<>> \in Requests \cup {<<>>} /\ 0 \in Nat /\ 0 <= 0
        /\ "idle" \notin {"incr", "respond"}
    OBVIOUS
  <2>2. CallInv(NewCall(<<>>, 0), "idle", 0, tally)
    BY <1>1, <2>1, NewCallInv, Zenon
  <2> QED BY <2>2, Zenon DEF Init
<1>3. ASSUME NEW k \in Keys PROVE KeyInv(k, NoCounter, NoTally, 0)
  BY RedisCacheAssumption DEF Keys, KeyInv, NoCounter, NoTally, Counter, GET
<1> QED BY <1>1, <1>2, <1>3, Zenon DEF Init, SplitInv, PcType, NoStats, StatsType, NoCounter, Counter,
           NoTally, LocalInv

\* The status of a descriptor: an answer, natural statistics, and the local
\* cache is only written when the counter exceeded the request's limit.
LEMMA StatusFacts ==
  ASSUME SplitInv, NEW c \in Callers, NEW i \in 1 .. Len(call[c].req)
  PROVE  /\ StatusOf(c, i).code \in {"none", OK, OVER_LIMIT}
         /\ StatusOf(c, i).delta \in DeltaType
         /\ StatusOf(c, i).poison =>
              Counts(c, i) /\ call[c].req[i].limit < call[c].reply[i]
<1> DEFINE q == call[c]
<1>1. q.req \in Requests \cup {<<>>} /\ q \in CallOf(q.req)
  BY Zenon DEF SplitInv, CallInv
<1>2. /\ q.req[i].limit \in Nat /\ q.req[i].hits \in Nat /\ q.reply[i] \in Nat
      /\ q.over[i] \in BOOLEAN
  BY <1>1, CallFields, EntryFacts
<1>4. CASE ~Limited(c, i)
  BY <1>4, Zenon DEF StatusOf, UnlimitedStatus, NoDelta, Delta, DeltaType
<1>5. CASE Limited(c, i) /\ Ent(c, i).neg
  BY <1>5, Zenon DEF StatusOf, GetResponseDescriptorStatusForNegativeHits, NoDelta, Delta, DeltaType
<1>6. CASE Limited(c, i) /\ ~Ent(c, i).neg
  <2> DEFINE info == LimitInfo(c, i)
  <2>1. UintSub(q.reply[i], q.req[i].hits) \in Nat
    BY <1>2, BaseLimiterAssumption, SMTT(30) DEF UintSub
  <2>2. info \in LimitInfoType /\ info.limit = q.req[i].limit /\ info.after = q.reply[i]
    BY <1>2, <2>1 DEF LimitInfo, LimitInfoType, Ent
  <2>3. StatusOf(c, i) = GetResponseDescriptorStatus(info, q.over[i], q.req[i].hits)
    BY <1>6, Zenon DEF StatusOf, Ent
  <2> DEFINE st == GetResponseDescriptorStatus(info, q.over[i], q.req[i].hits)
  <2> HIDE DEF info, q
  <2>5. /\ st.code \in {OK, OVER_LIMIT} /\ st.delta \in DeltaType
        /\ st.poison => info.limit < info.after
    BY <1>2, <2>2, StatusType, Zenon
  <2> HIDE DEF st
  <2> QED BY <1>6, <2>2, <2>3, <2>5, Zenon DEF st, q, Counts
<1> QED BY <1>4, <1>5, <1>6, Zenon

-----------------------------------------------------------------------------
(* Redis executes a command on one key *)

\* The end of a key's window and its limit are numbers.
LEMMA KeyFacts ==
  ASSUME NEW k \in Keys
  PROVE  End(k) \in Nat /\ MaxLimit[k[1]] \in Nat
BY RedisCacheAssumption DEF Keys, End

\* What is known of caller c when Redis executes its command h.
LEMMA ExecFacts ==
  ASSUME SplitInv, NEW c \in Callers, NEW h \in Indexes(c), First(c, h)
  PROVE  /\ CallInv(call[c], pc[c], now, tally)
         /\ call[c].req \in Requests /\ call[c] \in CallOf(call[c].req)
         /\ h \in 1 .. Len(call[c].req) /\ h \in call[c].sent
         /\ call[c].req[h].d # Unmatched
         /\ Key(c, h) = KeyOf(call[c], h) /\ Key(c, h) \in Keys
         /\ KeyInv(Key(c, h), store[Key(c, h)], tally[Key(c, h)], now)
         /\ now \in Nat
         /\ call[c].op = "incr" =>
              now + call[c].ttl[h] \in Nat /\ End(Key(c, h)) <= now + call[c].ttl[h]
<1> DEFINE q == call[c]
<1>1. CallInv(q, pc[c], now, tally) /\ h \in q.sent /\ h \in 1 .. Len(q.req)
  BY Zenon DEF SplitInv, First, Indexes
<1>2. q.req \in Requests /\ q \in CallOf(q.req) /\ q.req[h].d # Unmatched
  BY <1>1 DEF CallInv
<1>3. /\ Key(c, h) = KeyOf(q, h) /\ KeyOf(q, h) \in Keys
      /\ End(KeyOf(q, h)) = WindowEnd(q.req[h].d, q.t)
  BY <1>1, <1>2, EntryFacts, Zenon DEF Key, KeyOf, Ent
<1>4. now \in Nat /\ q.ttl[h] \in Nat
  BY <1>2, CallFields, RedisCacheAssumption, <1>1 DEF SplitInv, Time
<1>5. q.op = "incr" => WindowEnd(q.req[h].d, q.t) <= now + q.ttl[h]
  BY <1>1, Zenon DEF CallInv
<1> QED BY <1>1, <1>2, <1>3, <1>4, <1>5 DEF SplitInv

-----------------------------------------------------------------------------
(* The environment *)

-----------------------------------------------------------------------------

\* Every step keeps every part.
LEMMA SplitNext == SplitInv /\ [Next]_vars => SplitInv'
\* Time passes and charges only grow: the part about a caller stays true.
<1>1. ASSUME NEW q, NEW p, NEW n1 \in Nat, NEW n2 \in Nat, n1 <= n2, NEW tl1, NEW tl2,
             \A k \in Keys : tl1[k].chg \in Nat /\ tl2[k].chg \in Nat /\ tl1[k].chg <= tl2[k].chg,
             CallInv(q, p, n1, tl1)
      PROVE  CallInv(q, p, n2, tl2)
  <2> USE <1>1
  <2>1. q.req \in Requests \cup {<<>>} /\ q \in CallOf(q.req)
    BY Zenon DEF CallInv
  <2>3. ASSUME NEW i \in q.sent \cup q.later
        PROVE  /\ q.req[i].d # Unmatched
               /\ q.op = "incr" => WindowEnd(q.req[i].d, q.t) <= n2 + q.ttl[i]
    BY <2>1, <2>3, CallFields, EntryFacts DEF CallInv
  <2>4. ASSUME NEW i \in 1 .. Len(q.req),
               q.op = "incr" /\ q.req[i].d # Unmatched /\ ~q.req[i].neg
        PROVE  q.reply[i] <= tl2[KeyOf(q, i)].chg
    <3>1. KeyOf(q, i) \in Keys /\ q.reply[i] \in Nat
      BY <2>1, <2>4, EntryFacts, CallFields
    <3>2. q.reply[i] <= tl1[KeyOf(q, i)].chg
      BY <2>4, Zenon DEF CallInv
    <3> QED BY <3>1, <3>2
  <2> QED BY <2>3, <2>4, CallFields DEF CallInv, Time
\* A step of one caller that touches neither Redis nor the clock.
<1>2. ASSUME SplitInv, NEW c \in Callers, UNCHANGED <<now, store, tally>>,
             NEW p \in PcType, pc' = [pc EXCEPT ![c] = p],
             NEW q, call' = [call EXCEPT ![c] = q],
             stats' \in [Descriptors -> StatsType],
             LocalInv(localCache', tally),
             CallInv(q, p, now, tally)
      PROVE  SplitInv'
  BY <1>2, Zenon DEF SplitInv
\* Adding a status to the statistics keeps their type.
<1>3. ASSUME stats \in [Descriptors -> StatsType], NEW d \in Descriptors,
             NEW delta \in StatsType, AddStats(d, delta)
      PROVE  stats' \in [Descriptors -> StatsType]
  BY <1>3 DEF AddStats, StatsType
\* GenerateCacheKeys.
<1>4. ASSUME SplitInv, NEW c \in Callers, NEW req \in Requests, Begin(c, req)
      PROVE  SplitInv'
  <2> USE <1>4
  <2>1. now \in Time /\ now \in Nat /\ now <= now
    BY DEF SplitInv, Time
  <2>3. CallInv(NewCall(req, now), "lookup", now, tally)
    BY <2>1, NewCallInv, Zenon
  <2> QED BY <2>3, Zenon DEF SplitInv, Begin, PcType
\* The local-cache lookups.
<1>5. ASSUME SplitInv, NEW c \in Callers, LookUp(c)
      PROVE  SplitInv'
  <2> USE <1>5
  <2> DEFINE q == call[c]
             i == q.i
             b == Counts(c, i) /\ IsOverLimitWithLocalCache(Host[c], Key(c, i))
             ov == [q.over EXCEPT ![i] = b]
             r == [q EXCEPT !.i = i + 1, !.over = ov]
             p == IF i = Len(q.req) THEN "decide" ELSE "lookup"
  <2>1. CallInv(q, "lookup", now, tally) /\ pc[c] = "lookup"
    BY Zenon DEF SplitInv, LookUp
  <2>2. /\ q.req \in Requests \cup {<<>>} /\ q \in CallOf(q.req) /\ i \in 1 .. Len(q.req)
        /\ Len(q.req) \in Nat
    BY <2>1 DEF CallInv
  <2>3. b \in BOOLEAN
    BY Zenon
  <2> HIDE DEF b
  <2>4. r \in CallOf(q.req)
    <3>2. ov \in [1 .. Len(q.req) -> BOOLEAN]
      BY <2>2, <2>3, Zenon, CallFields
    <3> HIDE DEF ov
    <3>3. i + 1 \in 1 .. Len(q.req) + 1
      BY <2>2
    <3> QED BY <2>2, <3>2, <3>3, CallUpdates, Zenon
  <2>5. /\ r.req = q.req /\ r.t = q.t /\ r.i = i + 1 /\ r.op = q.op /\ r.sent = q.sent
        /\ r.later = q.later /\ r.ttl = q.ttl /\ r.reply = q.reply
    OBVIOUS
  <2> HIDE DEF r
  <2>6. CallInv(r, p, now, tally)
    BY <2>1, <2>2, <2>4, <2>5 DEF CallInv, KeyOf
  <2>7. stats' \in [Descriptors -> StatsType]
    <3>1. CASE Limited(c, i)
      <4> DEFINE delta == [NoStats EXCEPT !.total = IF Ent(c, i).neg THEN 0 ELSE Ent(c, i).hits,
                              !.totalNegative = IF Ent(c, i).neg THEN Ent(c, i).hits ELSE 0]
      <4>2. delta \in StatsType
        BY <2>2, Zenon, EntryFacts DEF NoStats, StatsType, Ent
      <4>3. AddStats(Ent(c, i).d, delta)
        BY <3>1, Zenon DEF LookUp
      <4> HIDE DEF delta
      <4> QED BY <2>2, <3>1, <4>2, <4>3, <1>3, EntryFacts, Zenon DEF SplitInv, Ent, Limited
    <3>2. CASE ~Limited(c, i)
      BY <3>2, Zenon DEF LookUp, SplitInv
    <3> QED BY <3>1, <3>2, Zenon
  <2>8. /\ LocalInv(localCache', tally) /\ UNCHANGED <<now, store, tally>>
        /\ pc' = [pc EXCEPT ![c] = p] /\ call' = [call EXCEPT ![c] = r]
        /\ p \in PcType
    BY Zenon DEF SplitInv, LookUp, r, b, PcType
  <2> HIDE DEF p, q, i
  <2> QED BY <2>6, <2>7, <2>8, <1>2, Zenon
\* The pipelines of the GET round.
<1>6. ASSUME SplitInv, NEW c \in Callers, StartGet(c)
      PROVE  SplitInv'
  <2> USE <1>6
  <2> DEFINE q == call[c]
             I == {i \in Indexes(c) : Counts(c, i)}
             S == MainPart(c, I)
             T == PerSecondPart(c, I)
             r == [q EXCEPT !.op = "get", !.sent = S, !.later = T]
  <2>1. CallInv(q, "decide", now, tally)
    BY Zenon DEF SplitInv, StartGet
  <2>3. /\ S \in SUBSET (1 .. Len(q.req)) /\ T \in SUBSET (1 .. Len(q.req))
        /\ \A i \in S \cup T : q.req[i].d # Unmatched
    BY Zenon DEF MainPart, PerSecondPart, Indexes, Counts, Limited, Ent
  <2> HIDE DEF S, T
  <2>4. r \in CallOf(q.req)
    BY <2>1, <2>3, CallUpdates, Zenon DEF CallInv
  <2>5. /\ r.req = q.req /\ r.t = q.t /\ r.op = "get" /\ r.sent = S /\ r.later = T
    OBVIOUS
  <2> HIDE DEF r
  <2>6. CallInv(r, "get", now, tally)
    BY <2>1, <2>3, <2>4, <2>5, Zenon DEF CallInv
  <2>7. /\ stats' \in [Descriptors -> StatsType] /\ LocalInv(localCache', tally)
        /\ UNCHANGED <<now, store, tally>>
        /\ pc' = [pc EXCEPT ![c] = "get"] /\ call' = [call EXCEPT ![c] = r]
        /\ "get" \in PcType
    BY Zenon DEF SplitInv, StartGet, r, S, T, PcType
  <2> HIDE DEF q
  <2> QED BY <2>6, <2>7, <1>2, Zenon
\* The TTL is evaluated now, the key was generated earlier: the assumption on
\* the windows says that the TTL still reaches the end of the key's window.
<1>7. ASSUME SplitInv, NEW c \in Callers, NEW near \in [Indexes(c) -> BOOLEAN],
             SetupPipeline(c, near), pc[c] \in {"decide", "get"}
      PROVE  SplitInv'
  <2> USE <1>7
  <2> DEFINE q == call[c]
             I == PipelineIndexes(c)
             S == MainPart(c, I)
             T == PerSecondPart(c, I)
             N == 1 .. Len(q.req)
             p == IF I = {} THEN "respond" ELSE "incr"
  <2>1. CallInv(q, pc[c], now, tally) /\ pc[c] \in {"decide", "get"}
    BY Zenon DEF SplitInv
  <2>2. q.req \in Requests /\ q \in CallOf(q.req) /\ Indexes(c) = N /\ now \in Time
    BY Zenon DEF CallInv, Indexes, SplitInv
  <2>3. PICK jitter \in [Indexes(c) -> Jitter] :
          /\ pc' = [pc EXCEPT ![c] = p]
          /\ call' = [call EXCEPT
              ![c].i = 1, ![c].op = "incr", ![c].near = near,
              ![c].sent = S, ![c].later = T,
              ![c].reply = [i \in Indexes(c) |-> 0],
              ![c].ttl = [i \in Indexes(c) |->
                 IF i \in I THEN TTL(Ent(c, i).d, jitter[i]) ELSE 0],
              ![c].charge = [i \in Indexes(c) |->
                 IF i \in I
                 THEN getHitsAddendValue(Ent(c, i).hits, AnyOver(c),
                                         \E j \in Indexes(c) : near[j], near[i])
                 ELSE 0]]
          /\ UNCHANGED <<now, store, localCache, stats, tally>>
    BY Zenon DEF SetupPipeline
  <2> DEFINE ttl == [i \in Indexes(c) |->
                       IF i \in I THEN TTL(Ent(c, i).d, jitter[i]) ELSE 0]
             charge == [i \in Indexes(c) |->
                 IF i \in I
                 THEN getHitsAddendValue(Ent(c, i).hits, AnyOver(c),
                                         \E j \in Indexes(c) : near[j], near[i])
                 ELSE 0]
             reply == [i \in Indexes(c) |-> 0]
             r == [q EXCEPT !.i = 1, !.op = "incr", !.near = near, !.sent = S, !.later = T,
                            !.reply = reply, !.ttl = ttl, !.charge = charge]
  <2>4. /\ S \in SUBSET N /\ T \in SUBSET N /\ S \cup T \subseteq I
        /\ I \subseteq N /\ \A i \in I : q.req[i].d # Unmatched
    BY <2>2, Zenon DEF MainPart, PerSecondPart, PipelineIndexes, Limited, Ent
  <2>5. ASSUME NEW i \in I
        PROVE  /\ TTL(Ent(c, i).d, jitter[i]) \in Nat
               /\ WindowEnd(q.req[i].d, q.t) <= now + TTL(Ent(c, i).d, jitter[i])
    <3>1. q.req[i].d \in Descriptors /\ Ent(c, i) = q.req[i] /\ WindowEnd(q.req[i].d, q.t) \in Nat
      BY <2>2, <2>4, EntryFacts, Zenon DEF Ent
    <3>2. jitter[i] \in Nat
      BY <2>2, <2>4, RedisCacheAssumption, Zenon
    <3>3. q.t \in 0 .. now /\ now \in Nat
      BY <2>1, <2>2, CallFields DEF CallInv, Time
    <3>4. /\ ExpirationSeconds(q.req[i].d, now) \in Nat
          /\ WindowEnd(q.req[i].d, q.t) <= now + ExpirationSeconds(q.req[i].d, now)
      BY <2>2, <3>1, <3>3, RedisCacheAssumption, Zenon
    <3> QED BY <3>1, <3>2, <3>3, <3>4 DEF TTL
  <2>6. ttl \in [N -> Nat]
    BY <2>2, <2>5, Zenon
  <2>7. charge \in [N -> Nat]
    BY <2>2, EntryFacts, Zenon DEF Ent, getHitsAddendValue
  <2>8. reply \in [N -> Nat]
    BY <2>2, Zenon
  <2>9. \A i \in I : ttl[i] = TTL(Ent(c, i).d, jitter[i])
    BY <2>2, <2>4, Zenon
  <2>10. \A i \in N : reply[i] = 0
    BY <2>2, Zenon
  <2>11. call' = [call EXCEPT ![c] = r]
    BY <2>3, Zenon
  <2> HIDE DEF ttl, charge, reply, S, T, I
  <2>12. 1 \in N /\ near \in [N -> BOOLEAN] /\ Len(q.req) \in Nat
    BY <2>2, RedisCacheAssumption
  <2>13. r \in CallOf(q.req)
    <3>1. 1 \in 1 .. Len(q.req) + 1
      OBVIOUS
    <3>2. /\ q \in CallOf(q.req) /\ near \in [1 .. Len(q.req) -> BOOLEAN]
          /\ S \in SUBSET (1 .. Len(q.req)) /\ T \in SUBSET (1 .. Len(q.req))
          /\ reply \in [1 .. Len(q.req) -> Nat] /\ ttl \in [1 .. Len(q.req) -> Nat]
          /\ charge \in [1 .. Len(q.req) -> Nat]
      BY <2>2, <2>4, <2>6, <2>7, <2>8, <2>12, Zenon
    <3> HIDE DEF q
    <3> QED BY <3>1, <3>2, SetupUpdate, ZenonT(30)
  <2>14. /\ r.req = q.req /\ r.t = q.t /\ r.i = 1 /\ r.op = "incr" /\ r.sent = S /\ r.later = T
         /\ r.ttl = ttl /\ r.reply = reply
    OBVIOUS
  <2> HIDE DEF r
  <2>15. \A i \in r.sent \cup r.later :
           r.req[i].d # Unmatched /\ WindowEnd(r.req[i].d, r.t) <= now + r.ttl[i]
    BY <2>4, <2>5, <2>9, <2>14, Zenon
  <2>16. ASSUME NEW i \in N, q.req[i].d # Unmatched
         PROVE  r.reply[i] <= tally[KeyOf(r, i)].chg
    <3>2. tally[KeyOf(r, i)].chg \in Nat
      BY <2>2, <2>14, <2>16, EntryFacts, Zenon DEF SplitInv, KeyOf
    <3> QED BY <2>10, <2>14, <3>2
  <2>17. CallInv(r, p, now, tally)
    BY <2>1, <2>12, <2>13, <2>14, <2>15, <2>16, Zenon DEF CallInv
  <2>18. /\ stats' \in [Descriptors -> StatsType] /\ LocalInv(localCache', tally)
         /\ UNCHANGED <<now, store, tally>> /\ pc' = [pc EXCEPT ![c] = p] /\ p \in PcType
    BY <2>3, Zenon DEF SplitInv, PcType
  <2> HIDE DEF p, q
  <2> QED BY <2>11, <2>17, <2>18, <1>2, Zenon
\* The pipelines of INCRBY and EXPIRE.
<1>8. ASSUME SplitInv, NEW c \in Callers, Build(c) \/ BuildAfterGet(c)
      PROVE  SplitInv'
  BY <1>8, CallFields, <1>7, Zenon DEF SplitInv, CallInv, Indexes, Build, BuildAfterGet
\* Steps that only move indexes between the pipelines, or drop them.
<1>9. ASSUME SplitInv, NEW c \in Callers, SendPerSecond(c) \/ GiveUp(c)
      PROVE  SplitInv'
  <2> USE <1>9
  <2> DEFINE q == call[c]
  <2>1. CallInv(q, pc[c], now, tally)
    BY Zenon DEF SplitInv
  <2>2. /\ q.req \in Requests \cup {<<>>} /\ q \in CallOf(q.req)
        /\ q.later \in SUBSET (1 .. Len(q.req)) /\ {} \in SUBSET (1 .. Len(q.req))
    BY <2>1, CallFields, Zenon DEF CallInv
  <2>3. CASE SendPerSecond(c)
    <3> DEFINE r == [q EXCEPT !.sent = q.later, !.later = {}]
    <3>1. r \in CallOf(q.req)
      BY <2>2, CallUpdates, Zenon
    <3>2. /\ r.req = q.req /\ r.t = q.t /\ r.op = q.op /\ r.sent = q.later /\ r.later = {}
          /\ r.ttl = q.ttl /\ r.reply = q.reply /\ r.i = q.i
      OBVIOUS
    <3>3. /\ UNCHANGED <<now, store, tally>> /\ call' = [call EXCEPT ![c] = r]
          /\ pc' = [pc EXCEPT ![c] = pc[c]] /\ pc[c] \in PcType
          /\ stats' \in [Descriptors -> StatsType] /\ LocalInv(localCache', tally)
      BY <2>3, Zenon DEF SplitInv, SendPerSecond
    <3> HIDE DEF r
    <3>4. CallInv(r, pc[c], now, tally)
      BY <2>1, <3>1, <3>2, Zenon DEF CallInv, KeyOf
    <3> HIDE DEF q
    <3> QED BY <3>3, <3>4, <1>2, Zenon
  <2>4. CASE GiveUp(c)
    <3> DEFINE r == [q EXCEPT !.later = {}]
    <3>1. r \in CallOf(q.req)
      BY <2>2, CallUpdates, Zenon
    <3>2. /\ r.req = q.req /\ r.t = q.t /\ r.op = q.op /\ r.sent = q.sent /\ r.later = {}
          /\ r.ttl = q.ttl /\ r.reply = q.reply /\ r.i = q.i
      OBVIOUS
    <3>3. /\ UNCHANGED <<now, store, tally>> /\ call' = [call EXCEPT ![c] = r]
          /\ pc' = [pc EXCEPT ![c] = "error"] /\ "error" \in PcType
          /\ stats' \in [Descriptors -> StatsType] /\ LocalInv(localCache', tally)
      BY <2>4, Zenon DEF SplitInv, GiveUp, PcType
    <3> HIDE DEF r
    <3>5. CallInv(r, "error", now, tally)
      BY <2>1, <2>4, <3>1, <3>2, Zenon DEF CallInv, KeyOf, GiveUp, Waiting
    <3> HIDE DEF q
    <3> QED BY <3>3, <3>5, <1>2, Zenon
  <2> QED BY <2>3, <2>4, Zenon
\* A pipeline has been answered.
<1>10. ASSUME SplitInv, NEW c \in Callers, Reply(c)
       PROVE  SplitInv'
  <2> USE <1>10
  <2>2. CallInv(call[c], "respond", now, tally)
    BY Zenon DEF CallInv, SplitInv, Reply
  <2> QED BY <2>2, Zenon DEF SplitInv, Reply, PcType
\* The rest of a pipeline is lost.
<1>11. ASSUME SplitInv, NEW c \in Callers, PipelineFails(c)
       PROVE  SplitInv'
  <2> USE <1>11
  <2> DEFINE q == call[c]
  <2>1. CallInv(q, pc[c], now, tally) /\ pc[c] # "idle"
    BY Zenon DEF SplitInv, PipelineFails, Waiting
  <2>2. q.req \in Requests /\ q.t \in Time /\ q.t <= now /\ now \in Nat
    BY <2>1, CallFields, RedisCacheAssumption DEF CallInv, SplitInv, Time
  <2>4. CallInv(NewCall(q.req, q.t), "error", now, tally)
    BY <2>2, NewCallInv, Zenon
  <2>5. /\ UNCHANGED <<now, store, tally>>
        /\ call' = [call EXCEPT ![c] = NewCall(q.req, q.t)]
        /\ pc' = [pc EXCEPT ![c] = "error"]
        /\ stats' \in [Descriptors -> StatsType] /\ LocalInv(localCache', tally)
    BY Zenon DEF SplitInv, PipelineFails
  <2> HIDE DEF q
  <2> QED BY <2>4, <2>5, <1>2, Zenon DEF PcType
\* One status, with its statistics and its local-cache write.
<1>12. ASSUME SplitInv, NEW c \in Callers, Respond(c)
       PROVE  SplitInv'
  <2> USE <1>12
  <2> DEFINE q == call[c]
             i == q.i
             st == StatusOf(c, i)
             f == [q.code EXCEPT ![i] = st.code]
             last == i = Len(q.req)
             r == IF last THEN [NewCall(q.req, q.t) EXCEPT !.code = f]
                  ELSE [q EXCEPT !.i = i + 1, !.code = f]
             p == IF last THEN "done" ELSE "respond"
  <2>1. CallInv(q, "respond", now, tally) /\ pc[c] = "respond"
    BY Zenon DEF SplitInv, Respond
  <2>2. /\ q.req \in Requests /\ q \in CallOf(q.req) /\ i \in 1 .. Len(q.req)
        /\ Len(q.req) \in Nat /\ q.op = "incr"
    BY <2>1, EntryFacts, Zenon DEF CallInv
  <2>3. /\ st.code \in {"none", OK, OVER_LIMIT} /\ st.delta \in DeltaType
        /\ st.poison => Counts(c, i) /\ q.req[i].limit < q.reply[i]
    BY <2>2, StatusFacts, Zenon
  <2>4. f \in [1 .. Len(q.req) -> {"none", OK, OVER_LIMIT}]
    BY <2>2, <2>3, CallFields, Zenon
  <2>5. pc' = [pc EXCEPT ![c] = p] /\ call' = [call EXCEPT ![c] = r] /\ p \in PcType
    BY Zenon DEF Respond, PcType
  <2>6. CallInv(r, p, now, tally)
    <3>1. CASE last
      <4> DEFINE z == NewCall(q.req, q.t)
      <4>1. q.t \in Time /\ q.t <= now /\ now \in Nat
        BY <2>1, <2>2, CallFields, RedisCacheAssumption DEF CallInv, SplitInv, Time
      <4>2. CallInv(z, "done", now, tally)
        BY <2>2, <4>1, NewCallInv, Zenon
      <4>3. z.req = q.req /\ z.t = q.t
        BY Zenon DEF NewCall
      <4> HIDE DEF z, f
      <4>5. [z EXCEPT !.code = f] \in CallOf(q.req)
        BY <2>4, <4>2, <4>3, CallUpdates, Zenon DEF CallInv
      <4>6. r = [z EXCEPT !.code = f] /\ p = "done"
        BY <3>1, Zenon DEF z
      <4> HIDE DEF r, p
      <4>7. /\ r.req = z.req /\ r.t = z.t /\ r.op = z.op /\ r.sent = z.sent
            /\ r.later = z.later /\ r.ttl = z.ttl /\ r.reply = z.reply
        BY <4>6
      <4> QED BY <4>2, <4>3, <4>5, <4>6, <4>7, Zenon DEF CallInv, KeyOf
    <3>2. CASE ~last
      <4> HIDE DEF f
      <4>1. r = [q EXCEPT !.i = i + 1, !.code = f] /\ p = "respond" /\ i + 1 \in 1 .. Len(q.req)
        BY <2>2, <3>2
      <4>2. i + 1 \in 1 .. Len(q.req) + 1
        BY <2>2
      <4> HIDE DEF r, p
      <4>3. r \in CallOf(q.req)
        BY <2>2, <2>4, <4>1, <4>2, CallUpdates, Zenon
      <4>4. /\ r.req = q.req /\ r.t = q.t /\ r.op = q.op /\ r.sent = q.sent /\ r.i = i + 1
            /\ r.later = q.later /\ r.ttl = q.ttl /\ r.reply = q.reply
        BY <4>1
      <4> QED BY <2>1, <4>1, <4>3, <4>4, Zenon DEF CallInv, KeyOf
    <3> QED BY <3>1, <3>2, Zenon
  <2>7. stats' \in [Descriptors -> StatsType]
    BY <2>2, EntryFacts, <2>3, <1>3, Zenon DEF Ent, Limited, Respond, NoStats, StatsType, DeltaType,
       SplitInv
  <2>8. LocalInv(localCache', tally)
    <3>1. CASE LocalCacheEnabled /\ st.poison
      <4> DEFINE k == KeyOf(q, i)
                 v == now + ExpirationSeconds(q.req[i].d, now)
      <4>1. localCache' = [localCache EXCEPT ![Host[c]][k] = v]
        BY <3>1, Zenon DEF Respond, Key, KeyOf, Ent
      <4>3. /\ k \in Keys /\ k[1] = q.req[i].d /\ q.req[i].d \in Descriptors
            /\ q.req[i].limit \in Limits[k[1]] /\ q.req[i].limit \in Nat
        BY <2>2, <2>3, <3>1, EntryFacts, Zenon DEF Counts, Limited, Ent
      <4>4. v \in Nat /\ Host[c] \in Instances
        BY <4>3, RedisCacheAssumption DEF SplitInv, Time
      <4>5. q.req[i].limit < tally[k].chg
        <5>1. q.reply[i] <= tally[k].chg /\ q.req[i].limit < q.reply[i]
          BY <2>1, <2>3, <3>1, Zenon DEF CallInv, Counts, Limited, Ent
        <5>2. q.reply[i] \in Nat /\ tally[k].chg \in Nat
          BY <2>2, <4>3, CallFields DEF SplitInv
        <5> QED BY <4>3, <5>1, <5>2
      <4> HIDE DEF k, v, q
      <4> QED BY <4>1, <4>3, <4>4, <4>5, Zenon DEF LocalInv, SplitInv
    <3>2. CASE ~(LocalCacheEnabled /\ st.poison)
      BY <3>2, Zenon DEF Respond, SplitInv
    <3> QED BY <3>1, <3>2, Zenon
  <2> HIDE DEF p, q, r
  <2> QED BY <2>5, <2>6, <2>7, <2>8, <1>2, Zenon DEF Respond
\* While the window is open the counter holds what was admitted, so an answer
\* within the limit leaves the admitted hits within the limit, too.
<1>13. ASSUME NEW k \in Keys, NEW ctr, NEW tl, NEW n \in Nat, KeyInv(k, ctr, tl, n),
              NEW charge \in Nat, NEW limit \in Nat, limit <= MaxLimit[k[1]],
              NEW new, new = INCRBY(ctr, charge),
              NEW adm, adm = IF n < End(k) /\ new.n <= limit THEN tl.adm + charge ELSE tl.adm
       PROVE  /\ KeyInv(k, new, [adm |-> adm, ref |-> tl.ref, chg |-> tl.chg + charge], n)
              /\ new.n \in Nat /\ new.n <= tl.chg + charge /\ tl.chg <= tl.chg + charge
  BY <1>13, KeyFacts DEF KeyInv, Counter, INCRBY, GET
\* EXPIRE with a time no earlier than the end of the window.
<1>14. ASSUME NEW k \in Keys, NEW ctr, NEW tl, NEW n \in Nat, KeyInv(k, ctr, tl, n),
              NEW at \in Nat, End(k) <= at
       PROVE  KeyInv(k, EXPIRE(ctr, at), tl, n)
  BY <1>14, Zenon DEF KeyInv, Counter, EXPIRE, GET
\* A refund takes no more from the counter than is added to the refunds.
<1>15. ASSUME NEW k \in Keys, NEW ctr, NEW tl, NEW n \in Nat, KeyInv(k, ctr, tl, n),
              NEW hits \in Nat, NEW at \in Nat, End(k) <= at,
              NEW new, new = DecrementScript(ctr, hits, at)
       PROVE  /\ KeyInv(k, new, [adm |-> tl.adm, ref |-> tl.ref + hits, chg |-> tl.chg], n)
              /\ GET(new) \in Nat
  BY <1>15, KeyFacts DEF KeyInv, Counter, DecrementScript, Larger, GET
\* A command on key k that caller c sent.
<1>16. ASSUME SplitInv, NEW c \in Callers, UNCHANGED <<now, localCache, pc, stats>>,
              NEW k \in Keys, NEW ctr, store' = [store EXCEPT ![k] = ctr],
              NEW tl, tally' = [tally EXCEPT ![k] = tl], tally[k].chg <= tl.chg,
              KeyInv(k, ctr, tl, now),
              NEW q, call' = [call EXCEPT ![c] = q], CallInv(q, pc[c], now, tally')
       PROVE  SplitInv'
  <2> USE <1>16
  <2>1. /\ store' \in [Keys -> Counter] /\ tally' \in [Keys -> [adm : Nat, ref : Nat, chg : Nat]]
        /\ now \in Nat
    BY DEF SplitInv, KeyInv, Time
  <2>2. \A j \in Keys : /\ tally[j].chg \in Nat /\ tally'[j].chg \in Nat
                        /\ tally[j].chg <= tally'[j].chg
    BY <2>1 DEF SplitInv
  <2>3. LocalInv(localCache, tally')
    <3> SUFFICES ASSUME NEW inst \in Instances, NEW j \in Keys, localCache[inst][j] # 0
                 PROVE  \E l \in Limits[j[1]] : l < tally'[j].chg
      BY Zenon DEF SplitInv, LocalInv
    <3>1. PICK l \in Limits[j[1]] : l < tally[j].chg
      BY Zenon DEF SplitInv, LocalInv
    <3>2. l \in Nat
      <4>1. PICK d \in Descriptors, t \in Time : j = <<d, BucketStart(d, t)>>
        BY DEF Keys
      <4> QED BY <4>1, RedisCacheAssumption, Zenon
    <3> QED BY <2>2, <3>1, <3>2
  <2>4. ASSUME NEW x \in Callers PROVE CallInv(call'[x], pc[x], now, tally')
    <3>1. CASE x = c
      BY <3>1, Zenon DEF SplitInv
    <3>2. CASE x # c
      <4>1. CallInv(call[x], pc[x], now, tally) /\ call'[x] = call[x] /\ now <= now
        BY <2>1, <3>2 DEF SplitInv
      <4>2. CallInv(call[x], pc[x], now, tally')
        BY <2>1, <2>2, <4>1, <1>1, Zenon
      <4> QED BY <4>2
    <3> QED BY <3>1, <3>2, Zenon
  <2>5. ASSUME NEW j \in Keys PROVE KeyInv(j, store'[j], tally'[j], now)
    BY Zenon DEF SplitInv
  <2> QED BY <2>1, <2>3, <2>4, Zenon DEF SplitInv
\* Redis executes a GET.
<1>17. ASSUME SplitInv, NEW c \in Callers, ExecGet(c)
       PROVE  SplitInv'
  <2> USE <1>17
  <2>1. PICK h \in Indexes(c) :
          /\ call[c].op = "get" /\ First(c, h)
          /\ call' = [call EXCEPT ![c].reply[h] = GET(store[Key(c, h)]), ![c].sent = @ \ {h}]
          /\ UNCHANGED <<now, store, localCache, pc, stats, tally>>
    BY Zenon DEF ExecGet
  <2> DEFINE q == call[c]
             v == GET(store[Key(c, h)])
             f == [q.reply EXCEPT ![h] = v]
             S == q.sent \ {h}
             r == [q EXCEPT !.reply = f, !.sent = S]
  <2>2. /\ CallInv(q, pc[c], now, tally) /\ q \in CallOf(q.req) /\ h \in 1 .. Len(q.req)
        /\ KeyInv(Key(c, h), store[Key(c, h)], tally[Key(c, h)], now)
    BY <2>1, ExecFacts, Zenon
  <2>4. f \in [1 .. Len(q.req) -> Nat] /\ S \in SUBSET (1 .. Len(q.req))
    BY <2>2, CallFields, Zenon DEF KeyInv, Counter, GET
  <2>5. call' = [call EXCEPT ![c] = r]
    BY <2>1, Zenon
  <2> HIDE DEF f, S
  <2>6. r \in CallOf(q.req)
    BY <2>2, <2>4, CallUpdates, Zenon
  <2>7. /\ r.req = q.req /\ r.t = q.t /\ r.i = q.i /\ r.op = q.op /\ r.sent = S
        /\ r.later = q.later /\ r.ttl = q.ttl
    OBVIOUS
  <2> HIDE DEF r
  <2>9. CallInv(r, pc[c], now, tally)
    BY <2>1, <2>2, <2>6, <2>7, Zenon DEF CallInv, S
  <2> HIDE DEF q
  <2> QED BY <2>1, <2>5, <2>9, Zenon DEF SplitInv
\* Redis executes an INCRBY.
<1>18. ASSUME SplitInv, NEW c \in Callers, ExecIncrBy(c)
       PROVE  SplitInv'
  <2> USE <1>18
  <2>1. PICK h \in Indexes(c) :
          LET k == Key(c, h)
              ctr == INCRBY(store[k], call[c].charge[h])
          IN /\ call[c].op = "incr" /\ First(c, h) /\ ~Ent(c, h).neg /\ ~call[c].half
             /\ store' = [store EXCEPT ![k] = ctr]
             /\ call' = [call EXCEPT ![c].reply[h] = ctr.n, ![c].half = TRUE]
             /\ CountCharge(k, call[c].charge[h], Ent(c, h).limit, ctr.n)
             /\ UNCHANGED <<now, localCache, pc, stats>>
    BY Zenon DEF ExecIncrBy
  <2> DEFINE q == call[c]
             k == Key(c, h)
             charge == q.charge[h]
             limit == q.req[h].limit
             ctr == INCRBY(store[k], charge)
             old == tally[k]
             adm == IF now < End(k) /\ ctr.n <= limit THEN old.adm + charge ELSE old.adm
             tl == [adm |-> adm, ref |-> old.ref, chg |-> old.chg + charge]
             f == [q.reply EXCEPT ![h] = ctr.n]
             r == [q EXCEPT !.reply = f, !.half = TRUE]
  <2>2. /\ CallInv(q, pc[c], now, tally) /\ q \in CallOf(q.req) /\ h \in 1 .. Len(q.req)
        /\ q.req \in Requests /\ q.req[h].d # Unmatched
        /\ k = KeyOf(q, h) /\ k \in Keys /\ KeyInv(k, store[k], old, now) /\ now \in Nat
    BY <2>1, ExecFacts, Zenon
  <2>3. charge \in Nat /\ limit \in Nat /\ limit <= MaxLimit[k[1]]
    BY <2>2, CallFields, EntryFacts, SMTT(30)
  <2>4. /\ KeyInv(k, ctr, tl, now)
        /\ ctr.n \in Nat /\ ctr.n <= old.chg + charge /\ old.chg <= old.chg + charge
    <3>1. ctr = INCRBY(store[k], charge)
      BY Zenon
    <3>2. adm = IF now < End(k) /\ ctr.n <= limit THEN old.adm + charge ELSE old.adm
      BY Zenon
    <3> HIDE DEF ctr, adm, k, old, charge, limit
    <3> QED BY <2>2, <2>3, <3>1, <3>2, <1>13
  <2>5. old \in [adm : Nat, ref : Nat, chg : Nat]
    BY <2>2, Zenon DEF KeyInv
  <2>6. tally' = [tally EXCEPT ![k] = tl]
    BY <2>1, Zenon DEF CountCharge, Ent
  <2>7. store' = [store EXCEPT ![k] = ctr] /\ UNCHANGED <<now, localCache, pc, stats>>
    BY <2>1, Zenon
  <2>8. tl.chg = old.chg + charge /\ old.chg <= tl.chg
    BY <2>4, Zenon
  <2>9. f \in [1 .. Len(q.req) -> Nat]
    BY <2>2, <2>4, CallFields, Zenon
  <2>10. call' = [call EXCEPT ![c] = r]
    BY <2>1, Zenon
  <2>11. \A i \in 1 .. Len(q.req) : f[i] = IF i = h THEN ctr.n ELSE q.reply[i]
    <3> HIDE DEF ctr, q
    <3> QED BY <2>2, CallFields
  <2> HIDE DEF f, tl, ctr
  <2>12. r \in CallOf(q.req)
    BY <2>2, <2>9, CallUpdates, Zenon
  <2>13. /\ r.req = q.req /\ r.t = q.t /\ r.i = q.i /\ r.op = q.op /\ r.sent = q.sent
         /\ r.later = q.later /\ r.ttl = q.ttl /\ r.reply = f
    OBVIOUS
  <2> HIDE DEF r
  <2>14. ASSUME NEW i \in 1 .. Len(q.req), q.req[i].d # Unmatched, ~q.req[i].neg
         PROVE  f[i] <= tally'[KeyOf(q, i)].chg
    <3>1. CASE i = h
      BY <2>2, <2>6, <2>4, <2>8, <2>11, <3>1, Zenon DEF SplitInv
    <3>2. CASE i # h
      <4>1. q.reply[i] \in Nat /\ q.reply[i] <= tally[KeyOf(q, i)].chg
        BY <2>1, <2>2, <2>14, CallFields DEF CallInv
      <4>2. KeyOf(q, i) \in Keys
        BY <2>2, <2>14, EntryFacts, Zenon
      <4>3. /\ tally[KeyOf(q, i)].chg \in Nat /\ tally'[KeyOf(q, i)].chg \in Nat
            /\ tally[KeyOf(q, i)].chg <= tally'[KeyOf(q, i)].chg
        <5>1. CASE KeyOf(q, i) = k
          BY <2>3, <2>5, <2>6, <2>8, <5>1
        <5>2. CASE KeyOf(q, i) # k
          BY <2>6, <4>2, <5>2 DEF SplitInv
        <5> QED BY <5>1, <5>2, Zenon
      <4> QED BY <2>11, <3>2, <4>1, <4>3
    <3> QED BY <3>1, <3>2, Zenon
  <2>15. CallInv(r, pc[c], now, tally')
    BY <2>2, <2>12, <2>13, <2>14, Zenon DEF CallInv, KeyOf
  <2> HIDE DEF q, k
  <2> QED BY <2>2, <2>4, <2>6, <2>7, <2>10, <2>15, <1>16, Zenon DEF tl
\* Redis executes an EXPIRE.
<1>19. ASSUME SplitInv, NEW c \in Callers, ExecExpire(c)
       PROVE  SplitInv'
  <2> USE <1>19
  <2>1. PICK h \in Indexes(c) :
          /\ call[c].op = "incr" /\ First(c, h) /\ call[c].half
          /\ store' = [store EXCEPT ![Key(c, h)] = EXPIRE(@, now + call[c].ttl[h])]
          /\ call' = [call EXCEPT ![c].half = FALSE, ![c].sent = @ \ {h}]
          /\ UNCHANGED <<now, localCache, pc, stats, tally>>
    BY Zenon DEF ExecExpire
  <2> DEFINE q == call[c]
             k == Key(c, h)
             at == now + q.ttl[h]
             ctr == EXPIRE(store[k], at)
             S == q.sent \ {h}
             r == [q EXCEPT !.half = FALSE, !.sent = S]
  <2>2. /\ CallInv(q, pc[c], now, tally) /\ q \in CallOf(q.req) /\ h \in 1 .. Len(q.req)
        /\ k \in Keys /\ KeyInv(k, store[k], tally[k], now) /\ now \in Nat
        /\ at \in Nat /\ End(k) <= at
    BY <2>1, ExecFacts, Zenon
  <2>3. KeyInv(k, ctr, tally[k], now)
    BY <2>2, <1>14, Zenon
  <2>4. /\ store' = [store EXCEPT ![k] = ctr] /\ UNCHANGED <<now, localCache, pc, stats>>
        /\ tally' = [tally EXCEPT ![k] = tally[k]] /\ tally[k].chg <= tally[k].chg
    BY <2>1, <2>2 DEF SplitInv
  <2>5. call' = [call EXCEPT ![c] = r]
    BY <2>1, Zenon
  <2>6. S \in SUBSET (1 .. Len(q.req)) /\ S \subseteq q.sent
    BY <2>2, CallFields, Zenon
  <2> HIDE DEF S, ctr
  <2>7. r \in CallOf(q.req)
    BY <2>2, <2>6, CallUpdates, Zenon
  <2>8. /\ r.req = q.req /\ r.t = q.t /\ r.i = q.i /\ r.op = q.op /\ r.sent = S
        /\ r.later = q.later /\ r.ttl = q.ttl /\ r.reply = q.reply
    OBVIOUS
  <2> HIDE DEF r
  <2>9. CallInv(r, pc[c], now, tally')
    BY <2>1, <2>2, <2>6, <2>7, <2>8, Zenon DEF CallInv, KeyOf
  <2> HIDE DEF q, k
  <2> QED BY <2>2, <2>3, <2>4, <2>5, <2>9, <1>16, Zenon
\* Redis executes the refund script.
<1>20. ASSUME SplitInv, NEW c \in Callers, ExecEval(c)
       PROVE  SplitInv'
  <2> USE <1>20
  <2>1. PICK h \in Indexes(c) :
          LET k == Key(c, h)
              ctr == DecrementScript(store[k], Ent(c, h).hits, now + call[c].ttl[h])
          IN /\ call[c].op = "incr" /\ First(c, h) /\ Ent(c, h).neg
             /\ store' = [store EXCEPT ![k] = ctr]
             /\ call' = [call EXCEPT ![c].reply[h] = GET(ctr), ![c].sent = @ \ {h}]
             /\ tally' = [tally EXCEPT ![k] =
                  [adm |-> @.adm, ref |-> @.ref + Ent(c, h).hits, chg |-> @.chg]]
             /\ UNCHANGED <<now, localCache, pc, stats>>
    BY Zenon DEF ExecEval
  <2> DEFINE q == call[c]
             k == Key(c, h)
             hits == q.req[h].hits
             at == now + q.ttl[h]
             ctr == DecrementScript(store[k], hits, at)
             old == tally[k]
             tl == [adm |-> old.adm, ref |-> old.ref + hits, chg |-> old.chg]
             f == [q.reply EXCEPT ![h] = GET(ctr)]
             S == q.sent \ {h}
             r == [q EXCEPT !.reply = f, !.sent = S]
  <2>2. /\ CallInv(q, pc[c], now, tally) /\ q \in CallOf(q.req) /\ h \in 1 .. Len(q.req)
        /\ q.req \in Requests /\ k \in Keys /\ KeyInv(k, store[k], old, now) /\ now \in Nat
        /\ at \in Nat /\ End(k) <= at
    BY <2>1, ExecFacts, Zenon
  <2>3. hits \in Nat /\ q.req[h].neg
    BY <2>1, <2>2, EntryFacts, Zenon DEF Ent
  <2>4. KeyInv(k, ctr, tl, now) /\ GET(ctr) \in Nat
    <3>1. ctr = DecrementScript(store[k], hits, at)
      BY Zenon
    <3> HIDE DEF ctr, k, old, hits, at
    <3> QED BY <2>2, <2>3, <3>1, <1>15, Zenon
  <2>5. tally' = [tally EXCEPT ![k] = tl]
    BY <2>1, Zenon DEF Ent
  <2>6. store' = [store EXCEPT ![k] = ctr] /\ UNCHANGED <<now, localCache, pc, stats>>
    BY <2>1, Zenon DEF Ent
  <2>7. /\ f \in [1 .. Len(q.req) -> Nat] /\ S \in SUBSET (1 .. Len(q.req)) /\ S \subseteq q.sent
        /\ \A i \in 1 .. Len(q.req) : i # h => f[i] = q.reply[i]
    <3>1. q.reply \in [1 .. Len(q.req) -> Nat] /\ q.sent \subseteq 1 .. Len(q.req)
      BY <2>2, CallFields, Zenon
    <3> HIDE DEF ctr, q
    <3> QED BY <2>4, <3>1, Zenon
  <2>8. call' = [call EXCEPT ![c] = r]
    BY <2>1, Zenon DEF Ent
  <2>9. old.chg \in Nat /\ tl.chg = old.chg /\ old.chg <= tl.chg
    <3>1. old \in [adm : Nat, ref : Nat, chg : Nat]
      BY <2>2, Zenon DEF KeyInv
    <3> HIDE DEF old
    <3> QED BY <3>1
  <2>10. \A j \in Keys : tally'[j].chg = tally[j].chg
    BY <2>5
  <2> HIDE DEF f, tl, ctr, S
  <2>11. r \in CallOf(q.req)
    BY <2>2, <2>7, CallUpdates, Zenon
  <2>12. /\ r.req = q.req /\ r.t = q.t /\ r.i = q.i /\ r.op = q.op /\ r.sent = S
         /\ r.later = q.later /\ r.ttl = q.ttl /\ r.reply = f
    OBVIOUS
  <2> HIDE DEF r
  <2>13. ASSUME NEW i \in 1 .. Len(q.req), q.req[i].d # Unmatched, ~q.req[i].neg
         PROVE  f[i] <= tally'[KeyOf(q, i)].chg
    BY <2>3, <2>13, <2>1, <2>2, EntryFacts, <2>7, <2>10, Zenon DEF CallInv
  <2>14. CallInv(r, pc[c], now, tally')
    BY <2>2, <2>7, <2>11, <2>12, <2>13, Zenon DEF CallInv, KeyOf
  <2> HIDE DEF q, k
  <2> QED BY <2>2, <2>4, <2>5, <2>6, <2>8, <2>9, <2>14, <1>16, Zenon
\* The clock moves; windows end.
<1>21. ASSUME SplitInv, Tick
       PROVE  SplitInv'
  <2> USE <1>21
  <2>1. now \in Nat /\ now' = now + 1 /\ now' \in Time /\ now' \in Nat /\ now <= now'
    BY RedisCacheAssumption DEF SplitInv, Tick, Time
  <2>5. ASSUME NEW k \in Keys PROVE KeyInv(k, store[k], tally[k], now')
    BY KeyFacts, <2>1 DEF SplitInv, KeyInv
  <2> QED BY <2>1, <2>5, <1>1, SMTT(30) DEF SplitInv, Tick, LocalInv
\* A counter that is due has outlived its window.
<1>22. ASSUME SplitInv, NEW k \in Keys, Expire(k)
       PROVE  SplitInv'
  <2> USE <1>22
  <2>1. now \in Nat /\ End(k) \in Nat /\ KeyInv(k, store[k], tally[k], now) /\ MaxLimit[k[1]] \in Nat
    BY KeyFacts DEF SplitInv, Time
  <2>4. NoCounter \in Counter /\ KeyInv(k, NoCounter, tally[k], now)
    BY <2>1 DEF KeyInv, NoCounter, Counter, GET, Expire, Due
  <2> QED BY <2>4, Zenon DEF SplitInv, Expire
\* The local cache forgets a key.
<1>23. ASSUME SplitInv, NEW inst \in Instances, NEW k \in Keys, Evict(inst, k)
       PROVE  SplitInv'
  BY <1>23, Zenon DEF Evict, SplitInv, LocalInv
<1> SUFFICES ASSUME SplitInv, [Next]_vars PROVE SplitInv'
  BY Zenon
<1>24. ASSUME NEW c \in Callers, NEW req \in Requests, Begin(c, req) PROVE SplitInv'
  BY <1>24, <1>4, Zenon
<1>25. ASSUME NEW c \in Callers, CallerStep(c) PROVE SplitInv'
  BY <1>25, <1>5, <1>6, <1>8, <1>9, <1>10, <1>12, Zenon DEF CallerStep
<1>26. ASSUME NEW c \in Callers, RedisStep(c) PROVE SplitInv'
  BY <1>26, <1>17, <1>18, <1>19, <1>20, Zenon DEF RedisStep
<1>27. ASSUME NEW c \in Callers, GiveUp(c) \/ PipelineFails(c) PROVE SplitInv'
  BY <1>27, <1>9, <1>11, Zenon
<1>28. CASE Environment
  BY <1>28, <1>21, <1>22, <1>23, Zenon DEF Environment
<1>29. CASE UNCHANGED vars
  BY <1>29, Zenon DEF vars, SplitInv
<1> QED BY <1>24, <1>25, <1>26, <1>27, <1>28, <1>29, Zenon DEF Next, Terminated

\* IInv is an invariant of every instance: any number of callers, instances,
\* rules, limits and requests, and any windows that meet the assumption.
THEOREM Invariance == Spec => []IInv
BY SplitInit, SplitNext, SplitImpliesIInv, PTL DEF Spec

\* The local variables, counters and statistics of DoLimit keep their types.
THEOREM TypeCorrect == Spec => []TypeOK
<1>1. IInv => TypeOK
  BY Zenon DEF IInv
<1> QED BY <1>1, Invariance, PTL

\* No window admits more hits than its limit plus its refunds, whichever calls
\* interleave, give up or break (DoLimit).
THEOREM AdmissionSafe == Spec => []WindowAdmission
<1>1. IInv => WindowAdmission
  BY Zenon DEF IInv
<1> QED BY <1>1, Invariance, PTL

\* Redis never drops a counter before its window ends (EXPIRE, the script).
THEOREM CountersOutlive == Spec => []CounterOutlivesWindow
<1>1. IInv => CounterOutlivesWindow
  BY Zenon DEF IInv
<1> QED BY <1>1, Invariance, PTL

\* The local cache never denies a window that stayed within every limit its
\* rule had (GetResponseDescriptorStatus, IsOverLimitWithLocalCache).
THEOREM LocalDenialSafe == Spec => []LocalDenialJustified
<1>1. IInv => LocalDenialJustified
  BY Zenon DEF IInv
<1> QED BY <1>1, Invariance, PTL

-----------------------------------------------------------------------------
(* The control state of a call *)

\* The descriptor adds hits.
CountsIn(q, i) == q.req[i].d # Unmatched /\ ~q.req[i].neg

\* Redis executed the INCRBY, or the script, of descriptor i.
Executed(q, i) ==
  i \notin q.later /\ (i \notin q.sent \/ (q.half /\ \A j \in q.sent : i <= j))

Denied(q) == \E j \in 1 .. Len(q.req) : q.over[j]

\* The control state of a caller at p with local variables q.  A charge differs
\* from the hits only when a descriptor of the request is over its limit.
ControlInv(q, p) ==
  LET I == 1 .. Len(q.req) IN
  /\ p = "idle" => q.req = <<>>
  /\ p \in {"idle", "lookup", "decide", "done"} => q.op = "none"
  /\ p \in {"idle", "lookup", "decide"} => \A i \in I : ~q.near[i]
  /\ p = "get" => q.op = "get"
  /\ p = "incr" => q.i = 1
  /\ p = "respond" => q.sent = {} /\ q.later = {}
  /\ q.op = "none" => q.sent = {} /\ q.later = {}
  /\ q.op = "get" => ~Denied(q)
  /\ q.half => q.op = "incr" /\ \E h \in q.sent : ~q.req[h].neg /\ \A j \in q.sent : h <= j
  /\ q.sent \cap q.later = {}
  /\ \A i \in q.sent \cup q.later : ~q.over[i]
  /\ \A i \in I : q.over[i] => CountsIn(q, i)
  /\ \A i \in I : q.near[i] => CountsIn(q, i) /\ ~Denied(q)
  /\ q.op = "incr" =>
       \A i \in I : CountsIn(q, i) /\ ~q.over[i] /\ q.charge[i] # q.req[i].hits =>
         /\ StopCacheKeyIncrementWhenOverlimit
         /\ Denied(q) \/ ((\E j \in I : q.near[j]) /\ ~q.near[i])
  /\ p \in {"incr", "respond"} =>
       \A i \in I : CountsIn(q, i) /\ ~q.over[i] /\ Executed(q, i) => q.charge[i] <= q.reply[i]
  /\ p \notin {"respond", "done"} => \A i \in I : q.code[i] = "none"
  /\ p = "respond" => \A i \in I :
       IF i < q.i
       THEN CountsIn(q, i) /\ q.req[i].d \notin Shadow =>
              (q.code[i] = OK <=> ~q.over[i] /\ q.reply[i] <= q.req[i].limit)
       ELSE q.code[i] = "none"

\* Redis executes the first command, h, of what caller c sent.  The local
\* variables that no command changes:
SameRest(q, r) ==
  /\ r.req = q.req /\ r.t = q.t /\ r.i = q.i /\ r.op = q.op /\ r.over = q.over
  /\ r.near = q.near /\ r.charge = q.charge /\ r.code = q.code /\ r.later = q.later

Leads(q, h) == h \in 1 .. Len(q.req) /\ h \in q.sent /\ \A j \in q.sent : h <= j

\* What INCRBY answers is no less than the charge, and gives the old counter back.
LEMMA ChargeRead ==
  ASSUME NEW old \in Nat, NEW charge \in Nat
  PROVE  charge <= old + charge /\ (old + charge) - charge = old /\ old \in Int /\ old + charge \in Int
OBVIOUS

\* INCRBY executes the leading command, and no other.
LEMMA IncrExecutes ==
  ASSUME NEW q, NEW r, SameRest(q, r), r.sent = q.sent, ~q.half, r.half,
         NEW h, Leads(q, h)
  PROVE  /\ h \notin q.later => Executed(r, h) /\ ~Executed(q, h)
         /\ \A i \in 1 .. Len(q.req) : i # h => (Executed(r, i) <=> Executed(q, i))
BY DEF Executed, Leads, SameRest

\* EXPIRE completes the leading command: its INCRBY had been executed.
LEMMA ExpireExecutes ==
  ASSUME NEW q, NEW r, SameRest(q, r), NEW h, r.sent = q.sent \ {h}, q.half, ~r.half, Leads(q, h)
  PROVE  \A i \in 1 .. Len(q.req) : Executed(r, i) <=> Executed(q, i)
BY DEF Executed, Leads, SameRest

\* The decrement script lowers the counter, and what it writes has a TTL.
LEMMA DecrementFacts ==
  ASSUME NEW old \in Counter, NEW hits \in Nat, NEW at \in Nat
  PROVE  LET new == DecrementScript(old, hits, at)
         IN GET(new) <= GET(old) /\ (new.live => new.exp # NoTTL)
BY DEF DecrementScript, GET, Larger, Counter, NoTTL

\* A call that gave its pipelines up is in order.
LEMMA ControlFailed ==
  ASSUME NEW r, r.op = "none", r.sent = {}, r.later = {}, ~r.half,
         \A i \in 1 .. Len(r.req) : ~r.over[i] /\ ~r.near[i] /\ r.code[i] = "none"
  PROVE  ControlInv(r, "error")
BY DEF ControlInv, Denied

\* A call that gave up waiting is in order: its first pipeline may still run.
LEMMA ControlGaveUp ==
  ASSUME NEW q, NEW r, NEW p \in {"get", "incr"}, ControlInv(q, p), r.sent = q.sent, r.later = {},
         r.req = q.req, r.op = q.op, r.near = q.near, r.over = q.over, r.code = q.code,
         r.half = q.half, r.charge = q.charge
  PROVE  ControlInv(r, "error")
BY DEF ControlInv, Denied, CountsIn

\* A call that looked one more descriptor up is in order.
LEMMA ControlLookedUp ==
  ASSUME NEW q, NEW r, NEW p \in {"lookup", "decide"}, ControlInv(q, "lookup"),
         r.req = q.req, r.op = q.op, r.near = q.near, r.code = q.code,
         r.sent = q.sent, r.later = q.later, r.half = q.half,
         \A j \in 1 .. Len(q.req) : r.over[j] => q.over[j] \/ CountsIn(q, j)
  PROVE  ControlInv(r, p)
BY DEF ControlInv, Denied, CountsIn, Executed

\* A command of the second round that is due was sent with the hits of its
\* descriptor if that one is near its limit, and it is not executed yet.
LEMMA NearCharge ==
  ASSUME NEW q, NEW p, ControlInv(q, p), q.op = "incr", ~q.half,
         NEW h, Leads(q, h), CountsIn(q, h), q.near[h]
  PROVE  q.charge[h] = q.req[h].hits /\ ~Executed(q, h)
BY SMTT(30) DEF ControlInv, Leads, Executed

\* A call of which Redis executed a command of the second round is in order.
LEMMA ControlCommand ==
  ASSUME NEW q, NEW r, NEW p, ControlInv(q, p), SameRest(q, r), q.op = "incr",
         q.sent # {}, r.sent \subseteq q.sent,
         r.half => \E h \in r.sent : ~q.req[h].neg /\ \A j \in r.sent : h <= j,
         \A i \in 1 .. Len(q.req) : CountsIn(q, i) /\ Executed(r, i) =>
           \/ Executed(q, i) /\ r.reply[i] = q.reply[i]
           \/ q.charge[i] <= r.reply[i]
  PROVE  ControlInv(r, p)
<1>1. p \notin {"idle", "lookup", "decide", "done", "get", "respond"}
  BY Zenon DEF ControlInv
<1>2. Denied(r) <=> Denied(q)
  BY Zenon DEF Denied, SameRest
<1>3. \A i \in 1 .. Len(q.req) : CountsIn(r, i) <=> CountsIn(q, i)
  BY Zenon DEF CountsIn, SameRest
<1> QED BY <1>1, <1>2, <1>3 DEF ControlInv, SameRest

\* The codes of the statuses made so far tell who is over its limit.
CodesInv(q) == \A j \in 1 .. Len(q.req) :
  IF j < q.i
  THEN CountsIn(q, j) /\ q.req[j].d \notin Shadow =>
         (q.code[j] = OK <=> ~q.over[j] /\ q.reply[j] <= q.req[j].limit)
  ELSE q.code[j] = "none"

\* A call that answered one more status is in order.
LEMMA ControlReported ==
  ASSUME NEW q, NEW r, ControlInv(q, "respond"), r.req = q.req, r.op = q.op, r.near = q.near,
         r.over = q.over, r.half = q.half, r.reply = q.reply, r.charge = q.charge,
         r.sent = q.sent, r.later = q.later, CodesInv(r)
  PROVE  ControlInv(r, "respond")
<1>1. Denied(r) <=> Denied(q)
  BY Zenon DEF Denied
<1>2. \A j \in 1 .. Len(q.req) : (CountsIn(r, j) <=> CountsIn(q, j)) /\ (Executed(r, j) <=> Executed(q, j))
  BY Zenon DEF CountsIn, Executed
<1> QED BY <1>1, <1>2 DEF ControlInv, CodesInv

\* A call whose pipelines have been answered is in order.
LEMMA ControlReplied ==
  ASSUME NEW q, ControlInv(q, "incr"), q.sent = {}, q.later = {}
  PROVE  ControlInv(q, "respond")
BY DEF ControlInv

\* A call whose pipelines are built is in order.
LEMMA ControlBuilt ==
  ASSUME NEW r, NEW p \in {"incr", "respond"}, r.op = "incr", r.i = 1, ~r.half, r.sent \cap r.later = {},
         p = "respond" => r.sent = {} /\ r.later = {},
         \A i \in r.sent \cup r.later : ~r.over[i],
         \A i \in 1 .. Len(r.req) :
           /\ r.over[i] => CountsIn(r, i)
           /\ r.near[i] => CountsIn(r, i) /\ ~Denied(r)
           /\ CountsIn(r, i) /\ ~r.over[i] => ~Executed(r, i)
           /\ CountsIn(r, i) /\ ~r.over[i] /\ r.charge[i] # r.req[i].hits =>
                /\ StopCacheKeyIncrementWhenOverlimit
                /\ Denied(r) \/ ((\E j \in 1 .. Len(r.req) : r.near[j]) /\ ~r.near[i])
           /\ r.code[i] = "none"
  PROVE  ControlInv(r, p)
BY DEF ControlInv

-----------------------------------------------------------------------------
(* What each action does to the call it belongs to *)

\* A step of caller c leaves the other callers alone.
OnlyCaller(c) == \A x \in Callers \ {c} : call'[x] = call[x] /\ pc'[x] = pc[x]

\* One caller is updated.
LEMMA OneCaller ==
  ASSUME SplitInv, NEW c \in Callers, NEW r, call' = [call EXCEPT ![c] = r],
         NEW p, pc' = [pc EXCEPT ![c] = p]
  PROVE  OnlyCaller(c) /\ call'[c] = r /\ pc'[c] = p
BY Zenon DEF SplitInv, OnlyCaller

\* What is known of the local variables of a caller.
LEMMA CallerFacts ==
  ASSUME SplitInv, NEW c \in Callers
  PROVE  LET q == call[c] IN
         /\ CallInv(q, pc[c], now, tally)
         /\ q.req \in Requests \cup {<<>>} /\ q \in CallOf(q.req) /\ Len(q.req) \in Nat
         /\ Indexes(c) = 1 .. Len(q.req)
         /\ q.t \in Nat /\ q.i \in 1 .. Len(q.req) + 1
         /\ q.op \in {"none", "get", "incr"}
         /\ q.over \in [1 .. Len(q.req) -> BOOLEAN] /\ q.near \in [1 .. Len(q.req) -> BOOLEAN]
         /\ q.reply \in [1 .. Len(q.req) -> Nat] /\ q.charge \in [1 .. Len(q.req) -> Nat]
         /\ q.code \in [1 .. Len(q.req) -> {"none", OK, OVER_LIMIT}]
         /\ q.sent \subseteq 1 .. Len(q.req) /\ q.later \subseteq 1 .. Len(q.req)
         /\ q.half \in BOOLEAN
         /\ now \in Nat /\ pc[c] \in PcType
         /\ \A i \in q.sent \cup q.later : q.req[i].d # Unmatched
<1> DEFINE q == call[c]
<1>1. CallInv(q, pc[c], now, tally) /\ now \in Time /\ pc[c] \in PcType
  BY Zenon DEF SplitInv
<1>2. q.req \in Requests \cup {<<>>} /\ q \in CallOf(q.req)
  BY <1>1, Zenon DEF CallInv
<1>3. Len(q.req) \in Nat
  OBVIOUS
<1>4. q.t \in Nat /\ now \in Nat
  BY <1>1, <1>2, CallFields DEF Time
<1>5. \A i \in q.sent \cup q.later : q.req[i].d # Unmatched
  BY <1>1, Zenon DEF CallInv
<1> QED BY <1>1, <1>2, <1>3, <1>4, <1>5, CallFields, SMTT(30) DEF Indexes

\* An entry of a call.
LEMMA IndexFacts ==
  ASSUME SplitInv, NEW c \in Callers, NEW i \in 1 .. Len(call[c].req)
  PROVE  LET q == call[c] IN
         /\ q.req \in Requests
         /\ q.req[i].limit \in Nat /\ q.req[i].hits \in Nat /\ q.req[i].neg \in BOOLEAN
         /\ q.over[i] \in BOOLEAN /\ q.near[i] \in BOOLEAN
         /\ q.reply[i] \in Nat /\ q.charge[i] \in Nat
         /\ Ent(c, i) = q.req[i] /\ Key(c, i) = KeyOf(q, i)
         /\ Counts(c, i) = CountsIn(q, i)
         /\ q.req[i].d # Unmatched =>
              /\ q.req[i].d \in Descriptors
              /\ q.req[i].limit \in Limits[q.req[i].d] /\ q.req[i].limit <= MaxLimit[q.req[i].d]
              /\ KeyOf(q, i) \in Keys /\ KeyOf(q, i)[1] = q.req[i].d
              /\ End(KeyOf(q, i)) \in Nat
<1>1. /\ call[c].req \in Requests \cup {<<>>} /\ call[c] \in CallOf(call[c].req)
      /\ call[c].over[i] \in BOOLEAN /\ call[c].near[i] \in BOOLEAN
      /\ call[c].reply[i] \in Nat /\ call[c].charge[i] \in Nat
  BY CallerFacts, Zenon
<1> DEFINE q == call[c]
<1> HIDE DEF q
<1>2. /\ q.req \in Requests
      /\ q.req[i].limit \in Nat /\ q.req[i].hits \in Nat /\ q.req[i].neg \in BOOLEAN
      /\ q.req[i].d # Unmatched =>
           /\ q.req[i].d \in Descriptors
           /\ q.req[i].limit \in Limits[q.req[i].d] /\ q.req[i].limit <= MaxLimit[q.req[i].d]
           /\ KeyOf(q, i) \in Keys /\ KeyOf(q, i)[1] = q.req[i].d
           /\ End(KeyOf(q, i)) \in Nat
  BY <1>1, EntryFacts DEF q
<1> QED BY <1>1, <1>2, Zenon DEF q, Ent, Key, KeyOf, Counts, CountsIn, Limited

\* The local variables of a call that was reset or has just begun.
LEMMA NewCallFields ==
  ASSUME NEW req, Len(req) \in Nat, NEW t
  PROVE  LET r == NewCall(req, t) IN
         /\ r.req = req /\ r.t = t /\ r.i = 1 /\ r.op = "none"
         /\ r.sent = {} /\ r.later = {} /\ ~r.half
         /\ \A i \in 1 .. Len(req) : ~r.over[i] /\ ~r.near[i] /\ r.code[i] = "none"
BY Zenon DEF NewCall

\* GenerateCacheKeys.
LEMMA BeginEffect ==
  ASSUME SplitInv, NEW c \in Callers, NEW req \in Requests, Begin(c, req)
  PROVE  LET r == call'[c] IN
         /\ OnlyCaller(c) /\ pc[c] = "idle" /\ pc'[c] = "lookup"
         /\ r.req = req /\ r.op = "none" /\ r.sent = {} /\ r.later = {} /\ ~r.half
         /\ \A i \in 1 .. Len(req) : ~r.over[i] /\ ~r.near[i] /\ r.code[i] = "none"
         /\ UNCHANGED <<now, store, localCache, stats, tally>>
<1>1. /\ call' = [call EXCEPT ![c] = NewCall(req, now)] /\ pc' = [pc EXCEPT ![c] = "lookup"]
      /\ pc[c] = "idle" /\ UNCHANGED <<now, store, localCache, stats, tally>>
  BY Zenon DEF Begin
<1>2. OnlyCaller(c) /\ call'[c] = NewCall(req, now) /\ pc'[c] = "lookup"
  BY <1>1, OneCaller, Zenon
<1>3. Len(req) \in Nat
  BY RedisCacheAssumption
<1> QED BY <1>1, <1>2, <1>3, NewCallFields

\* The local-cache lookups.
LEMMA LookUpEffect ==
  ASSUME SplitInv, NEW c \in Callers, LookUp(c)
  PROVE  LET q == call[c]
             r == call'[c]
         IN /\ OnlyCaller(c) /\ pc[c] = "lookup" /\ pc'[c] \in {"lookup", "decide"}
            /\ q.i \in 1 .. Len(q.req)
            /\ r.req = q.req /\ r.t = q.t /\ r.op = q.op /\ r.near = q.near
            /\ r.code = q.code /\ r.sent = q.sent /\ r.later = q.later /\ r.half = q.half
            /\ \A j \in 1 .. Len(q.req) : r.over[j] => q.over[j] \/ CountsIn(q, j)
            /\ UNCHANGED <<now, store, localCache, tally>>
<1> DEFINE q == call[c]
           i == q.i
           b == Counts(c, i) /\ IsOverLimitWithLocalCache(Host[c], Key(c, i))
           ov == [q.over EXCEPT ![i] = b]
           r == [q EXCEPT !.i = i + 1, !.over = ov]
           p == IF i = Len(q.req) THEN "decide" ELSE "lookup"
<1>2. q \in CallOf(q.req) /\ i \in 1 .. Len(q.req) /\ q.over \in [1 .. Len(q.req) -> BOOLEAN]
  BY CallerFacts, Zenon DEF CallInv, LookUp
<1>3. b => CountsIn(q, i)
  BY <1>2, IndexFacts, Zenon
<1>4. pc' = [pc EXCEPT ![c] = p] /\ call' = [call EXCEPT ![c] = r]
  BY Zenon DEF LookUp
<1> HIDE DEF b
<1>5. \A j \in 1 .. Len(q.req) : ov[j] => q.over[j] \/ CountsIn(q, j)
  BY <1>3
<1> HIDE DEF ov
<1>6. /\ r.req = q.req /\ r.t = q.t /\ r.op = q.op /\ r.near = q.near
      /\ r.code = q.code /\ r.sent = q.sent /\ r.later = q.later /\ r.half = q.half
      /\ r.over = ov
  OBVIOUS
<1> HIDE DEF r
<1>7. OnlyCaller(c) /\ call'[c] = r /\ pc'[c] = p
  BY <1>4, OneCaller, Zenon
<1> QED BY <1>2, <1>5, <1>6, <1>7, Zenon DEF LookUp

\* The pipelines of the GET round.
LEMMA StartGetEffect ==
  ASSUME SplitInv, NEW c \in Callers, StartGet(c)
  PROVE  LET q == call[c]
             r == call'[c]
         IN /\ OnlyCaller(c) /\ pc[c] = "decide" /\ pc'[c] = "get" /\ ~Denied(q)
            /\ r.req = q.req /\ r.t = q.t /\ r.op = "get" /\ r.near = q.near /\ r.over = q.over
            /\ r.reply = q.reply /\ r.code = q.code /\ r.half = q.half
            /\ r.sent \cup r.later = {i \in 1 .. Len(q.req) : CountsIn(q, i)}
            /\ r.sent \cap r.later = {}
            /\ UNCHANGED <<now, store, localCache, stats, tally>>
<1> DEFINE q == call[c]
           I == {i \in Indexes(c) : Counts(c, i)}
           S == MainPart(c, I)
           T == PerSecondPart(c, I)
           r == [q EXCEPT !.op = "get", !.sent = S, !.later = T]
<1>2. q \in CallOf(q.req) /\ ~Denied(q)
  BY CallerFacts, Zenon DEF Denied, AnyOver, StartGet
<1>6. S \cup T = {i \in 1 .. Len(q.req) : CountsIn(q, i)} /\ S \cap T = {}
  BY CallerFacts, IndexFacts, Zenon DEF MainPart, PerSecondPart
<1>3. pc' = [pc EXCEPT ![c] = "get"] /\ call' = [call EXCEPT ![c] = r]
  BY Zenon DEF StartGet
<1> HIDE DEF S, T
<1>4. /\ r.req = q.req /\ r.t = q.t /\ r.op = "get" /\ r.near = q.near /\ r.over = q.over
      /\ r.reply = q.reply /\ r.code = q.code /\ r.half = q.half
      /\ r.sent = S /\ r.later = T
  OBVIOUS
<1> HIDE DEF r
<1>5. OnlyCaller(c) /\ call'[c] = r /\ pc'[c] = "get"
  BY <1>3, OneCaller, Zenon
<1> QED BY <1>2, <1>4, <1>5, <1>6, Zenon DEF StartGet

\* The pipelines of INCRBY, EXPIRE and the script.
LEMMA SetupEffect ==
  ASSUME SplitInv, NEW c \in Callers, NEW near \in [Indexes(c) -> BOOLEAN],
         SetupPipeline(c, near)
  PROVE  LET q == call[c]
             r == call'[c]
         IN /\ OnlyCaller(c) /\ pc'[c] \in {"incr", "respond"}
            /\ pc'[c] = "respond" => r.sent = {} /\ r.later = {}
            /\ r.req = q.req /\ r.t = q.t /\ r.i = 1 /\ r.op = "incr" /\ r.near = near
            /\ r.over = q.over /\ r.code = q.code /\ r.half = q.half
            /\ r.sent \cup r.later
                 = {i \in 1 .. Len(q.req) : q.req[i].d # Unmatched /\ ~q.over[i]}
            /\ r.sent \cap r.later = {}
            /\ \A i \in 1 .. Len(q.req) :
                 /\ r.reply[i] = 0
                 /\ CountsIn(q, i) /\ ~q.over[i] /\ r.charge[i] # q.req[i].hits =>
                      /\ StopCacheKeyIncrementWhenOverlimit
                      /\ Denied(q) \/ ((\E j \in 1 .. Len(q.req) : near[j]) /\ ~near[i])
            /\ UNCHANGED <<now, store, localCache, stats, tally>>
<1> DEFINE q == call[c]
           I == PipelineIndexes(c)
           S == MainPart(c, I)
           T == PerSecondPart(c, I)
           p == IF I = {} THEN "respond" ELSE "incr"
<1>1. PICK jitter \in [Indexes(c) -> Jitter] :
        /\ pc' = [pc EXCEPT ![c] = p]
        /\ call' = [call EXCEPT
            ![c].i = 1, ![c].op = "incr", ![c].near = near,
            ![c].sent = S, ![c].later = T,
            ![c].reply = [i \in Indexes(c) |-> 0],
            ![c].ttl = [i \in Indexes(c) |->
               IF i \in I THEN TTL(Ent(c, i).d, jitter[i]) ELSE 0],
            ![c].charge = [i \in Indexes(c) |->
               IF i \in I
               THEN getHitsAddendValue(Ent(c, i).hits, AnyOver(c),
                                       \E j \in Indexes(c) : near[j], near[i])
               ELSE 0]]
        /\ UNCHANGED <<now, store, localCache, stats, tally>>
  BY Zenon DEF SetupPipeline
<1> DEFINE ttl == [i \in Indexes(c) |->
                     IF i \in I THEN TTL(Ent(c, i).d, jitter[i]) ELSE 0]
           charge == [i \in Indexes(c) |->
               IF i \in I
               THEN getHitsAddendValue(Ent(c, i).hits, AnyOver(c),
                                       \E j \in Indexes(c) : near[j], near[i])
               ELSE 0]
           reply == [i \in Indexes(c) |-> 0]
           r == [q EXCEPT !.i = 1, !.op = "incr", !.near = near, !.sent = S, !.later = T,
                          !.reply = reply, !.ttl = ttl, !.charge = charge]
<1>2. q \in CallOf(q.req) /\ Indexes(c) = 1 .. Len(q.req)
  BY CallerFacts, Zenon
<1>3. /\ S \cup T = I /\ S \cap T = {}
      /\ I = {i \in 1 .. Len(q.req) : q.req[i].d # Unmatched /\ ~q.over[i]}
  BY <1>2, Zenon DEF MainPart, PerSecondPart, PipelineIndexes, Limited, Ent
<1>4. ASSUME NEW i \in 1 .. Len(q.req), CountsIn(q, i), ~q.over[i], charge[i] # q.req[i].hits
      PROVE  /\ StopCacheKeyIncrementWhenOverlimit
             /\ Denied(q) \/ ((\E j \in 1 .. Len(q.req) : near[j]) /\ ~near[i])
  BY <1>3, <1>4, <1>2, Zenon DEF CountsIn, Ent, AnyOver, Denied, getHitsAddendValue
<1>5. \A i \in 1 .. Len(q.req) : reply[i] = 0
  BY <1>2, Zenon
<1>6. call' = [call EXCEPT ![c] = r]
  BY <1>1, Zenon
<1> HIDE DEF S, T, I, ttl, charge, reply
<1>7. /\ r.req = q.req /\ r.t = q.t /\ r.i = 1 /\ r.op = "incr" /\ r.near = near
      /\ r.over = q.over /\ r.code = q.code /\ r.half = q.half
      /\ r.sent = S /\ r.later = T /\ r.reply = reply /\ r.charge = charge
  OBVIOUS
<1> HIDE DEF r
<1>8. OnlyCaller(c) /\ call'[c] = r /\ pc'[c] = p
  BY <1>1, <1>6, OneCaller, Zenon
<1>9. p = "respond" => S = {} /\ T = {}
  BY <1>3, Zenon
<1>10. p \in {"incr", "respond"} /\ UNCHANGED <<now, store, localCache, stats, tally>>
  BY <1>1, Zenon
<1> HIDE DEF p
<1> QED BY <1>3, <1>4, <1>5, <1>7, <1>8, <1>9, <1>10, Zenon

\* The second Redis is sent its part.
LEMMA SendEffect ==
  ASSUME SplitInv, NEW c \in Callers, SendPerSecond(c)
  PROVE  LET q == call[c]
             r == call'[c]
         IN /\ OnlyCaller(c) /\ pc[c] \in {"get", "incr"} /\ pc'[c] = pc[c]
            /\ q.sent = {} /\ r.sent = q.later /\ r.later = {}
            /\ r.req = q.req /\ r.t = q.t /\ r.i = q.i /\ r.op = q.op /\ r.near = q.near
            /\ r.over = q.over /\ r.code = q.code /\ r.half = q.half
            /\ r.reply = q.reply /\ r.charge = q.charge
            /\ UNCHANGED <<now, store, localCache, stats, tally>>
<1> DEFINE q == call[c]
           r == [q EXCEPT !.sent = q.later, !.later = {}]
<1>3. call' = [call EXCEPT ![c] = r] /\ pc' = [pc EXCEPT ![c] = pc[c]]
  BY Zenon DEF SendPerSecond, SplitInv
<1>4. /\ r.sent = q.later /\ r.later = {}
      /\ r.req = q.req /\ r.t = q.t /\ r.i = q.i /\ r.op = q.op /\ r.near = q.near
      /\ r.over = q.over /\ r.code = q.code /\ r.half = q.half
      /\ r.reply = q.reply /\ r.charge = q.charge
  OBVIOUS
<1> HIDE DEF r
<1>5. OnlyCaller(c) /\ call'[c] = r /\ pc'[c] = pc[c]
  BY <1>3, OneCaller, Zenon
<1> QED BY <1>4, <1>5, Zenon DEF SendPerSecond

\* The pipelines have been answered.
LEMMA ReplyEffect ==
  ASSUME SplitInv, NEW c \in Callers, Reply(c)
  PROVE  /\ OnlyCaller(c) /\ pc[c] = "incr" /\ pc'[c] = "respond" /\ call' = call
         /\ call[c].sent = {} /\ call[c].later = {}
         /\ UNCHANGED <<now, store, localCache, stats, tally>>
BY Zenon DEF SplitInv, Reply, OnlyCaller

\* The deadline passed.
LEMMA GiveUpEffect ==
  ASSUME SplitInv, NEW c \in Callers, GiveUp(c)
  PROVE  LET q == call[c]
             r == call'[c]
         IN /\ OnlyCaller(c) /\ pc[c] \in {"get", "incr"} /\ pc'[c] = "error"
            /\ r.sent = q.sent /\ r.later = {}
            /\ r.req = q.req /\ r.t = q.t /\ r.op = q.op /\ r.near = q.near
            /\ r.over = q.over /\ r.code = q.code /\ r.half = q.half
            /\ r.reply = q.reply /\ r.charge = q.charge
            /\ UNCHANGED <<now, store, localCache, stats, tally>>
<1> DEFINE q == call[c]
           r == [q EXCEPT !.later = {}]
<1>3. call' = [call EXCEPT ![c] = r] /\ pc' = [pc EXCEPT ![c] = "error"]
  BY Zenon DEF GiveUp
<1>4. /\ r.sent = q.sent /\ r.later = {}
      /\ r.req = q.req /\ r.t = q.t /\ r.op = q.op /\ r.near = q.near
      /\ r.over = q.over /\ r.code = q.code /\ r.half = q.half
      /\ r.reply = q.reply /\ r.charge = q.charge
  OBVIOUS
<1> HIDE DEF r
<1>5. OnlyCaller(c) /\ call'[c] = r /\ pc'[c] = "error"
  BY <1>3, OneCaller, Zenon
<1> QED BY <1>4, <1>5, Zenon DEF GiveUp, Waiting

\* A connection broke.
LEMMA PipelineFailsEffect ==
  ASSUME SplitInv, NEW c \in Callers, PipelineFails(c)
  PROVE  LET q == call[c]
             r == call'[c]
         IN /\ OnlyCaller(c) /\ pc[c] \in {"get", "incr", "error"} /\ pc'[c] = "error"
            /\ r.req = q.req /\ r.t = q.t /\ r.op = "none" /\ r.sent = {} /\ r.later = {} /\ ~r.half
            /\ \A i \in 1 .. Len(q.req) : ~r.over[i] /\ ~r.near[i] /\ r.code[i] = "none"
            /\ UNCHANGED <<now, store, localCache, stats, tally>>
<1> DEFINE q == call[c]
<1>3. OnlyCaller(c) /\ call'[c] = NewCall(q.req, q.t) /\ pc'[c] = "error"
  BY OneCaller, Zenon DEF PipelineFails
<1> QED BY <1>3, NewCallFields, CallerFacts DEF PipelineFails, Waiting

\* The code of a status: for an enforced rule OK means that neither the local
\* cache denied the descriptor nor the counter exceeded the limit.
LEMMA StatusCode ==
  ASSUME SplitInv, NEW c \in Callers, NEW i \in 1 .. Len(call[c].req)
  PROVE  LET q == call[c] IN
         /\ StatusOf(c, i).code \in {OK, OVER_LIMIT}
         /\ CountsIn(q, i) /\ q.req[i].d \notin Shadow =>
              (StatusOf(c, i).code = OK <=> ~q.over[i] /\ q.reply[i] <= q.req[i].limit)
<1> DEFINE q == call[c]
           info == LimitInfo(c, i)
           st == StatusOf(c, i)
<1>1. /\ q.req[i].limit \in Nat /\ q.req[i].hits \in Nat /\ q.reply[i] \in Nat
      /\ q.over[i] \in BOOLEAN /\ Ent(c, i) = q.req[i]
  BY IndexFacts, Zenon
<1>2. info.limit = q.req[i].limit /\ info.after = q.reply[i] /\ (info.shadow <=> q.req[i].d \in Shadow)
  BY <1>1, Zenon DEF LimitInfo
<1>3. CASE ~CountsIn(q, i)
  BY <1>1, <1>3, Zenon DEF StatusOf, CountsIn, Limited, UnlimitedStatus,
     GetResponseDescriptorStatusForNegativeHits
<1>4. CASE CountsIn(q, i)
  <2>1. st = GetResponseDescriptorStatus(info, q.over[i], q.req[i].hits)
    BY <1>1, <1>4, Zenon DEF StatusOf, CountsIn, Limited
  <2> DEFINE e == EnforcedStatus(info, q.over[i], q.req[i].hits)
  <2>2. /\ e.code \in {OK, OVER_LIMIT}
        /\ e.code = OK <=> ~q.over[i] /\ q.reply[i] <= q.req[i].limit
    <3> HIDE DEF info, q
    <3>1. CASE q.over[i]
      BY <3>1, Zenon DEF EnforcedStatus, OK, OVER_LIMIT
    <3>2. CASE ~q.over[i] /\ info.after > info.limit
      BY <1>1, <1>2, <3>2 DEF EnforcedStatus, OK, OVER_LIMIT
    <3>3. CASE ~q.over[i] /\ ~(info.after > info.limit)
      BY <1>1, <1>2, <3>3 DEF EnforcedStatus, OK, OVER_LIMIT
    <3> QED BY <1>1, <3>1, <3>2, <3>3, Zenon
  <2>3. CASE ~(e.code = OVER_LIMIT /\ info.shadow)
    <3>1. st = e
      BY <2>1, <2>3, Zenon DEF GetResponseDescriptorStatus
    <3> HIDE DEF e, st, info, q
    <3> QED BY <2>2, <3>1, Zenon DEF e, st, q
  <2>4. CASE e.code = OVER_LIMIT /\ info.shadow
    <3> DEFINE v == increaseShadowModeStats(info, q.over[i], q.req[i].hits)
    <3>1. st = [e EXCEPT !.code = OK, !.delta.shadow = v]
      BY <2>1, <2>4, Zenon DEF GetResponseDescriptorStatus
    <3>2. DOMAIN e = {"code", "remaining", "poison", "delta"}
      <4> HIDE DEF info, q
      <4> QED BY Zenon DEF EnforcedStatus
    <3> HIDE DEF e, v, info, q
    <3>3. st.code = OK
      BY <3>1, <3>2, Zenon
    <3> QED BY <1>2, <2>4, <3>3, Zenon DEF q
  <2> QED BY <2>3, <2>4, Zenon
<1> QED BY <1>3, <1>4, Zenon

\* One status.
LEMMA RespondEffect ==
  ASSUME SplitInv, NEW c \in Callers, Respond(c)
  PROVE  LET q == call[c]
             r == call'[c]
             i == q.i
         IN /\ OnlyCaller(c) /\ pc[c] = "respond" /\ i \in 1 .. Len(q.req)
            /\ r.req = q.req /\ r.t = q.t
            /\ \A j \in 1 .. Len(q.req) :
                 r.code[j] = IF j = i THEN StatusOf(c, i).code ELSE q.code[j]
            /\ \/ /\ pc'[c] = "respond" /\ i # Len(q.req) /\ r.i = i + 1
                  /\ r.op = q.op /\ r.near = q.near /\ r.over = q.over /\ r.half = q.half
                  /\ r.reply = q.reply /\ r.charge = q.charge
                  /\ r.sent = q.sent /\ r.later = q.later
               \/ /\ pc'[c] = "done" /\ i = Len(q.req)
                  /\ r.op = "none" /\ r.sent = {} /\ r.later = {} /\ ~r.half
                  /\ \A j \in 1 .. Len(q.req) : ~r.over[j] /\ ~r.near[j]
            /\ \A inst \in Instances, k \in Keys : localCache'[inst][k] # localCache[inst][k] =>
                 k = KeyOf(q, i) /\ CountsIn(q, i) /\ q.req[i].limit < q.reply[i]
            /\ UNCHANGED <<now, store, tally>>
<1> DEFINE q == call[c]
           i == q.i
           st == StatusOf(c, i)
           f == [q.code EXCEPT ![i] = st.code]
           last == i = Len(q.req)
           z == NewCall(q.req, q.t)
           r == IF last THEN [z EXCEPT !.code = f]
                ELSE [q EXCEPT !.i = i + 1, !.code = f]
           p == IF last THEN "done" ELSE "respond"
<1>2. /\ q \in CallOf(q.req) /\ i \in 1 .. Len(q.req) /\ Len(q.req) \in Nat
      /\ q.code \in [1 .. Len(q.req) -> {"none", OK, OVER_LIMIT}]
  BY CallerFacts, Zenon DEF CallInv, Respond
<1>3. \A j \in 1 .. Len(q.req) : f[j] = IF j = i THEN st.code ELSE q.code[j]
  BY <1>2, Zenon
<1>4. pc' = [pc EXCEPT ![c] = p] /\ call' = [call EXCEPT ![c] = r]
  BY Zenon DEF Respond
<1>5. OnlyCaller(c) /\ call'[c] = r /\ pc'[c] = p
  BY <1>4, OneCaller, Zenon
<1> HIDE DEF f
<1>6. /\ r.req = q.req /\ r.t = q.t /\ r.code = f
      /\ \/ /\ p = "respond" /\ i # Len(q.req) /\ r.i = i + 1
            /\ r.op = q.op /\ r.near = q.near /\ r.over = q.over /\ r.half = q.half
            /\ r.reply = q.reply /\ r.charge = q.charge
            /\ r.sent = q.sent /\ r.later = q.later
         \/ /\ p = "done" /\ i = Len(q.req)
            /\ r.op = "none" /\ r.sent = {} /\ r.later = {} /\ ~r.half
            /\ \A j \in 1 .. Len(q.req) : ~r.over[j] /\ ~r.near[j]
  BY <1>2, Zenon DEF NewCall, CallOf
<1>7. ASSUME NEW inst \in Instances, NEW k \in Keys, localCache'[inst][k] # localCache[inst][k]
      PROVE  k = KeyOf(q, i) /\ CountsIn(q, i) /\ q.req[i].limit < q.reply[i]
  <2>2. Counts(c, i) /\ q.req[i].limit < q.reply[i]
    BY <1>2, <1>7, StatusFacts, Zenon DEF Respond
  <2>5. k = Key(c, i)
    BY <1>7 DEF SplitInv, Respond
  <2> QED BY <1>2, <2>2, <2>5, IndexFacts, Zenon
<1> HIDE DEF r, p, z
<1> QED BY <1>2, <1>3, <1>5, <1>6, <1>7, Zenon DEF Respond

\* Only the counter and the history of key k change.
OnlyKey(k) == \A j \in Keys \ {k} : store'[j] = store[j] /\ tally'[j] = tally[j]

\* GET
LEMMA ExecGetEffect ==
  ASSUME SplitInv, NEW c \in Callers, ExecGet(c)
  PROVE  LET q == call[c]
             r == call'[c]
         IN \E h \in 1 .. Len(q.req) :
            /\ OnlyCaller(c) /\ pc'[c] = pc[c] /\ SameRest(q, r)
            /\ q.op = "get" /\ Leads(q, h) /\ r.sent = q.sent \ {h} /\ r.half = q.half
            /\ \A j \in 1 .. Len(q.req) :
                 r.reply[j] = IF j = h THEN GET(store[KeyOf(q, h)]) ELSE q.reply[j]
            /\ UNCHANGED <<now, store, localCache, stats, tally>>
<1>1. PICK h \in Indexes(c) :
        /\ call[c].op = "get" /\ First(c, h)
        /\ call' = [call EXCEPT ![c].reply[h] = GET(store[Key(c, h)]), ![c].sent = @ \ {h}]
        /\ UNCHANGED <<now, store, localCache, pc, stats, tally>>
  BY Zenon DEF ExecGet
<1> DEFINE q == call[c]
           v == GET(store[Key(c, h)])
           f == [q.reply EXCEPT ![h] = v]
           S == q.sent \ {h}
           r == [q EXCEPT !.reply = f, !.sent = S]
<1>2. /\ q \in CallOf(q.req) /\ h \in 1 .. Len(q.req) /\ q.reply \in [1 .. Len(q.req) -> Nat]
      /\ Key(c, h) = KeyOf(q, h) /\ Leads(q, h)
  BY <1>1, CallerFacts, ExecFacts, Zenon DEF First, Leads
<1>3. \A j \in 1 .. Len(q.req) : f[j] = IF j = h THEN v ELSE q.reply[j]
  BY <1>2, Zenon
<1>4. call' = [call EXCEPT ![c] = r] /\ pc' = [pc EXCEPT ![c] = pc[c]]
  BY <1>1, Zenon DEF SplitInv
<1> HIDE DEF f, S
<1>5. SameRest(q, r) /\ r.sent = S /\ r.reply = f /\ r.half = q.half
  BY DEF SameRest
<1> HIDE DEF r
<1>6. OnlyCaller(c) /\ call'[c] = r /\ pc'[c] = pc[c]
  BY <1>4, OneCaller, Zenon
<1> QED BY <1>1, <1>2, <1>3, <1>5, <1>6, Zenon DEF S

\* INCRBY
LEMMA ExecIncrByEffect ==
  ASSUME SplitInv, NEW c \in Callers, ExecIncrBy(c)
  PROVE  LET q == call[c]
             r == call'[c]
         IN \E h \in 1 .. Len(q.req) : LET k == KeyOf(q, h) IN
            /\ OnlyCaller(c) /\ pc'[c] = pc[c] /\ SameRest(q, r)
            /\ q.op = "incr" /\ Leads(q, h) /\ CountsIn(q, h) /\ ~q.half
            /\ r.sent = q.sent /\ r.half
            /\ \A j \in 1 .. Len(q.req) :
                 r.reply[j] = IF j = h THEN GET(store[k]) + q.charge[h] ELSE q.reply[j]
            /\ k \in Keys /\ OnlyKey(k)
            /\ GET(store'[k]) = GET(store[k]) + q.charge[h]
            /\ tally'[k].adm = IF now < End(k) /\ GET(store'[k]) <= q.req[h].limit
                               THEN tally[k].adm + q.charge[h] ELSE tally[k].adm
            /\ tally'[k].ref = tally[k].ref /\ tally'[k].chg = tally[k].chg + q.charge[h]
            /\ UNCHANGED <<now, localCache, stats>>
<1>1. PICK h \in Indexes(c) :
        LET k == Key(c, h)
            ctr == INCRBY(store[k], call[c].charge[h])
        IN /\ call[c].op = "incr" /\ First(c, h) /\ ~Ent(c, h).neg /\ ~call[c].half
           /\ store' = [store EXCEPT ![k] = ctr]
           /\ call' = [call EXCEPT ![c].reply[h] = ctr.n, ![c].half = TRUE]
           /\ CountCharge(k, call[c].charge[h], Ent(c, h).limit, ctr.n)
           /\ UNCHANGED <<now, localCache, pc, stats>>
  BY Zenon DEF ExecIncrBy
<1> DEFINE q == call[c]
           k == KeyOf(q, h)
           charge == q.charge[h]
           ctr == INCRBY(store[k], charge)
           old == tally[k]
           adm == IF now < End(k) /\ ctr.n <= q.req[h].limit THEN old.adm + charge ELSE old.adm
           tl == [adm |-> adm, ref |-> old.ref, chg |-> old.chg + charge]
           f == [q.reply EXCEPT ![h] = ctr.n]
           r == [q EXCEPT !.reply = f, !.half = TRUE]
<1>2. /\ q \in CallOf(q.req) /\ h \in 1 .. Len(q.req) /\ q.reply \in [1 .. Len(q.req) -> Nat]
      /\ Key(c, h) = k /\ Leads(q, h) /\ k \in Keys /\ charge \in Nat /\ q.req[h].d # Unmatched
  BY <1>1, CallerFacts, ExecFacts, Zenon DEF First, Leads
<1>5. ctr.live = TRUE /\ ctr.n = GET(store[k]) + charge
  BY <1>2 DEF INCRBY, GET
<1>6. /\ store' = [store EXCEPT ![k] = ctr]
      /\ tally' = [tally EXCEPT ![k] = tl]
      /\ call' = [call EXCEPT ![c] = r]
  BY <1>1, <1>2, Zenon DEF CountCharge, Ent
<1>7. pc' = [pc EXCEPT ![c] = pc[c]] /\ UNCHANGED <<now, localCache, stats>>
  BY <1>1, Zenon DEF SplitInv
<1> HIDE DEF ctr
<1>10. \A j \in 1 .. Len(q.req) : f[j] = IF j = h THEN ctr.n ELSE q.reply[j]
  BY <1>2, Zenon
<1> HIDE DEF f
<1>11. SameRest(q, r) /\ r.sent = q.sent /\ r.reply = f /\ r.half
  BY DEF SameRest
<1> HIDE DEF r
<1>12. OnlyCaller(c) /\ call'[c] = r /\ pc'[c] = pc[c]
  BY <1>6, <1>7, OneCaller, Zenon
<1> HIDE DEF k, q, adm
<1> QED BY <1>1, <1>2, <1>5, <1>6, <1>10, <1>11, <1>12, Zenon DEF k, q, Ent, CountsIn, OnlyKey,
           SplitInv, adm, GET

\* EXPIRE
LEMMA ExecExpireEffect ==
  ASSUME SplitInv, NEW c \in Callers, ExecExpire(c)
  PROVE  LET q == call[c]
             r == call'[c]
         IN \E h \in 1 .. Len(q.req) : LET k == KeyOf(q, h) IN
            /\ OnlyCaller(c) /\ pc'[c] = pc[c] /\ SameRest(q, r) /\ r.reply = q.reply
            /\ q.op = "incr" /\ Leads(q, h) /\ q.half
            /\ r.sent = q.sent \ {h} /\ ~r.half
            /\ k \in Keys /\ OnlyKey(k) /\ GET(store'[k]) = GET(store[k])
            /\ store'[k].live => store'[k].exp # NoTTL
            /\ UNCHANGED <<now, localCache, stats, tally>>
<1>1. PICK h \in Indexes(c) :
        /\ call[c].op = "incr" /\ First(c, h) /\ call[c].half
        /\ store' = [store EXCEPT ![Key(c, h)] = EXPIRE(@, now + call[c].ttl[h])]
        /\ call' = [call EXCEPT ![c].half = FALSE, ![c].sent = @ \ {h}]
        /\ UNCHANGED <<now, localCache, pc, stats, tally>>
  BY Zenon DEF ExecExpire
<1> DEFINE q == call[c]
           k == KeyOf(q, h)
           at == now + q.ttl[h]
           ctr == EXPIRE(store[k], at)
           S == q.sent \ {h}
           r == [q EXCEPT !.half = FALSE, !.sent = S]
<1>2. /\ q \in CallOf(q.req) /\ h \in 1 .. Len(q.req) /\ Leads(q, h)
      /\ Key(c, h) = k /\ k \in Keys /\ at \in Nat
  BY <1>1, ExecFacts, Zenon DEF First, Leads
<1>4. GET(ctr) = GET(store[k]) /\ (ctr.live => ctr.exp # NoTTL)
  BY <1>2 DEF EXPIRE, GET, NoTTL
<1>5. /\ store' = [store EXCEPT ![k] = ctr]
      /\ call' = [call EXCEPT ![c] = r] /\ pc' = [pc EXCEPT ![c] = pc[c]]
      /\ UNCHANGED <<now, localCache, stats, tally>>
  BY <1>1, <1>2, Zenon DEF SplitInv
<1> HIDE DEF ctr
<1> HIDE DEF S
<1>7. SameRest(q, r) /\ r.sent = S /\ r.reply = q.reply /\ ~r.half
  BY DEF SameRest
<1> HIDE DEF r
<1>8. OnlyCaller(c) /\ call'[c] = r /\ pc'[c] = pc[c]
  BY <1>5, OneCaller, Zenon
<1> QED BY <1>1, <1>2, <1>4, <1>5, <1>7, <1>8, Zenon DEF S, OnlyKey, SplitInv

\* The decrement script
LEMMA ExecEvalEffect ==
  ASSUME SplitInv, NEW c \in Callers, ExecEval(c)
  PROVE  LET q == call[c]
             r == call'[c]
         IN \E h \in 1 .. Len(q.req) : LET k == KeyOf(q, h) IN
            /\ OnlyCaller(c) /\ pc'[c] = pc[c] /\ SameRest(q, r)
            /\ q.op = "incr" /\ Leads(q, h) /\ q.req[h].neg
            /\ r.sent = q.sent \ {h} /\ r.half = q.half
            /\ \A j \in 1 .. Len(q.req) : j # h => r.reply[j] = q.reply[j]
            /\ k \in Keys /\ OnlyKey(k) /\ GET(store'[k]) <= GET(store[k])
            /\ store'[k].live => store'[k].exp # NoTTL
            /\ tally'[k].adm = tally[k].adm /\ tally'[k].chg = tally[k].chg
            /\ UNCHANGED <<now, localCache, stats>>
<1>1. PICK h \in Indexes(c) :
        LET k == Key(c, h)
            ctr == DecrementScript(store[k], Ent(c, h).hits, now + call[c].ttl[h])
        IN /\ call[c].op = "incr" /\ First(c, h) /\ Ent(c, h).neg
           /\ store' = [store EXCEPT ![k] = ctr]
           /\ call' = [call EXCEPT ![c].reply[h] = GET(ctr), ![c].sent = @ \ {h}]
           /\ tally' = [tally EXCEPT ![k] =
                [adm |-> @.adm, ref |-> @.ref + Ent(c, h).hits, chg |-> @.chg]]
           /\ UNCHANGED <<now, localCache, pc, stats>>
  BY Zenon DEF ExecEval
<1> DEFINE q == call[c]
           k == KeyOf(q, h)
           hits == Ent(c, h).hits
           at == now + q.ttl[h]
           ctr == DecrementScript(store[k], hits, at)
           old == tally[k]
           tl == [adm |-> old.adm, ref |-> old.ref + hits, chg |-> old.chg]
           f == [q.reply EXCEPT ![h] = GET(ctr)]
           S == q.sent \ {h}
           r == [q EXCEPT !.reply = f, !.sent = S]
<1>2. /\ q \in CallOf(q.req) /\ h \in 1 .. Len(q.req) /\ Leads(q, h)
      /\ Key(c, h) = k /\ k \in Keys /\ at \in Nat
      /\ q.reply \in [1 .. Len(q.req) -> Nat]
  BY <1>1, ExecFacts, CallerFacts, Zenon DEF First, Leads
<1>3. hits \in Nat /\ q.req[h].neg
  BY <1>1, <1>2, IndexFacts, Zenon
<1>5. GET(ctr) <= GET(store[k]) /\ (ctr.live => ctr.exp # NoTTL)
  BY <1>2, <1>3, DecrementFacts, Zenon DEF SplitInv
<1>6. /\ store' = [store EXCEPT ![k] = ctr] /\ tally' = [tally EXCEPT ![k] = tl]
      /\ call' = [call EXCEPT ![c] = r] /\ pc' = [pc EXCEPT ![c] = pc[c]]
      /\ UNCHANGED <<now, localCache, stats>>
  BY <1>1, <1>2, Zenon DEF SplitInv
<1> HIDE DEF ctr
<1>8. tally'[k].adm = old.adm /\ tally'[k].chg = old.chg
  BY <1>6
<1>9. \A j \in 1 .. Len(q.req) : j # h => f[j] = q.reply[j]
  OBVIOUS
<1> HIDE DEF S, f
<1>10. SameRest(q, r) /\ r.sent = S /\ r.reply = f /\ r.half = q.half
  BY DEF SameRest
<1> HIDE DEF r
<1>11. OnlyCaller(c) /\ call'[c] = r /\ pc'[c] = pc[c]
  BY <1>6, OneCaller, Zenon
<1> QED BY <1>1, <1>2, <1>3, <1>5, <1>6, <1>8, <1>9, <1>10, <1>11, Zenon DEF S, OnlyKey, SplitInv

-----------------------------------------------------------------------------
(* Control is an invariant *)

Control == \A c \in Callers : ControlInv(call[c], pc[c])

\* Redis executes the script: no EXPIRE of an INCRBY is outstanding then.
LEMMA EvalNotHalf ==
  ASSUME NEW q, NEW p, ControlInv(q, p), NEW h \in 1 .. Len(q.req), Leads(q, h), q.req[h].neg,
         Len(q.req) \in Nat, q.sent \subseteq 1 .. Len(q.req)
  PROVE  ~q.half
BY SMTT(30) DEF ControlInv, Leads

\* Control holds initially and every step keeps it.
LEMMA ControlInit == Init => Control
<1> SUFFICES ASSUME Init, NEW c \in Callers PROVE ControlInv(call[c], pc[c])
  BY Zenon DEF Control
<1> DEFINE r == NewCall(<<>>, 0)
<1>3. r.req = <<>> /\ r.op = "none" /\ r.sent = {} /\ r.later = {} /\ ~r.half
  BY NewCallFields
<1> HIDE DEF r
<1> QED BY <1>3 DEF r, Init, ControlInv

\* Every step keeps the control state of every caller.
LEMMA ControlNext == SplitInv /\ Control /\ [Next]_vars => Control'
\* The other callers are where they were.
<1>1. ASSUME Control, NEW c \in Callers, OnlyCaller(c), ControlInv(call'[c], pc'[c])
      PROVE  Control'
  BY <1>1, Zenon DEF Control, OnlyCaller
\* GenerateCacheKeys.
<1>2. ASSUME SplitInv, Control, NEW c \in Callers, NEW req \in Requests, Begin(c, req)
      PROVE  Control'
  <2> USE <1>2
  <2> DEFINE q == call[c]
             r == call'[c]
  <2>2. /\ Len(q.req) \in Nat /\ q.sent \subseteq 1 .. Len(q.req) /\ q.later \subseteq 1 .. Len(q.req)
        /\ pc[c] \in PcType /\ q.half \in BOOLEAN
    BY CallerFacts, Zenon
  <2>3. ControlInv(r, pc'[c])
    BY <2>2, BeginEffect DEF ControlInv
  <2> QED BY <2>3, <1>1, BeginEffect, Zenon
\* The local-cache lookups.
<1>3. ASSUME SplitInv, Control, NEW c \in Callers, LookUp(c)
      PROVE  Control'
  <2> USE <1>3
  <2> DEFINE q == call[c]
             r == call'[c]
  <2>1. ControlInv(q, pc[c])
    BY Zenon DEF Control
  <2>2. /\ Len(q.req) \in Nat /\ q.sent \subseteq 1 .. Len(q.req) /\ q.later \subseteq 1 .. Len(q.req)
        /\ pc[c] \in PcType /\ q.half \in BOOLEAN
    BY CallerFacts, Zenon
  <2>3. /\ pc[c] = "lookup" /\ pc'[c] \in {"lookup", "decide"} /\ q.i \in 1 .. Len(q.req)
        /\ r.req = q.req /\ r.op = q.op /\ r.near = q.near
        /\ r.code = q.code /\ r.sent = q.sent /\ r.later = q.later /\ r.half = q.half
        /\ \A j \in 1 .. Len(q.req) : r.over[j] => q.over[j] \/ CountsIn(q, j)
    BY LookUpEffect, Zenon
  <2> HIDE DEF q, r
  <2>4. ControlInv(r, pc'[c])
    BY <2>1, <2>3, ControlLookedUp, Zenon
  <2> QED BY <2>4, <1>1, LookUpEffect, Zenon DEF r
\* The GET round.
<1>4. ASSUME SplitInv, Control, NEW c \in Callers, StartGet(c)
      PROVE  Control'
  <2> USE <1>4
  <2> DEFINE q == call[c]
             r == call'[c]
  <2>1. ControlInv(q, pc[c])
    BY Zenon DEF Control
  <2>2. /\ OnlyCaller(c) /\ pc[c] = "decide" /\ pc'[c] = "get" /\ ~Denied(q)
        /\ r.req = q.req /\ r.op = "get" /\ r.near = q.near /\ r.over = q.over
        /\ r.code = q.code /\ r.half = q.half
        /\ r.sent \cup r.later = {i \in 1 .. Len(q.req) : CountsIn(q, i)}
        /\ r.sent \cap r.later = {}
    BY StartGetEffect, Zenon
  <2> HIDE DEF q, r
  <2>4. ControlInv(r, pc'[c])
    BY <2>1, <2>2, Zenon DEF ControlInv, Denied
  <2> QED BY <2>2, <2>4, <1>1, Zenon DEF r
\* The second Redis is sent its part.
<1>5. ASSUME SplitInv, Control, NEW c \in Callers, SendPerSecond(c)
      PROVE  Control'
  <2> USE <1>5
  <2> DEFINE q == call[c]
             r == call'[c]
  <2>1. ControlInv(q, pc[c])
    BY Zenon DEF Control
  <2>2. /\ OnlyCaller(c) /\ pc[c] \in {"get", "incr"} /\ pc'[c] = pc[c]
        /\ q.sent = {} /\ r.sent = q.later /\ r.later = {}
        /\ r.req = q.req /\ r.i = q.i /\ r.op = q.op /\ r.near = q.near
        /\ r.over = q.over /\ r.code = q.code /\ r.half = q.half
        /\ r.reply = q.reply /\ r.charge = q.charge
    BY SendEffect, ZenonT(30)
  <2> HIDE DEF q, r
  <2>6. ControlInv(r, pc'[c])
    BY <2>1, <2>2, ZenonT(30) DEF ControlInv, Executed, Denied, CountsIn
  <2> QED BY <2>2, <2>6, <1>1, ZenonT(30) DEF r
\* The deadline passed.
<1>6. ASSUME SplitInv, Control, NEW c \in Callers, GiveUp(c)
      PROVE  Control'
  <2> USE <1>6
  <2> DEFINE q == call[c]
             r == call'[c]
  <2>1. ControlInv(q, pc[c])
    BY Zenon DEF Control
  <2>2. /\ OnlyCaller(c) /\ pc[c] \in {"get", "incr"} /\ pc'[c] = "error"
        /\ r.sent = q.sent /\ r.later = {}
        /\ r.req = q.req /\ r.op = q.op /\ r.near = q.near
        /\ r.over = q.over /\ r.code = q.code /\ r.half = q.half
        /\ r.charge = q.charge
    BY GiveUpEffect, Zenon
  <2> HIDE DEF q, r
  <2>4. ControlInv(r, pc'[c])
    BY <2>1, <2>2, ControlGaveUp, Zenon
  <2> QED BY <2>2, <2>4, <1>1, Zenon DEF r
\* A connection broke.
<1>7. ASSUME SplitInv, Control, NEW c \in Callers, PipelineFails(c)
      PROVE  Control'
  <2> USE <1>7
  <2> DEFINE q == call[c]
             r == call'[c]
  <2>2. /\ Len(q.req) \in Nat /\ q.sent \subseteq 1 .. Len(q.req) /\ q.later \subseteq 1 .. Len(q.req)
        /\ pc[c] \in PcType /\ q.half \in BOOLEAN
    BY CallerFacts, Zenon
  <2>3. ControlInv(r, pc'[c])
    <3>1. /\ pc'[c] = "error" /\ r.req = q.req /\ r.op = "none" /\ r.sent = {} /\ r.later = {} /\ ~r.half
          /\ \A i \in 1 .. Len(q.req) : ~r.over[i] /\ ~r.near[i] /\ r.code[i] = "none"
      BY PipelineFailsEffect, Zenon
    <3> HIDE DEF q, r
    <3> QED BY <3>1, ControlFailed, Zenon
  <2> QED BY <2>3, <1>1, PipelineFailsEffect, Zenon
\* The pipelines of INCRBY, EXPIRE and the script are built.
<1>8. ASSUME SplitInv, Control, NEW c \in Callers, NEW near \in [Indexes(c) -> BOOLEAN],
             SetupPipeline(c, near), pc[c] \in {"decide", "get"},
             call[c].sent = {} /\ call[c].later = {},
             \A i \in 1 .. Len(call[c].req) : near[i] => CountsIn(call[c], i) /\ ~Denied(call[c])
      PROVE  Control'
  <2> USE <1>8
  <2> DEFINE q == call[c]
             r == call'[c]
  <2>1. ControlInv(q, pc[c])
    BY Zenon DEF Control
  <2>2. /\ OnlyCaller(c) /\ pc'[c] \in {"incr", "respond"}
        /\ pc'[c] = "respond" => r.sent = {} /\ r.later = {}
        /\ r.req = q.req /\ r.i = 1 /\ r.op = "incr" /\ r.near = near
        /\ r.over = q.over /\ r.code = q.code /\ r.half = q.half
        /\ r.sent \cup r.later = {i \in 1 .. Len(q.req) : q.req[i].d # Unmatched /\ ~q.over[i]}
        /\ r.sent \cap r.later = {}
        /\ \A i \in 1 .. Len(q.req) :
             CountsIn(q, i) /\ ~q.over[i] /\ r.charge[i] # q.req[i].hits =>
               /\ StopCacheKeyIncrementWhenOverlimit
               /\ Denied(q) \/ ((\E j \in 1 .. Len(q.req) : near[j]) /\ ~near[i])
    BY SetupEffect, Zenon
  <2>3. ~q.half /\ \A i \in 1 .. Len(q.req) : q.code[i] = "none"
    BY <2>1, Zenon DEF ControlInv
  <2>4. \A i \in 1 .. Len(q.req) : near[i] => CountsIn(q, i) /\ ~Denied(q)
    BY Zenon
  <2>5. Len(q.req) \in Nat
    BY CallerFacts, Zenon
  <2> HIDE DEF q, r
  <2>6. \A i \in 1 .. Len(q.req) : CountsIn(q, i) /\ ~q.over[i] => ~Executed(r, i)
    BY <2>2, <2>3, Zenon DEF Executed, CountsIn
  <2>7. Denied(r) = Denied(q) /\ \A i \in 1 .. Len(q.req) : CountsIn(r, i) = CountsIn(q, i)
    BY <2>2, Zenon DEF Denied, CountsIn
  <2>8. ControlInv(r, pc'[c])
    <3>1. \A i \in r.sent \cup r.later : ~r.over[i]
      BY <2>2, Zenon
    <3>2. \A i \in 1 .. Len(r.req) : r.over[i] => CountsIn(r, i)
      BY <2>1, <2>2, <2>7, Zenon DEF ControlInv
    <3>3. \A i \in 1 .. Len(r.req) :
            /\ r.over[i] => CountsIn(r, i)
            /\ r.near[i] => CountsIn(r, i) /\ ~Denied(r)
            /\ CountsIn(r, i) /\ ~r.over[i] => ~Executed(r, i)
            /\ CountsIn(r, i) /\ ~r.over[i] /\ r.charge[i] # r.req[i].hits =>
                 /\ StopCacheKeyIncrementWhenOverlimit
                 /\ Denied(r) \/ ((\E j \in 1 .. Len(r.req) : r.near[j]) /\ ~r.near[i])
            /\ r.code[i] = "none"
      <4> TAKE i \in 1 .. Len(r.req)
      <4> QED BY <2>2, <2>3, <2>4, <2>6, <2>7, <3>2, ZenonT(30)
    <3>4. /\ pc'[c] \in {"incr", "respond"} /\ r.op = "incr" /\ r.i = 1 /\ ~r.half
          /\ r.sent \cap r.later = {} /\ (pc'[c] = "respond" => r.sent = {} /\ r.later = {})
      BY <2>2, <2>3, Zenon
    <3> QED BY <3>1, <3>3, <3>4, ControlBuilt, Zenon
  <2> QED BY <2>2, <2>8, <1>1, Zenon DEF r
\* The same from either place in DoLimit.
<1>9. ASSUME SplitInv, Control, NEW c \in Callers, Build(c) \/ BuildAfterGet(c)
      PROVE  Control'
  <2> USE <1>9
  <2>1. ControlInv(call[c], pc[c]) /\ Indexes(c) = 1 .. Len(call[c].req)
    BY CallerFacts, Zenon DEF Control
  <2>2. CASE Build(c)
    BY <2>2, CallerFacts, <2>1, <1>8, Zenon DEF Build, ControlInv
  <2>3. CASE BuildAfterGet(c)
    BY <2>3, <2>1, IndexFacts, <1>8, Zenon DEF BuildAfterGet, Counts, ControlInv
  <2> QED BY <2>2, <2>3, Zenon
\* The pipelines have been answered.
<1>10. ASSUME SplitInv, Control, NEW c \in Callers, Reply(c)
       PROVE  Control'
  <2> USE <1>10
  <2>2. /\ OnlyCaller(c) /\ pc[c] = "incr" /\ pc'[c] = "respond" /\ call'[c] = call[c]
        /\ call[c].sent = {} /\ call[c].later = {}
    BY ReplyEffect, Zenon
  <2>4. ControlInv(call'[c], pc'[c])
    BY <2>2, ControlReplied, Zenon DEF Control
  <2> QED BY <2>2, <2>4, <1>1, Zenon
\* One status is answered.
<1>11. ASSUME SplitInv, Control, NEW c \in Callers, Respond(c)
       PROVE  Control'
  <2> USE <1>11
  <2> DEFINE q == call[c]
             r == call'[c]
             i == q.i
             I == 1 .. Len(q.req)
  <2>1. ControlInv(q, pc[c])
    BY Zenon DEF Control
  <2>2. OnlyCaller(c) /\ pc[c] = "respond" /\ i \in I /\ r.req = q.req /\ Len(q.req) \in Nat
    BY RespondEffect, CallerFacts, Zenon
  <2>3. \A j \in I : CountsIn(r, j) = CountsIn(q, j)
    BY <2>2, Zenon DEF CountsIn
  <2>4. ASSUME pc'[c] = "done"
        PROVE  ControlInv(r, pc'[c])
    BY <2>4, RespondEffect, Zenon DEF ControlInv
  <2>5. ASSUME pc'[c] = "respond"
        PROVE  ControlInv(r, pc'[c])
    <3>1. /\ r.i = i + 1 /\ r.op = q.op /\ r.near = q.near /\ r.over = q.over /\ r.half = q.half
          /\ r.reply = q.reply /\ r.charge = q.charge /\ r.sent = q.sent /\ r.later = q.later
          /\ \A j \in I : r.code[j] = IF j = i THEN StatusOf(c, i).code ELSE q.code[j]
      BY <2>5, RespondEffect, Zenon
    <3>2. CountsIn(q, i) /\ q.req[i].d \notin Shadow =>
            (StatusOf(c, i).code = OK <=> ~q.over[i] /\ q.reply[i] <= q.req[i].limit)
      BY <2>2, StatusCode, Zenon
    <3> HIDE DEF q, r, I, i
    <3>3. CodesInv(r)
      <4>1. \A j \in I : IF j < q.i
                         THEN CountsIn(q, j) /\ q.req[j].d \notin Shadow =>
                                (q.code[j] = OK <=> ~q.over[j] /\ q.reply[j] <= q.req[j].limit)
                         ELSE q.code[j] = "none"
        BY <2>1, <2>2, Zenon DEF ControlInv, I
      <4> QED BY <2>2, <2>3, <3>1, <3>2, <4>1 DEF I, i, CodesInv
    <3> QED BY <2>1, <2>2, <2>5, <3>1, <3>3, ControlReported, Zenon
  <2> QED BY <2>4, <2>5, <1>1, RespondEffect, Zenon
\* Redis executes a GET.
<1>12. ASSUME SplitInv, Control, NEW c \in Callers, ExecGet(c)
       PROVE  Control'
  <2> USE <1>12
  <2> DEFINE q == call[c]
             r == call'[c]
  <2>1. ControlInv(q, pc[c]) /\ CallInv(q, pc[c], now, tally)
    BY CallerFacts, Zenon DEF Control
  <2>2. PICK h \in 1 .. Len(q.req) :
          /\ OnlyCaller(c) /\ pc'[c] = pc[c] /\ SameRest(q, r)
          /\ q.op = "get" /\ Leads(q, h) /\ r.sent = q.sent \ {h} /\ r.half = q.half
    BY ExecGetEffect, Zenon
  <2>3. ~q.half /\ pc[c] \notin {"idle", "lookup", "decide", "done", "incr", "respond"}
    BY <2>1, <2>2, Zenon DEF ControlInv, CallInv
  <2> HIDE DEF q, r
  <2>4. Denied(r) = Denied(q) /\ \A i \in 1 .. Len(q.req) : CountsIn(r, i) = CountsIn(q, i)
    BY <2>2, Zenon DEF Denied, CountsIn, SameRest
  <2> QED BY <2>1, <2>2, <2>3, <2>4, <1>1, Zenon DEF r, ControlInv, SameRest
\* What a command of the second round keeps, once its effect on the pipeline
\* and on the answers is known.
<1>13. ASSUME SplitInv, Control, NEW c \in Callers, OnlyCaller(c), pc'[c] = pc[c],
              SameRest(call[c], call'[c]), call[c].op = "incr",
              call[c].sent # {}, call'[c].sent \subseteq call[c].sent,
              call'[c].half => \E h \in call'[c].sent : /\ ~call[c].req[h].neg
                                                       /\ \A j \in call'[c].sent : h <= j,
              \A i \in 1 .. Len(call[c].req) : CountsIn(call[c], i) /\ Executed(call'[c], i) =>
                \/ Executed(call[c], i) /\ call'[c].reply[i] = call[c].reply[i]
                \/ call[c].charge[i] <= call'[c].reply[i]
       PROVE  Control'
  <2> USE <1>13
  <2> DEFINE q == call[c]
             r == call'[c]
  <2>1. ControlInv(q, pc[c]) /\ SameRest(q, r)
    BY Zenon DEF Control
  <2>2. /\ q.op = "incr" /\ pc'[c] = pc[c] /\ q.sent # {} /\ r.sent \subseteq q.sent
        /\ r.half => \E h \in r.sent : ~q.req[h].neg /\ \A j \in r.sent : h <= j
        /\ \A i \in 1 .. Len(q.req) : CountsIn(q, i) /\ Executed(r, i) =>
             \/ Executed(q, i) /\ r.reply[i] = q.reply[i]
             \/ q.charge[i] <= r.reply[i]
    BY Zenon
  <2> HIDE DEF q, r
  <2>5. ControlInv(r, pc'[c])
    BY <2>1, <2>2, ControlCommand, Zenon
  <2> QED BY <2>5, <1>1, Zenon DEF r
\* Redis executes an INCRBY: the answer is no less than the charge.
<1>14. ASSUME SplitInv, Control, NEW c \in Callers, ExecIncrBy(c)
       PROVE  Control'
  <2> USE <1>14
  <2> DEFINE q == call[c]
             r == call'[c]
  <2>1. PICK h \in 1 .. Len(q.req) :
          /\ OnlyCaller(c) /\ pc'[c] = pc[c] /\ SameRest(q, r)
          /\ q.op = "incr" /\ Leads(q, h) /\ CountsIn(q, h) /\ ~q.half
          /\ r.sent = q.sent /\ r.half
          /\ \A j \in 1 .. Len(q.req) :
               r.reply[j] = IF j = h THEN GET(store[KeyOf(q, h)]) + q.charge[h] ELSE q.reply[j]
          /\ KeyOf(q, h) \in Keys
    BY ExecIncrByEffect, Zenon
  <2>2. GET(store[KeyOf(q, h)]) \in Nat /\ q.charge[h] \in Nat
    BY <2>1, IndexFacts, Zenon DEF SplitInv, Counter, GET
  <2>3. ASSUME NEW i \in 1 .. Len(q.req), CountsIn(q, i), Executed(r, i)
        PROVE  \/ Executed(q, i) /\ r.reply[i] = q.reply[i]
               \/ q.charge[i] <= r.reply[i]
    <3>1. CASE i = h
      BY <2>1, <2>2, <3>1, ChargeRead, Zenon
    <3>2. CASE i # h
      <4> HIDE DEF q, r
      <4> QED BY <2>1, <2>3, <3>2, IncrExecutes, Zenon
    <3> QED BY <3>1, <3>2, Zenon
  <2> QED BY <2>1, <2>3, <1>13, Zenon DEF Leads, CountsIn
\* Redis executes an EXPIRE.
<1>15. ASSUME SplitInv, Control, NEW c \in Callers, ExecExpire(c)
       PROVE  Control'
  <2> USE <1>15
  <2> DEFINE q == call[c]
             r == call'[c]
  <2>1. PICK h \in 1 .. Len(q.req) :
          /\ OnlyCaller(c) /\ pc'[c] = pc[c] /\ SameRest(q, r) /\ r.reply = q.reply
          /\ q.op = "incr" /\ Leads(q, h) /\ q.half
          /\ r.sent = q.sent \ {h} /\ ~r.half
    BY ExecExpireEffect, Zenon
  <2>2. \A i \in 1 .. Len(q.req) : Executed(r, i) <=> Executed(q, i)
    <3> HIDE DEF q, r
    <3> QED BY <2>1, ExpireExecutes, Zenon
  <2>3. q.sent # {} /\ r.sent \subseteq q.sent
    BY <2>1, Zenon DEF Leads
  <2> QED BY <2>1, <2>2, <2>3, <1>13, Zenon
\* The decrement script.
<1>16. ASSUME SplitInv, Control, NEW c \in Callers, ExecEval(c)
       PROVE  Control'
  <2> USE <1>16
  <2> DEFINE q == call[c]
             r == call'[c]
  <2>1. PICK h \in 1 .. Len(q.req) :
          /\ OnlyCaller(c) /\ pc'[c] = pc[c] /\ SameRest(q, r)
          /\ q.op = "incr" /\ Leads(q, h) /\ q.req[h].neg
          /\ r.sent = q.sent \ {h} /\ r.half = q.half
          /\ \A j \in 1 .. Len(q.req) : j # h => r.reply[j] = q.reply[j]
    BY ExecEvalEffect, ZenonT(30)
  <2>3. ASSUME NEW i \in 1 .. Len(q.req), CountsIn(q, i), Executed(r, i)
        PROVE  Executed(q, i) /\ r.reply[i] = q.reply[i]
    BY <2>1, <2>3, EvalNotHalf, CallerFacts, Zenon DEF Executed, CountsIn, SameRest, Control
  <2> QED BY <2>1, <2>3, <1>13, EvalNotHalf, CallerFacts, ZenonT(30) DEF Control, Leads
<1> SUFFICES ASSUME SplitInv, Control, [Next]_vars PROVE Control'
  BY Zenon
<1>17. ASSUME NEW c \in Callers, NEW req \in Requests, Begin(c, req) PROVE Control'
  BY <1>17, <1>2, Zenon
<1>18. ASSUME NEW c \in Callers, CallerStep(c) PROVE Control'
  BY <1>18, <1>3, <1>4, <1>9, <1>5, <1>10, <1>11, Zenon DEF CallerStep
<1>19. ASSUME NEW c \in Callers, RedisStep(c) PROVE Control'
  BY <1>19, <1>12, <1>14, <1>15, <1>16, Zenon DEF RedisStep
<1>20. ASSUME NEW c \in Callers, GiveUp(c) \/ PipelineFails(c) PROVE Control'
  BY <1>20, <1>6, <1>7, Zenon
<1>21. CASE UNCHANGED <<pc, call>>
  BY <1>21, Zenon DEF Control
<1> QED BY <1>17, <1>18, <1>19, <1>20, <1>21, Zenon DEF Next, Environment, Tick, Expire, Evict,
           Terminated, vars

\* The pipelines are built before the first round, or on its answers.
LEMMA BuildEffect ==
  ASSUME SplitInv, Control, NEW c \in Callers, Build(c) \/ BuildAfterGet(c)
  PROVE  LET q == call[c]
             r == call'[c]
             I == 1 .. Len(q.req)
         IN /\ OnlyCaller(c) /\ pc[c] \in {"decide", "get"} /\ pc'[c] \in {"incr", "respond"}
            /\ q.sent = {} /\ q.later = {} /\ ~q.half
            /\ r.req = q.req /\ r.t = q.t /\ r.i = 1 /\ r.op = "incr" /\ ~r.half
            /\ r.over = q.over /\ r.code = q.code
            /\ r.sent \cup r.later = {i \in I : q.req[i].d # Unmatched /\ ~q.over[i]}
            /\ \A i \in I : r.reply[i] = 0
            /\ \A i \in I : r.near[i] =>
                 pc[c] = "get" /\ ~Denied(q) /\ q.req[i].limit < q.reply[i] + q.req[i].hits
            /\ UNCHANGED <<now, store, localCache, stats, tally>>
<1> DEFINE q == call[c]
           r == call'[c]
           I == 1 .. Len(q.req)
<1>1. ControlInv(q, pc[c]) /\ Indexes(c) = I
  BY CallerFacts, Zenon DEF Control
<1>2. PICK near \in [Indexes(c) -> BOOLEAN] :
        /\ SetupPipeline(c, near) /\ pc[c] \in {"decide", "get"}
        /\ q.sent = {} /\ q.later = {}
        /\ \A i \in I : near[i] =>
             pc[c] = "get" /\ ~Denied(q) /\ q.req[i].limit < q.reply[i] + q.req[i].hits
  <2>1. CASE Build(c)
    BY <2>1, CallerFacts, <1>1, Zenon DEF Build, ControlInv
  <2>2. CASE BuildAfterGet(c)
    <3> DEFINE near == [i \in Indexes(c) |->
               Counts(c, i) /\ q.reply[i] + Ent(c, i).hits > Ent(c, i).limit]
    <3>1. pc[c] = "get" /\ q.sent = {} /\ q.later = {} /\ SetupPipeline(c, near)
      BY <2>2, Zenon DEF BuildAfterGet
    <3>2. near \in [Indexes(c) -> BOOLEAN]
      BY Zenon
    <3>4. \A i \in I : near[i] => q.req[i].limit < q.reply[i] + q.req[i].hits
      BY <1>1, IndexFacts, Zenon
    <3> HIDE DEF near
    <3> QED BY <1>1, <3>1, <3>2, <3>4, Zenon DEF ControlInv
  <2> QED BY <2>1, <2>2, Zenon
<1>4. /\ OnlyCaller(c) /\ pc'[c] \in {"incr", "respond"}
      /\ r.req = q.req /\ r.t = q.t /\ r.i = 1 /\ r.op = "incr" /\ r.near = near
      /\ r.over = q.over /\ r.code = q.code /\ r.half = q.half
      /\ r.sent \cup r.later = {i \in I : q.req[i].d # Unmatched /\ ~q.over[i]}
      /\ \A i \in I : r.reply[i] = 0
      /\ UNCHANGED <<now, store, localCache, stats, tally>>
  BY <1>2, SetupEffect
<1> QED BY <1>1, <1>2, <1>4, Zenon DEF ControlInv

-----------------------------------------------------------------------------
(* A counter without a TTL *)

Immortal(ctr) == ctr.live /\ ctr.exp = NoTTL

\* A caller at p with local variables q left, or is about to mend, key k.
Awaits(q, p, k) == \E i \in 1 .. Len(q.req) :
  q.req[i].d # Unmatched /\ KeyOf(q, i) = k /\ (p = "error" \/ (Leads(q, i) /\ q.half))

\* NoImmortalCounter, in these terms.
TTLInv == \A k \in Keys :
  Immortal(store[k]) => \E c \in Callers : Awaits(call[c], pc[c], k)

\* Only a broken pipeline leaves a counter without a TTL (pipelineAppend:
\* INCRBY, then EXPIRE): a counter is otherwise without one only while the call
\* that created it is between the two.
THEOREM TTLsSafe == Spec => []NoImmortalCounter
\* It is what NoImmortalCounter says.
<1>1. TTLInv => NoImmortalCounter
  BY Zenon DEF Indexes, Limited, Ent, Key, KeyOf, First, Leads, NoImmortalCounter, TTLInv, Immortal,
     Awaits
\* A step of caller c that creates no counter without a TTL but one it awaits,
\* and stops awaiting none that is left.
<1>2. ASSUME SplitInv, TTLInv, NEW c \in Callers, OnlyCaller(c),
             \A k \in Keys : Immortal(store'[k]) =>
               \/ Awaits(call'[c], pc'[c], k)
               \/ Immortal(store[k]) /\ ~Awaits(call[c], pc[c], k)
      PROVE  TTLInv'
  BY <1>2, ZenonT(30) DEF TTLInv, OnlyCaller
\* A step of DoLimit itself touches no counter; it moves on only when the last
\* EXPIRE has been executed, or to "error".
<1>3. ASSUME SplitInv, TTLInv, NEW c \in Callers, OnlyCaller(c),
             store' = store,
             \/ pc[c] # "error" /\ ~call[c].half
             \/ call[c].req = <<>>
             \/ pc'[c] = "error" /\ call'[c].req = call[c].req /\ call'[c].t = call[c].t
      PROVE  TTLInv'
  BY <1>3, <1>2 DEF Awaits, KeyOf
\* No step of a caller takes back an INCRBY it sent or its EXPIRE.
<1>4. ASSUME SplitInv, Control, TTLInv, NEW c \in Callers,
             \/ \E req \in Requests : Begin(c, req)
             \/ CallerStep(c) \/ GiveUp(c) \/ PipelineFails(c)
      PROVE  TTLInv'
  <2> USE <1>4
  <2>2. pc[c] \in {"idle", "lookup", "decide", "get", "respond", "done"} => ~call[c].half
    BY Zenon DEF ControlInv, Control
  <2>3. call[c].sent = {} => ~call[c].half
    BY Zenon DEF ControlInv, Control
  <2>4. ASSUME NEW req \in Requests, Begin(c, req) PROVE TTLInv'
    BY <2>4, BeginEffect, <2>2, <1>3, Zenon
  <2>5. CASE LookUp(c)
    BY <2>5, LookUpEffect, <2>2, <1>3, Zenon
  <2>6. CASE StartGet(c)
    BY <2>6, StartGetEffect, <2>2, <1>3, Zenon
  <2>7. CASE Build(c) \/ BuildAfterGet(c)
    <3>1. OnlyCaller(c) /\ store' = store
      BY CallerFacts, <2>7, SetupEffect, Zenon DEF Build, BuildAfterGet
    <3> QED BY <2>2, <2>7, <3>1, <1>3, Zenon DEF Build, BuildAfterGet
  <2>8. CASE SendPerSecond(c)
    BY <2>8, SendEffect, <2>3, <1>3, Zenon
  <2>9. CASE Reply(c)
    BY <2>9, ReplyEffect, <2>3, <1>3, Zenon
  <2>10. CASE Respond(c)
    BY <2>10, RespondEffect, <2>2, <1>3, Zenon
  <2>11. CASE GiveUp(c)
    BY <2>11, GiveUpEffect, <1>3, Zenon
  <2>12. CASE PipelineFails(c)
    BY <2>12, PipelineFailsEffect, <1>3, Zenon
  <2> QED BY <2>4, <2>5, <2>6, <2>7, <2>8, <2>9, <2>10, <2>11, <2>12, Zenon DEF CallerStep
\* An INCRBY may create a counter without a TTL: its EXPIRE is awaited.
<1>5. ASSUME SplitInv, Control, TTLInv, NEW c \in Callers, RedisStep(c)
      PROVE  TTLInv'
  <2> USE <1>5
  <2> DEFINE q == call[c]
             r == call'[c]
  <2>1. ControlInv(q, pc[c]) /\ q.sent \subseteq 1 .. Len(q.req) /\ Len(q.req) \in Nat
    BY CallerFacts, Zenon DEF Control
  <2>2. ASSUME SameRest(q, r), pc'[c] = pc[c], NEW k, Awaits(q, pc[c], k),
               \A i \in 1 .. Len(q.req) : Leads(q, i) /\ q.half => KeyOf(q, i) # k
        PROVE  Awaits(r, pc'[c], k)
    BY <2>2, Zenon DEF Awaits, SameRest, KeyOf
  <2>3. CASE ExecGet(c)
    BY <2>3, ExecGetEffect, <2>1, <2>2, <1>2, Zenon DEF ControlInv
  <2>4. CASE ExecIncrBy(c)
    <3>1. PICK h \in 1 .. Len(q.req) :
            /\ OnlyCaller(c) /\ pc'[c] = pc[c] /\ SameRest(q, r)
            /\ Leads(q, h) /\ CountsIn(q, h) /\ ~q.half /\ r.sent = q.sent /\ r.half
            /\ OnlyKey(KeyOf(q, h))
      BY <2>4, ExecIncrByEffect, Zenon
    <3>2. Awaits(r, pc'[c], KeyOf(q, h))
      BY <3>1, Zenon DEF Awaits, SameRest, KeyOf, Leads, CountsIn
    <3>3. ASSUME NEW k \in Keys, Immortal(store'[k])
          PROVE  Awaits(r, pc'[c], k) \/ (Immortal(store[k]) /\ ~Awaits(q, pc[c], k))
      BY <3>2, <3>1, <2>2, <3>3, Zenon DEF OnlyKey
    <3> QED BY <3>1, <3>3, <1>2, Zenon
  <2>5. CASE ExecExpire(c)
    <3>1. PICK h \in 1 .. Len(q.req) :
            /\ OnlyCaller(c) /\ pc'[c] = pc[c] /\ SameRest(q, r) /\ Leads(q, h)
            /\ OnlyKey(KeyOf(q, h))
            /\ store'[KeyOf(q, h)].live => store'[KeyOf(q, h)].exp # NoTTL
      BY <2>5, ExecExpireEffect, Zenon
    <3>3. ASSUME NEW k \in Keys, Immortal(store'[k])
          PROVE  Awaits(r, pc'[c], k) \/ (Immortal(store[k]) /\ ~Awaits(q, pc[c], k))
      BY <2>2, <3>1, <3>3 DEF Immortal, OnlyKey, Leads
    <3> QED BY <3>1, <3>3, <1>2, Zenon
  <2>6. CASE ExecEval(c)
    <3>1. PICK h \in 1 .. Len(q.req) :
            /\ OnlyCaller(c) /\ pc'[c] = pc[c] /\ SameRest(q, r) /\ Leads(q, h) /\ q.req[h].neg
            /\ OnlyKey(KeyOf(q, h))
            /\ store'[KeyOf(q, h)].live => store'[KeyOf(q, h)].exp # NoTTL
      BY <2>6, ExecEvalEffect
    <3>3. ASSUME NEW k \in Keys, Immortal(store'[k])
          PROVE  Awaits(r, pc'[c], k) \/ (Immortal(store[k]) /\ ~Awaits(q, pc[c], k))
      BY <2>1, <2>2, <3>1, <3>3, EvalNotHalf, Zenon DEF Immortal, OnlyKey
    <3> QED BY <3>1, <3>3, <1>2, ZenonT(30)
  <2> QED BY <2>3, <2>4, <2>5, <2>6, Zenon DEF RedisStep
\* Expiry removes the counter; time and the local cache touch none.
<1>6. ASSUME SplitInv, TTLInv, Environment \/ UNCHANGED vars
      PROVE  TTLInv'
  BY <1>6 DEF Environment, Tick, Expire, Evict, vars, SplitInv, Immortal, NoCounter, TTLInv
<1>7. Init => TTLInv
  BY DEF Init, TTLInv, Immortal, NoCounter
<1>8. SplitInv /\ Control /\ TTLInv /\ [Next]_vars => TTLInv'
  BY <1>4, <1>5, <1>6, Zenon DEF Next, Terminated
<1> QED BY <1>7, <1>8, <1>1, SplitInit, SplitNext, ControlInit, ControlNext, PTL DEF Spec

-----------------------------------------------------------------------------
(* Without refunds: what a caller read is still in the counter *)

NoRefunds == \A req \in Requests : \A i \in 1 .. Len(req) : ~req[i].neg

\* Without refunds a counter does not fall while its window is open: it still
\* holds what a caller read from it.
ReadInv(q, p, n, st) ==
  q.op \in {"get", "incr"} /\ p # "error" => \A i \in 1 .. Len(q.req) :
    LET k == KeyOf(q, i) IN
    CountsIn(q, i) /\ n < End(k) =>
      /\ Executed(q, i) => q.reply[i] <= GET(st[k])
      /\ p \in {"incr", "respond"} /\ q.near[i] =>
           q.req[i].limit < (IF Executed(q, i) THEN q.reply[i] ELSE GET(st[k]) + q.req[i].hits)

\* Counters of open windows do not fall.
Growing == \A k \in Keys : now' < End(k) => GET(store[k]) <= GET(store'[k])

Reads == \A c \in Callers : ReadInv(call[c], pc[c], now, store)

\* A counter that is read is a natural number.
LEMMA CounterType ==
  ASSUME SplitInv, NEW k \in Keys
  PROVE  GET(store[k]) \in Nat /\ End(k) \in Nat
BY KeyFacts, Zenon DEF SplitInv, Counter, GET

\* What a step of a call leaves alone: the other callers, the clock, the counters
\* and their histories, the request, and the statistics unless it reports.
LEMMA CallFrame ==
  ASSUME SplitInv, Control, NEW c \in Callers, CallerStep(c) \/ GiveUp(c) \/ PipelineFails(c)
  PROVE  /\ OnlyCaller(c) /\ UNCHANGED <<now, store, tally>>
         /\ call'[c].req = call[c].req /\ call'[c].t = call[c].t
         /\ pc[c] = "error" => pc'[c] = "error"
         /\ (\/ StartGet(c) \/ Build(c) \/ BuildAfterGet(c) \/ SendPerSecond(c) \/ Reply(c)
             \/ GiveUp(c) \/ PipelineFails(c)) => UNCHANGED stats
<1> DEFINE Frame == /\ OnlyCaller(c) /\ UNCHANGED <<now, store, tally>>
                    /\ call'[c].req = call[c].req /\ call'[c].t = call[c].t
                    /\ pc[c] = "error" => pc'[c] = "error"
<1>1. ASSUME LookUp(c) PROVE Frame
  BY <1>1, LookUpEffect, Zenon
<1>2. ASSUME StartGet(c) PROVE Frame
  BY <1>2, StartGetEffect, Zenon
<1>3. ASSUME Build(c) \/ BuildAfterGet(c) PROVE Frame
  BY <1>3, BuildEffect, Zenon
<1>4. ASSUME SendPerSecond(c) PROVE Frame
  BY <1>4, SendEffect
<1>5. ASSUME Reply(c) PROVE Frame
  BY <1>5, ReplyEffect, Zenon
<1>6. ASSUME Respond(c) PROVE Frame
  BY <1>6, RespondEffect, Zenon
<1>7. ASSUME GiveUp(c) PROVE Frame
  BY <1>7, GiveUpEffect, Zenon
<1>8. ASSUME PipelineFails(c) PROVE Frame
  BY <1>8, PipelineFailsEffect, Zenon
<1>9. (\/ StartGet(c) \/ Build(c) \/ BuildAfterGet(c) \/ SendPerSecond(c) \/ Reply(c)
       \/ GiveUp(c) \/ PipelineFails(c)) => UNCHANGED stats
  BY StartGetEffect, BuildEffect, SendEffect, ReplyEffect, GiveUpEffect, PipelineFailsEffect, Zenon
<1> QED BY <1>1, <1>2, <1>3, <1>4, <1>5, <1>6, <1>7, <1>8, <1>9, Zenon DEF CallerStep

\* What a command leaves alone: everything but one counter and one caller.
LEMMA RedisFrame ==
  ASSUME SplitInv, NEW c \in Callers, RedisStep(c)
  PROVE  /\ OnlyCaller(c) /\ pc'[c] = pc[c] /\ SameRest(call[c], call'[c])
         /\ UNCHANGED <<now, localCache, stats>>
<1>1. CASE ExecGet(c)
  BY <1>1, ExecGetEffect, Zenon
<1>2. CASE ExecIncrBy(c)
  BY <1>2, ExecIncrByEffect, Zenon
<1>3. CASE ExecExpire(c)
  BY <1>3, ExecExpireEffect, Zenon
<1>4. CASE ExecEval(c)
  BY <1>4, ExecEvalEffect, Zenon
<1> QED BY <1>1, <1>2, <1>3, <1>4, Zenon DEF RedisStep

\* Every step keeps what was read and the denials of the local caches.
LEMMA LocalNext ==
  ASSUME NoRefunds, SplitInv, SplitInv', Control, Reads, LocalDenialAgreesWithRedis, [Next]_vars
  PROVE  Reads' /\ LocalDenialAgreesWithRedis'
\* Time passes and counters grow: what a caller read is still there.
<1>1. ASSUME SplitInv, SplitInv', NEW c \in Callers, ReadInv(call[c], pc[c], now, store),
             Growing, now <= now'
      PROVE  ReadInv(call[c], pc[c], now', store')
  <2> USE <1>1
  <2> DEFINE q == call[c]
  <2> SUFFICES ASSUME q.op \in {"get", "incr"}, pc[c] # "error", NEW i \in 1 .. Len(q.req),
                      CountsIn(q, i), now' < End(KeyOf(q, i))
               PROVE  /\ Executed(q, i) => q.reply[i] <= GET(store'[KeyOf(q, i)])
                      /\ pc[c] \in {"incr", "respond"} /\ q.near[i] =>
                           q.req[i].limit < (IF Executed(q, i) THEN q.reply[i]
                                             ELSE GET(store'[KeyOf(q, i)]) + q.req[i].hits)
    BY Zenon DEF ReadInv
  <2> DEFINE k == KeyOf(q, i)
  <2>1. /\ k \in Keys /\ q.reply[i] \in Nat /\ q.req[i].hits \in Nat /\ q.req[i].limit \in Nat
    BY IndexFacts, Zenon DEF CountsIn
  <2>2. GET(store[k]) \in Nat /\ GET(store'[k]) \in Nat /\ End(k) \in Nat /\ now \in Nat /\ now' \in Nat
    <3>1. store'[k] \in Counter /\ now' \in Time
      BY <2>1, Zenon DEF SplitInv
    <3>2. GET(store[k]) \in Nat /\ End(k) \in Nat /\ now \in Nat
      BY <2>1, CounterType, CallerFacts, Zenon
    <3> HIDE DEF k, q
    <3> QED BY <3>1, <3>2, RedisCacheAssumption DEF Counter, GET, Time
  <2>3. GET(store[k]) <= GET(store'[k]) /\ now < End(k)
    <3> HIDE DEF q
    <3> QED BY <2>1, <2>2 DEF Growing
  <2>4. /\ Executed(q, i) => q.reply[i] <= GET(store[k])
        /\ pc[c] \in {"incr", "respond"} /\ q.near[i] =>
             q.req[i].limit < (IF Executed(q, i) THEN q.reply[i] ELSE GET(store[k]) + q.req[i].hits)
    BY <2>3, Zenon DEF ReadInv
  <2> HIDE DEF k, q
  <2> QED BY <2>1, <2>2, <2>3, <2>4, SMTT(30) DEF k
\* One caller moves.
<1>2. ASSUME SplitInv, SplitInv', Reads, NEW c \in Callers, OnlyCaller(c), Growing, now <= now',
             ReadInv(call'[c], pc'[c], now', store')
      PROVE  Reads'
  BY <1>2, <1>1, Zenon DEF Reads, OnlyCaller
\* A step of DoLimit itself touches no counter.
<1>3. ASSUME SplitInv, UNCHANGED <<now, store>>
      PROVE  Growing /\ now <= now'
  BY <1>3, CounterType, SMTT(20) DEF Growing, SplitInv, Time
\* The steps of a call keep what was read until its pipelines are built.
<1>4. ASSUME SplitInv, SplitInv', Control, Reads, NEW c \in Callers,
             \/ \E req \in Requests : Begin(c, req)
             \/ CallerStep(c) \/ GiveUp(c) \/ PipelineFails(c)
      PROVE  Reads'
  <2> USE <1>4
  <2> DEFINE q == call[c]
             r == call'[c]
  <2>1. ControlInv(q, pc[c]) /\ ReadInv(q, pc[c], now, store)
    BY Zenon DEF Control, Reads
  <2>4. SUFFICES OnlyCaller(c) /\ ReadInv(r, pc'[c], now, store)
    BY <1>2, BuildEffect, <1>3, Zenon DEF Begin, CallerStep, LookUp, StartGet, SendPerSecond, Reply,
       Respond, GiveUp, PipelineFails
  <2>5. CASE (\E req \in Requests : Begin(c, req)) \/ LookUp(c) \/ GiveUp(c) \/ PipelineFails(c)
    <3>1. OnlyCaller(c) /\ (r.op = "none" \/ pc'[c] = "error")
      <4>1. CASE \E req \in Requests : Begin(c, req)
        BY <4>1, BeginEffect, Zenon
      <4>2. CASE LookUp(c)
        BY <2>1, <4>2, LookUpEffect, Zenon DEF ControlInv
      <4>3. CASE GiveUp(c)
        BY <4>3, GiveUpEffect, Zenon
      <4>4. CASE PipelineFails(c)
        BY <4>4, PipelineFailsEffect, Zenon
      <4> QED BY <2>5, <4>1, <4>2, <4>3, <4>4, Zenon
    <3> QED BY <3>1, Zenon DEF ReadInv
  <2>6. CASE StartGet(c)
    <3>1. /\ OnlyCaller(c) /\ pc[c] = "decide" /\ pc'[c] = "get" /\ r.req = q.req /\ r.half = q.half
          /\ r.sent \cup r.later = {i \in 1 .. Len(q.req) : CountsIn(q, i)}
      BY <2>6, StartGetEffect, Zenon
    <3> QED BY <2>1, <3>1, Zenon DEF ReadInv, CountsIn, Executed, ControlInv
  <2>7. CASE Build(c) \/ BuildAfterGet(c)
    <3> DEFINE I == 1 .. Len(q.req)
    <3>1. /\ OnlyCaller(c) /\ q.sent = {} /\ q.later = {} /\ ~q.half /\ ~r.half
          /\ r.req = q.req /\ r.t = q.t /\ r.over = q.over
          /\ r.sent \cup r.later = {i \in I : q.req[i].d # Unmatched /\ ~q.over[i]}
          /\ \A i \in I : r.reply[i] = 0
          /\ \A i \in I : r.near[i] =>
               pc[c] = "get" /\ ~Denied(q) /\ q.req[i].limit < q.reply[i] + q.req[i].hits
      BY <2>7, BuildEffect, Zenon
    <3> SUFFICES ASSUME NEW i \in I, CountsIn(q, i), now < End(KeyOf(q, i))
                 PROVE  /\ r.reply[i] <= GET(store[KeyOf(q, i)])
                        /\ r.near[i] => /\ ~Executed(r, i)
                                        /\ q.req[i].limit < GET(store[KeyOf(q, i)]) + q.req[i].hits
      BY <3>1, Zenon DEF ReadInv, KeyOf, CountsIn
    <3>2. /\ GET(store[KeyOf(q, i)]) \in Nat /\ q.reply[i] \in Nat
          /\ q.req[i].limit \in Nat /\ q.req[i].hits \in Nat
      BY IndexFacts, CounterType, Zenon DEF CountsIn
    <3>3. ASSUME r.near[i] PROVE ~Executed(r, i) /\ q.reply[i] <= GET(store[KeyOf(q, i)])
      BY <3>1, <3>3, <2>1, Zenon DEF Denied, ControlInv, Executed, CountsIn, ReadInv
    <3> HIDE DEF q, r
    <3> QED BY <3>1, <3>2, <3>3
  <2>8. CASE SendPerSecond(c)
    <3>1. /\ OnlyCaller(c) /\ pc[c] \in {"get", "incr"} /\ pc'[c] = pc[c]
          /\ q.sent = {} /\ r.sent = q.later /\ r.later = {}
          /\ r.req = q.req /\ r.t = q.t /\ r.op = q.op /\ r.near = q.near
          /\ r.half = q.half /\ r.reply = q.reply
      BY <2>8, SendEffect, Zenon
    <3>3. \A i \in 1 .. Len(q.req) : Executed(r, i) = Executed(q, i)
      BY <2>1, <3>1, Zenon DEF Executed, ControlInv
    <3> HIDE DEF q, r
    <3> QED BY <2>1, <3>1, <3>3, Zenon DEF ReadInv, CountsIn, KeyOf
  <2>9. CASE Reply(c)
    BY <2>1, <2>9, ReplyEffect, Zenon DEF ReadInv
  <2>10. CASE Respond(c)
    <3>1. OnlyCaller(c) /\ pc[c] = "respond"
      BY <2>10, RespondEffect, Zenon
    <3>2. \/ r.op = "none"
          \/ /\ pc'[c] = "respond" /\ r.req = q.req /\ r.t = q.t /\ r.op = q.op /\ r.near = q.near
             /\ r.half = q.half /\ r.reply = q.reply /\ r.sent = q.sent /\ r.later = q.later
      BY <2>10, RespondEffect, Zenon
    <3> HIDE DEF q, r
    <3> QED BY <2>1, <3>1, <3>2, Zenon DEF ReadInv, CountsIn, KeyOf, Executed
  <2> QED BY <2>5, <2>6, <2>7, <2>8, <2>9, <2>10 DEF CallerStep
\* Without refunds Redis only adds to a counter.
<1>5. ASSUME SplitInv, SplitInv', Control, Reads, NoRefunds, NEW c \in Callers, RedisStep(c)
      PROVE  Reads' /\ Growing /\ UNCHANGED <<now, localCache>>
  <2> USE <1>5
  <2> DEFINE q == call[c]
             r == call'[c]
             I == 1 .. Len(q.req)
  <2>1. ControlInv(q, pc[c]) /\ ReadInv(q, pc[c], now, store) /\ now \in Nat
    BY CallerFacts, Zenon DEF Control, Reads
  <2>2. CASE ExecGet(c)
    <3>1. PICK h \in 1 .. Len(q.req) :
            /\ OnlyCaller(c) /\ pc'[c] = pc[c] /\ SameRest(q, r)
            /\ q.op = "get" /\ Leads(q, h) /\ r.sent = q.sent \ {h} /\ r.half = q.half
            /\ \A j \in 1 .. Len(q.req) :
                 r.reply[j] = IF j = h THEN GET(store[KeyOf(q, h)]) ELSE q.reply[j]
            /\ UNCHANGED <<now, store, localCache>>
      BY <2>2, ExecGetEffect
    <3>2. ~q.half /\ pc[c] \notin {"incr", "respond"}
      BY <2>1, <3>1, CallerFacts, Zenon DEF ControlInv, CallInv
    <3>3. ReadInv(r, pc'[c], now, store)
      <4> SUFFICES ASSUME pc[c] # "error", NEW i \in I, CountsIn(q, i), now < End(KeyOf(q, i)),
                          Executed(r, i)
                   PROVE  r.reply[i] <= GET(store[KeyOf(q, i)])
        BY <3>1, <3>2, Zenon DEF ReadInv, SameRest, CountsIn, KeyOf
      <4>1. GET(store[KeyOf(q, i)]) \in Nat
        BY IndexFacts, CounterType, Zenon DEF CountsIn
      <4>2. CASE i = h
        BY <3>1, <4>1, <4>2
      <4>3. CASE i # h
        BY <3>1, <3>2, <4>3, <2>1, Zenon DEF Executed, SameRest, ReadInv
      <4> QED BY <4>2, <4>3, Zenon
    <3> QED BY <3>1, <3>3, <1>3, <1>2, SMTT(30)
  <2>3. CASE ExecIncrBy(c)
    <3>1. PICK h \in 1 .. Len(q.req) : LET k == KeyOf(q, h) IN
            /\ OnlyCaller(c) /\ pc'[c] = pc[c] /\ SameRest(q, r)
            /\ q.op = "incr" /\ Leads(q, h) /\ CountsIn(q, h) /\ ~q.half
            /\ r.sent = q.sent /\ r.half
            /\ \A j \in 1 .. Len(q.req) :
                 r.reply[j] = IF j = h THEN GET(store[k]) + q.charge[h] ELSE q.reply[j]
            /\ k \in Keys /\ OnlyKey(k)
            /\ GET(store'[k]) = GET(store[k]) + q.charge[h]
            /\ UNCHANGED <<now, localCache>>
      BY <2>3, ExecIncrByEffect, Zenon
    <3> DEFINE k == KeyOf(q, h)
    <3>2. GET(store[k]) \in Nat /\ q.charge[h] \in Nat
      <4>1. k \in Keys
        BY <3>1, Zenon
      <4> QED BY <4>1, IndexFacts, CounterType, Zenon
    <3>3. Growing
      <4> SUFFICES ASSUME NEW j \in Keys PROVE GET(store[j]) <= GET(store'[j])
        BY Zenon DEF Growing
      <4>1. CASE j = k
        <5> HIDE DEF q, r
        <5> QED BY <3>1, <3>2, <4>1, SMTT(30)
      <4>2. CASE j # k
        BY <3>1, <4>2, CounterType, SMTT(20) DEF OnlyKey
      <4> QED BY <4>1, <4>2, Zenon
    <3>4. now <= now'
      <4> HIDE DEF k, q, r, I
      <4> QED BY <2>1, <3>1
    <3>5. ReadInv(r, pc'[c], now', store')
      <4> SUFFICES ASSUME pc[c] # "error", NEW i \in I, CountsIn(q, i), now < End(KeyOf(q, i))
                   PROVE  /\ Executed(r, i) => r.reply[i] <= GET(store'[KeyOf(q, i)])
                          /\ pc[c] \in {"incr", "respond"} /\ q.near[i] =>
                               q.req[i].limit < (IF Executed(r, i) THEN r.reply[i]
                                                 ELSE GET(store'[KeyOf(q, i)]) + q.req[i].hits)
        BY <3>1, Zenon DEF ReadInv, SameRest, CountsIn, KeyOf
      <4>2. CASE i = h
        <5>1. r.reply[i] = GET(store'[k]) /\ GET(store'[k]) \in Nat
          <6> HIDE DEF q, r
          <6> QED BY <3>1, <3>2, <4>2, SMTT(30)
        <5>3. ASSUME pc[c] \in {"incr", "respond"}, q.near[i] PROVE q.req[i].limit < r.reply[i]
          <6>1. q.charge[h] = q.req[h].hits /\ ~Executed(q, h)
            <7> HIDE DEF k, q, r, I
            <7> QED BY <2>1, <3>1, <4>2, <5>3, NearCharge, Zenon
          <6>2. q.req[h].limit < GET(store[k]) + q.req[h].hits
            <7> HIDE DEF q, r
            <7> QED BY <2>1, <3>1, <4>2, <5>3, <6>1, Zenon DEF ReadInv
          <6> HIDE DEF q, r
          <6> QED BY <3>1, <4>2, <6>1, <6>2
        <5>4. GET(store'[k]) <= GET(store'[k]) + q.req[i].hits /\ q.req[i].limit \in Nat
              /\ q.req[i].hits \in Nat
          <6>1. q.req[i].limit \in Nat /\ q.req[i].hits \in Nat
            BY IndexFacts, Zenon
          <6> HIDE DEF k, q, r
          <6> QED BY <5>1, <6>1
        <5> HIDE DEF q, r
        <5> QED BY <4>2, <5>1, <5>3, <5>4, SMTT(30)
      <4>3. CASE i # h
        <5>1. Executed(r, i) = Executed(q, i)
          <6>1. h \in Nat /\ i \in Nat /\ i # h /\ r.sent = q.sent /\ r.later = q.later
            <7> HIDE DEF q, r
            <7> QED BY <3>1, <4>3, SMTT(30) DEF SameRest
          <6>2. i \in q.sent => ~\A j \in q.sent : i <= j
            <7> HIDE DEF k, q, r, I
            <7> QED BY <3>1, <6>1 DEF Leads
          <6> QED BY <6>1, <6>2, Zenon DEF Executed
        <5> QED BY <2>1, <3>1, <3>3, <3>4, <4>3, <5>1, <1>1, Zenon DEF ReadInv
      <4> QED BY <4>2, <4>3, Zenon
    <3> QED BY <3>1, <3>3, <3>4, <3>5, <1>2, Zenon
  <2>4. CASE ExecExpire(c)
    <3>1. PICK h \in 1 .. Len(q.req) : LET k == KeyOf(q, h) IN
            /\ OnlyCaller(c) /\ pc'[c] = pc[c] /\ SameRest(q, r) /\ r.reply = q.reply
            /\ q.op = "incr" /\ Leads(q, h) /\ q.half
            /\ r.sent = q.sent \ {h} /\ ~r.half
            /\ k \in Keys /\ OnlyKey(k) /\ GET(store'[k]) = GET(store[k])
            /\ UNCHANGED <<now, localCache>>
      BY <2>4, ExecExpireEffect, ZenonT(30)
    <3>2. Growing /\ now <= now'
      BY <2>1, <3>1, CounterType DEF Growing, OnlyKey
    <3>4. \A i \in I : Executed(r, i) <=> Executed(q, i)
      <4> HIDE DEF q, r
      <4> QED BY <3>1, ExpireExecutes, Zenon
    <3> QED BY <2>1, <3>1, <3>2, <3>4, <1>2, <1>1, Zenon DEF ReadInv, SameRest, CountsIn, KeyOf
  <2>5. CASE ExecEval(c)
    <3>1. PICK h \in 1 .. Len(q.req) : q.req[h].neg
      BY <2>5, ExecEvalEffect, Zenon
    <3> QED BY <3>1, IndexFacts, Zenon DEF NoRefunds
  <2> QED BY <2>2, <2>3, <2>4, <2>5 DEF RedisStep
\* A counter is dropped only after its window.
<1>6. ASSUME SplitInv, SplitInv', Reads, Environment \/ UNCHANGED vars
      PROVE  Reads' /\ Growing /\ now <= now'
  <2> USE <1>6
  <2>2. now <= now' /\ now \in Nat /\ now' \in Nat
    BY SMTT(30) DEF SplitInv, Time, Environment, Tick, Expire, Evict, vars
  <2>3. Growing
    BY CounterType, <2>2 DEF Growing, Expire, SplitInv, Due, KeyInv, Counter, NoTTL,
       Environment, Tick, Evict, vars
  <2> QED BY <2>2, <2>3, <1>1, SMTT(30) DEF Reads, Environment, Tick, Expire, Evict, vars
\* The limits of a key's rule.
<1>7. ASSUME NEW k \in Keys
      PROVE  k[1] \in Descriptors /\ Limits[k[1]] \subseteq Nat
  BY <1>7, RedisCacheAssumption, SMTT(20) DEF Keys
\* A step that adds nothing to the local cache, while counters only grow.
<1>8. ASSUME SplitInv, SplitInv', LocalDenialAgreesWithRedis, Growing, now <= now',
             \A inst \in Instances, k \in Keys :
               localCache'[inst][k] # 0 => localCache'[inst][k] = localCache[inst][k]
      PROVE  LocalDenialAgreesWithRedis'
  <2> USE <1>8
  <2> SUFFICES ASSUME NEW inst \in Instances, NEW k \in Keys,
                      now' < localCache'[inst][k], now' < End(k)
               PROVE  \E l \in Limits[k[1]] : l < GET(store'[k])
    BY ZenonT(30) DEF LocalDenialAgreesWithRedis
  <2>1. now \in Nat /\ now' \in Nat /\ End(k) \in Nat /\ GET(store[k]) \in Nat
    BY CounterType, SMTT(20) DEF SplitInv, Time
  <2>3. localCache'[inst][k] \in Nat /\ localCache'[inst][k] = localCache[inst][k]
    BY <2>1 DEF SplitInv, LocalInv
  <2>4. PICK l \in Limits[k[1]] : l < GET(store[k])
    BY <2>1, <2>3 DEF LocalDenialAgreesWithRedis
  <2>5. l \in Nat
    BY <1>7, Zenon
  <2> QED BY <2>1, <2>4, <2>5 DEF SplitInv, Counter, GET, Growing
\* An entry is made for a counter that answered beyond the limit, and has not
\* fallen since.
<1>9. ASSUME SplitInv, Control, Reads, LocalDenialAgreesWithRedis, NEW c \in Callers, Respond(c)
      PROVE  LocalDenialAgreesWithRedis'
  <2> USE <1>9
  <2> DEFINE q == call[c]
             i == q.i
  <2>1. /\ pc[c] = "respond" /\ i \in 1 .. Len(q.req) /\ UNCHANGED <<now, store>>
        /\ \A inst \in Instances, k \in Keys : localCache'[inst][k] # localCache[inst][k] =>
             k = KeyOf(q, i) /\ CountsIn(q, i) /\ q.req[i].limit < q.reply[i]
    BY RespondEffect, Zenon
  <2> SUFFICES ASSUME NEW inst \in Instances, NEW k \in Keys,
                      now < localCache'[inst][k], now < End(k)
               PROVE  \E l \in Limits[k[1]] : l < GET(store[k])
    BY <2>1, Zenon DEF LocalDenialAgreesWithRedis
  <2>2. CASE localCache'[inst][k] = localCache[inst][k]
    BY <2>2, Zenon DEF LocalDenialAgreesWithRedis
  <2>3. CASE localCache'[inst][k] # localCache[inst][k]
    <3>1. k = KeyOf(q, i) /\ CountsIn(q, i) /\ q.req[i].limit < q.reply[i]
      BY <2>1, <2>3, ZenonT(30)
    <3>2. q.op = "incr" /\ Executed(q, i)
      <4>1. CallInv(q, pc[c], now, tally) /\ ControlInv(q, pc[c]) /\ pc[c] = "respond"
        BY <2>1, CallerFacts, Zenon DEF Control
      <4> HIDE DEF q, i
      <4> QED BY <4>1 DEF CallInv, ControlInv, Executed
    <3>3. q.reply[i] <= GET(store[k])
      BY <2>1, <3>1, <3>2, Zenon DEF Reads, ReadInv
    <3>4. /\ q.req[i].limit \in Limits[k[1]] /\ q.req[i].limit \in Nat /\ q.reply[i] \in Nat
          /\ GET(store[k]) \in Nat
      <4>1. q.req[i].d # Unmatched
        BY <3>1, Zenon DEF CountsIn
      <4>2. /\ q.req[i].limit \in Limits[q.req[i].d] /\ KeyOf(q, i)[1] = q.req[i].d
            /\ q.req[i].limit \in Nat /\ q.reply[i] \in Nat
        BY <2>1, <4>1, IndexFacts, Zenon
      <4>3. GET(store[k]) \in Nat
        BY CounterType, Zenon
      <4> QED BY <3>1, <4>2, <4>3, Zenon
    <3>5. q.req[i].limit < GET(store[k])
      <4> HIDE DEF q, i
      <4> QED BY <3>1, <3>3, <3>4
    <3> QED BY <3>4, <3>5, Zenon
  <2> QED BY <2>2, <2>3, Zenon
<1> DEFINE Keep == \A inst \in Instances, k \in Keys :
             localCache'[inst][k] # 0 => localCache'[inst][k] = localCache[inst][k]
<1>10. ASSUME NEW c \in Callers,
             \/ \E req \in Requests : Begin(c, req)
             \/ CallerStep(c) \/ GiveUp(c) \/ PipelineFails(c)
      PROVE  Reads' /\ LocalDenialAgreesWithRedis'
  BY <1>10, <1>4, <1>9, BuildEffect, <1>3, <1>8, Zenon DEF Begin, CallerStep, LookUp, StartGet,
     SendPerSecond, Reply, GiveUp, PipelineFails
<1>11. ASSUME NEW c \in Callers, RedisStep(c)
      PROVE  Reads' /\ LocalDenialAgreesWithRedis'
  <2>2. now <= now' /\ Keep
    BY <1>11, <1>5 DEF SplitInv, Time
  <2> QED BY <1>11, <2>2, <1>8, <1>5, SMTT(20)
<1>12. CASE Environment \/ UNCHANGED vars
  <2>2. Keep
    <3> SUFFICES ASSUME NEW inst \in Instances, NEW k \in Keys, localCache'[inst][k] # 0
                 PROVE  localCache'[inst][k] = localCache[inst][k]
      BY Zenon
    <3>2. CASE Tick
      BY <3>2, Zenon DEF Tick
    <3>3. ASSUME NEW x \in Instances, NEW j \in Keys, Evict(x, j)
          PROVE  localCache'[inst][k] = localCache[inst][k]
      BY <3>3 DEF Evict
    <3>4. CASE UNCHANGED localCache
      BY <3>4, Zenon
    <3> QED BY <1>12, <3>2, <3>3, Zenon DEF Environment, Expire, vars
  <2> QED BY <1>12, <2>2, <1>8, <1>6
<1> QED BY <1>10, <1>11, <1>12, Zenon DEF Next, Terminated

\* Nothing was read or denied yet.
LEMMA ReadsInit == Init => Reads /\ LocalDenialAgreesWithRedis
<1> SUFFICES ASSUME Init PROVE Reads /\ LocalDenialAgreesWithRedis
  BY Zenon
<1>1. ASSUME NEW c \in Callers PROVE ReadInv(call[c], pc[c], now, store)
  <2>2. call[c].op = "none"
    BY NewCallFields DEF Init
  <2> QED BY <2>2, Zenon DEF ReadInv
<1> QED BY <1>1 DEF Reads, Init, LocalDenialAgreesWithRedis

\* Where no request gives hits back, the local cache agrees with Redis until the
\* window ends (IsOverLimitWithLocalCache): a counter does not fall within its
\* window, so what took a status over the limit still does.
THEOREM LocalDenialCurrent ==
  ASSUME NoRefunds
  PROVE  Spec => []LocalDenialAgreesWithRedis
<1>1. SplitInv /\ SplitInv' /\ Control /\ Reads /\ LocalDenialAgreesWithRedis /\ [Next]_vars
        => Reads' /\ LocalDenialAgreesWithRedis'
  BY LocalNext, Zenon
<1> QED BY <1>1, ReadsInit, SplitInit, SplitNext, ControlInit, ControlNext, PTL DEF Spec
===============================================================================
