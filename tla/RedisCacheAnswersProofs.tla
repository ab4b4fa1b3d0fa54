------------------------ MODULE RedisCacheAnswersProofs ------------------------
(***************************************************************************)
(* What the callers of DoLimit are told, for every set of callers,         *)
(* instances, rules, requests and windows: that the hits answered OK, and  *)
(* those of whole requests, stay within the limit, and that the statistics *)
(* add up.                                                                 *)
(*                                                                         *)
(* The invariants build on SplitInv and Control of RedisCacheProofs.  The  *)
(* sums are over the descriptors of all calls and over the keys of a rule. *)
(***************************************************************************)
EXTENDS RedisCacheProofs, SumProofs

-----------------------------------------------------------------------------
(* The invariants *)

\* Charged, and the counter answered a value within the limit.
Granted(q, i) ==
  /\ Executed(q, i) /\ ~q.over[i]
  /\ q.reply[i] <= q.req[i].limit /\ q.charge[i] = q.req[i].hits

\* Every status was OK, before any window ended (AdmittedCaller).
Admitted(q, n) == \A i \in 1 .. Len(q.req) :
  q.code[i] = OK /\ (q.req[i].d # Unmatched => n < End(KeyOf(q, i)))

\* The descriptors of a caller whose hits key k granted.
GrantsOf(q, p, n, k) == {i \in 1 .. Len(q.req) :
  /\ CountsIn(q, i) /\ KeyOf(q, i) = k
  /\ \/ p \in {"incr", "respond"} /\ Granted(q, i)
     \/ p = "done" /\ q.code[i] = OK /\ (StopCacheKeyIncrementWhenOverlimit => Admitted(q, n))}

Grants(k) == {ci \in Pairs : ci[2] \in GrantsOf(call[ci[1]], pc[ci[1]], now, k)}

\* The hits granted in an open window were all admitted by its counter.
GrantInv == \A k \in Keys :
  now < End(k) /\ k[1] \notin Shadow => SumHits(Grants(k)) <= tally[k].adm

\* Charged, with the statistics still to be written.
UnreportedOf(q, p, d) == {i \in 1 .. Len(q.req) :
  /\ p \in {"incr", "respond"} /\ q.req[i].d = d /\ ~q.req[i].neg
  /\ ~q.over[i] /\ Executed(q, i) /\ q.i <= i}

Unreported(d) == {ci \in Pairs : ci[2] \in UnreportedOf(call[ci[1]], pc[ci[1]], d)}

KeysOf(d) == {k \in Keys : k[1] = d}

\* What a counter at n stands for in the statistics over_limit and near_limit.
Level(n, limit, s) == IF s = "over" THEN Excess(n, limit) ELSE NearPart(n, limit)

Part(d, q, i, s) ==
  Level(q.reply[i], MaxLimit[d], s) - Level(q.reply[i] - q.req[i].hits, MaxLimit[d], s)

\* What is still to be written, what was written and what the counters hold.
ToCome(d, s) ==
  SumFunctionOnSet([ci \in Unreported(d) |-> Part(d, call[ci[1]], ci[2], s)], Unreported(d))

Written(d, s) ==
  IF s = "over" THEN stats[d].over - stats[d].overLocal ELSE stats[d].near

Held(d, s) ==
  SumFunctionOnSet([k \in KeysOf(d) |-> Level(tally[k].chg, MaxLimit[d], s)], KeysOf(d))

\* No call failed and no counter of the rule lost a charge or outgrew a uint64.
Intact(d) ==
  /\ \A c \in Callers : pc[c] # "error"
  /\ \A k \in KeysOf(d) : GET(store[k]) = tally[k].chg /\ tally[k].chg < UintModulus

StatsInv == \A d \in Descriptors : \A s \in {"over", "near"} :
  Intact(d) => Written(d, s) + ToCome(d, s) = Held(d, s)

\* A shadow rule reports every over-limit hit as overridden.
ShadowInv == \A d \in Descriptors :
  stats[d].shadow = IF d \in Shadow THEN stats[d].over ELSE 0

-----------------------------------------------------------------------------
(* What a command or a status does to the local variables q of a call *)

\* The hits that the statistics hold are an integer.
LEMMA WrittenType ==
  ASSUME SplitInv, NEW d \in Descriptors, NEW s
  PROVE  Written(d, s) \in Int
<1>1. stats[d].over \in Nat /\ stats[d].near \in Nat /\ stats[d].overLocal \in Nat
  BY Zenon DEF SplitInv, StatsType
<1> QED BY <1>1 DEF Written

\* What one charge moves over_limit or near_limit by is an integer.
LEMMA PartType ==
  ASSUME NEW d, NEW q, NEW i, NEW s, NEW n, q.reply[i] = n, NEW m, q.reply[i] - q.req[i].hits = m,
         Level(n, MaxLimit[d], s) \in Int, Level(m, MaxLimit[d], s) \in Int
  PROVE  Part(d, q, i, s) \in Int
BY DEF Part

\* A caller whose INCRBY is due waits for the replies, with no status made yet.
LEMMA IncrPlace ==
  ASSUME NEW q, NEW p \in PcType \ {"error"}, ControlInv(q, p), q.op = "incr",
         NEW h, Leads(q, h)
  PROVE  p = "incr" /\ q.i = 1 /\ q.i <= h /\ h \notin q.later /\ ~q.over[h]
BY DEF PcType, ControlInv, Leads

\* No command of q but h is executed, or answered, between q and r.
SameOthers(q, r, h) == \A i \in 1 .. Len(q.req) :
  i # h => (Executed(r, i) <=> Executed(q, i)) /\ r.reply[i] = q.reply[i]

\* The charge of h joins what d has to report, and no other part changes.
JoinsUnreported(q, r, h, d, s) ==
  LET old == UnreportedOf(q, "incr", d)
      new == UnreportedOf(r, "incr", d)
  IN /\ h \notin old /\ new = IF q.req[h].d = d THEN old \cup {h} ELSE old
     /\ \A i \in old : Part(d, r, i, s) = Part(d, q, i, s)

\* The charge that an INCRBY makes is to be reported, and no other changes.
LEMMA UnreportedAfterIncr ==
  ASSUME NEW q, NEW r, SameRest(q, r), NEW h \in 1 .. Len(q.req), CountsIn(q, h), ~q.over[h], q.i <= h,
         Executed(r, h), ~Executed(q, h), SameOthers(q, r, h), NEW d, NEW s
  PROVE  JoinsUnreported(q, r, h, d, s)
<1> DEFINE old == UnreportedOf(q, "incr", d)
           new == UnreportedOf(r, "incr", d)
<1>1. r.req = q.req /\ r.over = q.over /\ r.i = q.i
  BY DEF SameRest
<1>2. h \notin old /\ new = IF q.req[h].d = d THEN old \cup {h} ELSE old
  BY <1>1 DEF UnreportedOf, CountsIn, SameOthers
<1>3. \A i \in old : i \in 1 .. Len(q.req) /\ i # h
  BY <1>2 DEF UnreportedOf
<1>4. \A i \in old : Part(d, r, i, s) = Part(d, q, i, s)
  BY <1>1, <1>3, Zenon DEF Part, SameOthers
<1> QED BY <1>2, <1>4, Zenon DEF JoinsUnreported

\* A status takes its descriptor from what is to be reported, and no other.
LEMMA UnreportedAfterRespond ==
  ASSUME NEW q, NEW r, r.req = q.req, q.i \in 1 .. Len(q.req), Len(q.req) \in Nat,
         \A j \in 1 .. Len(q.req) : Executed(q, j), NEW p,
         \/ p = "done" /\ q.i = Len(q.req)
         \/ /\ p = "respond" /\ r.i = q.i + 1 /\ r.over = q.over /\ r.half = q.half
            /\ r.reply = q.reply /\ r.sent = q.sent /\ r.later = q.later,
         NEW d, NEW s
  PROVE  LET old == UnreportedOf(q, "respond", d)
             new == UnreportedOf(r, p, d)
         IN new = old \ {q.i} /\ \A j \in new : Part(d, r, j, s) = Part(d, q, j, s)
<1> DEFINE N == Len(q.req)
           old == UnreportedOf(q, "respond", d)
           new == UnreportedOf(r, p, d)
           open(j) == q.req[j].d = d /\ ~q.req[j].neg /\ ~q.over[j]
<1>1. old = {j \in 1 .. N : open(j) /\ q.i <= j}
  BY Zenon DEF UnreportedOf
<1>2. CASE p = "done" /\ q.i = N
  <2>1. new = {}
    BY <1>2, Zenon DEF UnreportedOf
  <2>2. N \in Nat /\ q.i = N
    BY <1>2
  <2>3. \A j \in 1 .. N : q.i <= j => j = q.i
    <3> HIDE DEF N
    <3> QED BY <2>2
  <2> HIDE DEF new, N, open
  <2>4. old \ {q.i} = {}
    BY <1>1, <2>3, Zenon
  <2> QED BY <2>1, <2>4, Zenon DEF new
<1>3. CASE /\ p = "respond" /\ r.i = q.i + 1 /\ r.over = q.over /\ r.half = q.half
           /\ r.reply = q.reply /\ r.sent = q.sent /\ r.later = q.later
  <2>1. new = {j \in 1 .. N : open(j) /\ q.i + 1 <= j}
    BY <1>3, Zenon DEF UnreportedOf, Executed
  <2>2. \A j \in new : Part(d, r, j, s) = Part(d, q, j, s)
    BY <1>3, Zenon DEF Part
  <2> HIDE DEF open
  <2>3. {j \in 1 .. N : open(j) /\ q.i + 1 <= j} = {j \in 1 .. N : open(j) /\ q.i <= j} \ {q.i}
    OBVIOUS
  <2> QED BY <1>1, <2>1, <2>2, <2>3, Zenon
<1> QED BY <1>2, <1>3, Zenon

-----------------------------------------------------------------------------
(* The hits that clients are granted *)

\* The descriptors of all calls are a finite set: only calls that have begun
\* have any.
FinitePairs == IsFiniteSet(Pairs)

\* A pair is a descriptor of a caller.
LEMMA PairFacts ==
  ASSUME NEW ci
  PROVE  ci \in Pairs <=> \E c \in Callers : \E i \in 1 .. Len(call[c].req) : ci = <<c, i>>
BY DEF Pairs, Indexes

\* No call has begun.
LEMMA PairsInit == Init => FinitePairs
<1> SUFFICES ASSUME Init PROVE FinitePairs
  BY Zenon
<1>1. ASSUME NEW c \in Callers PROVE Len(call[c].req) = 0
  BY Zenon DEF Init, NewCall
<1> QED BY <1>1, FS_EmptySet, PairFacts DEF FinitePairs

\* A step that leaves the requests alone.
LEMMA SameRequests ==
  ASSUME \A c \in Callers : call'[c].req = call[c].req
  PROVE  Pairs' = Pairs
BY Zenon DEF Pairs, Indexes

\* Every step keeps the pairs finite.
LEMMA PairsNext == SplitInv /\ Control /\ FinitePairs /\ [Next]_vars => FinitePairs'
\* A call begins.
<1>1. ASSUME SplitInv, Control, NEW c \in Callers, NEW req \in Requests, Begin(c, req), FinitePairs
      PROVE  /\ FinitePairs'
             /\ \A ci \in Pairs : ci \in Pairs' /\ ci[1] # c
  <2> USE <1>1
  <2>1. /\ OnlyCaller(c) /\ pc[c] = "idle" /\ call'[c].req = req
    BY BeginEffect, Zenon
  <2>3. Len(call[c].req) = 0
    <3>1. call[c].req = <<>>
      BY <2>1, Zenon DEF Control, ControlInv
    <3> QED BY <3>1
  <2> DEFINE New == {c} \X (1 .. Len(req))
  <2>4. IsFiniteSet(New)
    <3>1. IsFiniteSet(1 .. Len(req))
      BY FS_Interval
    <3> QED BY <3>1, FS_Product, FS_Singleton, Zenon
  <2>5. Pairs' = Pairs \cup New
    BY <2>1, <2>3 DEF OnlyCaller, Pairs, Indexes
  <2>6. \A ci \in Pairs : ci[1] # c
    BY <2>3, PairFacts
  <2> QED BY <2>4, <2>5, <2>6, FS_Union, Zenon DEF FinitePairs
\* No other step changes a request.
<1>2. ASSUME SplitInv, Control, FinitePairs, [Next]_vars,
             ~\E c \in Callers, req \in Requests : Begin(c, req)
      PROVE  Pairs' = Pairs /\ \A c \in Callers : call'[c].req = call[c].req /\ call'[c].t = call[c].t
  <2> USE <1>2
  <2>1. \A c \in Callers : call'[c].req = call[c].req /\ call'[c].t = call[c].t
    <3>1. ASSUME NEW c \in Callers, CallerStep(c) \/ RedisStep(c) \/ GiveUp(c) \/ PipelineFails(c)
          PROVE  OnlyCaller(c) /\ call'[c].req = call[c].req /\ call'[c].t = call[c].t
      BY <3>1, CallFrame, RedisFrame, Zenon DEF SameRest
    <3>2. ASSUME NEW c \in Callers, OnlyCaller(c), call'[c].req = call[c].req, call'[c].t = call[c].t
          PROVE  \A x \in Callers : call'[x].req = call[x].req /\ call'[x].t = call[x].t
      BY <3>2, Zenon DEF OnlyCaller
    <3>3. CASE UNCHANGED call
      BY <3>3, Zenon
    <3> QED BY <3>1, <3>2, Zenon DEF Next, Environment, Tick, Expire, Evict, Terminated, vars
  <2> QED BY <2>1, SameRequests, Zenon
<1> QED BY <1>1, <1>2, Zenon DEF FinitePairs

\* SumHits, Grants and the hits of a pair, as functions of the state they read.
HitsOf(cl, ci) == cl[ci[1]].req[ci[2]].hits

\* SumHits reads the hits of the calls.
LEMMA SumHitsOf ==
  ASSUME NEW S
  PROVE  SumHits(S) = SumFunctionOnSet([ci \in S |-> HitsOf(call, ci)], S)
BY Zenon DEF SumHits, Ent, HitsOf

\* A grant is one of a caller.
LEMMA GrantFacts ==
  ASSUME SplitInv, NEW k
  PROVE  /\ Grants(k) \subseteq Pairs
         /\ \A ci \in Pairs : HitsOf(call, ci) \in Nat
         /\ \A c \in Callers : \A i \in GrantsOf(call[c], pc[c], now, k) :
              i \in 1 .. Len(call[c].req) /\ <<c, i>> \in Grants(k)
         /\ \A ci \in Grants(k) : \E c \in Callers :
              \E i \in GrantsOf(call[c], pc[c], now, k) : ci = <<c, i>>
<1>2. ASSUME NEW ci \in Pairs PROVE HitsOf(call, ci) \in Nat
  <2>1. PICK c \in Callers : \E i \in 1 .. Len(call[c].req) : ci = <<c, i>>
    BY PairFacts, Zenon
  <2>2. PICK i \in 1 .. Len(call[c].req) : ci = <<c, i>>
    BY <2>1, Zenon
  <2> QED BY <2>2, IndexFacts, Zenon DEF HitsOf
<1>3. ASSUME NEW c \in Callers, NEW i \in GrantsOf(call[c], pc[c], now, k)
      PROVE  i \in 1 .. Len(call[c].req) /\ <<c, i>> \in Grants(k)
  BY PairFacts, Zenon DEF GrantsOf, Grants
<1>4. ASSUME NEW ci \in Grants(k)
      PROVE  \E c \in Callers : \E i \in GrantsOf(call[c], pc[c], now, k) : ci = <<c, i>>
  BY PairFacts DEF Grants
<1> QED BY <1>2, <1>3, <1>4, Zenon DEF Grants

\* Fewer pairs have fewer hits, whatever the other pairs become.
LEMMA SumHitsWithin ==
  ASSUME SplitInv, FinitePairs, NEW T, T \subseteq Pairs, NEW G, G \subseteq T, NEW cl,
         \A ci \in G : HitsOf(cl, ci) = HitsOf(call, ci)
  PROVE  /\ SumFunctionOnSet([ci \in G |-> HitsOf(cl, ci)], G) <= SumHits(T)
         /\ SumFunctionOnSet([ci \in G |-> HitsOf(cl, ci)], G) \in Nat /\ SumHits(T) \in Nat
<1> DEFINE f == [ci \in G |-> HitsOf(cl, ci)]
           g == [ci \in T |-> HitsOf(call, ci)]
<1>1. IsFiniteSet(T) /\ IsFiniteSet(G) /\ \A ci \in T : g[ci] \in Nat
  BY GrantFacts, FS_Subset, Zenon DEF FinitePairs
<1>2. \A ci \in G : f[ci] = g[ci] /\ f[ci] \in Nat
  BY <1>1, Zenon
<1>3. SumHits(T) = SumFunctionOnSet(g, T)
  BY SumHitsOf, Zenon
<1> HIDE DEF f, g
<1>4. SumFunctionOnSet(f, G) <= SumFunctionOnSet(g, T)
  BY <1>1, <1>2, SumSubset, Zenon
<1>5. SumFunctionOnSet(f, G) \in Nat /\ SumFunctionOnSet(g, T) \in Nat
  BY <1>1, <1>2, SumType, Zenon
<1> QED BY <1>3, <1>4, <1>5, Zenon DEF f

\* One pair more adds its hits.
LEMMA SumHitsAdd ==
  ASSUME SplitInv, FinitePairs, NEW T, T \subseteq Pairs, NEW a \in Pairs, a \notin T
  PROVE  SumHits(T \cup {a}) = SumHits(T) + HitsOf(call, a) /\ HitsOf(call, a) \in Nat
<1> DEFINE g == [ci \in T \cup {a} |-> HitsOf(call, ci)]
           f == [ci \in T |-> HitsOf(call, ci)]
<1>1. IsFiniteSet(T) /\ HitsOf(call, a) \in Nat /\ g[a] = HitsOf(call, a)
      /\ (\A ci \in T \cup {a} : g[ci] \in Nat) /\ \A ci \in T : f[ci] = g[ci]
  BY GrantFacts, FS_Subset, Zenon DEF FinitePairs
<1>2. SumHits(T \cup {a}) = SumFunctionOnSet(g, T \cup {a}) /\ SumHits(T) = SumFunctionOnSet(f, T)
  BY SumHitsOf, Zenon
<1> HIDE DEF f, g
<1>3. SumFunctionOnSet(f, T) = SumFunctionOnSet(g, T) /\ SumFunctionOnSet(g, T) \in Nat
  BY <1>1, SumSame, SumType
<1>4. SumFunctionOnSet(g, T \cup {a}) = g[a] + SumFunctionOnSet(g, T)
  BY <1>1, SumAdd
<1> QED BY <1>1, <1>2, <1>3, <1>4

\* What a step of caller c may do to the grants of key k.
GrantMove(c, k) ==
  LET old == GrantsOf(call[c], pc[c], now, k)
      new == GrantsOf(call'[c], pc'[c], now, k)
  IN \/ new \subseteq old /\ tally[k].adm <= tally'[k].adm
     \/ \E h \in 1 .. Len(call[c].req) :
          /\ h \notin old /\ new \subseteq old \cup {h}
          /\ tally'[k].adm = tally[k].adm + call[c].req[h].hits

\* Nothing is granted at first.
LEMMA GrantInit == Init => GrantInv
<1> SUFFICES ASSUME Init, NEW k \in Keys PROVE SumHits(Grants(k)) <= tally[k].adm
  BY Zenon DEF GrantInv
<1>2. Grants(k) = {}
  BY PairFacts DEF Grants, GrantsOf, Init
<1>3. SumHits({}) = 0
  BY SumHitsOf, SumEmpty, Zenon
<1> QED BY <1>2, <1>3 DEF Init, NoTally

\* Every step keeps the grants within what was admitted.
LEMMA GrantNext ==
  ASSUME SplitInv, SplitInv', Control, FinitePairs, GrantInv, [Next]_vars,
         StopCacheKeyIncrementWhenOverlimit => Shadow = {} /\ Reads
  PROVE  GrantInv'
\* A step of one caller, for every key.
<1>1. ASSUME SplitInv, SplitInv', FinitePairs, GrantInv, NEW c \in Callers, OnlyCaller(c), now' = now,
             call'[c].req = call[c].req \/ call[c].req = <<>>,
             \A k \in Keys : now < End(k) /\ k[1] \notin Shadow => GrantMove(c, k)
      PROVE  GrantInv'
  <2> USE <1>1
  <2> SUFFICES ASSUME NEW k \in Keys, now < End(k), k[1] \notin Shadow
               PROVE  (SumHits(Grants(k)) <= tally[k].adm)'
    BY Zenon DEF GrantInv
  <2> DEFINE G == {ci \in Pairs' : ci[2] \in GrantsOf(call'[ci[1]], pc'[ci[1]], now', k)}
             adm == tally'[k].adm
             old == GrantsOf(call[c], pc[c], now, k)
             new == GrantsOf(call'[c], pc'[c], now, k)
  <2>1. /\ Grants(k)' = G /\ adm \in Nat
        /\ SumHits(Grants(k))' = SumFunctionOnSet([ci \in G |-> HitsOf(call', ci)], G)
    BY Zenon DEF Grants, SumHits, Ent, HitsOf, SplitInv
  <2>2. ASSUME NEW ci \in G
        PROVE  \E x \in Callers : \E i \in GrantsOf(call'[x], pc'[x], now, k) : ci = <<x, i>>
    BY DEF Pairs
  <2>3. ASSUME NEW x \in Callers \ {c}, NEW i \in GrantsOf(call'[x], pc'[x], now, k)
        PROVE  <<x, i>> \in Grants(k) /\ HitsOf(call', <<x, i>>) = HitsOf(call, <<x, i>>)
    BY GrantFacts, Zenon DEF OnlyCaller, HitsOf
  <2>4. ASSUME NEW i \in 1 .. Len(call[c].req)
        PROVE  <<c, i>> \in Pairs /\ HitsOf(call', <<c, i>>) = HitsOf(call, <<c, i>>)
    BY PairFacts DEF HitsOf
  <2>5. old \subseteq 1 .. Len(call[c].req) /\ \A i \in old : <<c, i>> \in Grants(k)
    BY GrantFacts, Zenon
  <2>6. ASSUME NEW i \in 1 .. Len(call[c].req), <<c, i>> \in Grants(k)
        PROVE  i \in old
    BY <2>6, Zenon DEF Grants
  <2>8. SumHits(Grants(k)) <= tally[k].adm
    BY Zenon DEF GrantInv
  <2>9. tally[k].adm \in Nat
    BY Zenon DEF SplitInv
  <2> HIDE DEF G, old
  <2>12. ASSUME NEW ci \in G, new \subseteq 1 .. Len(call[c].req)
         PROVE  /\ ci \in Pairs /\ HitsOf(call', ci) = HitsOf(call, ci)
                /\ ci \in Grants(k) \/ \E i \in new : ci = <<c, i>>
    BY <2>2, <2>3, <2>4, <2>12, GrantFacts, SMTT(30)
  <2> HIDE DEF new
  <2>10. CASE new \subseteq old /\ tally[k].adm <= adm
    <3>1. G \subseteq Grants(k) /\ \A ci \in G : ci \in Pairs /\ HitsOf(call', ci) = HitsOf(call, ci)
      BY <2>5, <2>10, <2>12, Zenon
    <3>2. /\ SumFunctionOnSet([ci \in G |-> HitsOf(call', ci)], G) <= SumHits(Grants(k))
          /\ SumFunctionOnSet([ci \in G |-> HitsOf(call', ci)], G) \in Nat
          /\ SumHits(Grants(k)) \in Nat
      BY <3>1, GrantFacts, SumHitsWithin, Zenon
    <3> DEFINE s == SumFunctionOnSet([ci \in G |-> HitsOf(call', ci)], G)
    <3> HIDE DEF s, adm
    <3>3. s <= adm
      BY <2>1, <2>8, <2>9, <2>10, <3>2, SMTT(30) DEF s
    <3> QED BY <2>1, <3>3, Zenon DEF s, adm
  <2>11. ASSUME NEW h \in 1 .. Len(call[c].req), h \notin old, new \subseteq old \cup {h},
                adm = tally[k].adm + call[c].req[h].hits
         PROVE  (SumHits(Grants(k)) <= tally[k].adm)'
    <3> DEFINE a == <<c, h>>
    <3>1. a \in Pairs /\ a \notin Grants(k) /\ adm = tally[k].adm + HitsOf(call, a)
      BY <2>4, <2>6, <2>11, Zenon DEF HitsOf
    <3>2. /\ G \subseteq Grants(k) \cup {a}
          /\ \A ci \in G : ci \in Pairs /\ HitsOf(call', ci) = HitsOf(call, ci)
      BY <2>5, <2>11, <2>12, Zenon
    <3> HIDE DEF a
    <3>3. /\ SumFunctionOnSet([ci \in G |-> HitsOf(call', ci)], G) <= SumHits(Grants(k) \cup {a})
          /\ SumFunctionOnSet([ci \in G |-> HitsOf(call', ci)], G) \in Nat
          /\ SumHits(Grants(k) \cup {a}) \in Nat /\ SumHits(Grants(k)) \in Nat
      BY <3>1, <3>2, GrantFacts, SumHitsWithin, Zenon
    <3>4. /\ SumHits(Grants(k) \cup {a}) = SumHits(Grants(k)) + HitsOf(call, a)
          /\ HitsOf(call, a) \in Nat
      BY <3>1, GrantFacts, SumHitsAdd, Zenon
    <3> DEFINE s == SumFunctionOnSet([ci \in G |-> HitsOf(call', ci)], G)
    <3> HIDE DEF s, adm
    <3>5. s <= adm
      BY <2>1, <2>8, <2>9, <3>1, <3>3, <3>4, SMTT(30) DEF s
    <3> QED BY <2>1, <3>5, Zenon DEF s, adm
  <2> QED BY <2>10, <2>11, Zenon DEF GrantMove, old, new
\* A step that leaves Redis and the answers alone.
<1>2. ASSUME SplitInv, NEW c \in Callers, tally' = tally, NEW k \in Keys,
             GrantsOf(call'[c], pc'[c], now, k) \subseteq GrantsOf(call[c], pc[c], now, k)
      PROVE  GrantMove(c, k)
  BY <1>2 DEF GrantMove, SplitInv
\* The last status of a call: every status that was OK had been granted.  With
\* stopCacheKeyIncrementWhenOverlimit a request that is OK on every descriptor
\* was charged on every one of them: had the first round found one near its
\* limit, the second round would have found it over the limit.
<1>3. ASSUME SplitInv, Control, StopCacheKeyIncrementWhenOverlimit => Shadow = {} /\ Reads,
             NEW c \in Callers, Respond(c), NEW k \in Keys, now < End(k), k[1] \notin Shadow
      PROVE  GrantsOf(call'[c], pc'[c], now, k) \subseteq GrantsOf(call[c], pc[c], now, k)
  <2> USE <1>3
  <2> DEFINE q == call[c]
             r == call'[c]
             I == 1 .. Len(q.req)
  <2>1. ControlInv(q, pc[c])
    BY Zenon DEF Control
  <2>2. /\ pc[c] = "respond" /\ q.i \in I /\ r.req = q.req /\ r.t = q.t
        /\ \A j \in I : r.code[j] = IF j = q.i THEN StatusOf(c, q.i).code ELSE q.code[j]
    BY RespondEffect, Zenon
  <2>3. CASE pc'[c] = "respond"
    <3> HIDE DEF q, r
    <3> QED BY <2>3, RespondEffect, Zenon DEF GrantsOf, Granted, Executed, CountsIn, KeyOf
  <2>4. CASE pc'[c] = "done"
    <3>1. q.i = Len(q.req)
      BY <2>4, RespondEffect, Zenon
    <3>2. ASSUME NEW j \in I, CountsIn(q, j), q.req[j].d \notin Shadow, r.code[j] = OK
          PROVE  ~q.over[j] /\ q.reply[j] <= q.req[j].limit
      <4>1. CASE j = q.i
        BY <2>2, <3>2, <4>1, StatusCode, SMTT(30)
      <4>2. CASE j # q.i
        <5>1. j < q.i
          BY <3>1, <4>2
        <5> HIDE DEF q, r
        <5> QED BY <2>1, <2>2, <3>2, <4>2, <5>1, SMTT(30) DEF ControlInv
      <4> QED BY <4>1, <4>2, Zenon
    <3>4. q.op = "incr"
      BY <2>2, CallerFacts, Zenon DEF CallInv
    <3> SUFFICES ASSUME NEW i \in GrantsOf(r, "done", now, k)
                 PROVE  i \in GrantsOf(q, "respond", now, k)
      BY <2>2, <2>4, Zenon
    <3>5. /\ i \in I /\ CountsIn(q, i) /\ KeyOf(q, i) = k /\ r.code[i] = OK
          /\ StopCacheKeyIncrementWhenOverlimit => Admitted(r, now)
      BY <2>2, Zenon DEF GrantsOf, CountsIn, KeyOf
    <3>6. ~q.over[i] /\ q.reply[i] <= q.req[i].limit
      BY <3>5, <3>2, Zenon DEF KeyOf
    <3>7. q.charge[i] = q.req[i].hits
      <4> SUFFICES ASSUME q.charge[i] # q.req[i].hits PROVE FALSE
        BY Zenon
      <4>2. Shadow = {} /\ Reads /\ Admitted(r, now)
        <5> HIDE DEF q, r
        <5> QED BY <2>1, <3>4, <3>5, <3>6, SMTT(30) DEF ControlInv
      <4>3. ~Denied(q)
        <5> SUFFICES ASSUME NEW j \in I, q.over[j] PROVE FALSE
          BY Zenon DEF Denied
        <5>2. r.code[j] = OK
          BY <2>2, <4>2, Zenon DEF Admitted
        <5> HIDE DEF q, r
        <5> QED BY <2>1, <3>2, <4>2, <5>2 DEF ControlInv
      <4>4. PICK j \in I : q.near[j]
        <5> HIDE DEF q, r
        <5> QED BY <2>1, <3>4, <3>5, <3>6, <4>3, SMTT(30) DEF ControlInv
      <4>5. CountsIn(q, j)
        BY <2>1, <4>4, Zenon DEF ControlInv
      <4>6. r.code[j] = OK /\ now < End(KeyOf(q, j))
        BY <2>2, <4>2, <4>5, Zenon DEF Admitted, CountsIn, KeyOf
      <4>7. q.req[j].limit < q.reply[j]
        <5>1. ReadInv(q, pc[c], now, store)
          BY <4>2, Zenon DEF Reads
        <5> HIDE DEF q, r, I
        <5> QED BY <2>1, <2>2, <3>4, <4>2, <4>4, <4>6, <5>1, SMTT(30) DEF ReadInv, ControlInv, Executed, I
      <4>8. q.reply[j] <= q.req[j].limit
        <5> HIDE DEF q, r, I
        <5> QED BY <3>2, <4>2, <4>5, <4>6
      <4>9. q.reply[j] \in Nat /\ q.req[j].limit \in Nat
        BY IndexFacts, Zenon
      <4> HIDE DEF q, r, I
      <4> QED BY <4>7, <4>8, <4>9
    <3> HIDE DEF q, r, I
    <3> QED BY <2>1, <2>2, <3>5, <3>6, <3>7, SMTT(30) DEF GrantsOf, Granted, ControlInv, Executed
  <2> QED BY <2>3, <2>4, RespondEffect, Zenon
\* The steps of a call grant nothing: only a counter does.
<1>4. ASSUME SplitInv, SplitInv', Control, FinitePairs, GrantInv,
             StopCacheKeyIncrementWhenOverlimit => Shadow = {} /\ Reads, NEW c \in Callers,
             \/ \E req \in Requests : Begin(c, req)
             \/ CallerStep(c) \/ GiveUp(c) \/ PipelineFails(c)
      PROVE  GrantInv'
  <2> USE <1>4
  <2> DEFINE q == call[c]
             r == call'[c]
  <2>2. /\ now' = now /\ tally' = tally /\ OnlyCaller(c)
        /\ r.req = q.req \/ q.req = <<>>
    <3>1. CASE \E req \in Requests : Begin(c, req)
      BY <3>1, BeginEffect, Zenon DEF ControlInv, Control
    <3>2. CASE CallerStep(c) \/ GiveUp(c) \/ PipelineFails(c)
      BY <3>2, CallFrame, Zenon
    <3> QED BY <3>1, <3>2, Zenon
  <2> SUFFICES ASSUME NEW k \in Keys, now < End(k), k[1] \notin Shadow
               PROVE  GrantsOf(r, pc'[c], now, k) \subseteq GrantsOf(q, pc[c], now, k)
    BY <2>2, <1>2, <1>1, Zenon
  <2>3. CASE pc'[c] \notin {"incr", "respond", "done"}
    BY <2>3, Zenon DEF GrantsOf
  <2>4. (\E req \in Requests : Begin(c, req)) \/ LookUp(c) \/ StartGet(c) \/ GiveUp(c)
          \/ PipelineFails(c) => pc'[c] \notin {"incr", "respond", "done"}
    <3>1. ASSUME NEW req \in Requests, Begin(c, req) PROVE pc'[c] = "lookup"
      BY <3>1, BeginEffect, Zenon
    <3>2. LookUp(c) => pc'[c] \in {"lookup", "decide"}
      BY LookUpEffect, Zenon
    <3>3. StartGet(c) => pc'[c] = "get"
      BY StartGetEffect, Zenon
    <3>4. GiveUp(c) \/ PipelineFails(c) => pc'[c] = "error"
      BY GiveUpEffect, PipelineFailsEffect, Zenon
    <3> QED BY <3>1, <3>2, <3>3, <3>4
  <2>5. CASE Build(c) \/ BuildAfterGet(c)
    <3>1. /\ pc'[c] \in {"incr", "respond"} /\ ~r.half /\ r.req = q.req /\ r.over = q.over
          /\ r.sent \cup r.later = {i \in 1 .. Len(q.req) : q.req[i].d # Unmatched /\ ~q.over[i]}
      BY <2>5, BuildEffect, Zenon
    <3> HIDE DEF q, r
    <3> QED BY <3>1, Zenon DEF GrantsOf, Granted, Executed, CountsIn
  <2>6. CASE SendPerSecond(c)
    <3>1. /\ pc[c] \in {"get", "incr"} /\ pc'[c] = pc[c]
          /\ q.sent = {} /\ r.sent = q.later /\ r.later = {} /\ r.req = q.req /\ r.t = q.t
          /\ r.over = q.over /\ r.half = q.half /\ r.reply = q.reply /\ r.charge = q.charge
      BY <2>6, SendEffect, Zenon
    <3>2. ~q.half
      BY <3>1, Zenon DEF ControlInv, Control
    <3> HIDE DEF q, r
    <3> QED BY <3>1, <3>2, Zenon DEF GrantsOf, CountsIn, KeyOf, Granted, Executed
  <2>7. CASE Reply(c)
    BY <2>7, ReplyEffect, Zenon DEF GrantsOf
  <2>8. CASE Respond(c)
    BY <2>8, <1>3, Zenon
  <2> QED BY <2>3, <2>4, <2>5, <2>6, <2>7, <2>8, Zenon DEF CallerStep
\* Redis executes a command: an INCRBY that answers a value within the limit
\* admits what it charges.
<1>5. ASSUME SplitInv, SplitInv', Control, FinitePairs, GrantInv, NEW c \in Callers, RedisStep(c)
      PROVE  GrantInv'
  <2> USE <1>5
  <2> DEFINE q == call[c]
             r == call'[c]
             I == 1 .. Len(q.req)
  <2>1. /\ ControlInv(q, pc[c]) /\ CallInv(q, pc[c], now, tally)
        /\ \A k \in Keys : tally[k].adm \in Nat
    BY Zenon DEF Control, SplitInv
  <2>2. ASSUME SameRest(q, r), pc'[c] = pc[c], q.op # "none", NEW k, NEW S,
               \A i \in I \ S : CountsIn(q, i) /\ Executed(r, i) =>
                 Executed(q, i) /\ r.reply[i] = q.reply[i]
        PROVE  GrantsOf(r, pc'[c], now, k) \subseteq GrantsOf(q, pc[c], now, k) \cup S
    <3>1. pc[c] # "done"
      BY <2>1, <2>2, ZenonT(30) DEF ControlInv
    <3> HIDE DEF q, r
    <3> QED BY <2>2, <3>1, Zenon DEF GrantsOf, Granted, CountsIn, KeyOf, SameRest
  <2>3. CASE ExecGet(c)
    <3>1. PICK h \in I : /\ OnlyCaller(c) /\ pc'[c] = pc[c] /\ SameRest(q, r) /\ q.op = "get"
                         /\ UNCHANGED <<now, tally>>
      BY <2>3, ExecGetEffect, Zenon
    <3> QED BY <2>1, <3>1, <1>1, <1>2 DEF SameRest, GrantsOf, ControlInv, CallInv
  <2>4. CASE ExecIncrBy(c)
    <3>1. PICK h \in 1 .. Len(q.req) : LET k == KeyOf(q, h) IN
            /\ OnlyCaller(c) /\ pc'[c] = pc[c] /\ SameRest(q, r)
            /\ q.op = "incr" /\ Leads(q, h) /\ CountsIn(q, h) /\ ~q.half
            /\ r.sent = q.sent /\ r.half
            /\ \A j \in 1 .. Len(q.req) :
                 r.reply[j] = IF j = h THEN GET(store[k]) + q.charge[h] ELSE q.reply[j]
            /\ k \in Keys /\ OnlyKey(k)
            /\ GET(store'[k]) = GET(store[k]) + q.charge[h]
            /\ tally'[k].adm = IF now < End(k) /\ GET(store'[k]) <= q.req[h].limit
                               THEN tally[k].adm + q.charge[h] ELSE tally[k].adm
            /\ UNCHANGED now
      BY <2>4, ExecIncrByEffect, Zenon
    <3>2. ASSUME NEW i \in I \ {h}, Executed(r, i)
          PROVE  Executed(q, i) /\ r.reply[i] = q.reply[i]
      <4> HIDE DEF q, r
      <4> QED BY <3>1, <3>2, IncrExecutes, Zenon
    <3>3. ASSUME NEW k \in Keys, now < End(k), k[1] \notin Shadow PROVE GrantMove(c, k)
      <4> DEFINE old == GrantsOf(q, pc[c], now, k)
                 new == GrantsOf(r, pc'[c], now, k)
      <4>1. new \subseteq old \cup {h}
        BY <2>2, <3>1, <3>2, ZenonT(30)
      <4>2. tally[k].adm <= tally'[k].adm /\ tally[k].adm \in Nat /\ q.charge[h] \in Nat
        <5>1. tally[k].adm \in Nat /\ q.charge[h] \in Nat
          BY <2>1, IndexFacts, Zenon
        <5> HIDE DEF q, r, I
        <5> QED BY <3>1, <5>1 DEF OnlyKey
      <4>3. CASE h \notin new
        BY <4>1, <4>2, <4>3, Zenon DEF GrantMove
      <4>4. CASE h \in new
        <5>1. Executed(r, h) => k = KeyOf(q, h) /\ r.reply[h] <= q.req[h].limit
                                  /\ q.charge[h] = q.req[h].hits
          BY <2>1, <3>1, <4>4, ZenonT(30) DEF GrantsOf, ControlInv, Granted, KeyOf, SameRest
        <5>2. Executed(r, h)
          <6> HIDE DEF q, r
          <6> QED BY <2>1, <3>1, <4>4, SMTT(30) DEF GrantsOf, ControlInv, Granted
        <5>3. tally'[k].adm = tally[k].adm + q.req[h].hits
          <6> HIDE DEF old, new, q, r, I
          <6> QED BY <3>1, <3>3, <5>1, <5>2
        <5> QED BY <2>1, <3>1, <4>1, <5>3, Zenon DEF GrantMove, Executed, Leads, ControlInv, GrantsOf,
                   Granted
      <4> QED BY <4>3, <4>4, Zenon
    <3> QED BY <3>1, <3>3, <1>1, Zenon DEF SameRest
  <2>5. CASE ExecExpire(c)
    <3>1. PICK h \in 1 .. Len(q.req) :
            /\ OnlyCaller(c) /\ pc'[c] = pc[c] /\ SameRest(q, r) /\ r.reply = q.reply
            /\ q.op = "incr" /\ Leads(q, h) /\ q.half /\ r.sent = q.sent \ {h} /\ ~r.half
            /\ UNCHANGED <<now, tally>>
      BY <2>5, ExecExpireEffect, Zenon
    <3>2. \A i \in I \ {} : Executed(r, i) => Executed(q, i) /\ r.reply[i] = q.reply[i]
      BY <3>1, Zenon DEF Executed, Leads, SameRest
    <3>3. ASSUME NEW k \in Keys PROVE GrantMove(c, k)
      <4>1. GrantsOf(r, pc'[c], now, k) \subseteq GrantsOf(q, pc[c], now, k) \cup {}
        BY <2>2, <3>1, <3>2, Zenon
      <4> QED BY <3>1, <4>1, <1>2, Zenon
    <3> QED BY <3>1, <3>3, <1>1, Zenon DEF SameRest
  <2>6. CASE ExecEval(c)
    <3>1. PICK h \in 1 .. Len(q.req) : LET k == KeyOf(q, h) IN
            /\ OnlyCaller(c) /\ pc'[c] = pc[c] /\ SameRest(q, r)
            /\ q.op = "incr" /\ Leads(q, h) /\ q.req[h].neg
            /\ r.sent = q.sent \ {h} /\ r.half = q.half
            /\ \A j \in 1 .. Len(q.req) : j # h => r.reply[j] = q.reply[j]
            /\ k \in Keys /\ OnlyKey(k) /\ tally'[k].adm = tally[k].adm
            /\ UNCHANGED now
      BY <2>6, ExecEvalEffect, Zenon
    <3>3. \A i \in I \ {} : CountsIn(q, i) /\ Executed(r, i) =>
            Executed(q, i) /\ r.reply[i] = q.reply[i]
      <4>1. ~q.half
        BY <2>1, <3>1, EvalNotHalf, CallerFacts
      <4> HIDE DEF q, r
      <4> QED BY <3>1, <4>1, Zenon DEF Executed, CountsIn, SameRest
    <3>4. ASSUME NEW k \in Keys PROVE GrantMove(c, k)
      <4>2. tally[k].adm <= tally'[k].adm
        <5> HIDE DEF q, r, I
        <5> QED BY <2>1, <3>1 DEF OnlyKey
      <4>3. GrantsOf(r, pc'[c], now, k) \subseteq GrantsOf(q, pc[c], now, k) \cup {}
        BY <2>2, <3>1, <3>3, Zenon
      <4> QED BY <3>1, <4>2, <4>3, Zenon DEF GrantMove
    <3> QED BY <3>1, <3>4, <1>1, Zenon DEF SameRest
  <2> QED BY <2>3, <2>4, <2>5, <2>6, Zenon DEF RedisStep
\* Time passes: a request counts as admitted only while its windows are open.
<1>6. ASSUME SplitInv, SplitInv', FinitePairs, GrantInv, Environment \/ UNCHANGED vars
      PROVE  GrantInv'
  <2> USE <1>6
  <2>1. UNCHANGED <<pc, call, tally>> /\ now <= now' /\ now \in Nat /\ now' \in Nat
    BY DEF SplitInv, Time, Environment, Tick, Expire, Evict, vars
  <2> SUFFICES ASSUME NEW k \in Keys, now' < End(k), k[1] \notin Shadow
               PROVE  (SumHits(Grants(k)) <= tally[k].adm)'
    BY Zenon DEF GrantInv
  <2> DEFINE G == {ci \in Pairs : ci[2] \in GrantsOf(call[ci[1]], pc[ci[1]], now', k)}
  <2>3. /\ SumHits(Grants(k))' = SumFunctionOnSet([ci \in G |-> HitsOf(call, ci)], G)
        /\ tally'[k].adm = tally[k].adm
    BY <2>1, SameRequests, Zenon DEF Grants, SumHits, Ent, HitsOf
  <2>4. ASSUME NEW c \in Callers
        PROVE  GrantsOf(call[c], pc[c], now', k) \subseteq GrantsOf(call[c], pc[c], now, k)
    <3> DEFINE q == call[c]
    <3>1. Admitted(q, now') => Admitted(q, now)
      <4> SUFFICES ASSUME NEW i \in 1 .. Len(q.req), q.req[i].d # Unmatched, now' < End(KeyOf(q, i))
                   PROVE  now < End(KeyOf(q, i))
        BY Zenon DEF Admitted
      <4>1. End(KeyOf(q, i)) \in Nat
        BY IndexFacts, Zenon
      <4> QED BY <2>1, <4>1
    <3> QED BY <3>1, Zenon DEF GrantsOf
  <2>5. G \subseteq Grants(k)
    BY <2>4, PairFacts DEF Grants
  <2>6. SumHits(Grants(k)) <= tally[k].adm /\ tally[k].adm \in Nat
    <3>1. now < End(k)
      BY <2>1, CounterType
    <3> QED BY <3>1, Zenon DEF GrantInv, SplitInv
  <2> HIDE DEF G
  <2>7. /\ SumFunctionOnSet([ci \in G |-> HitsOf(call, ci)], G) <= SumHits(Grants(k))
        /\ SumFunctionOnSet([ci \in G |-> HitsOf(call, ci)], G) \in Nat
        /\ SumHits(Grants(k)) \in Nat
    BY <2>5, GrantFacts, SumHitsWithin, Zenon
  <2> DEFINE s == SumFunctionOnSet([ci \in G |-> HitsOf(call, ci)], G)
  <2> HIDE DEF s
  <2>8. s <= tally[k].adm
    BY <2>6, <2>7 DEF s
  <2> QED BY <2>3, <2>8, Zenon DEF s
<1> QED BY <1>4, <1>5, <1>6, Zenon DEF Next, Terminated

\* Hits that were granted stay within the limit and the refunds.
LEMMA GrantedWithinLimit ==
  ASSUME SplitInv, FinitePairs, GrantInv, NEW k \in Keys, now < End(k), k[1] \notin Shadow,
         NEW S, S \subseteq Grants(k)
  PROVE  SumHits(S) <= MaxLimit[k[1]] + tally[k].ref
<1>1. /\ SumHits(Grants(k)) <= tally[k].adm /\ KeyInv(k, store[k], tally[k], now)
      /\ tally[k].adm \in Nat /\ tally[k].ref \in Nat
  BY Zenon DEF GrantInv, SplitInv
<1>2. SumHits(S) <= SumHits(Grants(k)) /\ SumHits(S) \in Nat /\ SumHits(Grants(k)) \in Nat
  BY GrantFacts, SumHitsOf, SumHitsWithin, Zenon
<1>3. tally[k].adm <= MaxLimit[k[1]] + tally[k].ref /\ MaxLimit[k[1]] \in Nat
  BY <1>1, KeyFacts, Zenon DEF KeyInv
<1> QED BY <1>1, <1>2, <1>3

\* A descriptor of a key that is answered OK.
LEMMA AnsweredFacts ==
  ASSUME SplitInv, NEW k \in Keys, NEW ci \in Answered(k)
  PROVE  \E c \in Callers : \E i \in 1 .. Len(call[c].req) :
           /\ ci = <<c, i>> /\ CountsIn(call[c], i) /\ KeyOf(call[c], i) = k
           /\ call[c].code[i] = OK /\ call[c].req[i].d = k[1]
<1>2. PICK c \in Callers : \E i \in 1 .. Len(call[c].req) : ci = <<c, i>>
  BY PairFacts, Zenon DEF Answered, ChargesOn
<1>3. PICK i \in 1 .. Len(call[c].req) : ci = <<c, i>>
  BY <1>2, Zenon
<1>4. Counts(c, i) = CountsIn(call[c], i) /\ Key(c, i) = KeyOf(call[c], i)
  BY IndexFacts, Zenon
<1> QED BY <1>3, <1>4 DEF Answered, ChargesOn, KeyOf

\* What clients see, when every request charges its counters
\* (stopCacheKeyIncrementWhenOverlimit is off): the hits answered OK for an
\* enforced rule never exceed the limit and the refunds while the window is
\* open, for any number of concurrent calls (DoLimit).
THEOREM AnswersSafe ==
  ASSUME ~StopCacheKeyIncrementWhenOverlimit
  PROVE  Spec => []AnsweredWithinLimit
<1>1. SplitInv /\ SplitInv' /\ Control /\ FinitePairs /\ GrantInv /\ [Next]_vars => GrantInv'
  BY GrantNext, Zenon
<1>2. SplitInv /\ Control /\ FinitePairs /\ GrantInv => AnsweredWithinLimit
  <2> SUFFICES ASSUME SplitInv, Control, FinitePairs, GrantInv,
                      NEW k \in Keys, now < End(k), k[1] \notin Shadow, NEW ci \in Answered(k)
               PROVE  ci \in Grants(k)
    BY GrantedWithinLimit, Zenon DEF AnsweredWithinLimit
  <2>1. PICK c \in Callers : \E i \in 1 .. Len(call[c].req) :
          /\ ci = <<c, i>> /\ CountsIn(call[c], i) /\ KeyOf(call[c], i) = k
          /\ call[c].code[i] = OK /\ call[c].req[i].d = k[1]
    BY AnsweredFacts, Zenon
  <2> DEFINE q == call[c]
  <2>2. PICK i \in 1 .. Len(q.req) : /\ ci = <<c, i>> /\ CountsIn(q, i) /\ KeyOf(q, i) = k
                                     /\ q.code[i] = OK /\ q.req[i].d = k[1]
    BY <2>1, Zenon
  <2>3. ControlInv(q, pc[c]) /\ CallInv(q, pc[c], now, tally)
    BY CallerFacts, Zenon DEF Control
  <2>4. pc[c] \in {"respond", "done"}
    BY <2>2, <2>3, Zenon DEF ControlInv, OK
  <2>5. ASSUME pc[c] = "respond" PROVE Granted(q, i)
    <3>1. i < q.i
      <4> HIDE DEF q
      <4> QED BY <2>2, <2>3, <2>5, SMTT(30) DEF ControlInv, OK
    <3>2. ~q.over[i] /\ q.reply[i] <= q.req[i].limit
      <4> HIDE DEF q
      <4> QED BY <2>2, <2>3, <2>5, <3>1 DEF ControlInv
    <3>3. Executed(q, i) /\ q.op = "incr"
      BY <2>3, <2>5, Zenon DEF ControlInv, CallInv, Executed
    <3>4. q.charge[i] = q.req[i].hits
      <4> HIDE DEF q
      <4> QED BY <2>2, <2>3, <3>2, <3>3 DEF ControlInv
    <3> QED BY <3>2, <3>3, <3>4, SMTT(30) DEF Granted
  <2>6. i \in GrantsOf(q, pc[c], now, k)
    BY <2>2, <2>4, <2>5, Zenon DEF GrantsOf
  <2> QED BY <2>2, <2>6, GrantFacts, Zenon
<1> QED BY <1>1, <1>2, SplitInit, SplitNext, ControlInit, ControlNext, PairsInit, PairsNext,
           GrantInit, PTL DEF Spec

\* A request that is OK on every descriptor has been granted on every one.
LEMMA AdmittedGranted ==
  ASSUME SplitInv, FinitePairs, GrantInv
  PROVE  AdmittedWithinLimit
<1> SUFFICES ASSUME NEW k \in Keys, now < End(k), k[1] \notin Shadow,
                    NEW ci \in Answered(k), AdmittedCaller(ci[1])
             PROVE  ci \in Grants(k)
  BY GrantedWithinLimit, Zenon DEF AdmittedWithinLimit
<1>1. PICK c \in Callers : \E i \in 1 .. Len(call[c].req) :
        /\ ci = <<c, i>> /\ CountsIn(call[c], i) /\ KeyOf(call[c], i) = k
        /\ call[c].code[i] = OK
  BY AnsweredFacts, Zenon
<1> DEFINE q == call[c]
<1>2. PICK i \in 1 .. Len(q.req) : /\ ci = <<c, i>> /\ CountsIn(q, i) /\ KeyOf(q, i) = k
                                   /\ q.code[i] = OK
  BY <1>1, Zenon
<1> QED BY <1>2, GrantFacts, Zenon DEF GrantsOf, Indexes, Key, KeyOf, Limited, Ent, AdmittedCaller,
           Admitted

\* Whole requests: the hits of requests that were OK on every descriptor stay
\* within the limit of every enforced rule they touch.  With
\* stopCacheKeyIncrementWhenOverlimit this needs rules that are all enforced and
\* counters that do not fall: what to charge is decided on counters read earlier.
THEOREM AdmittedSafe ==
  ASSUME StopCacheKeyIncrementWhenOverlimit => Shadow = {} /\ NoRefunds
  PROVE  Spec => []AdmittedWithinLimit
<1> DEFINE Inv == NoRefunds => Reads /\ LocalDenialAgreesWithRedis
<1>1. Init => Inv
  BY ReadsInit, Zenon
<1>2. SplitInv /\ SplitInv' /\ Control /\ Inv /\ [Next]_vars => Inv'
  BY LocalNext, Zenon
<1>3. SplitInv /\ SplitInv' /\ Control /\ FinitePairs /\ GrantInv /\ Inv /\ [Next]_vars => GrantInv'
  BY GrantNext, Zenon
<1>4. SplitInv /\ FinitePairs /\ GrantInv => AdmittedWithinLimit
  BY AdmittedGranted, Zenon
<1> HIDE DEF Inv
<1> QED BY <1>1, <1>2, <1>3, <1>4, SplitInit, SplitNext, ControlInit, ControlNext, PairsInit,
           PairsNext, GrantInit, PTL DEF Spec

-----------------------------------------------------------------------------
(* The statistics account for every charge *)

\* The rules keep one limit, and every counting descriptor is charged its hits.
PlainRules ==
  ~StopCacheKeyIncrementWhenOverlimit /\ \A d \in Descriptors : Limits[d] \subseteq {MaxLimit[d]}

\* over_limit and the denials of the local cache that rise together (the branch of
\* GetResponseDescriptorStatus for a key in the local cache) keep their difference.
LEMMA SameRaise ==
  ASSUME NEW a \in Nat, NEW b \in Nat, NEW x \in Nat
  PROVE  (a + x) - (b + x) = a - b /\ a + 0 = a
OBVIOUS

\* uint64 subtraction wraps only below zero.
LEMMA UintSubFacts ==
  ASSUME NEW a \in Nat, NEW b \in Nat
  PROVE  /\ UintSub(a, b) \in Nat
         /\ b <= a /\ a < UintModulus => UintSub(a, b) = a - b
BY BaseLimiterAssumption DEF UintSub

\* What a status reports.  A descriptor that was looked up as over its limit
\* reports its hits twice, as over the limit and as answered locally; one that
\* was charged reports the steps its counter made beyond the thresholds.
LEMMA StatusReport ==
  ASSUME SplitInv, NEW c \in Callers, NEW i \in 1 .. Len(call[c].req)
  PROVE  LET q == call[c]
             l == q.req[i].limit
             delta == StatusOf(c, i).delta
         IN /\ delta \in DeltaType
            /\ ~CountsIn(q, i) => delta = NoDelta
            /\ CountsIn(q, i) =>
                 delta.shadow = IF q.req[i].d \in Shadow THEN delta.over ELSE 0
            /\ CountsIn(q, i) /\ q.over[i] => delta.over = delta.overLocal /\ delta.near = 0
            /\ CountsIn(q, i) /\ ~q.over[i] /\ q.req[i].hits <= q.reply[i] /\ q.reply[i] < UintModulus =>
                 /\ delta.overLocal = 0
                 /\ delta.over = Excess(q.reply[i], l) - Excess(q.reply[i] - q.req[i].hits, l)
                 /\ delta.near = NearPart(q.reply[i], l) - NearPart(q.reply[i] - q.req[i].hits, l)
<1> DEFINE q == call[c]
           hits == q.req[i].hits
           over == q.over[i]
           info == LimitInfo(c, i)
           e == EnforcedStatus(info, over, hits)
           st == StatusOf(c, i)
<1>1. /\ q.req[i].limit \in Nat /\ hits \in Nat /\ over \in BOOLEAN /\ q.reply[i] \in Nat
      /\ q.req[i].neg \in BOOLEAN /\ Ent(c, i) = q.req[i] /\ Counts(c, i) = CountsIn(q, i)
  BY IndexFacts, Zenon
<1>3. ~CountsIn(q, i) => st.delta = NoDelta
  BY <1>1, Zenon DEF StatusOf, Limited, CountsIn, UnlimitedStatus,
     GetResponseDescriptorStatusForNegativeHits
<1>4. CountsIn(q, i) => st = GetResponseDescriptorStatus(info, over, hits)
  BY <1>1, Zenon DEF StatusOf, Limited, CountsIn
<1>5. /\ info \in LimitInfoType /\ info.limit = q.req[i].limit /\ info.after = q.reply[i]
      /\ info.shadow = (q.req[i].d \in Shadow) /\ info.before = UintSub(q.reply[i], hits)
      /\ info.before \in Nat
  <2>1. UintSub(q.reply[i], hits) \in Nat
    BY <1>1, UintSubFacts, Zenon
  <2> QED BY <1>1, <2>1 DEF LimitInfo, LimitInfoType
<1>6. hits <= q.reply[i] /\ q.reply[i] < UintModulus => info.before = q.reply[i] - hits
  BY <1>1, <1>5, UintSubFacts, Zenon
<1> HIDE DEF info, q, hits, over, st
<1> DEFINE v == increaseShadowModeStats(info, over, hits)
<1>7. /\ DOMAIN e = {"code", "remaining", "poison", "delta"}
      /\ DOMAIN e.delta = {"over", "near", "within", "overLocal", "shadow"}
      /\ e.delta.shadow = 0
      /\ e.code = OVER_LIMIT => e.delta.over = v
      /\ e.code # OVER_LIMIT => e.delta.over = 0
      /\ over => e.delta.over = hits /\ e.delta.overLocal = hits /\ e.delta.near = 0
      /\ ~over => e.delta.overLocal = 0
  BY Zenon DEF EnforcedStatus, Delta, increaseShadowModeStats, checkOverLimitThreshold, OK,
     OVER_LIMIT
<1> HIDE DEF v
<1>8. ASSUME CountsIn(q, i)
      PROVE  /\ st.delta.over = e.delta.over /\ st.delta.near = e.delta.near
             /\ st.delta.overLocal = e.delta.overLocal
             /\ st.delta.shadow = IF info.shadow THEN e.delta.over ELSE 0
  <2>1. CASE e.code = OVER_LIMIT /\ info.shadow
    <3>1. st = [e EXCEPT !.code = OK, !.delta.shadow = v]
      BY <1>4, <1>8, <2>1 DEF GetResponseDescriptorStatus, v
    <3> HIDE DEF e
    <3> QED BY <1>7, <2>1, <3>1
  <2>2. CASE ~(e.code = OVER_LIMIT /\ info.shadow)
    BY <1>4, <1>8, <2>2, <1>7 DEF GetResponseDescriptorStatus
  <2> QED BY <2>1, <2>2, Zenon
<1>9. ASSUME ~over, hits <= q.reply[i], q.reply[i] < UintModulus
      PROVE  /\ e.delta.over = Excess(info.after, info.limit) - Excess(info.before, info.limit)
             /\ e.delta.near = NearPart(info.after, info.limit) - NearPart(info.before, info.limit)
  <2>1. info.after = info.before + hits /\ over = FALSE
    BY <1>1, <1>5, <1>6, <1>9, SMTT(30)
  <2> QED BY <1>1, <1>5, <2>1, StatusTelescopes, Zenon
<1> HIDE DEF e
<1> QED BY <1>3, <1>5, <1>6, <1>7, <1>8, <1>9, StatusFacts, Zenon DEF q, hits, over, st

\* A status is added to the statistics of its rule.
LEMMA AddedStats ==
  ASSUME stats \in [Descriptors -> StatsType], NEW e \in Descriptors,
         NEW delta \in StatsType, AddStats(e, delta), NEW d \in Descriptors
  PROVE  /\ d # e => stats'[d] = stats[d]
         /\ d = e => /\ stats'[d].over = stats[d].over + delta.over
                     /\ stats'[d].near = stats[d].near + delta.near
                     /\ stats'[d].overLocal = stats[d].overLocal + delta.overLocal
                     /\ stats'[d].shadow = stats[d].shadow + delta.shadow
BY Zenon DEF AddStats, StatsType

\* The lookups only count the hits.
LEMMA LookUpReport ==
  ASSUME SplitInv, NEW c \in Callers, LookUp(c), NEW d \in Descriptors
  PROVE  /\ stats'[d].over = stats[d].over /\ stats'[d].near = stats[d].near
         /\ stats'[d].overLocal = stats[d].overLocal /\ stats'[d].shadow = stats[d].shadow
<1> DEFINE i == call[c].i
<1>1. i \in 1 .. Len(call[c].req) /\ stats \in [Descriptors -> StatsType] /\ stats[d] \in StatsType
  BY LookUpEffect, Zenon DEF SplitInv
<1>2. CASE ~Limited(c, i)
  BY <1>2, Zenon DEF LookUp
<1>3. CASE Limited(c, i)
  <2> DEFINE m == IF Ent(c, i).neg THEN 0 ELSE Ent(c, i).hits
             n == IF Ent(c, i).neg THEN Ent(c, i).hits ELSE 0
             delta == [NoStats EXCEPT !.total = m, !.totalNegative = n]
  <2>1. Ent(c, i).d \in Descriptors /\ m \in Nat /\ n \in Nat
    BY <1>1, <1>3, IndexFacts DEF Limited
  <2>2. AddStats(Ent(c, i).d, delta)
    BY <1>3, Zenon DEF LookUp
  <2> HIDE DEF m, n
  <2>3. /\ delta \in StatsType /\ delta.over = 0 /\ delta.near = 0 /\ delta.overLocal = 0
        /\ delta.shadow = 0
    BY <2>1, Zenon DEF NoStats, StatsType
  <2> HIDE DEF delta
  <2>4. \/ stats'[d] = stats[d]
        \/ /\ stats'[d].over = stats[d].over + delta.over
           /\ stats'[d].near = stats[d].near + delta.near
           /\ stats'[d].overLocal = stats[d].overLocal + delta.overLocal
           /\ stats'[d].shadow = stats[d].shadow + delta.shadow
    BY <1>1, <2>1, <2>2, <2>3, AddedStats, Zenon
  <2> QED BY <1>1, <2>3, <2>4, SMTT(30) DEF StatsType
<1> QED BY <1>2, <1>3, Zenon

\* A status is reported to its own rule.
LEMMA RespondReport ==
  ASSUME SplitInv, NEW c \in Callers, Respond(c), NEW d \in Descriptors
  PROVE  LET i == call[c].i
             delta == StatusOf(c, i).delta
             old == stats[d]
             new == stats'[d]
         IN IF call[c].req[i].d = d
            THEN /\ new.over = old.over + delta.over /\ new.near = old.near + delta.near
                 /\ new.overLocal = old.overLocal + delta.overLocal
                 /\ new.shadow = old.shadow + delta.shadow
            ELSE new = old
<1> DEFINE i == call[c].i
           st == StatusOf(c, i)
           e == Ent(c, i).d
<1>1. /\ i \in 1 .. Len(call[c].req) /\ stats \in [Descriptors -> StatsType]
      /\ st.delta \in DeltaType
  BY RespondEffect, StatusFacts, Zenon DEF SplitInv
<1>2. e = call[c].req[i].d /\ (Limited(c, i) <=> e # Unmatched) /\ (e # Unmatched => e \in Descriptors)
  BY <1>1, IndexFacts DEF Limited
<1>3. CASE ~Limited(c, i)
  BY <1>3, RedisCacheAssumption, <1>2, Zenon DEF Respond
<1>4. CASE Limited(c, i)
  <2> DEFINE delta == [NoStats EXCEPT !.over = st.delta.over, !.near = st.delta.near,
                                      !.within = st.delta.within,
                                      !.overLocal = st.delta.overLocal,
                                      !.shadow = st.delta.shadow]
  <2>1. AddStats(e, delta)
    BY <1>4, Zenon DEF Respond
  <2> HIDE DEF st
  <2>2. /\ delta \in StatsType /\ delta.over = st.delta.over /\ delta.near = st.delta.near
        /\ delta.overLocal = st.delta.overLocal /\ delta.shadow = st.delta.shadow
    BY <1>1, Zenon DEF NoStats, StatsType, DeltaType
  <2> HIDE DEF delta, e
  <2>3. e \in Descriptors
    BY <1>2, <1>4, Zenon
  <2>4. /\ d # e => stats'[d] = stats[d]
        /\ d = e => /\ stats'[d].over = stats[d].over + delta.over
                    /\ stats'[d].near = stats[d].near + delta.near
                    /\ stats'[d].overLocal = stats[d].overLocal + delta.overLocal
                    /\ stats'[d].shadow = stats[d].shadow + delta.shadow
    BY <1>1, <2>1, <2>2, <2>3, AddedStats, Zenon
  <2> QED BY <1>2, <2>2, <2>4, Zenon DEF st
<1> QED BY <1>3, <1>4, Zenon

\* A rule in shadow mode overrides exactly what it counts as over the limit.
LEMMA ShadowNext ==
  ASSUME SplitInv, Control, ShadowInv, [Next]_vars
  PROVE  ShadowInv'
\* The other steps leave the statistics alone.
<1>1. ASSUME SplitInv, Control, [Next]_vars, ~\E c \in Callers : LookUp(c) \/ Respond(c)
      PROVE  stats' = stats
  <2> USE <1>1
  <2>1. ASSUME NEW c \in Callers, CallerStep(c) \/ GiveUp(c) \/ PipelineFails(c)
        PROVE  stats' = stats
    BY <2>1, CallFrame, Zenon DEF CallerStep
  <2>2. ASSUME NEW c \in Callers, RedisStep(c) PROVE stats' = stats
    BY <2>2, RedisFrame, Zenon
  <2>3. ASSUME NEW c \in Callers, NEW req \in Requests, Begin(c, req) PROVE stats' = stats
    BY <2>3, BeginEffect, Zenon
  <2> QED BY <2>1, <2>2, <2>3, Zenon DEF Next, Terminated, Environment, Tick, Expire, Evict, vars
<1> SUFFICES ASSUME NEW d \in Descriptors
             PROVE  stats'[d].shadow = IF d \in Shadow THEN stats'[d].over ELSE 0
  BY Zenon DEF ShadowInv
<1>2. stats[d].shadow = IF d \in Shadow THEN stats[d].over ELSE 0
  BY Zenon DEF ShadowInv
<1>3. ASSUME NEW c \in Callers, LookUp(c)
      PROVE  stats'[d].shadow = IF d \in Shadow THEN stats'[d].over ELSE 0
  BY <1>2, <1>3, LookUpReport, Zenon
<1>4. ASSUME NEW c \in Callers, Respond(c)
      PROVE  stats'[d].shadow = IF d \in Shadow THEN stats'[d].over ELSE 0
  <2> DEFINE i == call[c].i
             delta == StatusOf(c, i).delta
  <2>1. i \in 1 .. Len(call[c].req)
    BY <1>4, RespondEffect, Zenon
  <2>2. call[c].req[i].d = d => delta.shadow = IF d \in Shadow THEN delta.over ELSE 0
    <3>1. NoDelta.shadow = 0 /\ NoDelta.over = 0
      BY Zenon DEF NoDelta, Delta
    <3> HIDE DEF delta
    <3> QED BY <2>1, <3>1, StatusReport, Zenon DEF delta
  <2>3. IF call[c].req[i].d = d
        THEN stats'[d].over = stats[d].over + delta.over
               /\ stats'[d].shadow = stats[d].shadow + delta.shadow
        ELSE stats'[d] = stats[d]
    BY <1>4, RespondReport, Zenon
  <2> HIDE DEF i, delta
  <2> QED BY <1>2, <2>2, <2>3
<1>5. CASE ~\E c \in Callers : LookUp(c) \/ Respond(c)
  BY <1>2, <1>5, <1>1, Zenon
<1> QED BY <1>3, <1>4, <1>5, Zenon

\* The reports to come, as a function of the callers.
UnreportedIn(cl, ps, d) ==
  {ci \in UNION {{c} \X (1 .. Len(cl[c].req)) : c \in Callers} :
     ci[2] \in UnreportedOf(cl[ci[1]], ps[ci[1]], d)}

ToComeIn(cl, ps, d, s) ==
  SumFunctionOnSet([ci \in UnreportedIn(cl, ps, d) |-> Part(d, cl[ci[1]], ci[2], s)],
                   UnreportedIn(cl, ps, d))

\* A report to come is one of a caller.
LEMMA UnreportedFacts ==
  ASSUME NEW cl, NEW ps, NEW d
  PROVE  \A ci : ci \in UnreportedIn(cl, ps, d)
                   <=> \E c \in Callers : \E i \in UnreportedOf(cl[c], ps[c], d) : ci = <<c, i>>
<1> SUFFICES ASSUME NEW ci
             PROVE  ci \in UnreportedIn(cl, ps, d)
                      <=> \E c \in Callers : \E i \in UnreportedOf(cl[c], ps[c], d) : ci = <<c, i>>
  BY Zenon
<1>1. ASSUME ci \in UnreportedIn(cl, ps, d)
      PROVE  \E c \in Callers : \E i \in UnreportedOf(cl[c], ps[c], d) : ci = <<c, i>>
  BY <1>1 DEF UnreportedIn
<1>2. ASSUME NEW c \in Callers, NEW i \in UnreportedOf(cl[c], ps[c], d), ci = <<c, i>>
      PROVE  ci \in UnreportedIn(cl, ps, d)
  BY <1>2 DEF UnreportedOf, UnreportedIn
<1> QED BY <1>1, <1>2, Zenon

\* The reports to come, before and after a step.
LEMMA ToComeHere ==
  ASSUME NEW d, NEW s
  PROVE  /\ ToCome(d, s) = ToComeIn(call, pc, d, s)
         /\ ToCome(d, s)' = ToComeIn(call', pc', d, s)
         /\ UnreportedIn(call, pc, d) \subseteq Pairs
BY Zenon DEF Unreported, UnreportedIn, Pairs, Indexes, ToCome, ToComeIn

\* The keys of a rule are finitely many: one for each window.
LEMMA FiniteKeys ==
  ASSUME NEW d \in Descriptors
  PROVE  IsFiniteSet(KeysOf(d))
<1> DEFINE f == [t \in Time |-> <<d, BucketStart(d, t)>>]
<1>2. f \in Surjection(Time, KeysOf(d))
  BY DEF Surjection, KeysOf, Keys
<1> HIDE DEF f
<1> QED BY <1>2, FS_Surjection, RedisCacheAssumption, FS_Interval, SMTT(30) DEF Time

\* What was reported and what is to come is what the counters hold.
Balance(d, s) == Written(d, s) + ToCome(d, s) = Held(d, s)

\* Nothing is charged or reported at first.
LEMMA StatsInit == Init => StatsInv /\ ShadowInv
<1> SUFFICES ASSUME Init, NEW d \in Descriptors, NEW s \in {"over", "near"}
             PROVE  /\ Written(d, s) + ToCome(d, s) = Held(d, s)
                    /\ stats[d].shadow = IF d \in Shadow THEN stats[d].over ELSE 0
  BY Zenon DEF StatsInv, ShadowInv
<1>3. ToCome(d, s) = 0
  <2>2. UnreportedIn(call, pc, d) = {}
    BY UnreportedFacts DEF Init, UnreportedOf
  <2> QED BY <2>2, ToComeHere, SumEmpty, Zenon DEF ToComeIn
<1>4. Held(d, s) = 0
  BY RedisCacheAssumption, NearBelowLimit, FiniteKeys, SumType, SMTT(30) DEF Init, NoTally, KeysOf,
     Level, Excess, NearPart, Larger, Held
<1> QED BY <1>3, <1>4 DEF Init, NoStats, Written

\* Every step keeps the accounts of every rule that is still intact.
LEMMA StatsNext ==
  ASSUME SplitInv, SplitInv', Control, FinitePairs, PlainRules, StatsInv, [Next]_vars
  PROVE  StatsInv'
\* The thresholds are integers, and so are the parts beyond them.
<1>1. ASSUME NEW n \in Int, NEW d \in Descriptors, NEW s
      PROVE  Level(n, MaxLimit[d], s) \in Int
  <2> USE <1>1
  <2> DEFINE l == MaxLimit[d]
             m == NearLimitThreshold(l)
  <2>1. l \in Nat /\ m \in Nat
    BY RedisCacheAssumption, NearBelowLimit, Zenon
  <2> HIDE DEF l, m
  <2> QED BY <2>1 DEF l, Level, NearPart, m, Excess, Larger
\* What a descriptor has to report is an integer.
<1>2. ASSUME SplitInv, NEW c \in Callers, NEW i \in 1 .. Len(call[c].req), NEW d \in Descriptors, NEW s
      PROVE  Part(d, call[c], i, s) \in Int
  <2> USE <1>2
  <2> DEFINE n == call[c].reply[i]
             m == n - call[c].req[i].hits
  <2>1. n \in Int /\ m \in Int
    <3>1. n \in Nat /\ call[c].req[i].hits \in Nat
      BY IndexFacts, Zenon
    <3> HIDE DEF n
    <3> QED BY <3>1
  <2>2. Part(d, call[c], i, s) = Level(n, MaxLimit[d], s) - Level(m, MaxLimit[d], s)
    BY Zenon DEF Part
  <2> HIDE DEF n, m
  <2>3. Level(n, MaxLimit[d], s) \in Int /\ Level(m, MaxLimit[d], s) \in Int
    BY <2>1, <1>1, Zenon
  <2> QED BY <2>2, <2>3
\* A step of caller c that changes at most one of its reports to come.
<1>3. ASSUME SplitInv, FinitePairs, NEW c \in Callers, OnlyCaller(c), NEW d \in Descriptors, NEW s,
             \A i \in UnreportedOf(call[c], pc[c], d) \cap UnreportedOf(call'[c], pc'[c], d) :
               Part(d, call'[c], i, s) = Part(d, call[c], i, s)
      PROVE  LET old == UnreportedOf(call[c], pc[c], d)
                 new == UnreportedOf(call'[c], pc'[c], d)
             IN /\ ToCome(d, s) \in Int
                /\ new = old => ToCome(d, s)' = ToCome(d, s)
                /\ \A h \in new : h \notin old /\ new = old \cup {h} /\ Part(d, call'[c], h, s) \in Int
                     => ToCome(d, s)' = ToCome(d, s) + Part(d, call'[c], h, s)
                /\ \A h \in old : new = old \ {h}
                     => ToCome(d, s)' = ToCome(d, s) - Part(d, call[c], h, s)
  <2> USE <1>3
  <2> DEFINE old == UnreportedOf(call[c], pc[c], d)
             new == UnreportedOf(call'[c], pc'[c], d)
             U == UnreportedIn(call, pc, d)
             V == UnreportedIn(call', pc', d)
             f == [ci \in U |-> Part(d, call[ci[1]], ci[2], s)]
             g == [ci \in V |-> Part(d, call'[ci[1]], ci[2], s)]
  <2>1. ToCome(d, s) = SumFunctionOnSet(f, U) /\ ToCome(d, s)' = SumFunctionOnSet(g, V)
    BY ToComeHere, Zenon DEF ToComeIn
  <2>2. IsFiniteSet(U)
    BY ToComeHere, FS_Subset, Zenon DEF FinitePairs
  <2>3. ASSUME NEW x \in Callers, NEW i
        PROVE  /\ <<x, i>> \in U <=> i \in UnreportedOf(call[x], pc[x], d)
               /\ <<x, i>> \in V <=> i \in UnreportedOf(call'[x], pc'[x], d)
    BY UnreportedFacts
  <2>4. ASSUME NEW ci, ci \in U \/ ci \in V
        PROVE  \E x \in Callers : \E i : ci = <<x, i>>
    BY <2>4, UnreportedFacts
  <2>5. \A ci \in U : f[ci] \in Int
    <3> SUFFICES ASSUME NEW ci \in U PROVE f[ci] \in Int
      BY Zenon
    <3>1. PICK x \in Callers : \E i \in UnreportedOf(call[x], pc[x], d) : ci = <<x, i>>
      BY UnreportedFacts
    <3>2. PICK i \in 1 .. Len(call[x].req) : ci = <<x, i>>
      BY <3>1, Zenon DEF UnreportedOf
    <3>3. f[ci] = Part(d, call[x], i, s)
      BY <3>2
    <3> QED BY <3>3, <1>2, Zenon
  <2>6. \A x \in Callers \ {c} : \A i : <<x, i>> \in U <=> <<x, i>> \in V
    BY <2>3, Zenon DEF OnlyCaller
  <2>7. \A i : (<<c, i>> \in U <=> i \in old) /\ (<<c, i>> \in V <=> i \in new)
    BY <2>3, Zenon
  <2>8. \A ci \in U \cap V : g[ci] = f[ci]
    BY <2>4, <2>7 DEF OnlyCaller
  <2>9. \A h \in old : f[<<c, h>>] = Part(d, call[c], h, s)
    BY <2>7, Zenon
  <2>10. \A h \in new : g[<<c, h>>] = Part(d, call'[c], h, s)
    BY <2>7, Zenon
  <2> HIDE DEF U, V, f, g, old, new
  <2>12. ASSUME new = old PROVE SumFunctionOnSet(g, V) = SumFunctionOnSet(f, U)
    BY <2>4, <2>6, <2>7, <2>12, <2>8, <2>2, SumSame, SMTT(20)
  <2>13. ASSUME NEW h \in new, h \notin old, new = old \cup {h}, g[<<c, h>>] \in Int
         PROVE  SumFunctionOnSet(g, V) = SumFunctionOnSet(f, U) + g[<<c, h>>]
    <3> DEFINE a == <<c, h>>
    <3> HIDE DEF a
    <3>5. SumFunctionOnSet(g, U) = SumFunctionOnSet(f, U)
      BY <2>2, <2>4, <2>6, <2>7, <2>8, <2>13, SumSame, SMTT(20)
    <3> QED BY <2>2, <2>4, <2>5, <2>6, <2>7, <2>8, <2>13, <3>5, SumAdd, SumType, SMTT(30)
  <2>14. ASSUME NEW h \in old, new = old \ {h}
         PROVE  SumFunctionOnSet(g, V) = SumFunctionOnSet(f, U) - f[<<c, h>>]
    <3> DEFINE a == <<c, h>>
    <3>1. V = U \ {a} /\ a \in U
      BY <2>4, <2>6, <2>7, <2>14, SMTT(30)
    <3> HIDE DEF a
    <3>5. SumFunctionOnSet(g, V) = SumFunctionOnSet(f, V) /\ SumFunctionOnSet(f, V) \in Int
      BY <2>2, <2>5, <2>8, <3>1, SumSame, SumType, FS_RemoveElement, SMTT(20)
    <3> QED BY <2>2, <2>5, <3>1, <3>5, SumRemove, SMTT(20) DEF a
  <2> QED BY <2>1, <2>2, <2>5, <2>9, <2>10, <2>12, <2>13, <2>14, SumType, Zenon DEF old, new
\* What the counters of a rule hold, when no charge or one charge is made.
<1>4. ASSUME SplitInv, SplitInv', NEW d \in Descriptors, NEW s
      PROVE  /\ Held(d, s) \in Int
             /\ (\A k \in KeysOf(d) : tally'[k].chg = tally[k].chg) => Held(d, s)' = Held(d, s)
             /\ \A k \in KeysOf(d) : (\A j \in KeysOf(d) \ {k} : tally'[j].chg = tally[j].chg) =>
                  Held(d, s)' = Held(d, s) + (Level(tally'[k].chg, MaxLimit[d], s)
                                                - Level(tally[k].chg, MaxLimit[d], s))
  <2> USE <1>4
  <2> DEFINE S == KeysOf(d)
             f == [k \in S |-> Level(tally[k].chg, MaxLimit[d], s)]
             g == [k \in S |-> Level(tally'[k].chg, MaxLimit[d], s)]
  <2>1. IsFiniteSet(S)
    BY FiniteKeys, Zenon
  <2>2. Held(d, s) = SumFunctionOnSet(f, S) /\ Held(d, s)' = SumFunctionOnSet(g, S)
    BY Zenon DEF Held
  <2>3. \A k \in S : tally[k].chg \in Int /\ tally'[k].chg \in Int
    BY DEF KeysOf, SplitInv
  <2>4. \A k \in S : f[k] \in Int /\ g[k] \in Int
    BY <2>3, <1>1, Zenon
  <2>5. \A k \in S : tally'[k].chg = tally[k].chg => g[k] = f[k]
    BY Zenon
  <2>6. \A k \in S : /\ f[k] = Level(tally[k].chg, MaxLimit[d], s)
                     /\ g[k] = Level(tally'[k].chg, MaxLimit[d], s)
    BY Zenon
  <2> HIDE DEF f, g, S
  <2>8. ASSUME \A k \in S : tally'[k].chg = tally[k].chg
        PROVE  SumFunctionOnSet(g, S) = SumFunctionOnSet(f, S)
    BY <2>1, <2>5, <2>8, SumSame, Zenon
  <2>9. ASSUME NEW k \in S, \A j \in S \ {k} : tally'[j].chg = tally[j].chg
        PROVE  SumFunctionOnSet(g, S) = SumFunctionOnSet(f, S) + (g[k] - f[k])
    BY <2>1, <2>4, <2>5, <2>9, SumChange, SumType, SMTT(30)
  <2> QED BY <2>1, <2>2, <2>4, <2>6, <2>9, SumType, SMTT(20) DEF S
\* A counter and its charges grow together, or the counter falls.
<1>5. ASSUME SplitInv, SplitInv', Control, [Next]_vars, NEW k \in Keys
      PROVE  \/ GET(store'[k]) <= GET(store[k]) /\ tally'[k].chg = tally[k].chg
             \/ \E n \in Nat : /\ GET(store'[k]) = GET(store[k]) + n
                               /\ tally'[k].chg = tally[k].chg + n
  <2> USE <1>5
  <2>1. GET(store[k]) \in Nat
    BY CounterType, Zenon
  <2>2. ASSUME UNCHANGED <<store, tally>>
        PROVE  GET(store'[k]) <= GET(store[k]) /\ tally'[k].chg = tally[k].chg
    BY <2>1, <2>2
  <2>3. ASSUME NEW c \in Callers,
               \/ \E req \in Requests : Begin(c, req)
               \/ CallerStep(c) \/ GiveUp(c) \/ PipelineFails(c)
        PROVE  UNCHANGED <<store, tally>>
    BY <2>3, BeginEffect, CallFrame, Zenon
  <2>4. ASSUME NEW c \in Callers, ExecGet(c) PROVE UNCHANGED <<store, tally>>
    BY <2>4, ExecGetEffect, Zenon
  <2>5. ASSUME NEW c \in Callers, ExecIncrBy(c)
        PROVE  \E n \in Nat : /\ GET(store'[k]) = GET(store[k]) + n
                              /\ tally'[k].chg = tally[k].chg + n
    <3> DEFINE q == call[c]
    <3>1. PICK h \in 1 .. Len(q.req) :
            /\ OnlyKey(KeyOf(q, h))
            /\ GET(store'[KeyOf(q, h)]) = GET(store[KeyOf(q, h)]) + q.charge[h]
            /\ tally'[KeyOf(q, h)].chg = tally[KeyOf(q, h)].chg + q.charge[h]
      BY <2>5, ExecIncrByEffect, ZenonT(30)
    <3>2. q.charge[h] \in Nat /\ tally[k].chg \in Nat
      BY IndexFacts, Zenon DEF SplitInv
    <3>3. CASE k = KeyOf(q, h)
      BY <3>1, <3>2, <3>3, Zenon
    <3>4. CASE k # KeyOf(q, h)
      <4>1. store'[k] = store[k] /\ tally'[k] = tally[k]
        BY <3>1, <3>4, Zenon DEF OnlyKey
      <4>2. GET(store'[k]) = GET(store[k]) + 0 /\ tally'[k].chg = tally[k].chg + 0
        BY <2>1, <3>2, <4>1
      <4> QED BY <4>2
    <3> QED BY <3>3, <3>4, Zenon
  <2>6. ASSUME NEW c \in Callers, ExecExpire(c) \/ ExecEval(c)
        PROVE  GET(store'[k]) <= GET(store[k]) /\ tally'[k].chg = tally[k].chg
    <3>1. PICK h \in 1 .. Len(call[c].req) : LET j == KeyOf(call[c], h) IN
            /\ j \in Keys /\ OnlyKey(j) /\ tally'[j].chg = tally[j].chg
            /\ GET(store'[j]) <= GET(store[j])
      <4>1. \A j \in Keys : GET(store[j]) \in Nat /\ GET(store[j]) <= GET(store[j])
        BY CounterType
      <4>2. CASE ExecExpire(c)
        BY <4>1, <4>2, ExecExpireEffect, ZenonT(30)
      <4>3. CASE ExecEval(c)
        BY <4>3, ExecEvalEffect, Zenon
      <4> QED BY <2>6, <4>2, <4>3, Zenon
    <3>2. GET(store[k]) <= GET(store[k])
      BY <2>1, SMTT(30)
    <3> QED BY <3>1, <3>2, Zenon DEF OnlyKey
  <2>7. CASE Environment
    BY <2>2, <2>7, <2>1, SMTT(30) DEF Environment, Tick, Expire, Evict, SplitInv, GET, NoCounter
  <2>8. CASE UNCHANGED vars
    BY <2>2, <2>8, Zenon DEF vars
  <2> QED BY <2>2, <2>3, <2>4, <2>5, <2>6, <2>7, <2>8, Zenon DEF Next, Terminated, RedisStep
\* A rule that is intact was so before: what is lost stays lost.
<1>6. ASSUME SplitInv, SplitInv', Control, [Next]_vars, NEW d \in Descriptors, Intact(d)'
      PROVE  Intact(d)
  <2> USE <1>6
  <2>1. ASSUME NEW x \in Callers, pc[x] = "error" PROVE pc'[x] = "error"
    <3>1. ASSUME NEW c \in Callers,
                 \/ \E req \in Requests : Begin(c, req)
                 \/ CallerStep(c) \/ RedisStep(c) \/ GiveUp(c) \/ PipelineFails(c)
          PROVE  OnlyCaller(c) /\ (pc[c] = "error" => pc'[c] = "error")
      <4>1. ASSUME NEW req \in Requests, Begin(c, req) PROVE OnlyCaller(c) /\ pc[c] # "error"
        BY <4>1, BeginEffect, Zenon
      <4> QED BY <3>1, <4>1, CallFrame, RedisFrame, Zenon
    <3> QED BY <2>1, <3>1, Zenon DEF Next, Terminated, OnlyCaller, Environment, Tick, Expire, Evict,
               vars
  <2>2. ASSUME NEW k \in KeysOf(d)
        PROVE  GET(store[k]) = tally[k].chg /\ tally[k].chg < UintModulus
    <3>1. k \in Keys /\ GET(store'[k]) = tally'[k].chg /\ tally'[k].chg < UintModulus
      BY Zenon DEF Intact, KeysOf
    <3> DEFINE old == GET(store[k])
               new == GET(store'[k])
    <3>2. old \in Nat /\ tally[k].chg \in Nat /\ old <= tally[k].chg
      BY <3>1, CounterType, Zenon DEF SplitInv, KeyInv
    <3>3. \/ new <= old /\ tally'[k].chg = tally[k].chg
          \/ \E n \in Nat : new = old + n /\ tally'[k].chg = tally[k].chg + n
      BY <3>1, <1>5, Zenon
    <3> HIDE DEF old, new
    <3>4. old = tally[k].chg /\ tally[k].chg < UintModulus
      BY <3>1, <3>2, <3>3, BaseLimiterAssumption, SMTT(30) DEF new
    <3> QED BY <3>4, Zenon DEF old
  <2> QED BY <2>1, <2>2, Zenon DEF Intact
\* A step of caller c that neither charges nor reports anything of rule d.
<1>7. ASSUME SplitInv, SplitInv', FinitePairs, NEW c \in Callers, OnlyCaller(c),
             NEW d \in Descriptors, NEW s, Balance(d, s), Written(d, s)' = Written(d, s),
             \A k \in KeysOf(d) : tally'[k].chg = tally[k].chg,
             UnreportedOf(call'[c], pc'[c], d) = UnreportedOf(call[c], pc[c], d),
             \A i \in UnreportedOf(call[c], pc[c], d) : Part(d, call'[c], i, s) = Part(d, call[c], i, s)
      PROVE  Balance(d, s)'
  <2>1. \A i \in UnreportedOf(call[c], pc[c], d) \cap UnreportedOf(call'[c], pc'[c], d) :
          Part(d, call'[c], i, s) = Part(d, call[c], i, s)
    BY <1>7, Zenon
  <2>2. ToCome(d, s)' = ToCome(d, s) /\ Held(d, s)' = Held(d, s)
    BY <1>7, <1>3, <1>4, <2>1, Zenon
  <2> QED BY <1>7, <2>2, Zenon DEF Balance
\* The steps of a call before and after its pipelines.
<1>8. ASSUME SplitInv, SplitInv', Control, FinitePairs, NEW d \in Descriptors, NEW s, Balance(d, s),
             NEW c \in Callers, pc'[c] # "error",
             \/ \E req \in Requests : Begin(c, req)
             \/ LookUp(c) \/ StartGet(c) \/ Build(c) \/ BuildAfterGet(c) \/ SendPerSecond(c) \/ Reply(c)
             \/ GiveUp(c) \/ PipelineFails(c)
      PROVE  Balance(d, s)'
  <2> USE <1>8
  <2> DEFINE q == call[c]
             r == call'[c]
             old == UnreportedOf(q, pc[c], d)
             new == UnreportedOf(r, pc'[c], d)
  <2>1. (\E req \in Requests : Begin(c, req)) \/ LookUp(c) \/ StartGet(c) =>
          pc[c] \notin {"incr", "respond"} /\ pc'[c] \notin {"incr", "respond"}
    <3>1. ASSUME NEW req \in Requests, Begin(c, req) PROVE pc[c] = "idle" /\ pc'[c] = "lookup"
      BY <3>1, BeginEffect, Zenon
    <3>2. LookUp(c) => pc[c] = "lookup" /\ pc'[c] \in {"lookup", "decide"}
      BY LookUpEffect, Zenon
    <3>3. StartGet(c) => pc[c] = "decide" /\ pc'[c] = "get"
      BY StartGetEffect, Zenon
    <3> QED BY <3>1, <3>2, <3>3, Zenon
  <2>2. tally' = tally /\ OnlyCaller(c)
    BY BeginEffect, CallFrame, Zenon DEF CallerStep
  <2>3. Written(d, s)' = Written(d, s)
    <3>1. CASE LookUp(c)
      BY <3>1, LookUpReport, Zenon DEF Written
    <3>2. CASE ~LookUp(c)
      <4>1. stats' = stats
        BY <3>2, BeginEffect, CallFrame, Zenon DEF CallerStep
      <4> QED BY <4>1, Zenon DEF Written
    <3> QED BY <3>1, <3>2, Zenon
  <2>4. ASSUME new = old, \A i \in old : Part(d, r, i, s) = Part(d, q, i, s) PROVE Balance(d, s)'
    BY <2>2, <2>3, <2>4, <1>7, Zenon
  <2>5. CASE pc[c] \notin {"incr", "respond"} /\ pc'[c] \notin {"incr", "respond"}
    BY <2>4, <2>5, Zenon DEF UnreportedOf
  <2>6. CASE Build(c) \/ BuildAfterGet(c)
    <3>1. /\ pc[c] \in {"decide", "get"} /\ ~r.half /\ r.req = q.req /\ r.over = q.over
          /\ r.sent \cup r.later = {i \in 1 .. Len(q.req) : q.req[i].d # Unmatched /\ ~q.over[i]}
      BY <2>6, BuildEffect, Zenon
    <3>2. old = {}
      BY <3>1, Zenon DEF UnreportedOf
    <3> HIDE DEF q, r
    <3>3. new = {}
      BY <3>1, RedisCacheAssumption, Zenon DEF UnreportedOf, Executed
    <3> HIDE DEF old, new
    <3> QED BY <2>4, <3>2, <3>3, Zenon
  <2>7. CASE SendPerSecond(c)
    <3>1. /\ pc'[c] = pc[c] /\ q.sent = {} /\ r.sent = q.later /\ r.later = {} /\ r.req = q.req
          /\ r.i = q.i /\ r.over = q.over /\ r.half = q.half /\ r.reply = q.reply
      BY <2>7, SendEffect, Zenon
    <3>2. ~q.half
      BY <3>1, Zenon DEF ControlInv, Control
    <3> HIDE DEF q, r
    <3>5. new = old
      BY <3>1, <3>2, Zenon DEF UnreportedOf, Executed
    <3> HIDE DEF old, new
    <3> QED BY <2>4, <3>1, <3>5, Zenon DEF Part
  <2>8. CASE Reply(c)
    <3>1. /\ pc[c] = "incr" /\ pc'[c] = "respond"
          /\ r.req = q.req /\ r.i = q.i /\ r.over = q.over /\ r.half = q.half
          /\ r.reply = q.reply /\ r.sent = q.sent /\ r.later = q.later
      BY <2>8, ReplyEffect, Zenon
    <3> HIDE DEF q, r
    <3>2. new = old
      BY <3>1, Zenon DEF UnreportedOf, Executed
    <3> HIDE DEF old, new
    <3> QED BY <2>4, <3>1, <3>2, Zenon DEF Part
  <2> QED BY <2>1, <2>5, <2>6, <2>7, <2>8, GiveUpEffect, PipelineFailsEffect, Zenon
\* One status: what its descriptor still had to report is written.
<1>9. ASSUME SplitInv, SplitInv', Control, FinitePairs, PlainRules, NEW d \in Descriptors,
             NEW s \in {"over", "near"}, Balance(d, s), Intact(d), NEW c \in Callers, Respond(c)
      PROVE  Balance(d, s)'
  <2> USE <1>9
  <2> DEFINE q == call[c]
             r == call'[c]
             i == q.i
             delta == StatusOf(c, i).delta
             old == UnreportedOf(q, pc[c], d)
             new == UnreportedOf(r, pc'[c], d)
  <2>1. ControlInv(q, pc[c]) /\ CallInv(q, pc[c], now, tally) /\ d # Unmatched /\ Len(q.req) \in Nat
    BY CallerFacts, RedisCacheAssumption, Zenon DEF Control
  <2>2. OnlyCaller(c) /\ pc[c] = "respond" /\ i \in 1 .. Len(q.req) /\ r.req = q.req /\ tally' = tally
    BY RespondEffect, Zenon
  <2>3. \A j \in 1 .. Len(q.req) : Executed(q, j)
    BY <2>1, <2>2, Zenon DEF ControlInv, Executed
  <2>4. /\ new = old \ {i}
        /\ \A j \in new : Part(d, r, j, s) = Part(d, q, j, s)
    <3>1. \/ pc'[c] = "done" /\ i = Len(q.req)
          \/ /\ pc'[c] = "respond" /\ r.i = i + 1 /\ r.over = q.over /\ r.half = q.half
             /\ r.reply = q.reply /\ r.sent = q.sent /\ r.later = q.later
      BY RespondEffect, Zenon
    <3>2. r.req = q.req /\ q.i \in 1 .. Len(q.req) /\ Len(q.req) \in Nat /\ pc[c] = "respond"
      BY <2>1, <2>2, RespondEffect, ZenonT(30)
    <3>3. LET u == UnreportedOf(q, "respond", d)
              v == UnreportedOf(r, pc'[c], d)
          IN v = u \ {q.i} /\ \A j \in v : Part(d, r, j, s) = Part(d, q, j, s)
      <4> HIDE DEF q, r, i, old, new
      <4> QED BY <2>3, <3>1, <3>2, UnreportedAfterRespond, SMTT(30) DEF i
    <3> QED BY <3>2, <3>3, Zenon
  <2>5. Written(d, s) \in Int /\ delta \in DeltaType
    <3>2. Written(d, s) \in Int
      BY WrittenType, Zenon
    <3>3. delta \in DeltaType
      BY <2>2, StatusFacts, Zenon
    <3> QED BY <3>2, <3>3, ZenonT(30)
  <2>6. CASE i \notin old
    <3>1. Written(d, s)' = Written(d, s)
      <4>1. CASE q.req[i].d # d
        BY <4>1, RespondReport, ZenonT(30) DEF Written
      <4>2. CASE q.req[i].d = d
        <5>1. ~CountsIn(q, i) \/ (CountsIn(q, i) /\ q.over[i])
          <6> HIDE DEF q
          <6>1. i <= i
            BY <2>1, <2>2
          <6> QED BY <2>2, <2>3, <2>6, <4>2, <6>1, ZenonT(30) DEF UnreportedOf, CountsIn
        <5>2. NoDelta.over = 0 /\ NoDelta.overLocal = 0 /\ NoDelta.near = 0
          BY Zenon DEF NoDelta, Delta
        <5>3. delta.over = delta.overLocal /\ delta.near = 0
          <6>1. delta = NoDelta \/ (delta.over = delta.overLocal /\ delta.near = 0)
            BY <2>2, <5>1, StatusReport, Zenon
          <6> HIDE DEF delta
          <6> QED BY <5>2, <6>1, Zenon
        <5>4. /\ stats'[d].over = stats[d].over + delta.over
              /\ stats'[d].near = stats[d].near + delta.near
              /\ stats'[d].overLocal = stats[d].overLocal + delta.overLocal
          BY <4>2, RespondReport, Zenon
        <5> HIDE DEF delta
        <5>5. stats[d].over \in Nat /\ stats[d].overLocal \in Nat /\ stats[d].near \in Nat
          BY Zenon DEF SplitInv, StatsType
        <5>6. delta.over \in Nat
          BY <2>5, Zenon DEF DeltaType
        <5>7. /\ (stats[d].over + delta.over) - (stats[d].overLocal + delta.over)
                   = stats[d].over - stats[d].overLocal
              /\ stats[d].near + 0 = stats[d].near
          BY <5>5, <5>6, SameRaise, Zenon
        <5> QED BY <5>3, <5>4, <5>7, Zenon DEF Written
      <4> QED BY <4>1, <4>2, Zenon
    <3> QED BY <2>2, <2>4, <2>6, <3>1, <1>7, Zenon
  <2>7. CASE i \in old
    <3> DEFINE n == q.reply[i]
               hits == q.req[i].hits
               l == MaxLimit[d]
    <3>1. q.req[i].d = d /\ CountsIn(q, i) /\ ~q.over[i]
      BY <2>1, <2>7, Zenon DEF UnreportedOf, CountsIn
    <3>2. q.op = "incr" /\ q.charge[i] = hits /\ hits <= n
      <4> HIDE DEF q, r, i
      <4>1. q.op = "incr"
        BY <2>1, <2>2, Zenon DEF CallInv
      <4>2. q.charge[i] = hits
        BY <2>1, <2>2, <3>1, <4>1, Zenon DEF ControlInv, PlainRules
      <4>3. q.charge[i] <= n
        BY <2>1, <2>2, <2>3, <3>1, ZenonT(30) DEF ControlInv
      <4> QED BY <4>1, <4>2, <4>3, Zenon
    <3>3. n < UintModulus
      <4>1. KeyOf(q, i) \in KeysOf(d) /\ n \in Nat /\ tally[KeyOf(q, i)].chg \in Nat
        <5>1. n \in Nat /\ KeyOf(q, i) \in Keys /\ KeyOf(q, i)[1] = q.req[i].d
          BY <2>1, <2>2, <3>1, IndexFacts, ZenonT(30)
        <5> HIDE DEF n, hits, l, q, r, i, delta, old, new
        <5> QED BY <3>1, <5>1, Zenon DEF KeysOf, SplitInv
      <4>2. n <= tally[KeyOf(q, i)].chg
        <5> HIDE DEF q, r, i
        <5> QED BY <2>1, <2>2, <3>1 DEF CallInv, CountsIn
      <4> HIDE DEF n, hits, l, q, r, i, delta, old, new
      <4> QED BY <4>1, <4>2, BaseLimiterAssumption, SMTT(30) DEF Intact
    <3>4. q.req[i].limit = l
      BY <2>1, <2>2, <3>1, IndexFacts, Zenon DEF PlainRules
    <3>5. /\ delta.overLocal = 0
          /\ delta.over = Excess(n, l) - Excess(n - hits, l)
          /\ delta.near = NearPart(n, l) - NearPart(n - hits, l)
      <4>1. /\ delta.overLocal = 0
            /\ delta.over = Excess(n, q.req[i].limit) - Excess(n - hits, q.req[i].limit)
            /\ delta.near = NearPart(n, q.req[i].limit) - NearPart(n - hits, q.req[i].limit)
        BY <2>2, <3>1, <3>2, <3>3, StatusReport, ZenonT(30)
      <4> HIDE DEF n, hits, l, q, r, i, delta
      <4> QED BY <3>4, <4>1, Zenon
    <3>7. Written(d, s)' = Written(d, s) + Part(d, q, i, s)
      <4>2. stats[d].over \in Nat /\ stats[d].near \in Nat /\ stats[d].overLocal \in Nat
        BY Zenon DEF SplitInv, StatsType
      <4> DEFINE over == delta.over
                 near == delta.near
      <4>4. over \in Nat /\ near \in Nat
        BY <2>5, Zenon DEF DeltaType
      <4>5. /\ stats'[d].over = stats[d].over + over /\ stats'[d].near = stats[d].near + near
            /\ stats'[d].overLocal = stats[d].overLocal + 0
        <5>1. /\ stats'[d].over = stats[d].over + over /\ stats'[d].near = stats[d].near + near
              /\ stats'[d].overLocal = stats[d].overLocal + delta.overLocal
          BY <3>1, RespondReport, Zenon
        <5> QED BY <3>5, <5>1, Zenon
      <4> HIDE DEF over, near
      <4>6. /\ stats'[d].over - stats'[d].overLocal = (stats[d].over - stats[d].overLocal) + over
            /\ stats'[d].near = stats[d].near + near
        BY <4>2, <4>4, <4>5
      <4> HIDE DEF q, r, i
      <4> QED BY <3>5, <4>6 DEF Written, over, near, Part, Level
    <3>8. ToCome(d, s) \in Int /\ ToCome(d, s)' = ToCome(d, s) - Part(d, q, i, s)
      <4>1. \A j \in old \cap new : Part(d, r, j, s) = Part(d, q, j, s)
        BY <2>4, Zenon
      <4> HIDE DEF i
      <4> QED BY <2>2, <2>4, <2>7, <4>1, <1>3, Zenon
    <3>10. Part(d, q, i, s) \in Int
      BY <2>2, <1>2, Zenon
    <3>11. Held(d, s) \in Int /\ Held(d, s)' = Held(d, s)
      BY <2>2, <1>4, Zenon
    <3> DEFINE p == Part(d, q, i, s)
    <3> HIDE DEF p
    <3> QED BY <2>5, <3>7, <3>8, <3>10, <3>11, SMTT(20) DEF Balance
  <2> QED BY <2>6, <2>7, Zenon
\* Redis executes a command: what an INCRBY adds to a counter is to be reported.
<1>10. ASSUME SplitInv, SplitInv', Control, FinitePairs, PlainRules, NEW d \in Descriptors,
              NEW s \in {"over", "near"}, Balance(d, s), Intact(d), NEW c \in Callers, RedisStep(c)
       PROVE  Balance(d, s)'
  <2> USE <1>10
  <2> DEFINE q == call[c]
             r == call'[c]
             old == UnreportedOf(q, pc[c], d)
             new == UnreportedOf(r, pc'[c], d)
  <2>1. ControlInv(q, pc[c]) /\ CallInv(q, pc[c], now, tally) /\ pc[c] # "error" /\ pc[c] \in PcType
    BY CallerFacts, Zenon DEF Control, Intact
  <2>2. ASSUME stats' = stats PROVE Written(d, s)' = Written(d, s)
    BY <2>2, ZenonT(30) DEF Written
  <2>4. ASSUME SameRest(q, r), pc'[c] = pc[c],
               \A i \in 1 .. Len(q.req) : CountsIn(q, i) =>
                 (Executed(r, i) <=> Executed(q, i)) /\ (Executed(q, i) => r.reply[i] = q.reply[i])
        PROVE  new = old /\ \A i \in old : Part(d, r, i, s) = Part(d, q, i, s)
    <3> HIDE DEF q, r
    <3> QED BY RedisCacheAssumption, <2>4 DEF CountsIn, UnreportedOf, SameRest, Part
  <2>5. CASE ExecGet(c)
    <3>1. q.op = "get" /\ pc'[c] = pc[c]
      BY <2>5, ExecGetEffect, ZenonT(30)
    <3>2. pc[c] \notin {"incr", "respond"}
      <4> HIDE DEF q, r, old, new
      <4> QED BY <2>1, <3>1 DEF CallInv
    <3>3. new = {} /\ old = {}
      BY <3>1, <3>2, Zenon DEF UnreportedOf
    <3> QED BY <2>2, <2>5, <3>3, <1>7, ExecGetEffect, Zenon
  <2>6. CASE ExecIncrBy(c)
    <3>1. PICK h \in 1 .. Len(q.req) : LET k == KeyOf(q, h) IN
            /\ OnlyCaller(c) /\ pc'[c] = pc[c] /\ SameRest(q, r)
            /\ q.op = "incr" /\ Leads(q, h) /\ CountsIn(q, h) /\ ~q.half
            /\ r.sent = q.sent /\ r.half
            /\ \A j \in 1 .. Len(q.req) :
                 r.reply[j] = IF j = h THEN GET(store[k]) + q.charge[h] ELSE q.reply[j]
            /\ k \in Keys /\ OnlyKey(k)
            /\ tally'[k].chg = tally[k].chg + q.charge[h]
            /\ UNCHANGED stats
      BY <2>6, ExecIncrByEffect, Zenon
    <3> DEFINE k == KeyOf(q, h)
               l == MaxLimit[d]
    <3>2. pc[c] = "incr" /\ pc'[c] = "incr" /\ q.i <= h /\ h \notin q.later /\ ~q.over[h]
      <4> HIDE DEF q
      <4> QED BY <2>1, <3>1, IncrPlace, Zenon
    <3>3. /\ h \notin old /\ new = IF q.req[h].d = d THEN old \cup {h} ELSE old
          /\ \A i \in old : Part(d, r, i, s) = Part(d, q, i, s)
      <4> HIDE DEF q, r, k
      <4>1. /\ Executed(r, h) /\ ~Executed(q, h)
            /\ \A i \in 1 .. Len(q.req) : i # h => (Executed(r, i) <=> Executed(q, i))
        BY <3>1, <3>2, IncrExecutes, Zenon
      <4>2. SameOthers(q, r, h)
        BY <3>1, <4>1, Zenon DEF SameOthers
      <4>3. JoinsUnreported(q, r, h, d, s)
        <5> HIDE DEF old, new
        <5>1. SameRest(q, r) /\ CountsIn(q, h) /\ ~q.over[h] /\ q.i <= h
          BY <3>1, <3>2, Zenon
        <5> QED BY <4>1, <4>2, <5>1, UnreportedAfterIncr, Zenon
      <4> QED BY <3>2, <4>3, Zenon DEF JoinsUnreported
    <3>4. q.charge[h] = q.req[h].hits /\ q.req[h].hits \in Nat
      BY <2>1, <3>1, <3>2, IndexFacts, Zenon DEF ControlInv, PlainRules
    <3>5. k[1] = q.req[h].d
      BY Zenon DEF KeyOf
    <3>6. CASE q.req[h].d # d
      <4>1. new = old /\ \A i \in old : Part(d, r, i, s) = Part(d, q, i, s)
        BY <3>3, <3>6, Zenon
      <4>2. \A j \in KeysOf(d) : tally'[j].chg = tally[j].chg
        <5> HIDE DEF q, r
        <5> QED BY <3>1, <3>5, <3>6, Zenon DEF OnlyKey, KeysOf
      <4> HIDE DEF k
      <4> QED BY <2>2, <3>1, <4>1, <4>2, <1>7, Zenon
    <3>7. CASE q.req[h].d = d
      <4>1. /\ new = old \cup {h} /\ h \notin old
            /\ \A i \in old : Part(d, r, i, s) = Part(d, q, i, s)
        BY <3>3, <3>7, ZenonT(30)
      <4>2. k \in KeysOf(d)
        <5> HIDE DEF q, r
        <5> QED BY <3>1, <3>5, <3>7, Zenon DEF KeysOf
      <4>3. GET(store[k]) = tally[k].chg /\ tally[k].chg \in Nat
        BY <4>2, Zenon DEF Intact, SplitInv, KeysOf
      <4>4. r.reply[h] = tally'[k].chg /\ r.reply[h] - r.req[h].hits = tally[k].chg
        <5>1. r.req = q.req
          BY <3>1, ZenonT(30) DEF SameRest
        <5>2. r.reply[h] = GET(store[k]) + q.charge[h] /\ tally'[k].chg = tally[k].chg + q.charge[h]
          BY <3>1, ZenonT(30)
        <5>3. r.req[h].hits = q.charge[h] /\ q.charge[h] \in Nat
          BY <3>4, <5>1, Zenon
        <5> HIDE DEF q, r, k
        <5> QED BY <4>3, <5>2, <5>3, ChargeRead, Zenon
      <4>6. Part(d, r, h, s) \in Int
        <5>1. tally'[k].chg \in Int /\ tally[k].chg \in Int
          <6>1. tally'[k].chg = tally[k].chg + q.charge[h] /\ q.charge[h] \in Nat
            BY <3>1, <3>4, ZenonT(30)
          <6> HIDE DEF q, k
          <6> QED BY <4>3, <6>1, ChargeRead, Zenon
        <5>2. Level(tally'[k].chg, l, s) \in Int /\ Level(tally[k].chg, l, s) \in Int
          BY <5>1, <1>1, Zenon
        <5> HIDE DEF r, k
        <5> QED BY <4>4, <5>2, PartType, Zenon DEF l
      <4>7. ToCome(d, s) \in Int /\ ToCome(d, s)' = ToCome(d, s) + Part(d, r, h, s)
        <5>1. h \in new /\ \A i \in old \cap new : Part(d, r, i, s) = Part(d, q, i, s)
          BY <4>1, Zenon
        <5> QED BY <3>1, <4>1, <4>6, <5>1, <1>3, Zenon
      <4>8. Held(d, s) \in Int /\ Held(d, s)' = Held(d, s) + Part(d, r, h, s)
        <5>1. \A j \in KeysOf(d) \ {k} : tally'[j].chg = tally[j].chg
          BY <3>1, Zenon DEF OnlyKey, KeysOf
        <5>2. Held(d, s)' = Held(d, s) + (Level(tally'[k].chg, l, s) - Level(tally[k].chg, l, s))
          BY <4>2, <5>1, <1>4, Zenon
        <5>3. Held(d, s) \in Int
          BY <1>4, Zenon
        <5> QED BY <4>4, <5>2, <5>3, Zenon DEF Part
      <4>9. Written(d, s)' = Written(d, s) /\ Written(d, s) \in Int
        <5>2. Written(d, s) \in Int
          BY WrittenType, Zenon
        <5> QED BY <2>2, <3>1, <5>2, Zenon
      <4> DEFINE p == Part(d, r, h, s)
      <4> HIDE DEF p
      <4> QED BY <4>6, <4>7, <4>8, <4>9, SMTT(20) DEF Balance
    <3> QED BY <3>6, <3>7, Zenon
  <2>7. CASE ExecExpire(c)
    <3>1. PICK h \in 1 .. Len(q.req) :
            /\ OnlyCaller(c) /\ pc'[c] = pc[c] /\ SameRest(q, r) /\ r.reply = q.reply
            /\ q.op = "incr" /\ Leads(q, h) /\ q.half /\ r.sent = q.sent \ {h} /\ ~r.half
            /\ UNCHANGED <<stats, tally>>
      BY <2>7, ExecExpireEffect, Zenon
    <3>2. \A i \in 1 .. Len(q.req) : Executed(r, i) <=> Executed(q, i)
      <4> HIDE DEF q, r
      <4> QED BY <3>1, ExpireExecutes, Zenon
    <3>3. new = old /\ \A i \in old : Part(d, r, i, s) = Part(d, q, i, s)
      BY <2>4, <3>1, <3>2, Zenon
    <3> QED BY <2>2, <3>1, <3>3, <1>7, Zenon
  <2>8. CASE ExecEval(c)
    <3>1. PICK h \in 1 .. Len(q.req) : LET k == KeyOf(q, h) IN
            /\ OnlyCaller(c) /\ pc'[c] = pc[c] /\ SameRest(q, r)
            /\ q.op = "incr" /\ Leads(q, h) /\ q.req[h].neg
            /\ r.sent = q.sent \ {h} /\ r.half = q.half
            /\ \A j \in 1 .. Len(q.req) : j # h => r.reply[j] = q.reply[j]
            /\ k \in Keys /\ OnlyKey(k) /\ tally'[k].chg = tally[k].chg
            /\ UNCHANGED stats
      BY <2>8, ExecEvalEffect, Zenon
    <3>5. \A j \in KeysOf(d) : tally'[j].chg = tally[j].chg
      BY <3>1, ZenonT(30) DEF OnlyKey, KeysOf
    <3>6. ~q.half
      BY <2>1, <3>1, EvalNotHalf, CallerFacts, Zenon
    <3>7. ASSUME NEW i \in 1 .. Len(q.req), CountsIn(q, i)
          PROVE  (Executed(r, i) <=> Executed(q, i)) /\ r.reply[i] = q.reply[i]
      <4> HIDE DEF q, r
      <4> QED BY <3>1, <3>6, <3>7, Zenon DEF Executed, CountsIn, SameRest
    <3>8. new = old /\ \A i \in old : Part(d, r, i, s) = Part(d, q, i, s)
      BY <2>4, <3>1, <3>7, Zenon
    <3> QED BY <2>2, <3>1, <3>5, <3>8, <1>7, Zenon
  <2> QED BY <2>5, <2>6, <2>7, <2>8, Zenon DEF RedisStep
\* The clock, Redis and the local caches.
<1>11. ASSUME NEW d \in Descriptors, NEW s, Balance(d, s), Environment \/ UNCHANGED vars
       PROVE  Balance(d, s)'
  BY <1>11, ToComeHere, Zenon DEF Environment, Tick, Expire, Evict, vars, Held, Written, Balance
<1> SUFFICES ASSUME NEW d \in Descriptors, NEW s \in {"over", "near"}, Intact(d)'
             PROVE  Balance(d, s)'
  BY Zenon DEF StatsInv, Balance
<1>12. Intact(d) /\ Balance(d, s)
  BY <1>6, Zenon DEF StatsInv, Balance
<1>14. ASSUME NEW c \in Callers, CallerStep(c) PROVE Balance(d, s)'
  BY <1>12, <1>14, <1>8, <1>9, Zenon DEF CallerStep, Intact
<1>15. ASSUME NEW c \in Callers, (\E req \in Requests : Begin(c, req)) \/ GiveUp(c) \/ PipelineFails(c)
      PROVE  Balance(d, s)'
  BY <1>12, <1>15, <1>8, Zenon DEF Intact
<1>16. ASSUME NEW c \in Callers, RedisStep(c) PROVE Balance(d, s)'
  BY <1>12, <1>16, <1>10, Zenon
<1>17. CASE Environment \/ UNCHANGED vars
  BY <1>12, <1>17, <1>11, Zenon
<1> QED BY <1>14, <1>15, <1>16, <1>17, Zenon DEF Next, Terminated

\* The statistics account for every charge: when no call is under way and no
\* counter lost a charge, over_limit and near_limit of a rule are what its
\* counters hold beyond the limit and beyond the near-limit threshold, plus the
\* denials of the local cache, and a shadow rule overrode all of over_limit.
\* This is for rules whose limit does not change and that charge every request:
\* a call that was charged nothing reports a counter it did not move.
THEOREM StatsSafe ==
  ASSUME PlainRules
  PROVE  Spec => []StatsAddUp
<1>1. SplitInv /\ SplitInv' /\ Control /\ FinitePairs /\ StatsInv /\ [Next]_vars => StatsInv'
  BY StatsNext, Zenon
<1>2. SplitInv /\ Control /\ ShadowInv /\ [Next]_vars => ShadowInv'
  BY ShadowNext, Zenon
<1>3. SplitInv /\ StatsInv /\ ShadowInv => StatsAddUp
  <2> SUFFICES ASSUME SplitInv, StatsInv, ShadowInv, NEW d \in Descriptors, Quiet,
                      \A k \in KeysOf(d) : GET(store[k]) = tally[k].chg /\ tally[k].chg < UintModulus
               PROVE  /\ stats[d].over = stats[d].overLocal + Held(d, "over")
                      /\ stats[d].near = Held(d, "near")
                      /\ stats[d].shadow = IF d \in Shadow THEN stats[d].over ELSE 0
    BY Zenon DEF StatsAddUp, Held, KeysOf, Level
  <2>1. Intact(d)
    BY Zenon DEF Intact, Quiet
  <2>2. ASSUME NEW s PROVE ToCome(d, s) = 0
    <3>1. \A c \in Callers : UnreportedOf(call[c], pc[c], d) = {}
      BY Zenon DEF Quiet, UnreportedOf
    <3>2. UnreportedIn(call, pc, d) = {}
      BY <3>1, UnreportedFacts, Zenon
    <3> QED BY <3>2, ToComeHere, SumEmpty, Zenon DEF ToComeIn
  <2>3. stats[d].over \in Nat /\ stats[d].near \in Nat /\ stats[d].overLocal \in Nat
    BY Zenon DEF SplitInv, StatsType
  <2>4. Written(d, "over") + 0 = Held(d, "over") /\ Written(d, "near") + 0 = Held(d, "near")
    BY <2>1, <2>2, Zenon DEF StatsInv
  <2>5. /\ (stats[d].over - stats[d].overLocal) + 0 = Held(d, "over")
        /\ stats[d].near + 0 = Held(d, "near")
    BY <2>4, Zenon DEF Written
  <2> QED BY <2>3, <2>5 DEF ShadowInv
<1> QED BY <1>1, <1>2, <1>3, SplitInit, SplitNext, ControlInit, ControlNext, PairsInit,
           PairsNext, StatsInit, PTL DEF Spec
===============================================================================
