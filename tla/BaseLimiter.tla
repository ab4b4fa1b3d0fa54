----------------------------- MODULE BaseLimiter -----------------------------
(***************************************************************************)
(* The decision and the statistics of one descriptor, as computed by       *)
(* limiter.BaseRateLimiter from the counter value the cache reported.      *)
(*                                                                         *)
(* A limit is a record [limit, shadow]: requests per unit and the rule's   *)
(* shadow_mode.  A limitInfo is [limit, shadow, before, after].  A status  *)
(* is [code, remaining, delta, poison]: the answer, the amounts added to   *)
(* the rule's statistics, and whether the key goes into the local cache.   *)
(***************************************************************************)
EXTENDS Integers

CONSTANTS UintModulus,   \* 2^64: limitBeforeIncrease is a uint64 difference
          NearNum,       \* nearLimitRatio is the fraction NearNum / NearDen
          NearDen

ASSUME BaseLimiterAssumption ==
  /\ UintModulus \in Nat \ {0}
  /\ NearNum \in Nat
  /\ NearDen \in Nat \ {0}
  /\ NearNum <= NearDen

OK == "OK"
OVER_LIMIT == "OVER_LIMIT"

Larger(a, b) == IF a >= b THEN a ELSE b

\* uint64 subtraction: wraps around below zero.
UintSub(a, b) == (a - b) % UintModulus

NearLimitThreshold(limit) == (limit * NearNum) \div NearDen

\* What one descriptor adds to the statistics of its rule.
Delta(over, near, within, overLocal) ==
  [over |-> over, near |-> near, within |-> within, overLocal |-> overLocal, shadow |-> 0]

NoDelta == Delta(0, 0, 0, 0)

-----------------------------------------------------------------------------

\* A plausible slip: the hits are all charged to over_limit, also those that
\* still fitted under the limit.
checkOverLimitThresholdAllHits(info, hits) ==
  [over |-> hits, near |-> 0]

checkOverLimitThreshold(info, hits) ==
  IF info.before >= info.limit
  THEN [over |-> hits, near |-> 0]
  ELSE [over |-> info.after - info.limit,
        near |-> info.limit - Larger(NearLimitThreshold(info.limit), info.before)]

checkNearLimitThreshold(info, hits) ==
  LET near == NearLimitThreshold(info.limit) IN
  IF info.after <= near THEN 0
  ELSE IF info.before >= near THEN hits
  ELSE info.after - near

increaseShadowModeStats(info, isOverLimitWithLocalCache, hits) ==
  IF isOverLimitWithLocalCache \/ info.before >= info.limit
  THEN hits
  ELSE info.after - info.limit

\* Slips: the value before the increase is compared with the limit, and a key
\* goes into the local cache as soon as nothing remains.
EnforcedStatusBefore(info, isOverLimitWithLocalCache, hits) ==
  IF isOverLimitWithLocalCache \/ info.before > info.limit
  THEN [code |-> OVER_LIMIT, remaining |-> 0, poison |-> FALSE, delta |-> NoDelta]
  ELSE [code |-> OK, remaining |-> 0, poison |-> FALSE, delta |-> NoDelta]

EnforcedStatusPoisonAtZero(info, isOverLimitWithLocalCache, hits) ==
  IF isOverLimitWithLocalCache \/ info.after > info.limit
  THEN [code |-> OVER_LIMIT, remaining |-> 0, poison |-> FALSE, delta |-> NoDelta]
  ELSE [code |-> OK, remaining |-> info.limit - info.after,
        poison |-> info.after = info.limit, delta |-> NoDelta]

\* The status before the rule's shadow mode is looked at.
EnforcedStatus(info, isOverLimitWithLocalCache, hits) ==
  IF isOverLimitWithLocalCache
  THEN [code |-> OVER_LIMIT, remaining |-> 0, poison |-> FALSE,
        delta |-> Delta(hits, 0, 0, hits)]
  ELSE IF info.after > info.limit
  THEN LET d == checkOverLimitThreshold(info, hits) IN
       [code |-> OVER_LIMIT, remaining |-> 0, poison |-> TRUE,
        delta |-> Delta(d.over, d.near, 0, 0)]
  ELSE [code |-> OK, remaining |-> info.limit - info.after, poison |-> FALSE,
        delta |-> Delta(0, checkNearLimitThreshold(info, hits), hits, 0)]

GetResponseDescriptorStatus(info, isOverLimitWithLocalCache, hits) ==
  LET s == EnforcedStatus(info, isOverLimitWithLocalCache, hits) IN
  IF s.code = OVER_LIMIT /\ info.shadow
  THEN [s EXCEPT !.code = OK,
                 !.delta.shadow = increaseShadowModeStats(info, isOverLimitWithLocalCache, hits)]
  ELSE s

\* A descriptor without a limit (an empty cache key).
UnlimitedStatus ==
  [code |-> OK, remaining |-> 0, poison |-> FALSE, delta |-> NoDelta]

GetResponseDescriptorStatusForNegativeHits(limit, currentValue) ==
  [code |-> OK, poison |-> FALSE, delta |-> NoDelta,
   remaining |-> IF limit > currentValue THEN limit - currentValue ELSE 0]

-----------------------------------------------------------------------------
(* What the statistics are meant to say of a counter: the part of it beyond *)
(* the limit, and the part between the near-limit threshold and the limit.  *)

Excess(n, limit) == Larger(0, n - limit)
NearPart(n, limit) == Excess(n, NearLimitThreshold(limit)) - Excess(n, limit)
=============================================================================
