----------------------------- MODULE MCRedisCache -----------------------------
(* Small instances of RedisCache.  Windows have small periods: two seconds   *)
(* for "slow" (a rule with a longer unit), one for "fast" (unit SECOND).     *)
EXTENDS RedisCache, TLC

CONSTANTS c1, c2, c3, slow, fast, other

Period(d) == IF d = fast THEN 1 ELSE 2

MCBucketStart(d, t) == (t \div Period(d)) * Period(d)
MCWindowEnd(d, t) == MCBucketStart(d, t) + Period(d)
\* Calendar months evaluate the rest of the window, all other units its length.
MCExpirationSeconds(d, t) == IF d = slow THEN MCWindowEnd(d, t) - t ELSE Period(d)

Hit(d, l, n) == [d |-> d, limit |-> l, hits |-> n, neg |-> FALSE]
Refund(d, l, n) == [d |-> d, limit |-> l, hits |-> n, neg |-> TRUE]

TwoCallers == {c1, c2}
ThreeCallers == {c1, c2, c3}
CallerSymmetry == Permutations(Callers)
OneInstance == {"a"}
AllOnA == [c \in Callers |-> "a"]

\* One rule, hits and refunds of one.
OneRule == {slow}
OneRuleLimits == [d \in {slow} |-> {1}]
OneRuleMax == [d \in {slow} |-> 1]
OneRuleRequests == {<<Hit(slow, 1, 1)>>, <<Refund(slow, 1, 1)>>}
\* Two rules, "fast" on the per-second Redis, and a descriptor that matches no
\* rule.  The hits on "slow" land below, between and above its two thresholds.
TwoRules == {slow, fast}
TwoRuleLimits == [d \in TwoRules |-> IF d = slow THEN {3} ELSE {1}]
TwoRuleMax == [d \in TwoRules |-> IF d = slow THEN 3 ELSE 1]
TwoRuleRequests == {<<Hit(fast, 1, 1), Hit(slow, 3, 2)>>, <<Hit(other, 0, 1), Hit(slow, 3, 5)>>}

\* Two rules with limit 1.
StopLimits == [d \in TwoRules |-> {1}]
StopMax == [d \in TwoRules |-> 1]
StopRequests == {<<Hit(slow, 1, 1)>>, <<Hit(slow, 1, 1), Hit(fast, 1, 1)>>}
===============================================================================
