--------------------------- MODULE MCMemcachedCache ---------------------------
(* A small instance of MemcachedCache: a rule whose window is longer than the *)
(* largest relative expiration and one whose window is shorter.               *)
EXTENDS MemcachedCache

CONSTANTS c1, c2, c3, slow, fast, other

\* Windows of the slow rule begin at odd times: the clock enters a new one at 1.
Period(r) == IF r = fast THEN 1 ELSE 2
MCBucketStart(r, t) == IF t = 0 THEN 0 ELSE 1 + ((t - 1) \div Period(r)) * Period(r)
MCWindowEnd(r, t) == IF t = 0 THEN 1 ELSE MCBucketStart(r, t) + Period(r)
MCExpirationSeconds(r, t) == Period(r)

Hit(r, n) == [r |-> r, hits |-> n, neg |-> FALSE]
Refund(r, n) == [r |-> r, hits |-> n, neg |-> TRUE]

\* The slow limit is above Int32Max: a counter within it may be one that the next
\* call cannot parse.  The fast one denies the first call and poisons the local
\* cache for the second.
MCLimit == [r \in {slow, fast} |-> IF r = slow THEN 4 ELSE 0]

\* The last request names a counter twice, and only its halves fit.
MCRequests == {<<Hit(slow, 1)>>, <<Hit(other, 1), Hit(slow, 4), Hit(fast, 1)>>,
               <<Refund(slow, 1)>>, <<Hit(slow, 3), Hit(slow, 3)>>}
===============================================================================
