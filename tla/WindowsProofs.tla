---------------------------- MODULE WindowsProofs ----------------------------
(***************************************************************************)
(* For every set of instants of the calendar: a bucket is the boundary     *)
(* before the instant, the reset the end of its window, and a TTL reaches  *)
(* the end of every window that was entered before it is evaluated.  The   *)
(* last is what RedisCache assumes of its windows.                         *)
(*                                                                         *)
(* The months come first: the recursion that counts their days is solved   *)
(* by a sum, and a smallest counterexample shows that they are ordered.    *)
(***************************************************************************)
EXTENDS Windows, SumProofs

-----------------------------------------------------------------------------
(* The calendar *)

\* A month has between 28 and 31 days.
LEMMA DaysInType ==
  ASSUME NEW m \in Nat
  PROVE  DaysIn(m) \in 28 .. 31
BY DEF DaysIn

\* The recursion that counts the days of the months before a month defines a
\* function: the sum of their lengths solves it.
LEMMA MonthFirstDayRecursion ==
  /\ MonthFirstDay[0] = 0
  /\ \A m \in Nat : MonthFirstDay[m + 1] = MonthFirstDay[m] + DaysIn(m)
<1> DEFINE days == [m \in Nat |-> DaysIn(m)]
           g == [m \in Nat |-> SumFunctionOnSet(days, 0 .. m - 1)]
           Solves(f) == f = [m \in Nat |-> IF m = 0 THEN 0 ELSE f[m - 1] + DaysIn(m - 1)]
<1>1. g[0] = 0
  <2>1. 0 .. 0 - 1 = {}
    OBVIOUS
  <2> QED BY <2>1, SumEmpty
<1>2. ASSUME NEW m \in Nat, m # 0 PROVE g[m] = g[m - 1] + DaysIn(m - 1)
  <2> DEFINE S == 0 .. m - 1
  <2>1. IsFiniteSet(S) /\ m - 1 \in S /\ S \ {m - 1} = 0 .. (m - 1) - 1
    <3>1. 0 \in Int /\ m - 1 \in Int /\ m - 1 \in S
      BY <1>2
    <3>2. IsFiniteSet(S)
      BY <3>1, FS_Interval
    <3>3. S \ {m - 1} = 0 .. (m - 1) - 1
      BY <1>2
    <3> QED BY <3>1, <3>2, <3>3
  <2>2. \A x \in S : days[x] \in Int
    BY DaysInType
  <2>3. SumFunctionOnSet(days, S) = days[m - 1] + SumFunctionOnSet(days, S \ {m - 1})
    <3> HIDE DEF S, days
    <3> QED BY <2>1, <2>2, SumRemove
  <2>4. SumFunctionOnSet(days, S \ {m - 1}) \in Int
    <3>1. IsFiniteSet(S \ {m - 1})
      BY <2>1, FS_RemoveElement
    <3> HIDE DEF S, days
    <3> QED BY <2>2, <3>1, SumType
  <2>5. m - 1 \in Nat /\ days[m - 1] = DaysIn(m - 1) /\ DaysIn(m - 1) \in Int
    BY <1>2, DaysInType
  <2>6. g[m] = SumFunctionOnSet(days, S) /\ g[m - 1] = SumFunctionOnSet(days, S \ {m - 1})
    BY <2>1, <2>5
  <2> HIDE DEF g, days, S
  <2> QED BY <2>3, <2>4, <2>5, <2>6
<1>3. Solves(g)
  <2> HIDE DEF days
  <2>1. \A m \in Nat : g[m] = IF m = 0 THEN 0 ELSE g[m - 1] + DaysIn(m - 1)
    BY <1>1, <1>2
  <2>2. g = [m \in Nat |-> g[m]]
    OBVIOUS
  <2> HIDE DEF g
  <2> QED BY <2>1, <2>2
<1>4. MonthFirstDay = CHOOSE f : Solves(f)
  BY DEF MonthFirstDay
<1>5. Solves(MonthFirstDay)
  <2> HIDE DEF g
  <2>1. \E f : Solves(f)
    BY <1>3
  <2> HIDE DEF Solves
  <2> QED BY <1>4, <2>1
<1>6. \A m \in Nat : MonthFirstDay[m] = IF m = 0 THEN 0 ELSE MonthFirstDay[m - 1] + DaysIn(m - 1)
  BY <1>5, Zenon
<1> QED
  <2> HIDE DEF Solves, g
  <2>1. \A m \in Nat : m + 1 \in Nat /\ m + 1 # 0 /\ (m + 1) - 1 = m
    OBVIOUS
  <2> QED BY <1>6, <2>1


\* The first days of the months are natural numbers and grow with the month.
LEMMA MonthsOrdered ==
  /\ \A m \in Nat : MonthFirstDay[m] \in Nat
  /\ \A m, n \in Nat : m <= n => MonthFirstDay[m] <= MonthFirstDay[n]
<1>1. \A m \in Nat : MonthFirstDay[m] \in Nat
  <2> DEFINE Bad == {m \in Nat : MonthFirstDay[m] \notin Nat}
  <2> SUFFICES ASSUME Bad # {} PROVE FALSE
    OBVIOUS
  <2>1. PICK m \in Bad : \A n \in Bad : m <= n
    <3>1. Bad \in SUBSET Nat
      OBVIOUS
    <3> HIDE DEF Bad
    <3> QED BY <3>1, LeastElement
  <2>2. m # 0 /\ m \in Nat
    BY MonthFirstDayRecursion
  <2>3. m - 1 \in Nat /\ m - 1 \notin Bad
    <3> HIDE DEF Bad
    <3> QED BY <2>1, <2>2
  <2>4. MonthFirstDay[(m - 1) + 1] = MonthFirstDay[m - 1] + DaysIn(m - 1)
    BY <2>3, MonthFirstDayRecursion
  <2>5. MonthFirstDay[m - 1] \in Nat /\ DaysIn(m - 1) \in Nat /\ (m - 1) + 1 = m
    BY <2>2, <2>3, DaysInType
  <2> QED BY <2>1, <2>4, <2>5
<1>2. ASSUME NEW m \in Nat PROVE \A n \in Nat : m <= n => MonthFirstDay[m] <= MonthFirstDay[n]
  <2> DEFINE Bad == {n \in Nat : m <= n /\ ~(MonthFirstDay[m] <= MonthFirstDay[n])}
  <2> SUFFICES ASSUME Bad # {} PROVE FALSE
    OBVIOUS
  <2>1. PICK n \in Bad : \A j \in Bad : n <= j
    <3>1. Bad \in SUBSET Nat
      OBVIOUS
    <3> HIDE DEF Bad
    <3> QED BY <3>1, LeastElement
  <2>2. n \in Nat /\ m < n /\ ~(MonthFirstDay[m] <= MonthFirstDay[n])
    BY <1>1
  <2>3. n - 1 \in Nat /\ m <= n - 1 /\ n - 1 \notin Bad /\ (n - 1) + 1 = n
    <3> HIDE DEF Bad
    <3> QED BY <2>1, <2>2
  <2>4. MonthFirstDay[m] <= MonthFirstDay[n - 1]
    BY <2>3
  <2>5. MonthFirstDay[n] = MonthFirstDay[n - 1] + DaysIn(n - 1) /\ DaysIn(n - 1) \in Nat
    BY <2>3, MonthFirstDayRecursion, DaysInType
  <2> HIDE DEF Bad
  <2> QED BY <1>1, <2>2, <2>3, <2>4, <2>5
<1> QED BY <1>1, <1>2

\* A day is in one month only.
LEMMA OneMonth ==
  ASSUME NEW t \in Nat, NEW m \in 0 .. MaxMonth,
         MonthFirstDay[m] <= DayOf(t), DayOf(t) < MonthFirstDay[m + 1]
  PROVE  MonthOf(t) = m
<1> DEFINE In(x) == MonthFirstDay[x] <= DayOf(t) /\ DayOf(t) < MonthFirstDay[x + 1]
           n == MonthOf(t)
<1>1. n \in 0 .. MaxMonth /\ In(n)
  <2>1. \E x \in 0 .. MaxMonth : In(x)
    OBVIOUS
  <2>2. n = CHOOSE x \in 0 .. MaxMonth : In(x)
    BY DEF MonthOf
  <2> HIDE DEF In, n
  <2> QED BY <2>1, <2>2
<1>2. DayOf(t) \in Int
  BY DEF DayOf, Day
<1>3. m \in Nat /\ n \in Nat
  BY <1>1, WindowsAssumption
<1> HIDE DEF n
<1>4. ~(m + 1 <= n) /\ ~(n + 1 <= m)
  BY <1>1, <1>2, <1>3, MonthsOrdered
<1> QED BY <1>3, <1>4 DEF n

\* An instant lies in its month, and that month is not the calendar's last.
LEMMA InstantInMonth ==
  ASSUME NEW t \in Instants
  PROVE  /\ t \in Nat
         /\ MonthOf(t) \in Nat /\ MonthOf(t) < MaxMonth
         /\ MonthFirstDay[MonthOf(t)] <= DayOf(t) /\ DayOf(t) < MonthFirstDay[MonthOf(t) + 1]
<1>1. t \in Nat /\ MaxMonth \in Nat /\ DayOf(t) < MonthFirstDay[MaxMonth]
  BY WindowsAssumption
<1>2. DayOf(t) \in Nat
  BY <1>1 DEF DayOf, Day
<1> DEFINE After == {m \in Nat : DayOf(t) < MonthFirstDay[m]}
<1>3. PICK n \in After : \A m \in After : n <= m
  <2>1. After \in SUBSET Nat /\ After # {}
    BY <1>1
  <2> HIDE DEF After
  <2> QED BY <2>1, LeastElement
<1>4. n \in Nat /\ n # 0 /\ n <= MaxMonth
  BY <1>1, <1>2, <1>3, MonthFirstDayRecursion
<1>5. n - 1 \in Nat /\ n - 1 \notin After /\ (n - 1) + 1 = n
  <2> HIDE DEF After
  <2> QED BY <1>3, <1>4
<1>6. MonthFirstDay[n - 1] <= DayOf(t) /\ DayOf(t) < MonthFirstDay[(n - 1) + 1]
  BY <1>2, <1>5, MonthsOrdered
<1>7. n - 1 \in 0 .. MaxMonth /\ n - 1 < MaxMonth
  BY <1>1, <1>4, <1>5
<1>8. MonthOf(t) = n - 1
  BY <1>1, <1>6, <1>7, OneMonth
<1> QED BY <1>1, <1>5, <1>6, <1>7, <1>8

\* The calendar at an instant: its month, the month after it, and that the
\* first second of a month is in that month, the last one in the month before.
LEMMA CalendarFacts ==
  ASSUME NEW t \in Instants
  PROVE  LET m == MonthOf(t) IN
         /\ m \in Nat /\ MonthFirstDay[m] \in Nat /\ MonthFirstDay[m + 1] \in Nat
         /\ MonthFirstDay[m + 1] = MonthFirstDay[m] + DaysIn(m) /\ DaysIn(m) \in 28 .. 31
         /\ MonthFirstDay[m] <= DayOf(t) /\ DayOf(t) < MonthFirstDay[m + 1]
         /\ MonthOf(MonthFirstDay[m] * Day) = m
         /\ MonthOf(MonthFirstDay[m + 1] * Day) = m + 1
         /\ MonthOf(MonthFirstDay[m + 1] * Day - 1) = m
         /\ \A s \in Instants : s <= t => MonthFirstDay[MonthOf(s) + 1] <= MonthFirstDay[m + 1]
<1> DEFINE m == MonthOf(t)
           F(x) == MonthFirstDay[x]
<1>1. /\ t \in Nat /\ m \in Nat /\ m < MaxMonth /\ MaxMonth \in Nat
      /\ F(m) <= DayOf(t) /\ DayOf(t) < F(m + 1)
  BY InstantInMonth, WindowsAssumption
<1> HIDE DEF m
<1>2. /\ F(m) \in Nat /\ F(m + 1) \in Nat /\ F(m + 2) \in Nat
      /\ F(m + 1) = F(m) + DaysIn(m) /\ DaysIn(m) \in 28 .. 31
      /\ F(m + 2) = F(m + 1) + DaysIn(m + 1) /\ DaysIn(m + 1) \in 28 .. 31
  <2>1. m + 1 \in Nat /\ m + 2 \in Nat /\ (m + 1) + 1 = m + 2
    BY <1>1
  <2> QED BY <1>1, <2>1, MonthsOrdered, MonthFirstDayRecursion, DaysInType
<1>3. ASSUME NEW x \in Nat PROVE x * Day \in Nat /\ DayOf(x * Day) = x
  BY DEF DayOf, Day
<1>4. ASSUME NEW x \in Nat, x > 0 PROVE x * Day - 1 \in Nat /\ DayOf(x * Day - 1) = x - 1
  BY <1>4 DEF DayOf, Day
<1> HIDE DEF F
<1>5. MonthOf(F(m) * Day) = m
  <2>1. m \in 0 .. MaxMonth /\ F(m) <= DayOf(F(m) * Day) /\ DayOf(F(m) * Day) < F(m + 1)
    BY <1>1, <1>2, <1>3
  <2> QED BY <1>2, <1>3, <2>1, OneMonth DEF F
<1>6. MonthOf(F(m + 1) * Day) = m + 1
  <2>1. /\ m + 1 \in 0 .. MaxMonth /\ F(m + 1) <= DayOf(F(m + 1) * Day)
        /\ DayOf(F(m + 1) * Day) < F(m + 2) /\ m + 2 = (m + 1) + 1
    BY <1>1, <1>2, <1>3
  <2> QED BY <1>2, <1>3, <2>1, OneMonth DEF F
<1>7. MonthOf(F(m + 1) * Day - 1) = m
  <2>1. /\ m \in 0 .. MaxMonth /\ F(m) <= DayOf(F(m + 1) * Day - 1)
        /\ DayOf(F(m + 1) * Day - 1) < F(m + 1)
    BY <1>1, <1>2, <1>4
  <2> QED BY <1>2, <1>4, <2>1, OneMonth DEF F
<1>8. ASSUME NEW s \in Instants, s <= t PROVE F(MonthOf(s) + 1) <= F(m + 1)
  <2>1. /\ s \in Nat /\ MonthOf(s) \in Nat /\ F(MonthOf(s)) <= DayOf(s)
    BY InstantInMonth DEF F
  <2>2. DayOf(s) <= DayOf(t) /\ DayOf(s) \in Nat /\ DayOf(t) \in Nat
    BY <1>1, <1>8, <2>1 DEF DayOf, Day
  <2>3. ~(m + 1 <= MonthOf(s))
    <3>1. m + 1 <= MonthOf(s) => F(m + 1) <= F(MonthOf(s))
      BY <1>1, <2>1, MonthsOrdered DEF F
    <3>2. F(MonthOf(s)) \in Nat
      BY <2>1, MonthsOrdered DEF F
    <3> QED BY <1>1, <1>2, <2>1, <2>2, <3>1, <3>2
  <2>4. MonthOf(s) + 1 <= m + 1 /\ MonthOf(s) + 1 \in Nat /\ m + 1 \in Nat
    BY <1>1, <2>1, <2>3
  <2> QED BY <2>4, MonthsOrdered DEF F
<1> QED BY <1>1, <1>2, <1>5, <1>6, <1>7, <1>8 DEF m, F

-----------------------------------------------------------------------------
(* Windows *)

\* The length of a unit is positive.
LEMMA DividerType ==
  ASSUME NEW u \in Units
  PROVE  UnitToDivider(u) \in Nat \ {0}
BY DEF Units, UnitToDivider

\* A bucket of fixed length starts no later than the instant (cache_key.go).
LEMMA FixedBucket ==
  ASSUME NEW t \in Nat, NEW d \in Nat \ {0}
  PROVE  (t \div d) * d \in Nat /\ (t \div d) * d <= t /\ t < (t \div d) * d + d
<1>1. t \div d \in Nat /\ d * (t \div d) <= t /\ t < d * (t \div d) + d
  BY Z3
<1> QED BY <1>1

\* Day and second of day of an instant.
LEMMA DayFacts ==
  ASSUME NEW t \in Nat
  PROVE  /\ DayOf(t) \in Nat /\ DayOf(t) * Day <= t /\ t < (DayOf(t) + 1) * Day
         /\ Weekday(t) \in 0 .. 6
BY DEF DayOf, Day, Weekday

\* A week starts at midnight of the configured weekday, no later than the
\* instant, and ends after it (WeekStartUnix).
LEMMA WeekBucket ==
  ASSUME NEW t \in Nat, NEW ws \in 0 .. 6
  PROVE  /\ WeekStartUnix(t, ws) \in Int /\ WeekStartUnix(t, ws) <= t
         /\ t < WeekStartUnix(t, ws) + 7 * Day
         /\ WeekStartUnix(t, ws) % Day = 0 /\ Weekday(WeekStartUnix(t, ws)) = ws
<1> DEFINE diff == Weekday(t) - ws
           offset == IF diff < 0 THEN diff + 7 ELSE diff
<1>1. offset \in 0 .. 6
  BY DayFacts
<1>2. WeekStartUnix(t, ws) = (DayOf(t) - offset) * Day
  BY DEF WeekStartUnix
<1>3. DayOf(t) \in Nat /\ DayOf(t) * 86400 <= t /\ t < (DayOf(t) + 1) * 86400
  BY DayFacts DEF Day
<1> DEFINE n == DayOf(t)
<1> HIDE DEF offset, n
<1>4. /\ (n - offset) * 86400 \in Int /\ (n - offset) * 86400 <= t
      /\ t < (n - offset) * 86400 + 7 * 86400
  BY <1>1, <1>3 DEF n
<1>5. DayOf((n - offset) * 86400) = n - offset /\ ((n - offset) * 86400) % 86400 = 0
  BY <1>1, <1>3 DEF n, DayOf, Day
<1>6. (n - offset + 4) % 7 = ws
  BY <1>3 DEF offset, Weekday, n
<1> QED BY <1>2, <1>4, <1>5, <1>6 DEF n, Day, Weekday

\* With calendar months, the TTL is the rest of the month (expiryUntilMonthEnd).
LEMMA MonthRest ==
  ASSUME NEW t \in Instants
  PROVE  /\ MonthExpirationSeconds(t) = MonthFirstDay[MonthOf(t) + 1] * Day - t
         /\ t + MonthExpirationSeconds(t) = MonthFirstDay[MonthOf(t) + 1] * Day
<1> DEFINE next == MonthFirstDay[MonthOf(t) + 1]
<1>1. t \in Nat /\ next \in Nat /\ MonthFirstDay[MonthOf(t)] \in Nat
  BY WindowsAssumption, CalendarFacts
<1>2. DayOfMonth(t) \in Int
  BY <1>1, DayFacts DEF DayOfMonth
<1>3. Midnight(MonthOf(t) + 1, DayOfMonth(t) + (1 - DayOfMonth(t))) = next * Day
  BY <1>1, <1>2 DEF Midnight
<1>4. MonthOf(next * Day) = MonthOf(t) + 1
  BY CalendarFacts
<1>5. MonthStartUnix(next * Day) = next * Day
  BY <1>1, <1>4 DEF MonthStartUnix, Midnight
<1>6. MonthExpirationSeconds(t) = next * Day - t
  BY <1>3, <1>5 DEF MonthExpirationSeconds
<1>7. next * Day \in Int
  BY <1>1 DEF Day
<1> HIDE DEF next
<1> QED BY <1>1, <1>6, <1>7 DEF next

\* A TTL evaluated at t reaches the end of every window entered at s <= t, for
\* every unit, week start and kind of month.
THEOREM TTLReachesEnd ==
  ASSUME NEW u \in Units, NEW s \in Instants, NEW t \in Instants, s <= t,
         weekStart \in 0 .. 6
  PROVE  WindowEnd(u, s) <= t + ExpirationSeconds(u, t)
<1>1. s \in Nat /\ t \in Nat
  BY WindowsAssumption
<1>2. CASE CalendarMonth(u)
  <2> DEFINE m == MonthOf(s)
  <2>1. /\ MonthFirstDay[m] \in Nat /\ MonthFirstDay[m + 1] \in Nat
        /\ DaysIn(m) = MonthFirstDay[m + 1] - MonthFirstDay[m]
        /\ MonthFirstDay[MonthOf(t) + 1] \in Nat
        /\ MonthFirstDay[m + 1] <= MonthFirstDay[MonthOf(t) + 1]
    BY CalendarFacts
  <2>2. WindowEnd(u, s) = MonthFirstDay[m] * Day + DaysIn(m) * Day
    BY <1>2, <2>1 DEF WindowEnd, BucketStart, WindowLength, MonthStartUnix, Midnight
  <2>3. t + ExpirationSeconds(u, t) = MonthFirstDay[MonthOf(t) + 1] * Day
    BY <1>2, MonthRest DEF ExpirationSeconds
  <2> HIDE DEF m
  <2> QED BY <2>1, <2>2, <2>3 DEF Day
<1>3. CASE ~CalendarMonth(u)
  <2>1. UnitToDivider(u) \in Nat \ {0}
    BY DividerType
  <2>2. BucketStart(u, s) \in Int /\ BucketStart(u, s) <= s
    <3>1. CASE u = "WEEK"
      BY <1>1, <1>3, <3>1, WeekBucket DEF BucketStart
    <3>2. CASE u # "WEEK"
      BY <1>1, <1>3, <2>1, <3>2, FixedBucket DEF BucketStart
    <3> QED BY <3>1, <3>2
  <2>3. WindowEnd(u, s) = BucketStart(u, s) + UnitToDivider(u)
    BY <1>3 DEF WindowEnd, WindowLength
  <2>4. ExpirationSeconds(u, t) = UnitToDivider(u)
    BY <1>3 DEF ExpirationSeconds
  <2> QED BY <1>1, <2>1, <2>2, <2>3, <2>4
<1> QED BY <1>2, <1>3

-----------------------------------------------------------------------------

\* The bucket of an instant is the boundary before it, and its window ends at
\* the next one (GenerateCacheKey).
LEMMA BucketBoundary ==
  ASSUME NEW u \in Units, NEW t \in Instants, weekStart \in 0 .. 6
  PROVE  /\ BucketStart(u, t) \in Int /\ BucketStart(u, t) <= t
         /\ IsBoundary(u, BucketStart(u, t))
         /\ IsBoundary(u, WindowEnd(u, t)) /\ t < WindowEnd(u, t)
<1>1. t \in Nat
  BY WindowsAssumption
<1>2. CASE CalendarMonth(u)
  <2> DEFINE m == MonthOf(t)
             a == MonthFirstDay[m]
             b == MonthFirstDay[m + 1]
  <2>1. /\ a \in Nat /\ b \in Nat /\ b = a + DaysIn(m) /\ DaysIn(m) \in Nat
        /\ a <= DayOf(t) /\ DayOf(t) < b
        /\ MonthOf(a * Day) = m /\ MonthOf(b * Day) = m + 1
    BY CalendarFacts
  <2>2. BucketStart(u, t) = a * Day /\ WindowEnd(u, t) = a * Day + DaysIn(m) * Day
    BY <1>2, <2>1 DEF WindowEnd, BucketStart, WindowLength, MonthStartUnix, Midnight
  <2>3. DayOfMonth(a * Day) = DayOf(a * Day) - a + 1 /\ DayOfMonth(b * Day) = DayOf(b * Day) - b + 1
    BY <2>1 DEF DayOfMonth
  <2> HIDE DEF a, b, m
  <2>4. DayOf(t) * Day <= t /\ t < (DayOf(t) + 1) * Day /\ DayOf(t) \in Nat
    BY <1>1, DayFacts
  <2>5. WindowEnd(u, t) = b * Day /\ a * Day <= t /\ t < b * Day /\ a * Day \in Int
    BY <1>1, <2>1, <2>2, <2>4 DEF Day
  <2>6. /\ DayOf(a * Day) = a /\ (a * Day) % Day = 0
        /\ DayOf(b * Day) = b /\ (b * Day) % Day = 0
    BY <2>1 DEF DayOf, Day
  <2>7. DayOfMonth(a * Day) = 1 /\ DayOfMonth(b * Day) = 1
    BY <2>1, <2>3, <2>6
  <2> QED BY <1>2, <2>2, <2>5, <2>6, <2>7 DEF IsBoundary
<1>3. CASE ~CalendarMonth(u) /\ u = "WEEK"
  <2> DEFINE b == WeekStartUnix(t, weekStart)
  <2>1. b \in Int /\ b <= t /\ t < b + 7 * Day /\ b % Day = 0 /\ Weekday(b) = weekStart
    BY <1>1, WeekBucket
  <2>2. BucketStart(u, t) = b /\ WindowEnd(u, t) = b + 7 * Day
    BY <1>3 DEF WindowEnd, BucketStart, WindowLength, UnitToDivider, Day
  <2> HIDE DEF b
  <2>3. (b + 7 * Day) % Day = 0 /\ Weekday(b + 7 * Day) = Weekday(b)
    BY <2>1 DEF Weekday, DayOf, Day
  <2> QED BY <1>3, <2>1, <2>2, <2>3 DEF IsBoundary
<1>4. CASE ~CalendarMonth(u) /\ u # "WEEK"
  <2> DEFINE d == UnitToDivider(u)
             b == (t \div d) * d
  <2>1. d \in Nat \ {0}
    BY DividerType
  <2>2. BucketStart(u, t) = b /\ WindowEnd(u, t) = b + d
    BY <1>4 DEF WindowEnd, BucketStart, WindowLength
  <2>3. b \in Nat /\ b <= t /\ t < b + d
    <3> HIDE DEF d
    <3> QED BY <1>1, <2>1, FixedBucket
  <2>a. b % d = 0 /\ (b + d) % d = 0
    BY <1>1 DEF UnitToDivider, Units
  <2>4. IsBoundary(u, b) /\ IsBoundary(u, b + d)
    BY <1>4, <2>a DEF IsBoundary
  <2> HIDE DEF b, d
  <2> QED BY <2>2, <2>3, <2>4
<1> QED BY <1>2, <1>3, <1>4

\* The time to reset ends the window of the instant: the second after it is the
\* first of a bucket, the second before that is in the same one (CalculateReset).
LEMMA ResetFacts ==
  ASSUME NEW u \in Units, NEW t \in Instants, weekStart \in 0 .. 6
  PROVE  LET e == t + CalculateReset(u, t) IN
         /\ CalculateReset(u, t) \in Nat \ {0}
         /\ e = WindowEnd(u, t)
         /\ BucketStart(u, e) = e
         /\ BucketStart(u, e - 1) = BucketStart(u, t)
<1>1. t \in Nat
  BY WindowsAssumption
<1>2. CASE CalendarMonth(u)
  <2> DEFINE m == MonthOf(t)
             a == MonthFirstDay[m]
             b == MonthFirstDay[m + 1]
  <2>1. /\ a \in Nat /\ b \in Nat /\ b = a + DaysIn(m) /\ DaysIn(m) \in Nat
        /\ DayOf(t) < b /\ MonthOf(b * Day) = m + 1 /\ MonthOf(b * Day - 1) = m
    BY CalendarFacts
  <2>2. BucketStart(u, t) = a * Day /\ WindowEnd(u, t) = a * Day + DaysIn(m) * Day
    BY <1>2, <2>1 DEF WindowEnd, BucketStart, WindowLength, MonthStartUnix, Midnight
  <2>3. t + CalculateReset(u, t) = b * Day /\ CalculateReset(u, t) = MonthExpirationSeconds(t)
    BY <1>2, MonthRest DEF CalculateReset
  <2>4. BucketStart(u, b * Day) = b * Day /\ BucketStart(u, b * Day - 1) = a * Day
    BY <1>2, <2>1 DEF BucketStart, MonthStartUnix, Midnight
  <2>5. MonthExpirationSeconds(t) = b * Day - t
    BY MonthRest
  <2> HIDE DEF a, b, m
  <2>6. t < (DayOf(t) + 1) * Day /\ DayOf(t) \in Nat
    BY <1>1, DayFacts
  <2>7. b * Day - t \in Nat \ {0} /\ b * Day = a * Day + DaysIn(m) * Day
    BY <1>1, <2>1, <2>6 DEF Day
  <2> QED BY <2>2, <2>3, <2>4, <2>5, <2>7
<1>3. CASE ~CalendarMonth(u) /\ u = "WEEK"
  <2> DEFINE b == WeekStartUnix(t, weekStart)
             e == b + 7 * Day
  <2>1. b \in Int /\ b <= t /\ t < b + 7 * Day /\ b % Day = 0 /\ Weekday(b) = weekStart
    BY <1>1, WeekBucket
  <2>2. /\ BucketStart(u, t) = b /\ WindowEnd(u, t) = e
        /\ CalculateReset(u, t) = e - t
    <3>1. UnitToDivider(u) = 7 * Day
      BY <1>3 DEF UnitToDivider, Day
    <3>2. BucketStart(u, t) = b /\ WindowEnd(u, t) = e
      BY <1>3, <3>1 DEF WindowEnd, BucketStart, WindowLength
    <3>3. CalculateReset(u, t) = WeekExpirationSeconds(t, weekStart)
      BY <1>3 DEF CalculateReset
    <3>4. WeekExpirationSeconds(t, weekStart) = e - t
      <4>1. WeekExpirationSeconds(t, weekStart) = b + (7 * Day - t)
        BY DEF WeekExpirationSeconds
      <4> HIDE DEF b
      <4> QED BY <1>1, <2>1, <4>1 DEF Day
    <3> QED BY <3>2, <3>3, <3>4
  <2>3. WeekStartUnix(e, weekStart) = e /\ WeekStartUnix(e - 1, weekStart) = b
    <3> HIDE DEF b
    <3>1. PICK n \in Int : b = n * 86400
      BY <2>1 DEF Day
    <3>2. DayOf(b) = n /\ DayOf(e) = n + 7 /\ DayOf(e - 1) = n + 6
      BY <3>1 DEF DayOf, Day
    <3>3. Weekday(e) = weekStart /\ Weekday(e - 1) = (weekStart + 6) % 7
      BY <2>1, <3>2 DEF Weekday
    <3> QED BY <3>1, <3>2, <3>3 DEF WeekStartUnix, Day
  <2>4. t + (e - t) = e /\ e - t \in Nat \ {0}
    <3> HIDE DEF b
    <3> QED BY <1>1, <2>1 DEF Day
  <2>5. BucketStart(u, e) = e /\ BucketStart(u, e - 1) = b
    BY <1>3, <2>3 DEF BucketStart
  <2> HIDE DEF b, e
  <2> QED BY <2>2, <2>4, <2>5
<1>4. CASE ~CalendarMonth(u) /\ u # "WEEK"
  <2> DEFINE d == UnitToDivider(u)
             b == (t \div d) * d
             e == b + d
  <2>1. d \in Nat \ {0}
    BY DividerType
  <2>2. BucketStart(u, t) = b /\ WindowEnd(u, t) = e /\ CalculateReset(u, t) = d - (t % d)
    BY <1>4 DEF WindowEnd, BucketStart, WindowLength, CalculateReset
  <2>3. b \in Nat /\ b <= t /\ t < e /\ t - b = t % d
    <3> HIDE DEF d
    <3> QED BY <1>1, <2>1, FixedBucket
  <2>4. t + (d - (t % d)) = e /\ d - (t % d) \in Nat \ {0}
    <3> HIDE DEF d, b
    <3> QED BY <1>1, <2>1, <2>3
  <2>5. (e \div d) * d = e /\ ((e - 1) \div d) * d = b
    <3> HIDE DEF d
    <3> QED BY <1>1, <2>1, FixedBucket
  <2>6. BucketStart(u, e) = e /\ BucketStart(u, e - 1) = b
    BY <1>4, <2>5 DEF BucketStart
  <2> HIDE DEF b, d, e
  <2> QED BY <2>2, <2>4, <2>6
<1> QED BY <1>2, <1>3, <1>4

\* A week that starts on a Thursday is a multiple of seven days since 1970.
LEMMA ThursdayWeek ==
  ASSUME NEW t \in Nat
  PROVE  WeekStartUnix(t, Thursday) = (t \div UnitToDivider("WEEK")) * UnitToDivider("WEEK")
BY DEF WeekStartUnix, Weekday, DayOf, Day, Thursday, UnitToDivider

\* The clock only moves forward, so that the TTL and the reset are evaluated
\* after the key; what was evaluated is the value at that time.
WindowInv ==
  /\ TypeOK
  /\ Evaluated(key) => key.at \in Instants /\ key.val = BucketStart(unit, key.at)
  /\ Evaluated(ttl) => /\ Evaluated(key) /\ ttl.at \in Instants /\ key.at <= ttl.at
                       /\ ttl.val = ExpirationSeconds(unit, ttl.at)
  /\ Evaluated(reset) => reset.at \in Instants /\ reset.val = CalculateReset(unit, reset.at)

\* The settings do not change, and neither do the windows.
LEMMA WindowsFixed ==
  ASSUME UNCHANGED <<unit, useCalendarMonth, weekStart>>
  PROVE  \A t : /\ BucketStart(unit, t)' = BucketStart(unit, t)
                /\ ExpirationSeconds(unit, t)' = ExpirationSeconds(unit, t)
                /\ CalculateReset(unit, t)' = CalculateReset(unit, t)
BY DEF BucketStart, ExpirationSeconds, CalculateReset, CalendarMonth

\* A TTL is at least one second.
LEMMA TTLPositive ==
  ASSUME NEW u \in Units, NEW t \in Instants, weekStart \in 0 .. 6
  PROVE  ExpirationSeconds(u, t) \in Nat \ {0}
<1>1. CASE CalendarMonth(u)
  BY <1>1, ResetFacts DEF ExpirationSeconds, CalculateReset
<1>2. CASE ~CalendarMonth(u)
  BY <1>2, DividerType DEF ExpirationSeconds
<1> QED BY <1>1, <1>2

\* WindowInv holds throughout, for every set of instants.
THEOREM WindowInvariance == Spec => []WindowInv
<1>1. Init => WindowInv
  BY WindowsAssumption DEF Init, WindowInv, TypeOK, Evaluated, None
<1>2. WindowInv /\ [Next]_vars => WindowInv'
  <2> SUFFICES ASSUME WindowInv, [Next]_vars PROVE WindowInv'
    OBVIOUS
  <2>0. /\ now \in Instants /\ now \in Nat /\ unit \in Units /\ weekStart \in 0 .. 6
        /\ useCalendarMonth \in BOOLEAN
    BY WindowsAssumption DEF WindowInv, TypeOK
  <2>1. CASE GenerateCacheKey
    <3>1. /\ key' = [at |-> now, val |-> BucketStart(unit, now)]
          /\ UNCHANGED <<unit, useCalendarMonth, weekStart, now, ttl, reset>>
          /\ ~Evaluated(key)
      BY <2>1 DEF GenerateCacheKey
    <3>2. BucketStart(unit, now) \in Int
      BY <2>0, BucketBoundary
    <3> DEFINE b == BucketStart(unit, now)
    <3>3. key'.at = now /\ key'.val = b /\ key' \in [at : Int, val : Int]
      BY <2>0, <3>1, <3>2
    <3>4. BucketStart(unit, now)' = b
      BY <3>1, WindowsFixed
    <3> HIDE DEF b
    <3> QED BY <2>0, <3>1, <3>3, <3>4, WindowsFixed DEF WindowInv, TypeOK, Evaluated
  <2>2. CASE SetExpiration
    <3>1. /\ ttl' = [at |-> now, val |-> ExpirationSeconds(unit, now)]
          /\ UNCHANGED <<unit, useCalendarMonth, weekStart, now, key, reset>>
          /\ Evaluated(key) /\ key.at <= now
      BY <2>2 DEF SetExpiration, WindowInv, TypeOK
    <3> DEFINE x == ExpirationSeconds(unit, now)
    <3>2. x \in Nat \ {0}
      BY <2>0, TTLPositive
    <3>3. ExpirationSeconds(unit, now)' = x
      BY <3>1, WindowsFixed
    <3> HIDE DEF x
    <3>4. ttl'.at = now /\ ttl'.val = x /\ ttl' \in [at : Int, val : Int]
      BY <2>0, <3>1, <3>2 DEF x
    <3> QED BY <2>0, <3>1, <3>2, <3>3, <3>4, WindowsFixed DEF WindowInv, TypeOK, Evaluated
  <2>3. CASE ReportReset
    <3>1. /\ reset' = [at |-> now, val |-> CalculateReset(unit, now)]
          /\ UNCHANGED <<unit, useCalendarMonth, weekStart, now, key, ttl>>
      BY <2>3 DEF ReportReset
    <3> DEFINE x == CalculateReset(unit, now)
    <3>2. x \in Nat \ {0}
      BY <2>0, ResetFacts
    <3>3. CalculateReset(unit, now)' = x
      BY <3>1, WindowsFixed
    <3> HIDE DEF x
    <3>4. reset'.at = now /\ reset'.val = x /\ reset' \in [at : Int, val : Int]
      BY <2>0, <3>1, <3>2 DEF x
    <3> QED BY <2>0, <3>1, <3>2, <3>3, <3>4, WindowsFixed DEF WindowInv, TypeOK, Evaluated
  <2>4. ASSUME NEW t \in Instants, Advance(t) PROVE WindowInv'
    <3>1. /\ now' = t /\ UNCHANGED <<unit, useCalendarMonth, weekStart, key, ttl, reset>>
          /\ now < t /\ t \in Nat
      BY <2>4, WindowsAssumption DEF Advance
    <3>2. key.at \in Int /\ ttl.at \in Int /\ reset.at \in Int
      BY DEF WindowInv, TypeOK
    <3> QED BY <2>0, <3>1, <3>2, WindowsFixed DEF WindowInv, TypeOK, Evaluated
  <2>5. CASE UNCHANGED vars
    BY <2>5, WindowsFixed DEF vars, WindowInv, TypeOK, Evaluated
  <2> QED BY <2>1, <2>2, <2>3, <2>4, <2>5 DEF Next, Answered
<1> QED BY <1>1, <1>2, PTL DEF Spec

\* Bucket starts, TTLs and resets are whole seconds, the last two at least one.
THEOREM WindowTypes == Spec => []TypeOK
<1>1. WindowInv => TypeOK
  BY DEF WindowInv
<1> QED BY <1>1, WindowInvariance, PTL

\* The key of a request holds the boundary it is on or after, and the next one
\* is after it, for every unit, weekday and month (GenerateCacheKey).
THEOREM BucketSafe == Spec => []BucketIsWindowStart
<1>1. WindowInv => BucketIsWindowStart
  BY BucketBoundary DEF WindowInv, TypeOK, BucketIsWindowStart
<1> QED BY <1>1, WindowInvariance, PTL

\* In every request the TTL reaches the end of the window of the key, however
\* much later it is evaluated (GenerateCacheKey, ExpirationSeconds).
THEOREM TTLSafe == Spec => []TTLOutlivesWindow
<1>1. WindowInv => TTLOutlivesWindow
  <2> SUFFICES ASSUME WindowInv, Evaluated(ttl)
               PROVE  WindowEnd(unit, key.at) <= ttl.at + ttl.val
    BY DEF TTLOutlivesWindow
  <2>1. /\ unit \in Units /\ weekStart \in 0 .. 6 /\ key.at \in Instants /\ ttl.at \in Instants
        /\ key.at <= ttl.at /\ ttl.val = ExpirationSeconds(unit, ttl.at)
    BY DEF WindowInv, TypeOK
  <2> QED BY <2>1, TTLReachesEnd
<1> QED BY <1>1, WindowInvariance, PTL

\* What is reported as the time to reset is the very end of the window, also in
\* the last second of a month or a leap year's February (CalculateReset).
THEOREM ResetSafe == Spec => []ResetEndsWindow
<1>1. WindowInv => ResetEndsWindow
  <2> SUFFICES ASSUME WindowInv, Evaluated(reset)
               PROVE  /\ BucketStart(unit, reset.at + reset.val) = reset.at + reset.val
                      /\ BucketStart(unit, reset.at + reset.val - 1) = BucketStart(unit, reset.at)
    BY DEF ResetEndsWindow
  <2>1. /\ unit \in Units /\ weekStart \in 0 .. 6 /\ reset.at \in Instants
        /\ reset.val = CalculateReset(unit, reset.at)
    BY DEF WindowInv, TypeOK
  <2>2. reset.at \in Nat /\ reset.val \in Nat
    BY <2>1, WindowsAssumption, ResetFacts
  <2>3. reset.at + reset.val - 1 = (reset.at + reset.val) - 1
    BY <2>2
  <2> QED BY <2>1, <2>3, ResetFacts
<1> QED BY <1>1, WindowInvariance, PTL

\* With the default start of the week the configurable weeks are the ones the
\* division of the Unix time gave (WeekStartUnix).
THEOREM LegacyWeeks == Spec => []ThursdayWeeksAreLegacyWeeks
<1>1. WindowInv => ThursdayWeeksAreLegacyWeeks
  <2> SUFFICES ASSUME WindowInv, Evaluated(key), unit = "WEEK", weekStart = Thursday
               PROVE  key.val = (key.at \div UnitToDivider("WEEK")) * UnitToDivider("WEEK")
    BY DEF ThursdayWeeksAreLegacyWeeks
  <2>1. key.at \in Nat /\ key.val = BucketStart(unit, key.at)
    BY WindowsAssumption DEF WindowInv
  <2>2. BucketStart(unit, key.at) = WeekStartUnix(key.at, Thursday)
    BY DEF BucketStart, CalendarMonth
  <2> QED BY <2>1, <2>2, ThursdayWeek
<1> QED BY <1>1, WindowInvariance, PTL
==============================================================================
