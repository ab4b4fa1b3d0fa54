------------------------------- MODULE Windows -------------------------------
(***************************************************************************)
(* The windows of a rate limit: the start of the window that goes into the *)
(* cache key (GenerateCacheKey), the TTL of the counter (ExpirationSeconds) *)
(* and the time to reset that is reported (CalculateReset).                *)
(*                                                                         *)
(* One request evaluates the three at its own times, in this order, and    *)
(* the clock moves in between.  Times are Unix seconds, days and months    *)
(* are counted from January 1970, weekdays from Sunday = 0.                *)
(***************************************************************************)
EXTENDS Integers

CONSTANTS Instants,   \* the times at which the clock may be read
          MaxMonth,   \* the calendar ends with this month
          MaxDelay    \* bound on the time a request takes

Units == {"SECOND", "MINUTE", "HOUR", "DAY", "WEEK", "MONTH", "YEAR"}

UnitToDivider(u) ==
  CASE u = "SECOND" -> 1
    [] u = "MINUTE" -> 60
    [] u = "HOUR"   -> 60 * 60
    [] u = "DAY"    -> 60 * 60 * 24
    [] u = "WEEK"   -> 60 * 60 * 24 * 7
    [] u = "MONTH"  -> 60 * 60 * 24 * 30
    [] u = "YEAR"   -> 60 * 60 * 24 * 365

-----------------------------------------------------------------------------
(* The UTC calendar of Go's time package *)

Day == 86400

DayOf(t) == t \div Day

\* The first of January 1970 was a Thursday.
Weekday(t) == (DayOf(t) + 4) % 7

Thursday == 4

Leap(y) == y % 4 = 0 /\ (y % 100 # 0 \/ y % 400 = 0)

DaysIn(month) ==
  LET m == (month % 12) + 1 IN
  IF m = 2 THEN (IF Leap(1970 + (month \div 12)) THEN 29 ELSE 28)
  ELSE IF m \in {4, 6, 9, 11} THEN 30 ELSE 31

MonthFirstDay[month \in Nat] ==
  IF month = 0 THEN 0 ELSE MonthFirstDay[month - 1] + DaysIn(month - 1)

MonthOf(t) == CHOOSE month \in 0 .. MaxMonth :
  MonthFirstDay[month] <= DayOf(t) /\ DayOf(t) < MonthFirstDay[month + 1]

DayOfMonth(t) == DayOf(t) - MonthFirstDay[MonthOf(t)] + 1

\* AddDate and Date normalise: a day beyond the end of the month is a day of
\* the next one.
Midnight(month, day) == (MonthFirstDay[month] + day - 1) * Day

\* Every instant lies in the calendar.
ASSUME WindowsAssumption ==
  /\ Instants \subseteq Nat
  /\ MaxMonth \in Nat
  /\ MaxDelay \in Nat
  /\ \A t \in Instants : DayOf(t) < MonthFirstDay[MaxMonth]

-----------------------------------------------------------------------------
(* Months and weeks *)

MonthStartUnix(t) == Midnight(MonthOf(t), 1)

\* A slip: AddDate(0, 1, 0), which skips February at the end of January.
MonthExpirationSecondsNextMonth(t) ==
  MonthStartUnix(Midnight(MonthOf(t) + 1, DayOfMonth(t))) - t

\* expiryUntilMonthEnd: AddDate(0, 1, -Day() + 1), then the first of that month.
MonthExpirationSeconds(t) ==
  MonthStartUnix(Midnight(MonthOf(t) + 1, DayOfMonth(t) + (1 - DayOfMonth(t)))) - t

\* Slips: a negative offset is left alone, and the day itself is a week back.
WeekStartUnixNoWrap(t, ws) == (DayOf(t) - (Weekday(t) - ws)) * Day

WeekStartUnixDayBack(t, ws) ==
  LET diff == Weekday(t) - ws
      offset == IF diff <= 0 THEN diff + 7 ELSE diff
  IN (DayOf(t) - offset) * Day

WeekStartUnix(t, ws) ==
  LET diff == Weekday(t) - ws
      offset == IF diff < 0 THEN diff + 7 ELSE diff
  IN (DayOf(t) - offset) * Day

WeekExpirationSeconds(t, ws) == WeekStartUnix(t, ws) + 7 * Day - t

-----------------------------------------------------------------------------

VARIABLES unit, useCalendarMonth, weekStart,  \* the rule and the settings
          now,                                \* the clock
          key, ttl, reset                     \* [at, val] of what was evaluated

vars == <<unit, useCalendarMonth, weekStart, now, key, ttl, reset>>

CalendarMonth(u) == useCalendarMonth /\ u = "MONTH"

\* The bucketStart of GenerateCacheKey.
BucketStart(u, t) ==
  IF CalendarMonth(u) THEN MonthStartUnix(t)
  ELSE IF u = "WEEK" THEN WeekStartUnix(t, weekStart)
  ELSE (t \div UnitToDivider(u)) * UnitToDivider(u)

\* A slip: the setting for calendar months is forgotten.
ExpirationSecondsFixed(u, t) == UnitToDivider(u)

ExpirationSeconds(u, t) ==
  IF CalendarMonth(u) THEN MonthExpirationSeconds(t) ELSE UnitToDivider(u)

\* A slip: the time since the start of the window.
CalculateResetElapsed(u, t) ==
  IF CalendarMonth(u) THEN MonthExpirationSeconds(t)
  ELSE IF u = "WEEK" THEN WeekExpirationSeconds(t, weekStart)
  ELSE t % UnitToDivider(u)

CalculateReset(u, t) ==
  IF CalendarMonth(u) THEN MonthExpirationSeconds(t)
  ELSE IF u = "WEEK" THEN WeekExpirationSeconds(t, weekStart)
  ELSE UnitToDivider(u) - (t % UnitToDivider(u))

None == [at |-> -1, val |-> 0]

Evaluated(x) == x.at >= 0

GenerateCacheKey ==
  /\ ~Evaluated(key)
  /\ key' = [at |-> now, val |-> BucketStart(unit, now)]
  /\ UNCHANGED <<unit, useCalendarMonth, weekStart, now, ttl, reset>>

SetExpiration ==
  /\ Evaluated(key) /\ ~Evaluated(ttl) /\ ~Evaluated(reset)
  /\ ttl' = [at |-> now, val |-> ExpirationSeconds(unit, now)]
  /\ UNCHANGED <<unit, useCalendarMonth, weekStart, now, key, reset>>

\* generateResponseDescriptorStatus; reached without a TTL when the local cache
\* answered.
ReportReset ==
  /\ Evaluated(key) /\ ~Evaluated(reset)
  /\ reset' = [at |-> now, val |-> CalculateReset(unit, now)]
  /\ UNCHANGED <<unit, useCalendarMonth, weekStart, now, key, ttl>>

Advance(t) ==
  /\ Evaluated(key) /\ ~Evaluated(reset)
  /\ now < t /\ t <= key.at + MaxDelay
  /\ now' = t
  /\ UNCHANGED <<unit, useCalendarMonth, weekStart, key, ttl, reset>>

Answered == Evaluated(reset) /\ UNCHANGED vars

Init ==
  /\ unit \in Units /\ useCalendarMonth \in BOOLEAN /\ weekStart \in 0 .. 6
  /\ now \in Instants
  /\ key = None /\ ttl = None /\ reset = None

Next ==
  \/ GenerateCacheKey \/ SetExpiration \/ ReportReset
  \/ \E t \in Instants : Advance(t)
  \/ Answered

Spec == Init /\ [][Next]_vars

-----------------------------------------------------------------------------
(* Properties *)

\* Type invariant: bucket starts, TTLs and resets are whole seconds, and a TTL
\* and a reset are at least one second.
TypeOK ==
  /\ unit \in Units /\ useCalendarMonth \in BOOLEAN /\ weekStart \in 0 .. 6
  /\ now \in Instants
  /\ key \in [at : Int, val : Int] /\ key.at <= now
  /\ ttl \in [at : Int, val : Int] /\ ttl.at <= now /\ (Evaluated(ttl) => ttl.val > 0)
  /\ reset \in [at : Int, val : Int] /\ reset.at <= now /\ (Evaluated(reset) => reset.val > 0)

\* Where a window of the unit may start: at midnight of the configured weekday,
\* at midnight of the first of a month, or at a multiple of the unit.
IsBoundary(u, b) ==
  IF CalendarMonth(u) THEN b % Day = 0 /\ DayOfMonth(b) = 1
  ELSE IF u = "WEEK" THEN b % Day = 0 /\ Weekday(b) = weekStart
  ELSE b % UnitToDivider(u) = 0

WindowLength(u, t) ==
  IF CalendarMonth(u) THEN DaysIn(MonthOf(t)) * Day ELSE UnitToDivider(u)

WindowEnd(u, t) == BucketStart(u, t) + WindowLength(u, t)

\* The bucket in the cache key is the boundary that the time of the request is
\* on or after, and the next boundary is after it: all requests of a window and
\* no others share the key (GenerateCacheKey).
BucketIsWindowStart == Evaluated(key) =>
  /\ IsBoundary(unit, key.val) /\ key.val <= key.at
  /\ IsBoundary(unit, WindowEnd(unit, key.at)) /\ key.at < WindowEnd(unit, key.at)

\* The TTL reaches the end of the window of the key although it is evaluated
\* later than the key, possibly in the next window (ExpirationSeconds).
TTLOutlivesWindow == Evaluated(ttl) =>
  WindowEnd(unit, key.at) <= ttl.at + ttl.val

\* The reported reset is the very end of the window in which it is reported: the
\* bucket changes at that second (CalculateReset against GenerateCacheKey).
ResetEndsWindow == Evaluated(reset) =>
  /\ BucketStart(unit, reset.at + reset.val) = reset.at + reset.val
  /\ BucketStart(unit, reset.at + reset.val - 1) = BucketStart(unit, reset.at)

\* Weeks that start on Thursday, the default, are those of the division of the
\* Unix time that was used before the start of the week became configurable.
ThursdayWeeksAreLegacyWeeks == Evaluated(key) /\ unit = "WEEK" /\ weekStart = Thursday =>
  key.val = (key.at \div UnitToDivider("WEEK")) * UnitToDivider("WEEK")
==============================================================================
