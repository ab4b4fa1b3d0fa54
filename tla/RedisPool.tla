------------------------------ MODULE RedisPool ------------------------------
(***************************************************************************)
(* A Redis client of driver_impl.go from its start to its end: newClientImpl *)
(* connects, pings and retries; the callbacks of poolTrace count the         *)
(* connections and report to the health checker.                            *)
(*                                                                          *)
(* radix (external) dials and closes connections on goroutines of its own,   *)
(* and calls back before it uses a connection and after it closed one.  A    *)
(* callback is several steps: counting, reading the count, reporting.        *)
(***************************************************************************)
EXTENDS HealthChecker, Integers

CONSTANTS
  Pools,          \* the clients of the process
  PoolSize,       \* connections of each pool
  MaxCallbacks    \* bound, per pool, on the ConnClosed callbacks running at once

VARIABLES
  pool,           \* per pool: [pc, active, creating, closing, failing]
  activeCheck,    \* REDIS_HEALTH_CHECK_ACTIVE_CONNECTION
  lostAtStart     \* history: a start-up ended without a connection

poolVars == <<pool, lostAtStart>>

NoPool == [pc |-> "off", active |-> 0, creating |-> 0, closing |-> 0, failing |-> 0]

Set(p, record) == pool' = [pool EXCEPT ![p] = record]

Quiet(p) == pool[p].creating = 0 /\ pool[p].closing = 0 /\ pool[p].failing = 0

-----------------------------------------------------------------------------
(* poolTrace *)

\* A connection is dialled; creating counts the callbacks that have yet to report.
\* A failed attempt only is noted in hadConnError.
ConnCreated(p) ==
  /\ pool[p].pc \in {"dial", "ping", "ready", "up"} /\ pool[p].active < PoolSize[p]
  /\ Set(p, [pool[p] EXCEPT !.active = @ + 1, !.creating = @ + (IF activeCheck THEN 1 ELSE 0)])
  /\ UNCHANGED <<healthMap, ok, lostAtStart>>

ConnCreatedReports(p) ==
  /\ pool[p].creating > 0
  /\ Set(p, [pool[p] EXCEPT !.creating = @ - 1])
  /\ Ok(Redis)
  /\ UNCHANGED lostAtStart

\* A connection breaks, or the client is closed.
ConnClosed(p) ==
  /\ pool[p].active > pool[p].creating /\ pool[p].closing + pool[p].failing < MaxCallbacks[p]
  /\ Set(p, [pool[p] EXCEPT !.active = @ - 1, !.closing = @ + 1])
  /\ UNCHANGED <<healthMap, ok, lostAtStart>>

\* A slip: the gauge counts the connection that is being closed.
NoneActiveStale(p) == pool[p].active + 1 = 0

NoneActive(p) == pool[p].active = 0

ConnClosedReads(p) ==
  /\ pool[p].closing > 0
  /\ Set(p, [pool[p] EXCEPT !.closing = @ - 1,
                            !.failing = @ + (IF activeCheck /\ NoneActive(p) THEN 1 ELSE 0)])
  /\ UNCHANGED <<healthMap, ok, lostAtStart>>

ConnClosedReports(p) ==
  /\ pool[p].failing > 0
  /\ Set(p, [pool[p] EXCEPT !.failing = @ - 1])
  /\ Fail(Redis)
  /\ UNCHANGED lostAtStart

-----------------------------------------------------------------------------
(* newClientImpl *)

\* The client is made with a connection or not at all; not once ctx is done.
Connect(p, ctxDone) ==
  /\ pool[p].pc = "dial"
  /\ \/ /\ pool[p].active > 0 /\ pool[p].creating = 0 /\ ~ctxDone
        /\ Set(p, [pool[p] EXCEPT !.pc = "ping"])
     \/ Set(p, [pool[p] EXCEPT !.pc = "closing"])
  /\ UNCHANGED <<healthMap, ok, lostAtStart>>

\* PING; on an error or another answer the client is closed.
Ping(p, ctxDone) ==
  /\ pool[p].pc = "ping"
  /\ \/ pool[p].active > 0 /\ ~ctxDone /\ Set(p, [pool[p] EXCEPT !.pc = "ready"])
     \/ Set(p, [pool[p] EXCEPT !.pc = "closing"])
  /\ UNCHANGED <<healthMap, ok, lostAtStart>>

Closed(p) ==
  /\ pool[p].pc = "closing" /\ pool[p].active = 0
  /\ Set(p, [pool[p] EXCEPT !.pc = "backoff"])
  /\ UNCHANGED <<healthMap, ok, lostAtStart>>

\* retryOrDie, when it returns; Process has its panic.
Retry(p) ==
  /\ pool[p].pc = "backoff"
  /\ Set(p, [pool[p] EXCEPT !.pc = "dial"])
  /\ UNCHANGED <<healthMap, ok, lostAtStart>>

\* Connected: the component is reported healthy whatever happened since the PING.
Ready(p) ==
  /\ pool[p].pc = "ready"
  /\ Set(p, [pool[p] EXCEPT !.pc = "up"])
  /\ lostAtStart' = (lostAtStart \/ pool[p].active = 0)
  /\ Ok(Redis)

PoolStep(p, ctxDone) ==
  \/ ConnCreated(p) \/ ConnCreatedReports(p)
  \/ ConnClosed(p) \/ ConnClosedReads(p) \/ ConnClosedReports(p)
  \/ Connect(p, ctxDone) \/ Ping(p, ctxDone) \/ Closed(p) \/ Retry(p) \/ Ready(p)

PoolInit ==
  /\ pool = [p \in Pools |-> NoPool]
  /\ lostAtStart = FALSE

\* Without an active connection in any pool, and all callbacks returned, Redis is
\* reported unhealthy (REDIS_HEALTH_CHECK_ACTIVE_CONNECTION), however the
\* callbacks of several connections and pools interleave.  Excepted by name is
\* what contradicts the documentation of that setting: a pool that lost its
\* connections between PING and the report at the end of newClientImpl is
\* reported healthy.
NoConnectionsIsUnhealthy ==
  activeCheck /\ ~lostAtStart /\ (\A p \in Pools : pool[p].active = 0 /\ Quiet(p))
    => ~healthMap[Redis]

==============================================================================
