---------------------------- MODULE ProcessProofs ----------------------------
(***************************************************************************)
(* The safety of Process for every deployment, number and size of pools, and *)
(* number of requests.  IInv has one part per subject; the parts on the      *)
(* configuration and on the pools rest on that on the health checker.        *)
(***************************************************************************)
EXTENDS Process, TLAPS

\* What the health map holds, and that healthy means all components are.
HealthInv ==
  /\ healthMap \in [DOMAIN healthMap -> BOOLEAN]
  /\ Redis \in DOMAIN healthMap /\ Sigterm \in DOMAIN healthMap
  /\ main # "server" /\ settings.checkConfig => Config \in DOMAIN healthMap
  /\ ok \in BOOLEAN
  /\ ok => areAllComponentsHealthy(healthMap)
  /\ main = "server" => healthMap[Sigterm] /\ "health" \notin signals

\* Before newServer nothing else runs.
Idle == main = "server" => provider = ProviderOff /\ service.pc = "off"

\* Where main is determines how far the servers can be; each stage of Stop
\* determines what has been closed.
DrainInv ==
  /\ Idle
  /\ requests \in [grpc : Nat, json : Nat]
  /\ stopper \in {"off", "wait", "drain", "provider", "done"}
  /\ main \in {"server", "limiter", "service", "start"} => stopper = "off"
  /\ main \in {"server", "limiter", "service", "start", "listen"} => httpServer = "nil"
  /\ stopper \in {"off", "wait"} => grpcServer \in {"new", "serving"} /\ httpServer # "closed"
  /\ stopper = "drain" => grpcServer = "draining" /\ httpServer # "closed"
  /\ stopper \in {"provider", "done"} => grpcServer = "stopped"
  /\ grpcServer = "stopped" => requests.grpc = 0
  /\ limiterClosed \in BOOLEAN
  /\ limiterClosed => main = "done"
  /\ main = "close" \/ limiterClosed => httpServer = "closed"

\* The versions on their way through the event channel are real.
ConfigTyped ==
  /\ source \in Nat \ {0}
  /\ service \in [pc : {"off", "first", "wait", "health", "install"}, version : Nat]
  /\ provider \in [loop : {"off", "dial", "range", "stuck", "sleep", "exit"},
                   watch : {"off", "load", "send", "wait", "fetch", "blind", "retry"},
                   stream : BOOLEAN, version : Nat, breaks : Nat]
  /\ provider.watch = "send" => provider.version # 0
  /\ service.pc \in {"health", "install"} => service.version # 0

\* SetConfig reports the version it will install.
ReportAgrees ==
  settings.checkConfig /\ service.pc = "install"
    => (healthMap[Config] <=> history[service.version] = "full")

ConfigInv ==
  /\ ConfigTyped /\ ReportAgrees /\ ConfigHealthAgrees
  /\ main = "server" => config = 0 /\ service.pc = "off"

PoolRecord ==
  [pc : {"off", "dial", "ping", "ready", "up", "closing", "backoff"},
   active : Nat, creating : Nat, closing : Nat, failing : Nat]

\* A pool with a connection, or a callback of a closed one under way.
Busy(r) == r.active > 0 \/ r.closing > 0 \/ r.failing > 0

\* A connection being created is active; a pool not yet made has none.
PoolOK(r) == r.creating <= r.active /\ (r.pc = "off" => r = NoPool)

\* While Redis is reported healthy some pool has a connection, or a callback
\* that will find out.
PoolInv ==
  /\ pool \in [Pools -> PoolRecord]
  /\ settings \in Deployments /\ activeCheck = settings.activeCheck
  /\ \A p \in Pools : PoolOK(pool[p])
  /\ activeCheck /\ ~lostAtStart /\ healthMap[Redis] => \E p \in Pools : Busy(pool[p])

IInv == HealthInv /\ DrainInv /\ ConfigInv /\ PoolInv

-----------------------------------------------------------------------------
(* Shutdown *)

\* Nothing is served yet.
LEMMA DrainInit == ASSUME Init PROVE DrainInv
<1>1. /\ main = "server" /\ stopper = "off" /\ grpcServer = "new" /\ httpServer = "nil"
      /\ requests = [grpc |-> 0, json |-> 0] /\ limiterClosed = FALSE
      /\ provider = ProviderOff /\ service = [pc |-> "off", version |-> 0]
  BY Zenon DEF Init, ProviderInit
<1> QED
  BY <1>1 DEF DrainInv, Idle

\* The provider and the service wait for newServer and NewService.
LEMMA IdleStep ==
  ASSUME Idle, main = "server" => stopper = "off", [Next]_vars
  PROVE  Idle'
<1> USE DEF Idle
<1>1. CASE MainNext
  BY <1>1 DEF MainNext, NewServer, createLimiter, newClientDies, NewService, Start, Listen,
              ServeReturns, CloseLimiter
<1>2. CASE startGrpc \/ Signal \/ SignalNext
  BY <1>2 DEF startGrpc, Signal, SignalNext, Cancel, SigtermHealth, providerState
<1>3. CASE ServiceNext
  BY <1>3 DEF ServiceNext, Receive, ReportConfig, Install, Returned, control
<1>4. CASE StopNext
  BY <1>4 DEF StopNext, Stop, Drained, StopProvider, control
<1>5. CASE BeginRequest \/ EndRequest("grpc") \/ EndRequest("json") \/ PoolNext
  BY <1>5 DEF BeginRequest, EndRequest, PoolNext, providerState, control
<1>6. CASE ProviderNext \/ FetchPanics \/ SourceNext
  BY <1>6 DEF ProviderNext, FetchPanics, SourceNext, ProviderGoroutines, ProviderOff, Snapshot,
              RuntimeUpdate, initializeAndWatch, Fetch, FetchFails, retryGrpcConn, BackOff, control
<1>7. CASE UNCHANGED vars
  BY <1>7 DEF vars, providerState, control
<1> QED
  BY <1>1, <1>2, <1>3, <1>4, <1>5, <1>6, <1>7 DEF Next

\* Every step of main, of Stop and of a request keeps what is closed and what is open.
LEMMA DrainStep == ASSUME DrainInv, [Next]_vars PROVE DrainInv'
<1>0. Idle'
  BY IdleStep DEF DrainInv
<1> USE <1>0 DEF DrainInv
<1>1. CASE NewServer
  BY <1>1 DEF NewServer, serverState
<1>2. CASE createLimiter
  BY <1>2 DEF createLimiter, serverState
<1>3. CASE newClientDies
  BY <1>3 DEF newClientDies, serverState
<1>4. CASE NewService
  BY <1>4 DEF NewService, serverState
<1>5. CASE Start
  BY <1>5 DEF Start
<1>6. CASE Listen
  BY <1>6 DEF Listen
<1>7. CASE ServeReturns
  BY <1>7 DEF ServeReturns, serverState
<1>8. CASE CloseLimiter
  BY <1>8 DEF CloseLimiter, serverState
<1>9. CASE startGrpc
  BY <1>9 DEF startGrpc
<1>10. CASE Signal \/ SignalNext
  BY <1>10 DEF Signal, SignalNext, Cancel, SigtermHealth, serverState
<1>11. CASE Alive /\ Receive
  BY <1>11 DEF Alive, Receive, Returned, serverState
<1>12. CASE ReportConfig
  BY <1>12 DEF ReportConfig, serverState, control
<1>13. CASE Install
  BY <1>13 DEF Install, Returned, serverState
<1>14. CASE Stop
  BY <1>14 DEF Stop, control
<1>15. CASE Drained
  BY <1>15 DEF Drained, control
<1>16. CASE StopProvider
  BY <1>16 DEF StopProvider, control
<1>17. CASE BeginRequest
  BY <1>17 DEF BeginRequest, serverState, control
<1>18. CASE EndRequest("grpc")
  BY <1>18 DEF EndRequest, serverState, control
<1>19. CASE EndRequest("json")
  BY <1>19 DEF EndRequest, serverState, control
<1>20. CASE PoolNext \/ ProviderNext \/ SourceNext
  BY <1>20 DEF PoolNext, ProviderNext, SourceNext, serverState, control
<1>21. CASE Alive /\ FetchPanics
  BY <1>21 DEF Alive, FetchPanics, serverState
<1>22. CASE UNCHANGED vars
  BY <1>22 DEF vars, serverState, control
<1> QED
  BY <1>1, <1>2, <1>3, <1>4, <1>5, <1>6, <1>7, <1>8, <1>9, <1>10, <1>11, <1>12, <1>13, <1>14,
     <1>15, <1>16, <1>17, <1>18, <1>19, <1>20, <1>21, <1>22 DEF Next, MainNext, ServiceNext, StopNext

\* Whenever Run closes the limiter GracefulStop has returned and no gRPC call is
\* in progress (Runner.Run, server.Stop).
THEOREM DrainSafe == Spec => []LimiterClosedAfterDrain
<1>1. DrainInv => LimiterClosedAfterDrain
  BY DEF DrainInv, LimiterClosedAfterDrain
<1> QED
  BY <1>1, DrainInit, DrainStep, PTL DEF Spec

-----------------------------------------------------------------------------
(* The health checker *)

\* What Ok and Fail do to one component, and that they keep "healthy means all
\* components are".
HealthTyped ==
  /\ healthMap \in [DOMAIN healthMap -> BOOLEAN]
  /\ ok \in BOOLEAN
  /\ ok => areAllComponentsHealthy(healthMap)

\* Ok makes one component healthy, and the process only if all are.
LEMMA OkEffect ==
  ASSUME HealthTyped, NEW c, Ok(c)
  PROVE  /\ HealthTyped'
         /\ DOMAIN healthMap' = DOMAIN healthMap
         /\ c \in DOMAIN healthMap => healthMap'[c] = TRUE
         /\ \A d \in DOMAIN healthMap : d # c => healthMap'[d] = healthMap[d]
<1>1. CASE c \in DOMAIN healthMap
  <2>1. /\ healthMap' = [healthMap EXCEPT ![c] = TRUE]
        /\ ok' = (ok \/ areAllComponentsHealthy(healthMap'))
    BY <1>1 DEF Ok
  <2>2. healthMap' \in [DOMAIN healthMap -> BOOLEAN] /\ DOMAIN healthMap' = DOMAIN healthMap
    BY <2>1, Zenon DEF HealthTyped
  <2>3. healthMap'[c] = TRUE /\ \A d \in DOMAIN healthMap : d # c => healthMap'[d] = healthMap[d]
    BY <2>1, <1>1, Zenon DEF HealthTyped
  <2>4. areAllComponentsHealthy(healthMap) => areAllComponentsHealthy(healthMap')
    BY <2>2, <2>3, Zenon DEF areAllComponentsHealthy
  <2>5. areAllComponentsHealthy(healthMap') \in BOOLEAN
    BY Zenon DEF areAllComponentsHealthy
  <2> QED
    BY <2>1, <2>2, <2>3, <2>4, <2>5, Zenon DEF HealthTyped
<1>2. CASE c \notin DOMAIN healthMap
  <2>1. healthMap' = healthMap /\ ok' = ok
    BY <1>2 DEF Ok
  <2> QED
    BY <2>1, <1>2, Zenon DEF HealthTyped
<1> QED
  BY <1>1, <1>2

\* Fail makes one component and the process unhealthy.
LEMMA FailEffect ==
  ASSUME HealthTyped, NEW c, Fail(c)
  PROVE  /\ HealthTyped'
         /\ DOMAIN healthMap' = DOMAIN healthMap
         /\ c \in DOMAIN healthMap => healthMap'[c] = FALSE
         /\ \A d \in DOMAIN healthMap : d # c => healthMap'[d] = healthMap[d]
<1>1. CASE c \in DOMAIN healthMap
  <2>1. healthMap' = [healthMap EXCEPT ![c] = FALSE] /\ ok' = FALSE
    BY <1>1 DEF Fail
  <2> QED
    BY <2>1, <1>1, Zenon DEF HealthTyped
<1>2. CASE c \notin DOMAIN healthMap
  <2>1. healthMap' = healthMap /\ ok' = ok
    BY <1>2 DEF Fail
  <2> QED
    BY <2>1, <1>2, Zenon DEF HealthTyped
<1> QED
  BY <1>1, <1>2

\* The steps that report to the health checker, by component; the others leave
\* it alone.
Reports(c) == Ok(c) \/ Fail(c)

\* The steps that change the health map are the reports.
LEMMA WhoReports ==
  ASSUME Next
  PROVE  \/ NewServer
         \/ UNCHANGED health
         \/ PoolNext /\ Reports(Redis)
         \/ ReportConfig /\ Reports(Config)
         \/ SigtermHealth /\ Reports(Sigterm)
<1> USE DEF Reports
<1>1. CASE MainNext
  BY <1>1 DEF MainNext, createLimiter, newClientDies, NewService, Start, Listen, ServeReturns,
              CloseLimiter
<1>2. CASE startGrpc \/ Signal \/ SignalNext
  BY <1>2 DEF startGrpc, Signal, SignalNext, Cancel, SigtermHealth
<1>3. CASE ServiceNext
  BY <1>3 DEF ServiceNext, Receive, ReportConfig, Install
<1>4. CASE StopNext
  BY <1>4 DEF StopNext, Stop, Drained, StopProvider
<1>5. CASE BeginRequest \/ EndRequest("grpc") \/ EndRequest("json")
  BY <1>5 DEF BeginRequest, EndRequest
<1>6. CASE ProviderNext \/ FetchPanics \/ SourceNext
  BY <1>6 DEF ProviderNext, FetchPanics, SourceNext
<1>7. CASE PoolNext
  <2>1. PICK p \in Pools : PoolStep(p, ctxDone)
    BY <1>7 DEF PoolNext
  <2> QED
    BY <2>1, <1>7 DEF PoolStep, ConnCreated, ConnCreatedReports, ConnClosed, ConnClosedReads,
              ConnClosedReports, Connect, Ping, Closed, Retry, Ready, health
<1> QED
  BY <1>1, <1>2, <1>3, <1>4, <1>5, <1>6, <1>7 DEF Next

\* What main and the signals do that matters to the health map.
LEMMA SignalsAndSettings ==
  ASSUME DrainInv, Next, ~NewServer
  PROVE  /\ settings' = settings
         /\ main' = "server" <=> main = "server"
         /\ main = "server" /\ "health" \notin signals => "health" \notin signals'
<1>1. CASE MainNext
  BY <1>1 DEF MainNext, createLimiter, newClientDies, NewService, Start, Listen, ServeReturns,
              CloseLimiter
<1>2. CASE startGrpc
  BY <1>2 DEF startGrpc, DrainInv
<1>3. CASE Signal \/ SignalNext
  BY <1>3 DEF Signal, SignalNext, Cancel, SigtermHealth
<1>4. CASE Receive
  BY <1>4 DEF Receive, Returned, DrainInv, Idle
<1>5. CASE ReportConfig
  BY <1>5 DEF ReportConfig, control
<1>6. CASE Install
  BY <1>6 DEF Install, Returned
<1>7. CASE StopNext
  BY <1>7 DEF StopNext, Stop, Drained, StopProvider, control
<1>8. CASE BeginRequest \/ EndRequest("grpc") \/ EndRequest("json")
  BY <1>8 DEF BeginRequest, EndRequest, control
<1>9. CASE PoolNext \/ ProviderNext \/ SourceNext
  BY <1>9 DEF PoolNext, ProviderNext, SourceNext, control
<1>10. CASE FetchPanics
  BY <1>10 DEF FetchPanics, DrainInv, Idle, ProviderOff
<1> QED
  BY <1>1, <1>2, <1>3, <1>4, <1>5, <1>6, <1>7, <1>8, <1>9, <1>10 DEF Next, ServiceNext

\* NewHealthChecker.
LEMMA NewServerHealth ==
  ASSUME NewServer
  PROVE  /\ HealthTyped'
         /\ Redis \in DOMAIN healthMap' /\ healthMap'[Redis] = Memcache
         /\ Sigterm \in DOMAIN healthMap'
         /\ settings.checkConfig => Config \in DOMAIN healthMap' /\ healthMap'[Config] = FALSE
<1> DEFINE D == {Redis, Sigterm} \cup (IF settings.checkConfig THEN {Config} ELSE {})
           map == [c \in D |-> c = Sigterm \/ (c = Redis /\ Memcache)]
<1>1. healthMap' = map /\ ok' = areAllComponentsHealthy(map)
  BY DEF NewServer, NewHealthChecker
<1>2. Redis # Sigterm /\ Config # Sigterm /\ Config # Redis
  BY DEF Redis, Config, Sigterm
<1>3. Memcache \in BOOLEAN /\ areAllComponentsHealthy(map) \in BOOLEAN
  BY Zenon DEF Memcache, areAllComponentsHealthy
<1>4. map \in [D -> BOOLEAN] /\ DOMAIN map = D
  BY Zenon
<1>5. Redis \in D /\ Sigterm \in D /\ (settings.checkConfig => Config \in D)
  OBVIOUS
<1>6. map[Redis] = Memcache
  BY <1>2, <1>3, <1>5, Zenon
<1>7. settings.checkConfig => map[Config] = FALSE
  BY <1>2, <1>5, Zenon
<1> HIDE DEF D, map
<1> QED
  BY <1>1, <1>3, <1>4, <1>5, <1>6, <1>7, Zenon DEF HealthTyped

\* The health map before it is made.
LEMMA HealthInit == ASSUME Init PROVE HealthInv
<1>1. /\ healthMap = [c \in {Redis, Sigterm} |-> c = Sigterm] /\ ok = FALSE
      /\ main = "server" /\ signals = {}
  BY Zenon DEF Init
<1>2. /\ healthMap \in [DOMAIN healthMap -> BOOLEAN]
      /\ Redis \in DOMAIN healthMap /\ Sigterm \in DOMAIN healthMap /\ healthMap[Sigterm]
  BY <1>1, Zenon
<1> QED
  BY <1>1, <1>2, Zenon DEF HealthInv

\* Every report keeps the health map and the status together.
LEMMA HealthStep == ASSUME HealthInv, DrainInv, [Next]_vars PROVE HealthInv'
<1>1. HealthTyped
  BY DEF HealthInv, HealthTyped
<1>2. CASE NewServer
  <2>1. main' = "limiter" /\ settings' = settings
    BY <1>2 DEF NewServer
  <2> QED
    BY <2>1, <1>2, NewServerHealth DEF HealthInv, HealthTyped
<1>3. CASE UNCHANGED health /\ Next /\ ~NewServer
  BY <1>3, SignalsAndSettings DEF HealthInv, health, areAllComponentsHealthy
<1>4. ASSUME NEW c \in {Redis, Config}, Reports(c), Next, ~NewServer PROVE HealthInv'
  <2>1. HealthTyped' /\ DOMAIN healthMap' = DOMAIN healthMap
    BY <1>1, <1>4, OkEffect, FailEffect, Zenon DEF Reports
  <2>2. healthMap'[Sigterm] = healthMap[Sigterm]
    <3>1. c # Sigterm /\ Sigterm \in DOMAIN healthMap
      BY <1>4 DEF Redis, Config, Sigterm, HealthInv
    <3> QED
      BY <3>1, <1>1, <1>4, OkEffect, FailEffect, Zenon DEF Reports
  <2> QED
    BY <2>1, <2>2, <1>4, SignalsAndSettings, Zenon DEF HealthInv, HealthTyped
<1>5. CASE SigtermHealth /\ Reports(Sigterm) /\ Next /\ ~NewServer
  <2>1. HealthTyped' /\ DOMAIN healthMap' = DOMAIN healthMap
    BY <1>1, <1>5, OkEffect, FailEffect, Zenon DEF Reports
  <2>2. main # "server"
    BY <1>5 DEF SigtermHealth, HealthInv
  <2> QED
    BY <2>1, <2>2, <1>5, SignalsAndSettings, Zenon DEF HealthInv, HealthTyped
<1>6. CASE UNCHANGED vars
  BY <1>6 DEF HealthInv, vars, health, control, areAllComponentsHealthy
<1> QED
  BY <1>2, <1>3, <1>4, <1>5, <1>6, WhoReports

\* After SIGTERM the process is not reported healthy again, for every number of
\* pools and every configuration (HealthChecker.Ok, the goroutine of NewHealthChecker).
THEOREM ReadinessSafe == Spec => ReadinessNeverReturns
<1>1. ASSUME HealthInv, HealthInv', [Next]_vars PROVE [~healthMap[Sigterm] => ~ok']_vars
  <2> SUFFICES ASSUME Next, ~healthMap[Sigterm] PROVE ~ok'
    BY <1>1
  <2>1. HealthTyped
    BY <1>1 DEF HealthInv, HealthTyped
  <2>2. ~NewServer
    BY <1>1 DEF HealthInv, NewServer
  <2>3. Sigterm \in DOMAIN healthMap /\ Redis # Sigterm /\ Config # Sigterm
    BY <1>1 DEF HealthInv, Redis, Config, Sigterm
  <2>4. CASE UNCHANGED health
    BY <2>4, <2>3, <1>1 DEF health, HealthInv, areAllComponentsHealthy
  <2>5. ASSUME NEW c \in {Redis, Config}, Reports(c) PROVE ~ok'
    <3>1. healthMap'[Sigterm] = healthMap[Sigterm]
      BY <2>1, <2>3, <2>5, OkEffect, FailEffect, Zenon DEF Reports
    <3> QED
      BY <3>1, <1>1, Zenon DEF HealthInv, areAllComponentsHealthy
  <2>6. CASE SigtermHealth
    <3>1. healthMap'[Sigterm] = FALSE
      BY <2>1, <2>3, <2>6, FailEffect, Zenon DEF SigtermHealth
    <3> QED
      BY <3>1, <1>1, Zenon DEF HealthInv, areAllComponentsHealthy
  <2> QED
    BY <2>2, <2>4, <2>5, <2>6, WhoReports
<1> QED
  BY <1>1, HealthInit, HealthStep, DrainInit, DrainStep, PTL DEF Spec, ReadinessNeverReturns

-----------------------------------------------------------------------------
(* The configuration *)

\* The steps that move a version, or install it; the others leave both alone.
LEMMA ConfigFrame ==
  ASSUME Next
  PROVE  /\ history' = history
         /\ \/ NewServer \/ Receive \/ ReportConfig \/ Install \/ ProviderNext \/ SourceNext
            \/ StopProvider \/ NewService
            \/ UNCHANGED <<service, config, source, provider>>
<1>1. CASE MainNext
  BY <1>1 DEF MainNext, NewServer, createLimiter, newClientDies, Start, Listen, ServeReturns,
              CloseLimiter, NewService, providerState
<1>2. CASE startGrpc \/ Signal \/ SignalNext
  BY <1>2 DEF startGrpc, Signal, SignalNext, Cancel, SigtermHealth, providerState
<1>3. CASE ServiceNext
  BY <1>3 DEF ServiceNext, Receive, ReportConfig, Install, providerState
<1>4. CASE StopNext
  BY <1>4 DEF StopNext, Stop, Drained, StopProvider, providerState
<1>5. CASE BeginRequest \/ EndRequest("grpc") \/ EndRequest("json")
  BY <1>5 DEF BeginRequest, EndRequest, providerState
<1>6. CASE PoolNext \/ ProviderNext \/ FetchPanics \/ SourceNext
  BY <1>6 DEF PoolNext, ProviderNext, FetchPanics, SourceNext, providerState
<1> QED
  BY <1>1, <1>2, <1>3, <1>4, <1>5, <1>6 DEF Next

\* A step that reports no configuration leaves its component alone.
LEMMA ConfigHealthFrame ==
  ASSUME HealthInv, Next, ~NewServer, ~ReportConfig, settings.checkConfig, main # "server"
  PROVE  healthMap'[Config] = healthMap[Config]
<1>1. HealthTyped /\ Config \in DOMAIN healthMap /\ Config # Redis /\ Config # Sigterm
  BY DEF HealthInv, HealthTyped, Redis, Config, Sigterm
<1>2. CASE UNCHANGED health
  BY <1>2 DEF health
<1>3. CASE Reports(Redis) \/ Reports(Sigterm)
  BY <1>1, <1>3, OkEffect, FailEffect, Zenon DEF Reports
<1> QED
  BY <1>2, <1>3, WhoReports

\* No configuration is installed.
LEMMA ConfigInit == ASSUME Init PROVE ConfigInv
<1>1. /\ main = "server" /\ source = 1 /\ provider = ProviderOff /\ config = 0
      /\ service = [pc |-> "off", version |-> 0]
  BY Zenon DEF Init, ProviderInit
<1>2. ConfigTyped
  BY <1>1 DEF ConfigTyped, ProviderOff
<1> QED
  BY <1>1, <1>2 DEF ConfigInv, ConfigHealthAgrees, ReportAgrees

\* The provider hands over versions that were published.
LEMMA ProviderTyped ==
  ASSUME ConfigTyped, UNCHANGED service,
         \/ ProviderGoroutines \/ Publish
         \/ NewProvider /\ UNCHANGED source
         \/ StopReceived /\ UNCHANGED source
  PROVE  ConfigTyped'
<1> USE DEF ConfigTyped
<1>1. CASE Snapshot
  BY <1>1 DEF Snapshot
<1>2. CASE RuntimeUpdate
  BY <1>2 DEF RuntimeUpdate
<1>3. CASE initializeAndWatch
  <2>1. provider.breaks + 1 \in Nat /\ source' = source
    BY <1>3 DEF initializeAndWatch
  <2>2. CASE provider' = [provider EXCEPT !.loop = "range", !.watch = "fetch", !.stream = TRUE,
                                          !.version = 0]
    BY <2>1, <2>2
  <2>3. CASE provider' = [provider EXCEPT !.loop = "stuck", !.breaks = provider.breaks + 1]
    BY <2>1, <2>3
  <2>4. CASE provider' = [provider EXCEPT !.loop = "range", !.watch = "blind",
                                          !.breaks = provider.breaks + 1]
    BY <2>1, <2>4
  <2> QED
    BY <1>3, <2>2, <2>3, <2>4 DEF initializeAndWatch
<1>4. CASE Fetch
  BY <1>4 DEF Fetch
<1>5. CASE FetchFails
  <2>1. provider.breaks + 1 \in Nat /\ source' = source
    BY <1>5 DEF FetchFails
  <2>2. \/ provider' = [provider EXCEPT !.watch = "retry"]
        \/ provider' = [provider EXCEPT !.watch = "retry", !.breaks = provider.breaks + 1]
    BY <1>5 DEF FetchFails
  <2> QED
    BY <2>1, <2>2
<1>6. CASE retryGrpcConn
  BY <1>6 DEF retryGrpcConn
<1>7. CASE BackOff
  BY <1>7 DEF BackOff
<1>8. CASE Publish
  BY <1>8 DEF Publish
<1>9. CASE NewProvider /\ UNCHANGED source
  BY <1>9 DEF NewProvider
<1>10. CASE StopReceived /\ UNCHANGED source
  BY <1>10 DEF StopReceived
<1> QED
  BY <1>1, <1>2, <1>3, <1>4, <1>5, <1>6, <1>7, <1>8, <1>9, <1>10 DEF ProviderGoroutines

\* Receiving, reporting and installing a version.
LEMMA ConfigStep == ASSUME HealthInv, DrainInv, ConfigInv, [Next]_vars PROVE ConfigInv'
<1>1. ConfigTyped /\ ReportAgrees /\ ConfigHealthAgrees
  BY DEF ConfigInv
<1>2. CASE NewServer
  <2>1. /\ service' = service /\ config' = config /\ main = "server" /\ settings' = settings
        /\ source' = source /\ NewProvider /\ main' = "limiter"
    BY <1>2 DEF NewServer
  <2>2. ConfigTyped'
    BY <2>1, <1>1, ProviderTyped
  <2>3. ReportAgrees'
    BY <2>1 DEF ReportAgrees, ConfigInv
  <2>4. ConfigHealthAgrees'
    BY <2>1, <1>2, NewServerHealth DEF ConfigHealthAgrees, ConfigInv
  <2> QED
    BY <2>1, <2>2, <2>3, <2>4 DEF ConfigInv
<1>3. ASSUME Next, ~NewServer, ~ReportConfig, UNCHANGED <<service, config>>, ConfigTyped'
      PROVE  ConfigInv'
  <2>1. settings' = settings /\ history' = history /\ (main' = "server" <=> main = "server")
    BY <1>3, SignalsAndSettings, ConfigFrame
  <2>2. settings.checkConfig /\ main # "server" => healthMap'[Config] = healthMap[Config]
    BY <1>3, ConfigHealthFrame
  <2>3. ReportAgrees'
    BY <2>1, <2>2, <1>1, <1>3 DEF ReportAgrees, ConfigInv
  <2>4. ConfigHealthAgrees'
    BY <2>1, <2>2, <1>1, <1>3 DEF ConfigHealthAgrees
  <2> QED
    BY <2>1, <2>3, <2>4, <1>1, <1>3 DEF ConfigInv
<1>4. CASE Next /\ ~NewServer /\ ~ReportConfig /\ UNCHANGED <<service, config, source, provider>>
  BY <1>3, <1>4, <1>1 DEF ConfigTyped
<1>5. CASE Next /\ ~NewServer /\ ~ReportConfig /\ (ProviderNext \/ SourceNext \/ StopProvider)
  <2>1. UNCHANGED <<service, config>>
    BY <1>5 DEF ProviderNext, SourceNext, StopProvider
  <2>2. ProviderGoroutines \/ Publish \/ (StopReceived /\ UNCHANGED source)
    BY <1>5 DEF ProviderNext, SourceNext, StopProvider
  <2>3. ConfigTyped'
    BY <2>1, <2>2, <1>1, ProviderTyped
  <2> QED
    BY <2>1, <2>3, <1>3, <1>5
<1>6. CASE Next /\ ~NewServer /\ ~ReportConfig /\ (NewService \/ Receive \/ Install)
  <2>1. settings' = settings /\ history' = history /\ (main' = "server" <=> main = "server")
    BY <1>6, SignalsAndSettings, ConfigFrame
  <2>2. main # "server"
    BY <1>6 DEF NewService, Receive, Install, ConfigInv
  <2>3. settings.checkConfig => healthMap'[Config] = healthMap[Config]
    BY <2>2, <1>6, ConfigHealthFrame
  <2>4. CASE NewService
    <3>1. ConfigTyped' /\ service'.pc \in {"first", "wait"} /\ service.pc = "off" /\ config' = config
      BY <2>4, <1>1 DEF NewService, ConfigTyped, providerState
    <3> QED
      BY <3>1, <2>1, <2>2, <2>3, <1>1 DEF ConfigInv, ConfigHealthAgrees, ReportAgrees
  <2>5. CASE Receive
    <3>1. ConfigTyped'
      BY <2>5, <1>1 DEF Receive, Returned, ConfigUpdateEvent, ConfigTyped
    <3>2. /\ service.pc # "install" /\ config' = config
          /\ settings.checkConfig => service'.pc # "install"
      BY <2>5, <1>1 DEF Receive, Returned, ConfigTyped
    <3> QED
      BY <3>1, <3>2, <2>1, <2>2, <2>3, <1>1 DEF ConfigInv, ConfigHealthAgrees, ReportAgrees
  <2>6. CASE Install
    <3>1. /\ ConfigTyped' /\ service'.pc = "wait" /\ service.pc = "install"
          /\ service.version # 0 /\ config' = service.version
      BY <2>6, <1>1 DEF Install, Returned, ConfigTyped, providerState
    <3> QED
      BY <3>1, <2>1, <2>2, <2>3, <1>1 DEF ConfigInv, ConfigHealthAgrees, ReportAgrees
  <2> QED
    BY <1>6, <2>4, <2>5, <2>6
<1>7. CASE Next /\ ~NewServer /\ ReportConfig
  <2>1. settings' = settings /\ history' = history /\ (main' = "server" <=> main = "server")
    BY <1>7, SignalsAndSettings, ConfigFrame
  <2>2. ConfigTyped' /\ service'.pc = "install" /\ service'.version = service.version /\ main # "server"
    BY <1>7, <1>1 DEF ReportConfig, ConfigTyped, providerState, ConfigInv
  <2>3. settings.checkConfig => (healthMap'[Config] <=> history[service.version] = "full")
    <3>1. HealthTyped /\ (settings.checkConfig => Config \in DOMAIN healthMap)
      BY <2>2 DEF HealthInv, HealthTyped
    <3>2. CASE history[service.version] = "full"
      BY <3>1, <3>2, <1>7, OkEffect, Zenon DEF ReportConfig
    <3>3. CASE history[service.version] # "full"
      BY <3>1, <3>3, <1>7, FailEffect, Zenon DEF ReportConfig
    <3> QED
      BY <3>2, <3>3
  <2> QED
    BY <2>1, <2>2, <2>3 DEF ConfigInv, ConfigHealthAgrees, ReportAgrees
<1>8. CASE UNCHANGED vars
  BY <1>8 DEF ConfigInv, ConfigTyped, ConfigHealthAgrees, ReportAgrees, vars, providerState, health, control
<1> QED
  BY <1>2, <1>4, <1>5, <1>6, <1>7, <1>8, ConfigFrame

\* With HEALTHY_WITH_AT_LEAST_ONE_CONFIG_LOADED the component says whether the
\* installed configuration has a domain, for every history of versions (SetConfig).
THEOREM ConfigHealthSafe == Spec => []ConfigHealthAgrees
<1>1. ConfigInv => ConfigHealthAgrees
  BY DEF ConfigInv
<1> QED
  BY <1>1, HealthInit, DrainInit, ConfigInit, HealthStep, DrainStep, ConfigStep, PTL DEF Spec

-----------------------------------------------------------------------------
(* The pools *)

\* Only createLimiter and the pools themselves change the pools.
LEMMA PoolFrame ==
  ASSUME Next
  PROVE  /\ settings' = settings /\ activeCheck' = activeCheck
         /\ createLimiter \/ PoolNext \/ UNCHANGED pool
         /\ PoolNext \/ UNCHANGED lostAtStart
<1>1. CASE MainNext
  BY <1>1 DEF MainNext, NewServer, createLimiter, newClientDies, Start, Listen, ServeReturns,
              CloseLimiter, NewService, poolState
<1>2. CASE startGrpc \/ Signal \/ SignalNext
  BY <1>2 DEF startGrpc, Signal, SignalNext, Cancel, SigtermHealth, poolState
<1>3. CASE ServiceNext
  BY <1>3 DEF ServiceNext, Receive, ReportConfig, Install, poolState, control
<1>4. CASE StopNext
  BY <1>4 DEF StopNext, Stop, Drained, StopProvider, poolState, control
<1>5. CASE BeginRequest \/ EndRequest("grpc") \/ EndRequest("json")
  BY <1>5 DEF BeginRequest, EndRequest, poolState, control
<1>6. CASE ProviderNext \/ FetchPanics \/ SourceNext
  BY <1>6 DEF ProviderNext, FetchPanics, SourceNext, poolState, control
<1>7. CASE PoolNext
  BY <1>7 DEF PoolNext, control
<1> QED
  BY <1>1, <1>2, <1>3, <1>4, <1>5, <1>6, <1>7 DEF Next

\* A step that reports nothing on Redis leaves its component alone.
LEMMA RedisHealthFrame ==
  ASSUME HealthInv, Next, ~NewServer, ~PoolNext
  PROVE  healthMap'[Redis] = healthMap[Redis]
<1>1. HealthTyped /\ Redis \in DOMAIN healthMap /\ Config # Redis /\ Redis # Sigterm
  BY DEF HealthInv, HealthTyped, Redis, Config, Sigterm
<1>2. CASE UNCHANGED health
  BY <1>2 DEF health
<1>3. CASE Reports(Config) \/ Reports(Sigterm)
  BY <1>1, <1>3, OkEffect, FailEffect, Zenon DEF Reports
<1> QED
  BY <1>2, <1>3, WhoReports

\* No pool has been made.
LEMMA PoolInvInit == ASSUME Init PROVE PoolInv
<1>1. /\ pool = [p \in Pools |-> NoPool] /\ settings \in Deployments
      /\ activeCheck = settings.activeCheck
      /\ healthMap = [c \in {Redis, Sigterm} |-> c = Sigterm]
  BY Zenon DEF Init, PoolInit
<1>2. ~healthMap[Redis]
  <2>1. Redis # Sigterm
    BY DEF Redis, Sigterm
  <2> QED
    BY <2>1, <1>1, Zenon
<1>3. NoPool \in PoolRecord /\ PoolOK(NoPool)
  BY DEF NoPool, PoolRecord, PoolOK
<1>4. pool \in [Pools -> PoolRecord] /\ \A p \in Pools : PoolOK(pool[p])
  BY <1>1, <1>3, Zenon
<1> QED
  BY <1>1, <1>2, <1>4, Zenon DEF PoolInv

\* One pool changes, and either Redis is not reported healthier than before and
\* the pool is no less busy, or the pool has a connection, or Redis is unhealthy.
LEMMA OnePool ==
  ASSUME PoolInv, NEW p \in Pools, NEW r \in PoolRecord, Set(p, r), PoolOK(r),
         settings' = settings, activeCheck' = activeCheck,
         \/ UNCHANGED <<healthMap, lostAtStart>> /\ (Busy(pool[p]) => Busy(r))
         \/ r.active > 0
         \/ lostAtStart'
         \/ ~healthMap'[Redis]
  PROVE  PoolInv'
<1>1. pool' \in [Pools -> PoolRecord] /\ pool'[p] = r /\ \A q \in Pools : q # p => pool'[q] = pool[q]
  BY DEF PoolInv, Set
<1>2. \A q \in Pools : PoolOK(pool'[q])
  BY <1>1, Zenon DEF PoolInv
<1>3. r.active > 0 => Busy(r)
  BY DEF Busy
<1>4. activeCheck' /\ ~lostAtStart' /\ healthMap'[Redis] => \E q \in Pools : Busy(pool'[q])
  <2>1. CASE r.active > 0
    BY <2>1, <1>1, <1>3, Zenon
  <2>2. CASE UNCHANGED <<healthMap, lostAtStart>> /\ (Busy(pool[p]) => Busy(r))
    <3> SUFFICES ASSUME activeCheck, ~lostAtStart, healthMap[Redis]
                 PROVE  \E q \in Pools : Busy(pool'[q])
      BY <2>2
    <3>1. PICK q \in Pools : Busy(pool[q])
      BY Zenon DEF PoolInv
    <3> QED
      BY <3>1, <2>2, <1>1, Zenon
  <2> QED
    BY <2>1, <2>2
<1> QED
  BY <1>1, <1>2, <1>4, Zenon DEF PoolInv

\* The steps of one pool.
LEMMA PoolStepKeeps ==
  ASSUME HealthInv, PoolInv, NEW p \in Pools, PoolStep(p, ctxDone),
         settings' = settings, activeCheck' = activeCheck
  PROVE  PoolInv'
<1> DEFINE b == pool[p]
<1>1. b \in PoolRecord /\ PoolOK(b)
  BY DEF PoolInv
<1>2. Ok(Redis) => healthMap'[Redis] = TRUE
  <2>1. HealthTyped /\ Redis \in DOMAIN healthMap
    BY DEF HealthInv, HealthTyped
  <2> QED
    BY <2>1, OkEffect
<1>3. Fail(Redis) => healthMap'[Redis] = FALSE
  <2>1. HealthTyped /\ Redis \in DOMAIN healthMap
    BY DEF HealthInv, HealthTyped
  <2> QED
    BY <2>1, FailEffect
<1>4. CASE ConnCreated(p)
  <2> DEFINE r == [b EXCEPT !.active = b.active + 1,
                            !.creating = b.creating + (IF activeCheck THEN 1 ELSE 0)]
  <2>1. Set(p, r) /\ b.pc # "off"
    BY <1>4 DEF ConnCreated
  <2>2. /\ b.active + 1 \in Nat /\ b.creating + (IF activeCheck THEN 1 ELSE 0) \in Nat
        /\ b.creating + (IF activeCheck THEN 1 ELSE 0) <= b.active + 1
        /\ b.active + 1 > 0
    BY <1>1 DEF PoolRecord, PoolOK
  <2>3. /\ r \in PoolRecord /\ r.pc = b.pc /\ r.active = b.active + 1
        /\ r.creating = b.creating + (IF activeCheck THEN 1 ELSE 0)
    <3>1. PICK x \in Nat, y \in Nat : x = b.active + 1 /\ y = b.creating + (IF activeCheck THEN 1 ELSE 0)
      BY <2>2
    <3> HIDE DEF b
    <3>2. r = [b EXCEPT !.active = x, !.creating = y]
      BY <3>1
    <3> HIDE DEF r
    <3> QED
      BY <1>1, <3>1, <3>2 DEF PoolRecord
  <2>4. PoolOK(r) /\ r.active > 0
    BY <2>1, <2>2, <2>3 DEF PoolOK
  <2> HIDE DEF r
  <2> QED
    BY <2>1, <2>3, <2>4, OnePool
<1>5. CASE ConnCreatedReports(p)
  <2> DEFINE r == [b EXCEPT !.creating = b.creating - 1]
  <2>1. Set(p, r) /\ b.creating > 0
    BY <1>5 DEF ConnCreatedReports
  <2>2. r \in PoolRecord /\ PoolOK(r) /\ r.active > 0
    BY <1>1, <2>1 DEF PoolRecord, PoolOK, NoPool
  <2> QED
    BY <2>1, <2>2, OnePool
<1>6. CASE ConnClosed(p)
  <2> DEFINE r == [b EXCEPT !.active = b.active - 1, !.closing = b.closing + 1]
  <2>1. Set(p, r) /\ b.active > b.creating /\ UNCHANGED <<healthMap, lostAtStart>>
    BY <1>6 DEF ConnClosed
  <2>2. /\ b.active - 1 \in Nat /\ b.closing + 1 \in Nat /\ b.creating <= b.active - 1
        /\ b.pc # "off" /\ b.closing + 1 > 0
    BY <1>1, <2>1 DEF PoolRecord, PoolOK, NoPool
  <2>3. /\ r \in PoolRecord /\ r.pc = b.pc /\ r.active = b.active - 1
        /\ r.creating = b.creating /\ r.closing = b.closing + 1
    <3>1. PICK x \in Nat, y \in Nat : x = b.active - 1 /\ y = b.closing + 1
      BY <2>2
    <3> HIDE DEF b
    <3>2. r = [b EXCEPT !.active = x, !.closing = y]
      BY <3>1
    <3> HIDE DEF r
    <3> QED
      BY <1>1, <3>1, <3>2 DEF PoolRecord
  <2>4. PoolOK(r) /\ Busy(r)
    BY <2>2, <2>3 DEF PoolOK, Busy
  <2> HIDE DEF r
  <2> QED
    BY <2>1, <2>3, <2>4, OnePool
<1>7. CASE ConnClosedReads(p)
  <2>1. CASE activeCheck /\ NoneActive(p)
    <3> DEFINE r == [b EXCEPT !.closing = b.closing - 1, !.failing = b.failing + 1]
    <3>1. Set(p, r) /\ b.closing > 0 /\ UNCHANGED <<healthMap, lostAtStart>>
      BY <1>7, <2>1 DEF ConnClosedReads
    <3>2. /\ b.closing - 1 \in Nat /\ b.failing + 1 \in Nat /\ b.failing + 1 > 0
          /\ b.pc # "off" /\ b.creating <= b.active
      BY <1>1, <3>1 DEF PoolRecord, PoolOK, NoPool
    <3>3. /\ r \in PoolRecord /\ r.pc = b.pc /\ r.active = b.active
          /\ r.creating = b.creating /\ r.failing = b.failing + 1
      <4>1. PICK x \in Nat, y \in Nat : x = b.closing - 1 /\ y = b.failing + 1
        BY <3>2
      <4> HIDE DEF b
      <4>2. r = [b EXCEPT !.closing = x, !.failing = y]
        BY <4>1
      <4> HIDE DEF r
      <4> QED
        BY <1>1, <4>1, <4>2 DEF PoolRecord
    <3>4. PoolOK(r) /\ Busy(r)
      BY <3>2, <3>3 DEF PoolOK, Busy
    <3> HIDE DEF r
    <3> QED
      BY <3>1, <3>3, <3>4, OnePool
  <2>2. CASE ~activeCheck \/ ~NoneActive(p)
    <3> DEFINE r == [b EXCEPT !.closing = b.closing - 1, !.failing = b.failing + 0]
    <3>1. Set(p, r) /\ b.closing > 0
      BY <1>7, <2>2 DEF ConnClosedReads
    <3>2. r \in PoolRecord /\ PoolOK(r) /\ r.active = b.active
      <4>1. /\ b.closing - 1 \in Nat /\ b.failing + 0 \in Nat
            /\ b.pc # "off" /\ b.creating <= b.active
        BY <1>1, <3>1 DEF PoolRecord, PoolOK, NoPool
      <4>2. r \in PoolRecord /\ r.pc = b.pc /\ r.active = b.active /\ r.creating = b.creating
        <5>1. PICK x \in Nat, y \in Nat : x = b.closing - 1 /\ y = b.failing + 0
          BY <4>1
        <5> HIDE DEF b
        <5>2. r = [b EXCEPT !.closing = x, !.failing = y]
          BY <5>1
        <5> HIDE DEF r
        <5> QED
          BY <1>1, <5>1, <5>2 DEF PoolRecord
      <4> QED
        BY <4>1, <4>2 DEF PoolOK
    <3> HIDE DEF r
    <3>3. CASE ~NoneActive(p)
      <4>1. r.active > 0
        BY <1>1, <3>2, <3>3 DEF NoneActive, PoolRecord
      <4> QED
        BY <3>1, <3>2, <4>1, OnePool
    <3>4. CASE ~activeCheck
      BY <3>1, <3>2, <3>4 DEF PoolInv, Set
    <3> QED
      BY <2>2, <3>3, <3>4
  <2> QED
    BY <2>1, <2>2
<1>8. CASE ConnClosedReports(p)
  <2> DEFINE r == [b EXCEPT !.failing = b.failing - 1]
  <2>1. Set(p, r) /\ b.failing > 0 /\ Fail(Redis)
    BY <1>8 DEF ConnClosedReports
  <2>2. r \in PoolRecord /\ PoolOK(r)
    BY <1>1, <2>1 DEF PoolRecord, PoolOK, NoPool
  <2> QED
    BY <2>1, <2>2, <1>3, OnePool
<1>9. ASSUME NEW s \in {"dial", "ping", "ready", "closing", "backoff"}, Set(p, [b EXCEPT !.pc = s]),
             UNCHANGED <<healthMap, lostAtStart>>
      PROVE  PoolInv'
  <2> DEFINE r == [b EXCEPT !.pc = s]
  <2>1. r \in PoolRecord /\ PoolOK(r) /\ (Busy(b) => Busy(r))
    BY <1>1, <1>9 DEF PoolRecord, PoolOK, Busy
  <2> QED
    BY <2>1, <1>9, OnePool
<1>10. CASE Connect(p, ctxDone) \/ Ping(p, ctxDone) \/ Closed(p) \/ Retry(p)
  BY <1>9, <1>10 DEF Connect, Ping, Closed, Retry
<1>11. CASE Ready(p)
  <2> DEFINE r == [b EXCEPT !.pc = "up"]
  <2>1. Set(p, r) /\ lostAtStart' = (lostAtStart \/ b.active = 0)
    BY <1>11 DEF Ready
  <2>2. r \in PoolRecord /\ PoolOK(r) /\ r.active = b.active
    BY <1>1 DEF PoolRecord, PoolOK
  <2>3. b.active = 0 \/ b.active > 0
    BY <1>1 DEF PoolRecord
  <2>4. lostAtStart' \/ r.active > 0
    BY <2>1, <2>2, <2>3, Zenon
  <2> HIDE DEF r
  <2> QED
    BY <2>1, <2>2, <2>4, OnePool
<1> QED
  BY <1>4, <1>5, <1>6, <1>7, <1>8, <1>10, <1>11 DEF PoolStep

\* Every step keeps a connection or a callback behind a healthy report.
LEMMA PoolInvStep == ASSUME HealthInv, PoolInv, [Next]_vars PROVE PoolInv'
<1>1. CASE NewServer /\ Next
  <2>1. UNCHANGED <<pool, lostAtStart, activeCheck, settings>>
    BY <1>1 DEF NewServer, poolState
  <2>2. activeCheck => ~healthMap'[Redis]
    BY <1>1, NewServerHealth, DeploymentAssumption DEF PoolInv, Memcache
  <2> QED
    BY <2>1, <2>2 DEF PoolInv
<1>2. CASE PoolNext /\ Next
  BY <1>2, PoolStepKeeps, PoolFrame DEF PoolNext
<1>3. CASE createLimiter /\ Next /\ ~UNCHANGED pool
  <2>1. PICK i \in DOMAIN settings.pools :
          pool[settings.pools[i]].pc = "off" /\ Set(settings.pools[i], [NoPool EXCEPT !.pc = "dial"])
    BY <1>3 DEF createLimiter
  <2> DEFINE p == settings.pools[i]
             r == [NoPool EXCEPT !.pc = "dial"]
  <2>2. p \in Pools
    <3>1. settings.pools \in Seq(Pools)
      BY DeploymentAssumption DEF PoolInv
    <3> QED
      BY <3>1, <2>1
  <2>3. r \in PoolRecord /\ PoolOK(r) /\ ~Busy(NoPool)
    BY DEF NoPool, PoolRecord, PoolOK, Busy
  <2>4. pool[p] = NoPool
    BY <2>1, <2>2 DEF PoolInv, PoolOK
  <2>5. UNCHANGED <<healthMap, lostAtStart>>
    BY <1>3 DEF createLimiter, health
  <2> QED
    BY <1>3, <2>1, <2>2, <2>3, <2>4, <2>5, PoolFrame, OnePool
<1>4. CASE Next /\ ~NewServer /\ ~PoolNext /\ UNCHANGED pool
  BY <1>4, PoolFrame, RedisHealthFrame DEF PoolInv
<1>5. CASE UNCHANGED vars
  BY <1>5 DEF PoolInv, vars, poolState, health, control
<1> QED
  BY <1>1, <1>2, <1>3, <1>4, <1>5, PoolFrame

\* With REDIS_HEALTH_CHECK_ACTIVE_CONNECTION, no connection and no callback left
\* means that Redis is reported unhealthy, for every number and size of pools.
THEOREM ConnectionsSafe == Spec => []NoConnectionsIsUnhealthy
<1>1. PoolInv => NoConnectionsIsUnhealthy
  <2> SUFFICES ASSUME PoolInv, \A p \in Pools : pool[p].active = 0 /\ Quiet(p)
               PROVE  \A p \in Pools : ~Busy(pool[p])
    BY Zenon DEF PoolInv, NoConnectionsIsUnhealthy
  <2> QED
    BY DEF PoolInv, PoolRecord, Quiet, Busy
<1> QED
  BY <1>1, HealthInit, DrainInit, PoolInvInit, HealthStep, DrainStep, PoolInvStep, PTL DEF Spec

\* All parts together.
THEOREM ProcessInvariance == Spec => []IInv
BY HealthInit, DrainInit, ConfigInit, PoolInvInit, HealthStep, DrainStep, ConfigStep, PoolInvStep, PTL
   DEF Spec, IInv

==============================================================================
