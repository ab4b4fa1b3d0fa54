------------------------------- MODULE Process -------------------------------
(***************************************************************************)
(* The life of the process: Runner.Run, the server's Start and Stop, the     *)
(* service's reloads, the signals, and the requests in progress, composed    *)
(* with the provider, the Redis pools and the health checker.               *)
(*                                                                          *)
(* Every goroutine is a program counter.  Redis calls, HTTP and gRPC are     *)
(* external: a request is in progress or not.  The debug listener, tracing   *)
(* and the text of answers are left out.                                    *)
(***************************************************************************)
EXTENDS RedisPool, Provider

CONSTANTS
  Deployments,  \* settings: a set of records [pools, activeCheck, configType, history, force, checkConfig]
  MaxRequests   \* bound on the requests in progress, per listener

\* REDIS_HEALTH_CHECK_ACTIVE_CONNECTION says something only where there are pools.
ASSUME DeploymentAssumption ==
  \A d \in Deployments : d.pools \in Seq(Pools) /\ (d.activeCheck => d.pools # << >>)

VARIABLES
  settings,     \* one of Deployments; without pools the backend is memcache
  main,         \* where Runner.Run is
  ctxDone,
  signals,      \* the signal goroutines that have a signal to receive
  signalled,    \* a signal was sent (one is enough: the runner reads one)
  service,      \* [pc, version]: the goroutine of NewService
  config,       \* the installed version; 0 is nil
  grpcServer,   \* "new", "serving", "draining", "stopped"
  httpServer,   \* "nil", "open", "closed"
  stopper,      \* the goroutine of handleGracefulShutdown
  requests,     \* [grpc, json]: requests in progress
  limiterClosed

poolState == <<pool, activeCheck, lostAtStart>>
providerState == <<configType, history, source, notify, provider>>
health == <<healthMap, ok>>
serverState == <<grpcServer, httpServer, stopper>>
control == <<settings, main, ctxDone, signals, signalled>>
vars == <<poolState, providerState, health, serverState, control, service, config,
          requests, limiterClosed>>

Alive == main \notin {"done", "crashed"}

Memcache == settings.pools = << >>

-----------------------------------------------------------------------------
(* Runner.Run *)

Init ==
  /\ PoolInit
  /\ ProviderInit
  /\ settings \in Deployments
  /\ activeCheck = settings.activeCheck
  /\ configType = settings.configType /\ history = settings.history
  /\ main = "server" /\ ctxDone = FALSE /\ signals = {} /\ signalled = FALSE
  /\ healthMap = [c \in {Redis, Sigterm} |-> c = Sigterm] /\ ok = FALSE
  /\ service = [pc |-> "off", version |-> 0] /\ config = 0
  /\ grpcServer = "new" /\ httpServer = "nil" /\ stopper = "off"
  /\ requests = [grpc |-> 0, json |-> 0] /\ limiterClosed = FALSE

NewServer ==
  /\ main = "server"
  /\ NewProvider
  /\ NewHealthChecker(settings.checkConfig, Memcache)
  /\ main' = "limiter"
  /\ UNCHANGED <<poolState, serverState, settings, ctxDone, signals, signalled, service, config,
                 requests, limiterClosed, configType, history, source, notify>>

\* createLimiter: one pool after the other, the per-second one first; each call
\* of newClientImpl returns when its pool is up.
createLimiter ==
  /\ main = "limiter"
  /\ \/ (\A i \in DOMAIN settings.pools : pool[settings.pools[i]].pc = "up") /\ main' = "service" /\ UNCHANGED pool
     \/ \E i \in DOMAIN settings.pools :
          /\ pool[settings.pools[i]].pc = "off"
          /\ \A j \in 1 .. i - 1 : pool[settings.pools[j]].pc = "up"
          /\ Set(settings.pools[i], [NoPool EXCEPT !.pc = "dial"])
          /\ UNCHANGED main
  /\ UNCHANGED <<activeCheck, lostAtStart, providerState, health, serverState, settings, ctxDone,
                 signals, signalled, service, config, requests, limiterClosed>>

\* retryOrDie panics after the maximal elapsed time or when ctx is done; no
\* deferred call of Run closes a limiter yet.
newClientDies ==
  /\ main = "limiter"
  /\ \E p \in Pools : pool[p].pc = "backoff"
  /\ main' = "crashed"
  /\ UNCHANGED <<poolState, providerState, health, serverState, settings, ctxDone, signals,
                 signalled, service, config, requests, limiterClosed>>

\* NewService, but for the first event (see SetConfig).
NewService ==
  /\ main = "service" /\ service.pc = "off"
  /\ IF settings.force
     THEN service' = [service EXCEPT !.pc = "wait"] /\ main' = "start"
     ELSE service' = [service EXCEPT !.pc = "first"] /\ UNCHANGED main
  /\ UNCHANGED <<poolState, providerState, health, serverState, settings, ctxDone, signals,
                 signalled, config, requests, limiterClosed>>

\* The deferred Close of the limiter; the process ends with main.
CloseLimiter ==
  /\ main = "close"
  /\ limiterClosed' = TRUE
  /\ main' = "done"
  /\ UNCHANGED <<poolState, providerState, health, serverState, settings, ctxDone, signals,
                 signalled, service, config, requests>>

-----------------------------------------------------------------------------
(* Signals.  SIGINT and SIGHUP are for the runner, SIGTERM is for both. *)

Signal ==
  /\ ~signalled
  /\ \/ signals' = {"runner"}
     \/ signals' = {"runner"} \cup (IF main = "server" THEN {} ELSE {"health"})
  /\ signalled' = TRUE
  /\ UNCHANGED <<poolState, providerState, health, serverState, settings, main, ctxDone, service,
                 config, requests, limiterClosed>>

Cancel ==
  /\ "runner" \in signals
  /\ ctxDone' = TRUE
  /\ signals' = signals \ {"runner"}
  /\ UNCHANGED <<poolState, providerState, health, serverState, settings, main, signalled, service,
                 config, requests, limiterClosed>>

SigtermHealth ==
  /\ "health" \in signals
  /\ Fail(Sigterm)
  /\ signals' = signals \ {"health"}
  /\ UNCHANGED <<poolState, providerState, serverState, settings, main, ctxDone, signalled, service,
                 config, requests, limiterClosed>>

-----------------------------------------------------------------------------
(* The service's side of the event channel: SetConfig of service/ratelimit.go *)

\* SetConfig returned: NewService is done with the first event.
Returned ==
  /\ service' = [service EXCEPT !.pc = "wait"]
  /\ main' = IF main = "service" THEN "start" ELSE main

\* An event is received; one with an error of the loader changes nothing, and one
\* with any other panics on the goroutine of NewService.
Receive ==
  /\ service.pc \in {"first", "wait"}
  /\ ConfigUpdateEvent
  /\ LET verdict == history[provider.version]
     IN \/ /\ verdict \in {"full", "empty"}
           /\ service' = [pc |-> IF settings.checkConfig THEN "health" ELSE "install",
                          version |-> provider.version]
           /\ UNCHANGED main
        \/ verdict \in {"error", "malformed"} /\ Returned
        \/ verdict = "panic" /\ main' = "crashed" /\ UNCHANGED service
  /\ UNCHANGED <<poolState, configType, history, source, notify, health, serverState, settings,
                 ctxDone, signals, signalled, config, requests, limiterClosed>>

\* A slip: an empty configuration is not reported.
ReportConfigOk ==
  /\ service.pc = "health"
  /\ Ok(Config)
  /\ service' = [service EXCEPT !.pc = "install"]
  /\ UNCHANGED <<poolState, providerState, serverState, control, config, requests, limiterClosed>>

\* The health of the configuration is reported before it is installed.
ReportConfig ==
  /\ service.pc = "health"
  /\ IF history[service.version] = "full" THEN Ok(Config) ELSE Fail(Config)
  /\ service' = [service EXCEPT !.pc = "install"]
  /\ UNCHANGED <<poolState, providerState, serverState, control, config, requests, limiterClosed>>

Install ==
  /\ service.pc = "install"
  /\ config' = service.version
  /\ Returned
  /\ UNCHANGED <<poolState, providerState, health, serverState, settings, ctxDone, signals,
                 signalled, requests, limiterClosed>>

-----------------------------------------------------------------------------
(* server_impl.go: Start *)

\* The goroutines of gRPC and of the shutdown are started.
Start ==
  /\ main = "start"
  /\ main' = "listen"
  /\ stopper' = "wait"
  /\ UNCHANGED <<poolState, providerState, health, grpcServer, httpServer, settings, ctxDone,
                 signals, signalled, service, config, requests, limiterClosed>>

\* startGrpc; Serve returns at once when the server was stopped before.
startGrpc ==
  /\ stopper # "off" /\ grpcServer = "new"
  /\ \/ grpcServer' = "serving" /\ UNCHANGED main
     \/ main' = "crashed" /\ UNCHANGED grpcServer
  /\ UNCHANGED <<poolState, providerState, health, httpServer, stopper, settings, ctxDone, signals,
                 signalled, service, config, requests, limiterClosed>>

\* The HTTP listener, then httpServer under the lock that Stop may hold.
Listen ==
  /\ main = "listen"
  /\ \/ stopper # "provider" /\ httpServer' = "open" /\ main' = "serve"
     \/ main' = "crashed" /\ UNCHANGED httpServer
  /\ UNCHANGED <<poolState, providerState, health, grpcServer, stopper, settings, ctxDone, signals,
                 signalled, service, config, requests, limiterClosed>>

ServeReturns ==
  /\ main = "serve" /\ httpServer = "closed"
  /\ main' = "close"
  /\ UNCHANGED <<poolState, providerState, health, serverState, settings, ctxDone, signals,
                 signalled, service, config, requests, limiterClosed>>

-----------------------------------------------------------------------------
(* server_impl.go: handleGracefulShutdown and Stop *)

\* GracefulStop refuses new calls ...
Stop ==
  /\ stopper = "wait" /\ ctxDone
  /\ stopper' = "drain"
  /\ grpcServer' = "draining"
  /\ UNCHANGED <<poolState, providerState, health, httpServer, control, service, config, requests,
                 limiterClosed>>

\* A slip: the calls in progress are not waited for.
StopAtOnce ==
  /\ stopper = "drain"
  /\ grpcServer' = "stopped"
  /\ stopper' = "provider"
  /\ httpServer' = IF httpServer = "nil" THEN "nil" ELSE "closed"
  /\ UNCHANGED <<poolState, providerState, health, control, service, config, requests, limiterClosed>>

\* A slip: the provider is stopped before the HTTP server.
DrainedProviderFirst ==
  /\ stopper = "drain" /\ requests.grpc = 0
  /\ StopReceived
  /\ grpcServer' = "stopped"
  /\ stopper' = "provider"
  /\ httpServer' = IF httpServer = "nil" THEN "nil" ELSE "closed"
  /\ UNCHANGED <<poolState, configType, history, source, notify, health, control, service, config,
                 requests, limiterClosed>>

\* ... and waits for those in progress; then, with the lock, the HTTP server is closed.
Drained ==
  /\ stopper = "drain" /\ requests.grpc = 0
  /\ grpcServer' = "stopped"
  /\ stopper' = "provider"
  /\ httpServer' = IF httpServer = "nil" THEN "nil" ELSE "closed"
  /\ UNCHANGED <<poolState, providerState, health, control, service, config, requests, limiterClosed>>

\* The provider is stopped with the lock held.
StopProvider ==
  /\ stopper = "provider"
  /\ StopReceived
  /\ stopper' = "done"
  /\ UNCHANGED <<poolState, configType, history, source, notify, health, grpcServer, httpServer,
                 control, service, config, requests, limiterClosed>>

-----------------------------------------------------------------------------
(* Requests.  GracefulStop waits for gRPC calls; nothing waits for /json, whose
   handler calls the service itself. *)

BeginRequest ==
  /\ \/ /\ grpcServer = "serving" /\ requests.grpc < MaxRequests
        /\ requests' = [requests EXCEPT !.grpc = @ + 1]
     \/ /\ main = "serve" /\ httpServer = "open" /\ requests.json < MaxRequests
        /\ requests' = [requests EXCEPT !.json = @ + 1]
  /\ UNCHANGED <<poolState, providerState, health, serverState, control, service, config,
                 limiterClosed>>

EndRequest(kind) ==
  /\ requests[kind] > 0
  /\ requests' = [requests EXCEPT ![kind] = @ - 1]
  /\ UNCHANGED <<poolState, providerState, health, serverState, control, service, config,
                 limiterClosed>>

-----------------------------------------------------------------------------
PoolNext ==
  /\ \E p \in Pools : PoolStep(p, ctxDone)
  /\ UNCHANGED <<activeCheck, providerState, serverState, control, service, config, requests,
                 limiterClosed>>

ProviderNext ==
  /\ ProviderGoroutines
  /\ UNCHANGED <<poolState, configType, history, health, serverState, control, service, config,
                 requests, limiterClosed>>

\* The watcher has no stream at all, and the library (external) uses it.
FetchPanics ==
  /\ provider.watch = "blind" /\ ~provider.stream
  /\ main' = "crashed"
  /\ UNCHANGED <<poolState, providerState, health, serverState, settings, ctxDone, signals,
                 signalled, service, config, requests, limiterClosed>>

SourceNext ==
  /\ main # "server" /\ Publish
  /\ UNCHANGED <<poolState, configType, history, health, serverState, control, service, config,
                 requests, limiterClosed>>

MainNext ==
  \/ NewServer \/ createLimiter \/ newClientDies \/ NewService
  \/ Start \/ Listen \/ ServeReturns \/ CloseLimiter

SignalNext == Cancel \/ SigtermHealth

ServiceNext == Receive \/ ReportConfig \/ Install

StopNext == Stop \/ Drained \/ StopProvider

Next ==
  /\ Alive
  /\ \/ MainNext \/ startGrpc \/ Signal \/ SignalNext \/ ServiceNext \/ StopNext
     \/ BeginRequest \/ EndRequest("grpc") \/ EndRequest("json")
     \/ PoolNext \/ ProviderNext \/ FetchPanics \/ SourceNext

Spec == Init /\ [][Next]_vars

\* Goroutines are scheduled, requests end (a Redis call has a deadline), and the
\* management server can be reached again.
Fairness ==
  /\ WF_vars(Alive /\ MainNext) /\ WF_vars(Alive /\ startGrpc)
  /\ WF_vars(Alive /\ SignalNext) /\ WF_vars(Alive /\ ServiceNext)
  /\ WF_vars(Alive /\ StopNext)
  /\ WF_vars(Alive /\ EndRequest("grpc"))
  /\ WF_vars(Alive /\ (ProviderNext \/ FetchPanics))

FairSpec == Spec /\ Fairness

-----------------------------------------------------------------------------
(* Properties *)

\* Once the health checker has seen SIGTERM the service is never reported healthy
\* again, whatever the pools and the configuration report afterwards (health.go).
ReadinessNeverReturns == [][~healthMap[Sigterm] => ~ok']_vars

\* With HEALTHY_WITH_AT_LEAST_ONE_CONFIG_LOADED the health of the configuration says
\* whether the installed one has a domain, through rejected and empty
\* configurations; only between the report and the installation of SetConfig
\* it speaks of the next one.
ConfigHealthAgrees ==
  settings.checkConfig /\ main # "server" /\ service.pc # "install"
    => (healthMap[Config] <=> config # 0 /\ history[config] = "full")

\* When Run closes the limiter every gRPC call has been answered: Start returns
\* only when Stop closes the HTTP server, after GracefulStop.
LimiterClosedAfterDrain ==
  main = "close" \/ limiterClosed => grpcServer = "stopped" /\ requests.grpc = 0

\* A shutdown that begins while the server serves ends the process, even when the
\* provider cannot be stopped (it is stopped last, and Run does not wait for Stop).
\* One that begins before Start has set httpServer may not: Stop finds nothing to
\* close, and Start then serves for ever.
ShutdownCompletes == main = "serve" /\ stopper = "wait" /\ ctxDone ~> ~Alive

\* A running process installs the latest configuration if it is valid, through
\* rejected versions and broken streams; excepted is an xDS provider whose dial
\* returned an error (it waits for itself), and one that was stopped.
LatestConfigInstalled ==
  main = "serve" /\ source = Len(history) /\ history[source] \in {"full", "empty"}
    ~> config = Len(history) \/ provider.loop \in {"stuck", "exit"} \/ ~Alive

=============================================================================
