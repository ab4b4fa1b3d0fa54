---------------------------- MODULE HealthChecker ----------------------------
(***************************************************************************)
(* server/health.go.  Ok and Fail run under the mutex.  ok stands for the    *)
(* flag behind /healthcheck and for the status of the gRPC health service,   *)
(* which the same critical sections set together.                           *)
(***************************************************************************)

VARIABLES
  healthMap,   \* component -> healthy
  ok

Redis == "redis"
Config == "config"
Sigterm == "sigterm"

areAllComponentsHealthy(map) == \A c \in DOMAIN map : map[c]

\* Only what has to become healthy starts unhealthy.
NewHealthChecker(healthyWithAtLeastOneConfigLoad, redisHealthy) ==
  LET map == [c \in {Redis, Sigterm} \cup (IF healthyWithAtLeastOneConfigLoad THEN {Config} ELSE {}) |->
                c = Sigterm \/ (c = Redis /\ redisHealthy)]
  IN healthMap' = map /\ ok' = areAllComponentsHealthy(map)

Fail(component) ==
  IF component \in DOMAIN healthMap
  THEN healthMap' = [healthMap EXCEPT ![component] = FALSE] /\ ok' = FALSE
  ELSE UNCHANGED <<healthMap, ok>>

\* A slip: any healthy component makes the service healthy.
OkAtOnce(component) ==
  IF component \in DOMAIN healthMap
  THEN healthMap' = [healthMap EXCEPT ![component] = TRUE] /\ ok' = TRUE
  ELSE UNCHANGED <<healthMap, ok>>

Ok(component) ==
  IF component \in DOMAIN healthMap
  THEN /\ healthMap' = [healthMap EXCEPT ![component] = TRUE]
       /\ ok' = (ok \/ areAllComponentsHealthy(healthMap'))
  ELSE UNCHANGED <<healthMap, ok>>

==============================================================================
