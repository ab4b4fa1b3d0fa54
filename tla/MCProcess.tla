------------------------------ MODULE MCProcess ------------------------------
EXTENDS Process, TLC

CONSTANTS p1, p2, p3

Deployment(pools, check, type, verdicts, force, checkConfig) ==
  [pools |-> pools, activeCheck |-> check, configType |-> type, history |-> verdicts,
   force |-> force, checkConfig |-> checkConfig]

MCPoolSize == (p1 :> 1) @@ (p2 :> 1) @@ (p3 :> 2)

MCMaxCallbacks == MCPoolSize

\* Two pools and a larger one under health checks; a pool without, and a first
\* configuration with an error; memcache with each provider, and with a version
\* that makes the loader panic.
MCDeployments ==
  {Deployment(<<p1, p2>>, TRUE, "FILE", <<"full">>, FALSE, FALSE),
   Deployment(<<p3>>, TRUE, "FILE", <<"full">>, TRUE, FALSE),
   Deployment(<<p1>>, FALSE, "FILE", <<"error", "full">>, FALSE, FALSE),
   Deployment(<< >>, FALSE, "FILE", <<"full", "panic">>, FALSE, TRUE)}
  \cup {Deployment(<< >>, FALSE, type, verdicts, force, TRUE) :
          type \in {"FILE", "GRPC_XDS_SOTW"},
          verdicts \in {<<"full", "error", "empty">>, <<"malformed", "empty", "full">>},
          force \in BOOLEAN}

==============================================================================
