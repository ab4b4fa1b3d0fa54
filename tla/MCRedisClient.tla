---------------------------- MODULE MCRedisClient ----------------------------
(* Instances of RedisClient for TLC.                                         *)
EXTENDS RedisClient

CONSTANTS p, q, cmd

\* A PipeDo and a DoCmd.  The pipeline has INCRBY and EXPIRE on a key and a
\* command on another key, in between.
PipeAndCmd == {p, cmd}
PipeOnly == {p}
Pipelines == [c \in PipeAndCmd |-> IF c = p THEN <<"a", "b", "a">> ELSE <<"a">>]

\* Two short calls, for the bound alone.
TwoCalls == {p, q}
ShortPipelines == [c \in TwoCalls |-> <<"a">>]

\* Single or sentinel mode, a serial cluster, one bounded by its pool, and an
\* automatic bound with no pool.
AllSettings ==
  {[cluster |-> FALSE, parallelism |-> 0, poolSize |-> 10],
   [cluster |-> TRUE,  parallelism |-> 1, poolSize |-> 10],
   [cluster |-> TRUE,  parallelism |-> 8, poolSize |-> 2],
   [cluster |-> TRUE,  parallelism |-> 0, poolSize |-> 0]}

SingleSetting == {[cluster |-> FALSE, parallelism |-> 0, poolSize |-> 10]}

=============================================================================
