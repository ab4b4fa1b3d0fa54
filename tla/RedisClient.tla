----------------------------- MODULE RedisClient -----------------------------
(***************************************************************************)
(* One Redis client: concurrent calls of clientImpl.do, the bound on the   *)
(* commands in flight, the caller's deadline, the goroutine that outlives  *)
(* it, and the execution of a pipeline as one pipeline (single, sentinel)  *)
(* or as one group of commands per key (cluster), serial or concurrent.    *)
(*                                                                         *)
(* A call is PipeDo with a context that may be done at any time, or DoCmd  *)
(* with one that never is.  group[c][i] is the state of the group that     *)
(* command i is sent with.  The replies and receivers of a call are the    *)
(* sets of commands whose reply was decoded, and copied out.               *)
(***************************************************************************)
EXTENDS Naturals, Sequences, FiniteSets

CONSTANTS Calls,
          RoutingKeys,
          Pipeline,     \* Pipeline[c]: the routing keys of the commands of call c
          Cancelable,   \* the calls whose context has a Done channel
          MaxInflight,  \* REDIS_MAX_INFLIGHT, 0 when unbounded
          Settings      \* [cluster, parallelism, poolSize] a client may be given

ASSUME RedisClientAssumption ==
  /\ IsFiniteSet(Calls)
  /\ \A c \in Calls : Pipeline[c] \in Seq(RoutingKeys) /\ Pipeline[c] # <<>>
  /\ Cancelable \subseteq Calls
  /\ MaxInflight \in Nat
  /\ Settings \subseteq [cluster : BOOLEAN, parallelism : Nat, poolSize : Nat]

VARIABLES client,   \* [isCluster, parallelism]
          inflight, \* the number of tokens in the channel
          pc,       \* where each caller is in do
          ctxDone,  \* the context of the call is done
          fn,       \* the function that performs the I/O, and its deferred release
          done,     \* the channel that carries its error
          group,    \* the state of each group of commands
          applied,  \* the commands Redis executed
          reply,    \* the private receivers that were written
          rcv,      \* the caller's receivers that were written
          result    \* what do returned

vars == <<client, inflight, pc, ctxDone, fn, done, group, applied, reply, rcv, result>>

callerVars == <<pc, ctxDone, rcv, result>>
workVars == <<group, applied, reply>>

-----------------------------------------------------------------------------
(* Groups *)

Commands(c) == 1 .. Len(Pipeline[c])

\* A slip: an empty pool leaves no group that may run.
effectiveClusterPipelineParallelismNoFloor(configured, poolSize) ==
  IF configured = 1 THEN 1
  ELSE IF configured = 0 \/ configured > poolSize THEN poolSize
  ELSE configured

effectiveClusterPipelineParallelism(configured, poolSize) ==
  LET poolCeiling == IF poolSize < 1 THEN 1 ELSE poolSize IN
  IF configured = 1 THEN 1
  ELSE IF configured = 0 \/ configured > poolCeiling THEN poolCeiling
  ELSE configured

\* The commands that are sent together with g: those with its key in cluster
\* mode, else all of them.
Members(c, g) == {i \in Commands(c) : client.isCluster => Pipeline[c][i] = Pipeline[c][g]}

First(c, g) == \A i \in Members(c, g) : g <= i

InState(c, st) == {i \in Commands(c) : group[c][i] = st}

SetGroup(c, g, st) == group' = [group EXCEPT ![c] =
  [i \in Commands(c) |-> IF i \in Members(c, g) THEN st ELSE group[c][i]]]

Serial == client.parallelism = 1

-----------------------------------------------------------------------------
(* do, on the goroutine of the caller *)

Return(c, r) ==
  /\ pc' = [pc EXCEPT ![c] = "returned"]
  /\ result' = [result EXCEPT ![c] = r]

Call(c) ==
  /\ pc[c] = "idle"
  /\ IF ctxDone[c] THEN Return(c, "not sent")
     ELSE pc' = [pc EXCEPT ![c] = "acquire"] /\ UNCHANGED result
  /\ UNCHANGED <<client, inflight, ctxDone, fn, done, rcv, workVars>>

Full == MaxInflight # 0 /\ inflight = MaxInflight

Acquire(c) ==
  /\ pc[c] = "acquire" /\ ~Full
  /\ inflight' = IF MaxInflight = 0 THEN inflight ELSE inflight + 1
  /\ fn' = [fn EXCEPT ![c] = "running"]
  /\ pc' = [pc EXCEPT ![c] = "wait"]
  /\ UNCHANGED <<client, ctxDone, done, rcv, result, workVars>>

TooManyInflight(c) ==
  /\ pc[c] = "acquire" /\ Full
  /\ Return(c, "too many inflight")
  /\ UNCHANGED <<client, inflight, ctxDone, fn, done, rcv, workVars>>

\* A slip: the error is not looked at.
CommitAlways(c) == rcv' = [rcv EXCEPT ![c] = reply[c]]

\* onSuccess (copyReply, commitReplies) on the caller's goroutine.
Commit(c) ==
  rcv' = IF done[c] = "ok" THEN [rcv EXCEPT ![c] = reply[c]] ELSE rcv

\* fn returned in time, or the reply is preferred to the deadline.
Receive(c) ==
  /\ c \in Cancelable
  /\ pc[c] \in {"wait", "late"} /\ done[c] # "empty"
  /\ Commit(c) /\ Return(c, done[c])
  /\ UNCHANGED <<client, inflight, ctxDone, fn, done, workVars>>

\* A slip: the caller waits for fn whatever happens to its context.
SeeDeadlineAfterReply(c) ==
  /\ c \in Cancelable
  /\ pc[c] = "wait" /\ ctxDone[c] /\ done[c] # "empty"
  /\ pc' = [pc EXCEPT ![c] = "late"]
  /\ UNCHANGED <<client, inflight, ctxDone, fn, done, rcv, result, workVars>>

SeeDeadline(c) ==
  /\ c \in Cancelable
  /\ pc[c] = "wait" /\ ctxDone[c]
  /\ pc' = [pc EXCEPT ![c] = "late"]
  /\ UNCHANGED <<client, inflight, ctxDone, fn, done, rcv, result, workVars>>

\* A slip: the release is deferred by do, not by its goroutine.
GiveUpReleases(c) ==
  /\ pc[c] = "late" /\ done[c] = "empty"
  /\ Return(c, "gave up")
  /\ inflight' = IF MaxInflight = 0 THEN inflight ELSE inflight - 1
  /\ UNCHANGED <<client, ctxDone, fn, done, rcv, workVars>>

GiveUp(c) ==
  /\ pc[c] = "late" /\ done[c] = "empty"
  /\ Return(c, "gave up")
  /\ UNCHANGED <<client, inflight, ctxDone, fn, done, rcv, workVars>>

ReleaseToken == inflight' = IF MaxInflight = 0 THEN inflight ELSE inflight - 1

\* The context can never be done: fn ran on this goroutine, and the deferred
\* release comes after onSuccess.
ReturnSync(c) ==
  /\ c \notin Cancelable
  /\ pc[c] = "wait" /\ fn[c] = "finished"
  /\ Commit(c) /\ Return(c, done[c])
  /\ ReleaseToken
  /\ fn' = [fn EXCEPT ![c] = "released"]
  /\ UNCHANGED <<client, ctxDone, done, workVars>>

-----------------------------------------------------------------------------
(* fn: pipeDo, executeGroupedPipeline *)

\* Groups are started in order of their first command: one after the other, up
\* to the first error, or by the errgroup as its limit allows.
Launch(c, g) ==
  /\ fn[c] = "running" /\ g \in InState(c, "todo")
  /\ \A h \in InState(c, "todo") : g <= h
  /\ Cardinality({h \in InState(c, "running") : First(c, h)}) < client.parallelism
  /\ Serial => InState(c, "failed") = {}
  /\ SetGroup(c, g, "running")
  /\ UNCHANGED <<client, inflight, callerVars, fn, done, applied, reply>>

\* External: a command reached Redis.  It may do so after its connection failed
\* for the client.
Apply(c, i) ==
  /\ group[c][i] \in {"running", "failed"}
  /\ i \notin applied[c]
  /\ \A j \in Members(c, i) : j < i => j \in applied[c]
  /\ applied' = [applied EXCEPT ![c] = @ \cup {i}]
  /\ UNCHANGED <<client, inflight, callerVars, fn, done, group, reply>>

\* client.Do returned nil: every reply was decoded.
GroupOk(c, g) ==
  /\ fn[c] = "running" /\ group[c][g] = "running" /\ First(c, g)
  /\ Members(c, g) \subseteq applied[c]
  /\ SetGroup(c, g, "ok")
  /\ reply' = [reply EXCEPT ![c] = @ \cup Members(c, g)]
  /\ UNCHANGED <<client, inflight, callerVars, fn, done, applied>>

\* client.Do failed, after it decoded some of the replies: an error reply, a
\* broken connection, the I/O timeout, a context that is done.
GroupFails(c, g) ==
  /\ fn[c] = "running" /\ group[c][g] = "running" /\ First(c, g)
  /\ SetGroup(c, g, "failed")
  /\ \E n \in 0 .. Len(Pipeline[c]) :
       LET decoded == {i \in Members(c, g) : i <= n} IN
       /\ decoded \subseteq applied[c]
       /\ reply' = [reply EXCEPT ![c] = @ \cup decoded]
  /\ UNCHANGED <<client, inflight, callerVars, fn, done, applied>>

\* A slip: the last group that was started ended, others were not started yet.
CompletedEarly(c) == InState(c, "running") = {} /\ InState(c, "todo") # Commands(c)

\* Every group has returned, or the first error ended the serial loop.
Completed(c) ==
  /\ InState(c, "running") = {}
  /\ InState(c, "todo") = {} \/ (Serial /\ InState(c, "failed") # {})

\* A slip: the channel has no buffer, the send waits for a receiver.
FnReturnsUnbuffered(c) ==
  /\ fn[c] = "running" /\ Completed(c) /\ pc[c] # "returned"
  /\ fn' = [fn EXCEPT ![c] = "finished"]
  /\ done' = [done EXCEPT ![c] = IF InState(c, "failed") = {} THEN "ok" ELSE "error"]
  /\ UNCHANGED <<client, inflight, callerVars, workVars>>

FnReturns(c) ==
  /\ fn[c] = "running" /\ Completed(c)
  /\ fn' = [fn EXCEPT ![c] = "finished"]
  /\ done' = [done EXCEPT ![c] = IF InState(c, "failed") = {} THEN "ok" ELSE "error"]
  /\ UNCHANGED <<client, inflight, callerVars, workVars>>

\* The deferred release of the goroutine runs after the send on done.
Release(c) ==
  /\ c \in Cancelable
  /\ fn[c] = "finished"
  /\ fn' = [fn EXCEPT ![c] = "released"]
  /\ ReleaseToken
  /\ UNCHANGED <<client, callerVars, done, workVars>>

\* The deadline passes, or the caller's client goes away.
ContextDone(c) ==
  /\ c \in Cancelable /\ ~ctxDone[c] /\ result[c] = "none"
  /\ ctxDone' = [ctxDone EXCEPT ![c] = TRUE]
  /\ UNCHANGED <<client, inflight, pc, fn, done, rcv, result, workVars>>

\* Every call has returned; what some of them left behind may go on.
Terminated ==
  /\ \A c \in Calls : pc[c] = "returned"
  /\ UNCHANGED vars

-----------------------------------------------------------------------------

Init ==
  /\ \E s \in Settings : client =
       [isCluster |-> s.cluster,
        parallelism |-> IF s.cluster
          THEN effectiveClusterPipelineParallelism(s.parallelism, s.poolSize) ELSE 1]
  /\ inflight = 0
  /\ pc = [c \in Calls |-> "idle"]
  /\ ctxDone = [c \in Calls |-> FALSE]
  /\ fn = [c \in Calls |-> "none"]
  /\ done = [c \in Calls |-> "empty"]
  /\ group = [c \in Calls |-> [i \in Commands(c) |-> "todo"]]
  /\ applied = [c \in Calls |-> {}]
  /\ reply = [c \in Calls |-> {}]
  /\ rcv = [c \in Calls |-> {}]
  /\ result = [c \in Calls |-> "none"]

CallerStep(c) ==
  \/ Call(c) \/ Acquire(c) \/ TooManyInflight(c)
  \/ Receive(c) \/ SeeDeadline(c) \/ GiveUp(c) \/ ReturnSync(c)

WorkStep(c) == (\E g \in Commands(c) : Launch(c, g)) \/ FnReturns(c) \/ Release(c)

Answer(c, g) == GroupOk(c, g) \/ GroupFails(c, g)

Next ==
  \/ \E c \in Calls : CallerStep(c) \/ WorkStep(c) \/ ContextDone(c)
  \/ \E c \in Calls : \E i \in Commands(c) : Apply(c, i) \/ Answer(c, i)
  \/ Terminated

Spec == Init /\ [][Next]_vars

\* The goroutines are scheduled.  Nothing is assumed of Redis.
Fairness == \A c \in Calls : WF_vars(CallerStep(c)) /\ WF_vars(WorkStep(c))

FairSpec == Spec /\ Fairness

-----------------------------------------------------------------------------
(* Properties *)

\* Type invariant: every error of do is one the code can return.
TypeOK ==
  /\ client \in [isCluster : BOOLEAN, parallelism : Nat \ {0}]
  /\ inflight \in Nat
  /\ pc \in [Calls -> {"idle", "acquire", "wait", "late", "returned"}]
  /\ ctxDone \in [Calls -> BOOLEAN]
  /\ fn \in [Calls -> {"none", "running", "finished", "released"}]
  /\ done \in [Calls -> {"empty", "ok", "error"}]
  /\ DOMAIN group = Calls
  /\ \A c \in Calls : group[c] \in [Commands(c) -> {"todo", "running", "ok", "failed"}]
  /\ applied \in [Calls -> SUBSET Nat]
  /\ reply \in [Calls -> SUBSET Nat]
  /\ rcv \in [Calls -> SUBSET Nat]
  /\ \A c \in Calls : applied[c] \cup reply[c] \cup rcv[c] \subseteq Commands(c)
  /\ result \in [Calls -> {"none", "ok", "error", "not sent", "too many inflight", "gave up"}]

Holders == {c \in Calls : fn[c] \in {"running", "finished"}}

\* REDIS_MAX_INFLIGHT bounds the commands in flight, those whose caller gave up
\* included, and every token in the channel belongs to one of them: none is
\* leaked or given back twice, however a call ends.
InflightBound ==
  MaxInflight # 0 =>
    inflight = Cardinality(Holders) /\ Cardinality(Holders) <= MaxInflight

\* The inductive invariant: where a call and its goroutine are tells what the
\* channel carries, only a call that got a token has started a group, a group
\* that is ok has had all its commands applied and its replies decoded, and fn
\* returns no error only when every group is ok.
CommandInv(c, i) ==
  /\ fn[c] = "none" => group[c][i] = "todo"
  /\ group[c][i] = "todo" => i \notin applied[c]
  /\ group[c][i] = "ok" => i \in applied[c] /\ i \in reply[c]
  /\ done[c] = "ok" => group[c][i] = "ok"

CallInv(c) ==
  /\ result[c] = "none" <=> pc[c] # "returned"
  /\ fn[c] = "none" <=>
       pc[c] \in {"idle", "acquire"} \/ result[c] \in {"not sent", "too many inflight"}
  /\ done[c] = "empty" <=> fn[c] \in {"none", "running"}
  /\ \A i \in Commands(c) : CommandInv(c, i)
  /\ result[c] = "ok" => done[c] = "ok"

IInv == TypeOK /\ InflightBound /\ \A c \in Calls : CallInv(c)

\* The client implements PipeDo's promise, in every mode: all receivers are
\* written if and only if no error is returned, after all commands were applied,
\* and never after the return; commands on one key keep their order; what was
\* refused is never sent.
Outcome(r) ==
  IF r \in {"not sent", "too many inflight"} THEN "refused"
  ELSE IF r = "gave up" THEN "error" ELSE r

Promise == INSTANCE PipeDo WITH result <- [c \in Calls |-> Outcome(result[c])]

ImplementsPipeDo == Promise!Spec

\* A caller whose context is done returns, even if Redis never answers again.
ReturnsByDeadline == \A c \in Cancelable :
  ctxDone[c] /\ pc[c] # "idle" ~> pc[c] = "returned"

\* The I/O timeout ends every attempt to talk to Redis.
IOTimeout == \A c \in Calls : WF_vars(\E g \in Commands(c) : Answer(c, g))

\* With an I/O timeout the goroutine a caller left behind ends and gives its
\* token back: a client that refused calls accepts them again.
TokensComeBack == IOTimeout => \A c \in Calls :
  fn[c] = "running" ~> fn[c] = "released"

\* "ErrTooManyInflight is returned when a Redis client already has the maximum
\* number of commands in flight": a call is refused only while MaxInflight
\* commands are executing.
RefusedOnlyWhenBusy == [][\A c \in Calls :
  TooManyInflight(c) => Cardinality({d \in Calls : fn[d] = "running"}) = MaxInflight]_vars

=============================================================================
