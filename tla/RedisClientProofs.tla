-------------------------- MODULE RedisClientProofs --------------------------
(***************************************************************************)
(* RedisClient keeps its inductive invariant and implements PipeDo, for    *)
(* any number of calls, any pipelines, any bound and any settings.         *)
(***************************************************************************)
EXTENDS RedisClient, FiniteSetTheorems, TLAPS

\* The commands of a pipeline, the length of which is a natural number.
LEMMA PipelineLength ==
  ASSUME NEW c \in Calls
  PROVE  Len(Pipeline[c]) \in Nat
BY RedisClientAssumption

\* The configured parallelism is never rounded down to nothing
\* (effectiveClusterPipelineParallelism).
LEMMA ParallelismPositive ==
  ASSUME NEW n \in Nat, NEW poolSize \in Nat
  PROVE  effectiveClusterPipelineParallelism(n, poolSize) \in Nat \ {0}
BY DEF effectiveClusterPipelineParallelism

\* The calls that hold a token are finitely many.
LEMMA HoldersFinite == IsFiniteSet(Holders) /\ Cardinality(Holders) \in Nat
<1>1. Holders \in SUBSET Calls
  BY DEF Holders
<1>2. IsFiniteSet(Holders)
  BY <1>1, FS_Subset, RedisClientAssumption, Zenon
<1> QED
  BY <1>2, FS_CardinalityType, Zenon

-----------------------------------------------------------------------------
(* Initial states *)

\* The program starts with no call under way: the invariant holds.
LEMMA InitIInv == Init => IInv
<1> SUFFICES ASSUME Init PROVE IInv
  OBVIOUS
<1>1. client \in [isCluster : BOOLEAN, parallelism : Nat \ {0}]
  <2>1. PICK s \in Settings : client =
          [isCluster |-> s.cluster,
           parallelism |-> IF s.cluster
             THEN effectiveClusterPipelineParallelism(s.parallelism, s.poolSize) ELSE 1]
    BY DEF Init
  <2>2. s \in [cluster : BOOLEAN, parallelism : Nat, poolSize : Nat]
    BY RedisClientAssumption
  <2>3. effectiveClusterPipelineParallelism(s.parallelism, s.poolSize) \in Nat \ {0}
    BY <2>2, ParallelismPositive
  <2> QED
    BY <2>1, <2>2, <2>3
<1>2. TypeOK
  BY <1>1 DEF Init, TypeOK
<1>3. InflightBound
  <2>1. Holders = {}
    BY DEF Init, Holders
  <2> QED
    BY <2>1, FS_EmptySet, RedisClientAssumption DEF Init, InflightBound
<1>4. \A c \in Calls : CallInv(c)
  BY DEF Init, CallInv, CommandInv
<1> QED
  BY <1>2, <1>3, <1>4 DEF IInv

-----------------------------------------------------------------------------
(* Tokens *)

\* A step that neither starts nor releases a function keeps the account.
LEMMA TokensKept ==
  ASSUME InflightBound, inflight' = inflight,
         \A c \in Calls : fn[c] \in {"running", "finished"} <=> fn'[c] \in {"running", "finished"}
  PROVE  InflightBound'
<1>1. Holders' = Holders
  BY DEF Holders
<1> QED
  BY <1>1 DEF InflightBound

\* Starting a function takes one token (the send on inflight).
LEMMA TokenTaken ==
  ASSUME TypeOK, InflightBound, NEW c \in Calls, fn[c] = "none", ~Full,
         inflight' = (IF MaxInflight = 0 THEN inflight ELSE inflight + 1),
         fn' = [fn EXCEPT ![c] = "running"]
  PROVE  InflightBound' /\ inflight' \in Nat
<1>1. Holders' = Holders \cup {c}
  BY DEF Holders, TypeOK
<1>2. c \notin Holders
  BY DEF Holders
<1>3. Cardinality(Holders') = Cardinality(Holders) + 1
  BY <1>1, <1>2, HoldersFinite, FS_AddElement
<1>4. inflight \in Nat /\ MaxInflight \in Nat
  BY RedisClientAssumption DEF TypeOK
<1> QED
  BY <1>3, <1>4, HoldersFinite DEF InflightBound, Full

\* The deferred release gives back the one token the function holds.
LEMMA TokenReleased ==
  ASSUME TypeOK, InflightBound, NEW c \in Calls, fn[c] = "finished", ReleaseToken,
         fn' = [fn EXCEPT ![c] = "released"]
  PROVE  InflightBound' /\ inflight' \in Nat
<1>1. Holders' = Holders \ {c}
  BY DEF Holders, TypeOK
<1>2. c \in Holders
  BY DEF Holders
<1>3. Cardinality(Holders') = Cardinality(Holders) - 1
  BY <1>1, <1>2, HoldersFinite, FS_RemoveElement
<1>4. Cardinality(Holders) # 0
  BY <1>2, HoldersFinite, FS_EmptySet
<1>5. inflight \in Nat /\ MaxInflight \in Nat
  BY RedisClientAssumption DEF TypeOK
<1> QED
  BY <1>3, <1>4, <1>5, HoldersFinite DEF InflightBound, ReleaseToken

-----------------------------------------------------------------------------
(* Steps.  A step of call c leaves the other calls as they are. *)

\* What is invariant of a call holds as long as nothing of it changes.
LEMMA CallKept ==
  ASSUME NEW d \in Calls, CallInv(d),
         pc'[d] = pc[d], result'[d] = result[d], fn'[d] = fn[d], done'[d] = done[d],
         group'[d] = group[d], applied'[d] = applied[d], reply'[d] = reply[d]
  PROVE  CallInv(d)'
BY DEF CallInv, CommandInv, Commands

PcType == [Calls -> {"idle", "acquire", "wait", "late", "returned"}]
FnType == [Calls -> {"none", "running", "finished", "released"}]
ResultType ==
  [Calls -> {"none", "ok", "error", "not sent", "too many inflight", "gave up"}]

\* The types of what the steps of a caller change.
LEMMA CallerType ==
  ASSUME TypeOK, inflight' \in Nat, pc' \in PcType, fn' \in FnType, result' \in ResultType,
         rcv' \in [Calls -> SUBSET Nat], \A c \in Calls : rcv'[c] \subseteq Commands(c),
         UNCHANGED <<client, ctxDone, done, group, applied, reply>>
  PROVE  TypeOK'
BY DEF TypeOK, PcType, FnType, ResultType, Commands

\* The steps of do on the goroutine of the caller keep the invariant.
LEMMA CallerStepIInv ==
  ASSUME IInv, NEW c \in Calls, CallerStep(c)
  PROVE  IInv'
<1> USE DEF IInv
<1>0. CallInv(c)
  OBVIOUS
<1>1. CASE Call(c)
  <2>0. /\ pc[c] = "idle"
        /\ UNCHANGED <<client, inflight, ctxDone, fn, done, rcv, group, applied, reply>>
    BY <1>1 DEF Call, workVars
  <2>1. TypeOK'
    <3>1. CASE ctxDone[c]
      <4>1. pc' \in PcType /\ result' \in ResultType
        BY <1>1, <3>1 DEF Call, Return, TypeOK, PcType, ResultType
      <4> QED
        BY <2>0, <4>1, CallerType DEF TypeOK, FnType
    <3>2. CASE ~ctxDone[c]
      <4>1. pc' \in PcType /\ result' \in ResultType
        BY <1>1, <3>2 DEF Call, TypeOK, PcType, ResultType
      <4> QED
        BY <2>0, <4>1, CallerType DEF TypeOK, FnType
    <3> QED
      BY <3>1, <3>2
  <2>2. InflightBound'
    BY <2>0, TokensKept
  <2>3. CallInv(c)'
    <3>1. CASE ctxDone[c]
      <4>1. pc'[c] = "returned" /\ result'[c] = "not sent"
        BY <1>1, <3>1 DEF Call, Return, TypeOK
      <4> QED
        BY <2>0, <4>1, <1>0 DEF CallInv, CommandInv, Commands
    <3>2. CASE ~ctxDone[c]
      <4>1. pc'[c] = "acquire" /\ result'[c] = result[c]
        BY <1>1, <3>2 DEF Call, TypeOK
      <4> QED
        BY <2>0, <4>1, <1>0 DEF CallInv, CommandInv, Commands
    <3> QED
      BY <3>1, <3>2
  <2>4. ASSUME NEW d \in Calls, d # c PROVE CallInv(d)'
    BY <1>1, <2>4, CallKept DEF Call, Return, TypeOK, workVars
  <2> QED
    BY <2>1, <2>2, <2>3, <2>4
<1>2. CASE Acquire(c)
  <2>1. fn[c] = "none"
    BY <1>2, <1>0 DEF Acquire, CallInv
  <2>2. InflightBound' /\ inflight' \in Nat
    BY <1>2, <2>1, TokenTaken DEF Acquire
  <2>3. TypeOK'
    BY <1>2, <2>2 DEF Acquire, TypeOK, workVars, Commands
  <2>4. CallInv(c)'
    BY <1>2, <1>0, <2>1 DEF Acquire, TypeOK, CallInv, CommandInv, workVars, Commands
  <2>5. ASSUME NEW d \in Calls, d # c PROVE CallInv(d)'
    BY <1>2, <2>5, CallKept DEF Acquire, TypeOK, workVars
  <2> QED
    BY <2>2, <2>3, <2>4, <2>5
<1>3. CASE TooManyInflight(c)
  <2>1. TypeOK'
    BY <1>3 DEF TooManyInflight, Return, TypeOK, workVars, Commands
  <2>2. InflightBound'
    BY <1>3, TokensKept DEF TooManyInflight
  <2>3. CallInv(c)'
    BY <1>3, <1>0 DEF TooManyInflight, Return, TypeOK, CallInv, CommandInv, workVars, Commands
  <2>4. ASSUME NEW d \in Calls, d # c PROVE CallInv(d)'
    BY <1>3, <2>4, CallKept DEF TooManyInflight, Return, TypeOK, workVars
  <2> QED
    BY <2>1, <2>2, <2>3, <2>4
<1>4. CASE Receive(c)
  <2>1. rcv' \in [Calls -> SUBSET Nat] /\ \A d \in Calls : rcv'[d] \subseteq Commands(d)
    BY <1>4 DEF Receive, Commit, TypeOK
  <2>2. TypeOK'
    <3>1. pc' \in PcType
      BY <1>4 DEF Receive, Return, TypeOK, PcType
    <3>2. result' \in ResultType
      BY <1>4 DEF Receive, Return, TypeOK, ResultType
    <3> QED
      BY <1>4, <2>1, <3>1, <3>2, CallerType DEF Receive, TypeOK, workVars, FnType
  <2>3. InflightBound'
    BY <1>4, TokensKept DEF Receive
  <2>4. CallInv(c)'
    <3>1. pc'[c] = "returned" /\ result'[c] = done[c] /\ done[c] \in {"ok", "error"}
      BY <1>4 DEF Receive, Return, TypeOK
    <3>2. UNCHANGED <<fn, done, group, applied, reply>>
      BY <1>4 DEF Receive, workVars
    <3>3. pc[c] # "returned" /\ pc[c] # "idle" /\ pc[c] # "acquire"
      BY <1>4 DEF Receive
    <3> QED
      BY <3>1, <3>2, <3>3, <1>0 DEF CallInv, CommandInv, Commands
  <2>5. ASSUME NEW d \in Calls, d # c PROVE CallInv(d)'
    BY <1>4, <2>5, CallKept DEF Receive, Return, TypeOK, workVars
  <2> QED
    BY <2>2, <2>3, <2>4, <2>5
<1>5. CASE SeeDeadline(c)
  <2>1. TypeOK'
    BY <1>5 DEF SeeDeadline, TypeOK, workVars, Commands
  <2>2. InflightBound'
    BY <1>5, TokensKept DEF SeeDeadline
  <2>3. CallInv(c)'
    BY <1>5, <1>0 DEF SeeDeadline, TypeOK, CallInv, CommandInv, workVars, Commands
  <2>4. ASSUME NEW d \in Calls, d # c PROVE CallInv(d)'
    BY <1>5, <2>4, CallKept DEF SeeDeadline, TypeOK, workVars
  <2> QED
    BY <2>1, <2>2, <2>3, <2>4
<1>6. CASE GiveUp(c)
  <2>1. TypeOK'
    BY <1>6 DEF GiveUp, Return, TypeOK, workVars, Commands
  <2>2. InflightBound'
    BY <1>6, TokensKept DEF GiveUp
  <2>3. CallInv(c)'
    BY <1>6, <1>0 DEF GiveUp, Return, TypeOK, CallInv, CommandInv, workVars, Commands
  <2>4. ASSUME NEW d \in Calls, d # c PROVE CallInv(d)'
    BY <1>6, <2>4, CallKept DEF GiveUp, Return, TypeOK, workVars
  <2> QED
    BY <2>1, <2>2, <2>3, <2>4
<1>7. CASE ReturnSync(c)
  <2>1. InflightBound' /\ inflight' \in Nat
    BY <1>7, TokenReleased DEF ReturnSync
  <2>2. rcv' \in [Calls -> SUBSET Nat] /\ \A d \in Calls : rcv'[d] \subseteq Commands(d)
    BY <1>7 DEF ReturnSync, Commit, TypeOK
  <2>3. TypeOK'
    <3>1. pc' \in PcType /\ fn' \in FnType
      BY <1>7 DEF ReturnSync, Return, TypeOK, PcType, FnType
    <3>2. done[c] \in {"ok", "error"}
      BY <1>7, <1>0 DEF ReturnSync, TypeOK, CallInv
    <3>3. result' \in ResultType
      BY <1>7, <3>2 DEF ReturnSync, Return, TypeOK, ResultType
    <3> QED
      BY <1>7, <2>1, <2>2, <3>1, <3>3, CallerType DEF ReturnSync, workVars
  <2>4. CallInv(c)'
    <3>1. done[c] \in {"ok", "error"}
      BY <1>7, <1>0 DEF ReturnSync, TypeOK, CallInv
    <3>2. pc'[c] = "returned" /\ result'[c] = done[c] /\ fn'[c] = "released"
      BY <1>7 DEF ReturnSync, Return, TypeOK
    <3>3. UNCHANGED <<done, group, applied, reply>>
      BY <1>7 DEF ReturnSync, workVars
    <3> QED
      BY <3>1, <3>2, <3>3, <1>0 DEF CallInv, CommandInv, Commands
  <2>5. ASSUME NEW d \in Calls, d # c PROVE CallInv(d)'
    BY <1>7, <2>5, CallKept DEF ReturnSync, Return, TypeOK, workVars
  <2> QED
    BY <2>1, <2>3, <2>4, <2>5
<1> QED
  BY <1>1, <1>2, <1>3, <1>4, <1>5, <1>6, <1>7 DEF CallerStep

\* One set of a family of sets of commands is replaced.
LEMMA OneSet ==
  ASSUME NEW S, NEW f \in [S -> SUBSET Nat], NEW c \in S, NEW T \in SUBSET Nat
  PROVE  /\ [f EXCEPT ![c] = T] \in [S -> SUBSET Nat]
         /\ [f EXCEPT ![c] = T][c] = T
         /\ \A d \in S : d # c => [f EXCEPT ![c] = T][d] = f[d]
OBVIOUS

GroupState == {"todo", "running", "ok", "failed"}

\* The types of what the steps of the Redis I/O change.
LEMMA WorkType ==
  ASSUME TypeOK, DOMAIN group' = Calls,
         \A c \in Calls : group'[c] \in [Commands(c) -> GroupState],
         applied' \in [Calls -> SUBSET Nat], reply' \in [Calls -> SUBSET Nat],
         \A c \in Calls : applied'[c] \cup reply'[c] \subseteq Commands(c),
         UNCHANGED <<client, inflight, pc, ctxDone, fn, done, rcv, result>>
  PROVE  TypeOK'
BY DEF TypeOK, GroupState, Commands

\* What a change of the state of one group does to the map of the groups.
LEMMA GroupChange ==
  ASSUME TypeOK, NEW c \in Calls, NEW g \in Commands(c), NEW st \in GroupState,
         SetGroup(c, g, st)
  PROVE  /\ DOMAIN group' = Calls
         /\ \A d \in Calls : group'[d] \in [Commands(d) -> GroupState]
         /\ \A d \in Calls : d # c => group'[d] = group[d]
         /\ \A i \in Commands(c) :
              group'[c][i] = IF i \in Members(c, g) THEN st ELSE group[c][i]
<1>1. group' = [group EXCEPT ![c] =
        [i \in Commands(c) |-> IF i \in Members(c, g) THEN st ELSE group[c][i]]]
  BY DEF SetGroup
<1>2. DOMAIN group' = Calls /\ \A d \in Calls : d # c => group'[d] = group[d]
  BY <1>1 DEF TypeOK
<1>3. group'[c] = [i \in Commands(c) |-> IF i \in Members(c, g) THEN st ELSE group[c][i]]
  BY <1>1 DEF TypeOK
<1>4. group'[c] \in [Commands(c) -> GroupState]
  BY <1>3 DEF TypeOK, GroupState
<1> QED
  BY <1>2, <1>3, <1>4 DEF TypeOK, GroupState

\* A group is started by a function that holds its token.
LEMMA LaunchIInv ==
  ASSUME IInv, NEW c \in Calls, NEW g \in Commands(c), Launch(c, g)
  PROVE  IInv'
<1> USE DEF IInv
<1>1. /\ fn[c] = "running"
      /\ SetGroup(c, g, "running")
      /\ UNCHANGED <<client, inflight, pc, ctxDone, rcv, result, fn, done, applied, reply>>
  BY DEF Launch, callerVars
<1>2. /\ DOMAIN group' = Calls
      /\ \A d \in Calls : group'[d] \in [Commands(d) -> GroupState]
      /\ \A d \in Calls : d # c => group'[d] = group[d]
      /\ \A i \in Commands(c) :
           group'[c][i] = IF i \in Members(c, g) THEN "running" ELSE group[c][i]
  BY <1>1, GroupChange DEF GroupState
<1>3. TypeOK'
  BY <1>1, <1>2, WorkType DEF TypeOK
<1>4. InflightBound'
  BY <1>1, TokensKept
<1>5. CallInv(c)'
  <2>1. CallInv(c)
    OBVIOUS
  <2>2. fn[c] = "running" /\ done[c] = "empty"
    BY <1>1, <2>1 DEF CallInv
  <2>3. ASSUME NEW i \in Commands(c) PROVE CommandInv(c, i)'
    <3>1. CommandInv(c, i)
      BY <2>1 DEF CallInv
    <3>2. group'[c][i] = "running" \/ group'[c][i] = group[c][i]
      BY <1>2
    <3> QED
      BY <1>1, <2>2, <3>1, <3>2 DEF CommandInv
  <2> QED
    BY <1>1, <2>1, <2>3 DEF CallInv, Commands
<1>6. ASSUME NEW d \in Calls, d # c PROVE CallInv(d)'
  BY <1>1, <1>2, <1>6, CallKept
<1> QED
  BY <1>3, <1>4, <1>5, <1>6

\* Redis applies a command of a group that was sent.
LEMMA ApplyIInv ==
  ASSUME IInv, NEW c \in Calls, NEW k \in Commands(c), Apply(c, k)
  PROVE  IInv'
<1> USE DEF IInv
<1>1. /\ group[c][k] \in {"running", "failed"}
      /\ applied' = [applied EXCEPT ![c] = @ \cup {k}]
      /\ UNCHANGED <<client, inflight, pc, ctxDone, rcv, result, fn, done, group, reply>>
  BY DEF Apply, callerVars
<1>2. /\ applied' \in [Calls -> SUBSET Nat]
      /\ applied'[c] = applied[c] \cup {k}
      /\ \A d \in Calls : d # c => applied'[d] = applied[d]
  <2>1. applied \in [Calls -> SUBSET Nat]
    BY DEF TypeOK
  <2>2. applied[c] \cup {k} \in SUBSET Nat
    BY <2>1 DEF Commands
  <2> QED
    BY <1>1, <2>1, <2>2, OneSet, Zenon
<1>3. TypeOK'
  <2>1. \A d \in Calls : applied'[d] \cup reply'[d] \subseteq Commands(d)
    BY <1>1, <1>2 DEF TypeOK
  <2> QED
    BY <1>1, <1>2, <2>1, WorkType DEF TypeOK, GroupState
<1>4. InflightBound'
  BY <1>1, TokensKept
<1>5. CallInv(c)'
  <2>1. CallInv(c)
    OBVIOUS
  <2>2. ASSUME NEW i \in Commands(c) PROVE CommandInv(c, i)'
    <3>1. CommandInv(c, i)
      BY <2>1 DEF CallInv
    <3> QED
      BY <1>1, <1>2, <3>1 DEF CommandInv
  <2> QED
    BY <1>1, <2>1, <2>2 DEF CallInv, Commands
<1>6. ASSUME NEW d \in Calls, d # c PROVE CallInv(d)'
  BY <1>1, <1>2, <1>6, CallKept
<1> QED
  BY <1>3, <1>4, <1>5, <1>6

\* A group ends, with all its commands applied and decoded or with an error.
LEMMA AnswerIInv ==
  ASSUME IInv, NEW c \in Calls, NEW g \in Commands(c), Answer(c, g)
  PROVE  IInv'
<1> USE DEF IInv
<1>0. CallInv(c)
  OBVIOUS
<1>1. CASE GroupOk(c, g)
  <2>1. /\ fn[c] = "running" /\ Members(c, g) \subseteq applied[c]
        /\ SetGroup(c, g, "ok")
        /\ reply' = [reply EXCEPT ![c] = @ \cup Members(c, g)]
        /\ UNCHANGED <<client, inflight, pc, ctxDone, rcv, result, fn, done, applied>>
    BY <1>1 DEF GroupOk, callerVars
  <2>2. /\ DOMAIN group' = Calls
        /\ \A d \in Calls : group'[d] \in [Commands(d) -> GroupState]
        /\ \A d \in Calls : d # c => group'[d] = group[d]
        /\ \A i \in Commands(c) :
             group'[c][i] = IF i \in Members(c, g) THEN "ok" ELSE group[c][i]
    BY <2>1, GroupChange DEF GroupState
  <2>3. Members(c, g) \subseteq Commands(c) /\ Members(c, g) \subseteq Nat
    BY DEF Members, Commands
  <2>4. /\ reply' \in [Calls -> SUBSET Nat]
        /\ reply'[c] = reply[c] \cup Members(c, g)
        /\ \A d \in Calls : d # c => reply'[d] = reply[d]
    BY <2>1, <2>3 DEF TypeOK
  <2>5. TypeOK'
    BY <2>1, <2>2, <2>3, <2>4, WorkType DEF TypeOK
  <2>6. InflightBound'
    BY <2>1, TokensKept
  <2>7. CallInv(c)'
    <3>1. done[c] = "empty"
      BY <2>1, <1>0 DEF CallInv
    <3>2. ASSUME NEW i \in Commands(c) PROVE CommandInv(c, i)'
      <4>1. CommandInv(c, i)
        BY <1>0 DEF CallInv
      <4>2. CASE i \in Members(c, g)
        BY <2>1, <2>2, <2>4, <3>1, <4>2 DEF CommandInv
      <4>3. CASE i \notin Members(c, g)
        BY <2>1, <2>2, <2>4, <3>1, <4>1, <4>3 DEF CommandInv
      <4> QED
        BY <4>2, <4>3
    <3> QED
      BY <2>1, <3>2, <1>0 DEF CallInv, Commands
  <2>8. ASSUME NEW d \in Calls, d # c PROVE CallInv(d)'
    BY <2>1, <2>2, <2>4, <2>8, CallKept
  <2> QED
    BY <2>5, <2>6, <2>7, <2>8
<1>2. CASE GroupFails(c, g)
  <2>1. /\ fn[c] = "running" /\ group[c][g] = "running"
        /\ SetGroup(c, g, "failed")
        /\ UNCHANGED <<client, inflight, pc, ctxDone, rcv, result, fn, done, applied>>
    BY <1>2 DEF GroupFails, callerVars
  <2>2. /\ DOMAIN group' = Calls
        /\ \A d \in Calls : group'[d] \in [Commands(d) -> GroupState]
        /\ \A d \in Calls : d # c => group'[d] = group[d]
        /\ \A i \in Commands(c) :
             group'[c][i] = IF i \in Members(c, g) THEN "failed" ELSE group[c][i]
    BY <2>1, GroupChange DEF GroupState
  <2>3. PICK n \in 0 .. Len(Pipeline[c]) :
          reply' = [reply EXCEPT ![c] = @ \cup {i \in Members(c, g) : i <= n}]
    BY <1>2 DEF GroupFails
  <2>4. {i \in Members(c, g) : i <= n} \in SUBSET Commands(c) /\ Commands(c) \subseteq Nat
    BY DEF Members, Commands
  <2>5. /\ reply' \in [Calls -> SUBSET Nat]
        /\ reply[c] \subseteq reply'[c] /\ reply'[c] \subseteq Commands(c)
        /\ \A d \in Calls : d # c => reply'[d] = reply[d]
    BY <2>3, <2>4 DEF TypeOK
  <2>6. TypeOK'
    BY <2>1, <2>2, <2>5, WorkType DEF TypeOK
  <2>7. InflightBound'
    BY <2>1, TokensKept
  <2>8. CallInv(c)'
    <3>1. done[c] = "empty"
      BY <2>1, <1>0 DEF CallInv
    <3>2. ASSUME NEW i \in Commands(c) PROVE CommandInv(c, i)'
      <4>1. CommandInv(c, i)
        BY <1>0 DEF CallInv
      <4>2. group'[c][i] = "failed" \/ group'[c][i] = group[c][i]
        BY <2>2
      <4> QED
        BY <2>1, <2>5, <3>1, <4>1, <4>2 DEF CommandInv
    <3> QED
      BY <2>1, <3>2, <1>0 DEF CallInv, Commands
  <2>9. ASSUME NEW d \in Calls, d # c PROVE CallInv(d)'
    BY <2>1, <2>2, <2>5, <2>9, CallKept
  <2> QED
    BY <2>6, <2>7, <2>8, <2>9
<1> QED
  BY <1>1, <1>2 DEF Answer

\* fn returns: no error means that every group is ok.
LEMMA FnReturnsIInv ==
  ASSUME IInv, NEW c \in Calls, FnReturns(c)
  PROVE  IInv'
<1> USE DEF IInv
<1>0. CallInv(c)
  OBVIOUS
<1> DEFINE r == IF InState(c, "failed") = {} THEN "ok" ELSE "error"
<1>1. /\ fn[c] = "running" /\ Completed(c)
      /\ fn' = [fn EXCEPT ![c] = "finished"] /\ done' = [done EXCEPT ![c] = r]
      /\ UNCHANGED <<client, inflight, pc, ctxDone, rcv, result, group, applied, reply>>
  BY DEF FnReturns, callerVars, workVars
<1>2. r \in {"ok", "error"}
  OBVIOUS
<1>3. r = "ok" => \A i \in Commands(c) : group[c][i] = "ok"
  <2> SUFFICES ASSUME r = "ok", NEW i \in Commands(c) PROVE group[c][i] = "ok"
    OBVIOUS
  <2>1. InState(c, "failed") = {}
    OBVIOUS
  <2>2. InState(c, "running") = {} /\ InState(c, "todo") = {}
    BY <1>1, <2>1 DEF Completed
  <2>3. group[c][i] \in {"todo", "running", "ok", "failed"}
    BY DEF TypeOK
  <2> QED
    BY <2>1, <2>2, <2>3 DEF InState
<1> HIDE DEF r
<1>4. /\ fn'[c] = "finished" /\ done'[c] = r
      /\ \A d \in Calls : d # c => fn'[d] = fn[d] /\ done'[d] = done[d]
  BY <1>1 DEF TypeOK
<1>5. TypeOK'
  <2>1. done' \in [Calls -> {"empty", "ok", "error"}] /\ fn' \in FnType
    BY <1>1, <1>2 DEF TypeOK, FnType
  <2> QED
    BY <1>1, <2>1 DEF TypeOK, FnType, Commands
<1>6. InflightBound'
  BY <1>1, <1>4, TokensKept
<1>7. CallInv(c)'
  <2>1. ASSUME NEW i \in Commands(c) PROVE CommandInv(c, i)'
    <3>1. CommandInv(c, i)
      BY <1>0 DEF CallInv
    <3> QED
      BY <1>1, <1>3, <1>4, <3>1 DEF CommandInv
  <2>2. result[c] # "ok"
    BY <1>0, <1>1 DEF CallInv
  <2> QED
    BY <1>0, <1>1, <1>2, <1>4, <2>1, <2>2 DEF CallInv, Commands
<1>8. ASSUME NEW d \in Calls, d # c PROVE CallInv(d)'
  BY <1>1, <1>4, <1>8, CallKept
<1> QED
  BY <1>5, <1>6, <1>7, <1>8

\* The goroutine gives its token back.
LEMMA ReleaseIInv ==
  ASSUME IInv, NEW c \in Calls, Release(c)
  PROVE  IInv'
<1> USE DEF IInv
<1>0. CallInv(c)
  OBVIOUS
<1>1. /\ fn[c] = "finished" /\ fn' = [fn EXCEPT ![c] = "released"] /\ ReleaseToken
      /\ UNCHANGED <<client, pc, ctxDone, rcv, result, done, group, applied, reply>>
  BY DEF Release, callerVars, workVars
<1>2. /\ fn'[c] = "released" /\ fn' \in FnType
      /\ \A d \in Calls : d # c => fn'[d] = fn[d]
  BY <1>1 DEF TypeOK, FnType
<1>3. InflightBound' /\ inflight' \in Nat
  BY <1>1, TokenReleased
<1>4. TypeOK'
  BY <1>1, <1>2, <1>3, CallerType DEF TypeOK, PcType, ResultType
<1>5. CallInv(c)'
  <2>1. ASSUME NEW i \in Commands(c) PROVE CommandInv(c, i)'
    <3>1. CommandInv(c, i)
      BY <1>0 DEF CallInv
    <3> QED
      BY <1>1, <1>2, <3>1 DEF CommandInv
  <2> QED
    BY <1>0, <1>1, <1>2, <2>1 DEF CallInv, Commands
<1>6. ASSUME NEW d \in Calls, d # c PROVE CallInv(d)'
  BY <1>1, <1>2, <1>6, CallKept
<1> QED
  BY <1>3, <1>4, <1>5, <1>6

\* A context that is done, and steps that change nothing.
LEMMA OtherIInv ==
  ASSUME IInv, ctxDone' \in [Calls -> BOOLEAN],
         UNCHANGED <<client, inflight, pc, fn, done, group, applied, reply, rcv, result>>
  PROVE  IInv'
<1> USE DEF IInv
<1>1. TypeOK'
  BY DEF TypeOK, Commands
<1>2. InflightBound'
  BY TokensKept
<1>3. ASSUME NEW d \in Calls PROVE CallInv(d)'
  BY CallKept
<1> QED
  BY <1>1, <1>2, <1>3

\* The inductive step.
LEMMA NextIInv == IInv /\ [Next]_vars => IInv'
<1> SUFFICES ASSUME IInv, [Next]_vars PROVE IInv'
  OBVIOUS
<1>1. ASSUME NEW c \in Calls, CallerStep(c) PROVE IInv'
  BY <1>1, CallerStepIInv
<1>2. ASSUME NEW c \in Calls, WorkStep(c) PROVE IInv'
  BY <1>2, LaunchIInv, FnReturnsIInv, ReleaseIInv DEF WorkStep
<1>3. ASSUME NEW c \in Calls, ContextDone(c) PROVE IInv'
  <2>1. ctxDone' \in [Calls -> BOOLEAN]
    BY <1>3 DEF ContextDone, IInv, TypeOK
  <2> QED
    BY <1>3, <2>1, OtherIInv DEF ContextDone, workVars
<1>4. ASSUME NEW c \in Calls, NEW i \in Commands(c), Apply(c, i) \/ Answer(c, i) PROVE IInv'
  BY <1>4, ApplyIInv, AnswerIInv
<1>5. CASE Terminated \/ UNCHANGED vars
  <2>1. UNCHANGED vars
    BY <1>5 DEF Terminated
  <2>2. ctxDone' \in [Calls -> BOOLEAN]
    BY <2>1 DEF vars, IInv, TypeOK
  <2> QED
    BY <2>1, <2>2, OtherIInv DEF vars
<1> QED
  BY <1>1, <1>2, <1>3, <1>4, <1>5 DEF Next

\* The inductive invariant holds throughout, for any calls, pipelines, bound and
\* settings (clientImpl.do, executeGroupedPipeline).
THEOREM ClientInvariance == Spec => []IInv
BY InitIInv, NextIInv, PTL DEF Spec

\* The goroutines, their commands and the receivers stay within a call's own
\* pipeline (clientImpl.do, executeGroupedPipeline).
THEOREM ClientTypes == Spec => []TypeOK
<1>1. IInv => TypeOK
  BY DEF IInv
<1> QED BY <1>1, ClientInvariance, PTL

\* Every token of the in-flight channel belongs to one command, and they are no
\* more than REDIS_MAX_INFLIGHT.
THEOREM InflightSafe == Spec => []InflightBound
<1>1. IInv => InflightBound
  BY DEF IInv
<1> QED
  BY <1>1, ClientInvariance, PTL

-----------------------------------------------------------------------------
(* RedisClient implements PipeDo *)

Outcomes == [c \in Calls |-> Outcome(result[c])]

\* A return changes what one caller sees.
LEMMA OutcomeChange ==
  ASSUME TypeOK, NEW c \in Calls, NEW r, result' = [result EXCEPT ![c] = r]
  PROVE  Outcomes' = [Outcomes EXCEPT ![c] = Outcome(r)]
<1>1. result'[c] = r /\ \A d \in Calls : d # c => result'[d] = result[d]
  BY DEF TypeOK
<1> QED
  BY <1>1 DEF Outcomes, Outcome

\* A call that has no token has had no command applied.
LEMMA NothingApplied ==
  ASSUME TypeOK, NEW c \in Calls, CallInv(c), fn[c] = "none"
  PROVE  applied[c] = {}
<1>1. applied[c] \subseteq Commands(c)
  BY DEF TypeOK
<1>2. ASSUME NEW i \in Commands(c) PROVE i \notin applied[c]
  BY DEF CallInv, CommandInv
<1> QED
  BY <1>1, <1>2

\* When fn returned no error, everything was applied and decoded.
LEMMA AllApplied ==
  ASSUME TypeOK, NEW c \in Calls, CallInv(c), done[c] = "ok"
  PROVE  applied[c] = Commands(c) /\ reply[c] = Commands(c)
<1>1. applied[c] \subseteq Commands(c) /\ reply[c] \subseteq Commands(c)
  BY DEF TypeOK
<1>2. ASSUME NEW i \in Commands(c) PROVE i \in applied[c] /\ i \in reply[c]
  BY DEF CallInv, CommandInv
<1> QED
  BY <1>1, <1>2

\* A return that did not send anything is a refusal.
LEMMA RefuseStep ==
  ASSUME TypeOK, NEW c \in Calls, CallInv(c), pc[c] \in {"idle", "acquire"},
         NEW r \in {"not sent", "too many inflight"}, Return(c, r),
         UNCHANGED <<applied, rcv>>
  PROVE  Promise!Refuse(c)
<1>1. result[c] = "none" /\ fn[c] = "none"
  BY DEF CallInv
<1>2. Outcomes' = [Outcomes EXCEPT ![c] = "refused"]
  BY OutcomeChange DEF Return, Outcome
<1>3. Outcomes[c] = "none"
  BY <1>1 DEF Outcomes, Outcome
<1> QED
  BY <1>1, <1>2, <1>3, NothingApplied DEF Promise!Refuse, Outcomes

\* A caller that receives from done succeeds or fails.
LEMMA ReceiveStep ==
  ASSUME TypeOK, NEW c \in Calls, CallInv(c), pc[c] # "returned", done[c] # "empty",
         Commit(c), Return(c, done[c]), UNCHANGED applied
  PROVE  Promise!Succeed(c) \/ Promise!Fail(c)
<1>1. Outcomes[c] = "none"
  BY DEF CallInv, Outcomes, Outcome
<1>2. done[c] \in {"ok", "error"}
  BY DEF TypeOK
<1>3. Outcomes' = [Outcomes EXCEPT ![c] = done[c]]
  BY <1>2, OutcomeChange DEF Return, Outcome
<1>4. CASE done[c] = "ok"
  <2>1. rcv' = [rcv EXCEPT ![c] = Commands(c)] /\ applied[c] = Commands(c)
    BY <1>4, AllApplied DEF Commit
  <2> QED
    BY <1>1, <1>3, <1>4, <2>1 DEF Promise!Succeed, Promise!Commands, Outcomes, Commands
<1>5. CASE done[c] = "error"
  <2>1. rcv' = rcv
    BY <1>5 DEF Commit
  <2> QED
    BY <1>1, <1>3, <1>5, <2>1 DEF Promise!Fail, Outcomes
<1> QED
  BY <1>2, <1>4, <1>5

\* Redis applies a command after those of its key that were appended before it,
\* and never one of a call that was refused or that succeeded.
LEMMA ApplyStep ==
  ASSUME TypeOK, NEW c \in Calls, CallInv(c), NEW i \in Commands(c), Apply(c, i)
  PROVE  Promise!Apply(c, i)
<1>1. /\ group[c][i] \in {"running", "failed"}
      /\ \A j \in Members(c, i) : j < i => j \in applied[c]
      /\ applied' = [applied EXCEPT ![c] = @ \cup {i}]
      /\ rcv' = rcv /\ result' = result
  BY DEF Apply, callerVars
<1>2. CommandInv(c, i)
  BY DEF CallInv
<1>3. result[c] \notin {"not sent", "too many inflight"} /\ result[c] # "ok"
  BY <1>1, <1>2 DEF CallInv, CommandInv
<1>4. Outcomes[c] \in {"none", "error"}
  <2>1. result[c] \in {"none", "error", "gave up"}
    BY <1>3 DEF TypeOK
  <2> QED
    BY <2>1 DEF Outcomes, Outcome
<1>5. \A j \in Commands(c) : j < i /\ Pipeline[c][j] = Pipeline[c][i] => j \in applied[c]
  BY <1>1 DEF Members
<1> QED
  <2>1. Outcomes' = Outcomes
    BY <1>1 DEF Outcomes
  <2> QED
    BY <1>1, <1>4, <1>5, <2>1 DEF Promise!Apply, Promise!Commands, Outcomes, Commands

\* Every step of the client is a step of PipeDo or leaves its variables alone.
LEMMA RefinedStep == IInv /\ [Next]_vars => [Promise!Next]_(Promise!vars)
<1> SUFFICES ASSUME IInv, [Next]_vars PROVE [Promise!Next]_(Promise!vars)
  OBVIOUS
<1>0. TypeOK /\ \A c \in Calls : CallInv(c)
  BY DEF IInv
<1>1. ASSUME UNCHANGED <<applied, rcv, result>> PROVE UNCHANGED Promise!vars
  BY <1>1 DEF Promise!vars
<1>2. ASSUME NEW c \in Calls, CallerStep(c) PROVE [Promise!Next]_(Promise!vars)
  <2>1. CASE Call(c)
    <3>1. CASE ctxDone[c]
      <4>1. Return(c, "not sent") /\ UNCHANGED <<applied, rcv>> /\ pc[c] = "idle"
        BY <2>1, <3>1 DEF Call, workVars
      <4>2. Promise!Refuse(c)
        BY <1>0, <4>1, RefuseStep
      <4> QED
        BY <4>2 DEF Promise!Next
    <3>2. CASE ~ctxDone[c]
      BY <1>1, <2>1, <3>2 DEF Call, workVars
    <3> QED
      BY <3>1, <3>2
  <2>2. CASE Acquire(c) \/ SeeDeadline(c)
    BY <1>1, <2>2 DEF Acquire, SeeDeadline, workVars
  <2>3. CASE TooManyInflight(c)
    <3>1. Return(c, "too many inflight") /\ UNCHANGED <<applied, rcv>> /\ pc[c] = "acquire"
      BY <2>3 DEF TooManyInflight, workVars
    <3>2. Promise!Refuse(c)
      BY <1>0, <3>1, RefuseStep
    <3> QED
      BY <3>2 DEF Promise!Next
  <2>4. CASE Receive(c) \/ ReturnSync(c)
    <3>1. Commit(c) /\ Return(c, done[c]) /\ UNCHANGED applied
      BY <2>4 DEF Receive, ReturnSync, workVars
    <3>2. pc[c] # "returned" /\ done[c] # "empty"
      BY <1>0, <2>4 DEF Receive, ReturnSync, CallInv
    <3>3. Promise!Succeed(c) \/ Promise!Fail(c)
      BY <1>0, <3>1, <3>2, ReceiveStep
    <3> QED
      BY <3>3 DEF Promise!Next
  <2>5. CASE GiveUp(c)
    <3>1. Return(c, "gave up") /\ UNCHANGED <<applied, rcv>> /\ pc[c] = "late"
      BY <2>5 DEF GiveUp, workVars
    <3>2. Outcomes[c] = "none"
      BY <1>0, <3>1 DEF CallInv, Outcomes, Outcome
    <3>3. Outcomes' = [Outcomes EXCEPT ![c] = "error"]
      BY <1>0, <3>1, OutcomeChange DEF Return, Outcome
    <3>4. Promise!Fail(c)
      BY <3>1, <3>2, <3>3 DEF Promise!Fail, Outcomes
    <3> QED
      BY <3>4 DEF Promise!Next
  <2> QED
    BY <1>2, <2>1, <2>2, <2>3, <2>4, <2>5 DEF CallerStep
<1>3. ASSUME NEW c \in Calls, WorkStep(c) \/ ContextDone(c)
      PROVE  [Promise!Next]_(Promise!vars)
  BY <1>1, <1>3 DEF WorkStep, Launch, FnReturns, Release, ContextDone, callerVars, workVars
<1>4. ASSUME NEW c \in Calls, NEW i \in Commands(c), Apply(c, i)
      PROVE  [Promise!Next]_(Promise!vars)
  <2>1. Promise!Apply(c, i)
    BY <1>0, <1>4, ApplyStep
  <2> QED
    BY <2>1 DEF Promise!Next, Promise!Commands, Commands
<1>5. ASSUME NEW c \in Calls, NEW i \in Commands(c), Answer(c, i)
      PROVE  [Promise!Next]_(Promise!vars)
  BY <1>1, <1>5 DEF Answer, GroupOk, GroupFails, callerVars
<1>6. CASE Terminated \/ UNCHANGED vars
  BY <1>1, <1>6 DEF Terminated, vars
<1> QED
  BY <1>2, <1>3, <1>4, <1>5, <1>6 DEF Next

\* The client keeps the promise PipeDo makes to DoLimit: replies if and only if
\* no error, commands of a key in order, nothing sent of a refused call.
THEOREM ClientImplementsPipeDo == Spec => ImplementsPipeDo
<1>1. Init => Promise!Init
  BY DEF Init, Promise!Init, Outcome
<1> QED
  BY <1>1, RefinedStep, ClientInvariance, PTL DEF Spec, ImplementsPipeDo, Promise!Spec

=============================================================================
