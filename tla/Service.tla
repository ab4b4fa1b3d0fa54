------------------------------- MODULE Service -------------------------------
(***************************************************************************)
(* service/ratelimit.go: SetConfig replaces the configuration while requests *)
(* are answered.                                                            *)
(*                                                                          *)
(* A loaded configuration is an object on a heap; requests keep a reference *)
(* to the one they began with, and to the metadata in it.  The settings are *)
(* read anew from the environment of the process at each SetConfig, and by  *)
(* requests without the lock.  DoLimit answers each descriptor as           *)
(* BaseLimiter does for some counter value, or panics with a RedisError.    *)
(* Metadata values are structs of plain values.                             *)
(***************************************************************************)
EXTENDS Config, BaseLimiter

CONSTANTS
  Callers,        \* the concurrent ShouldRateLimit calls
  Requests,       \* [domain, descriptors]
  Events,         \* first events of the provider: [src, files]
  Reloads,        \* later events
  Environments,   \* [shadow, quota, metadata, headers, perUnit, merge, checkConfig]
  Probes,         \* <<domain, descriptor>> pairs used to compare configurations
  MaxEvents,      \* bound on the events
  MaxCounter,     \* bound on the counters of DoLimit
  BackendKey, ModelKey   \* backend_name, model_name_override

ASSUME ServiceAssumption ==
  /\ \A e \in Events \cup Reloads : e.src \in {"file", "xds"}
  /\ \A n \in Environments : n.shadow \in BOOLEAN /\ n.quota \in BOOLEAN
  /\ MaxEvents \in Nat /\ MaxCounter \in Nat

VARIABLES
  env,            \* the environment of the process
  heap,           \* the configurations loaded so far: [files, domains, meta]
  current,        \* this.config: an index of heap, 0 for nil
  settings,       \* the fields of the service that SetConfig copies
  configHealthy,  \* the config component of the health checker
  event,          \* history: the last event and whether it was accepted
  events,         \* the number of events
  req             \* the local variables of each call

vars == <<env, heap, current, settings, configHealthy, event, events, req>>

Unset(e) == [shadow |-> e.shadow, quota |-> FALSE, metadata |-> FALSE,
             headers |-> FALSE, perUnit |-> FALSE]

NoResponse == [kind |-> "none"]

NoRequest == [pc |-> "idle", request |-> NoNode, since |-> 0, config |-> 0,
              shadow |-> FALSE, quota |-> FALSE, limits |-> <<>>, unlimited |-> {},
              statuses |-> <<>>, closest |-> 0, response |-> NoResponse]

-----------------------------------------------------------------------------
(* SetConfig *)

FilesOf(e) == IF e.src = "xds" THEN [i \in DOMAIN e.files |-> ConfigXdsProtoToYaml(e.files[i])]
              ELSE e.files

SetConfig(e) ==
  LET files == FilesOf(e)
      domains == NewRateLimitConfigImpl(files, env.merge)
      ok == domains # ConfigError
  IN
  /\ events < MaxEvents
  /\ e \in (IF events = 0 THEN Events ELSE Reloads)
  /\ events' = events + 1
  /\ event' = [files |-> files, accepted |-> ok]
  /\ IF ~ok THEN UNCHANGED <<heap, current, settings, configHealthy>>
     ELSE /\ heap' = Append(heap, [files |-> files, domains |-> domains,
                                   meta |-> Metadata(files)])
          /\ current' = Len(heap')
          /\ configHealthy' = IF env.checkConfig THEN ~IsEmptyDomains(domains) ELSE configHealthy
          /\ settings' = [shadow |-> env.shadow, quota |-> env.quota,
                          metadata |-> env.metadata, headers |-> env.headers,
                          perUnit |-> env.perUnit]
  /\ UNCHANGED <<env, req>>

-----------------------------------------------------------------------------
(* ShouldRateLimit *)

Reply(c, response) ==
  req' = [req EXCEPT ![c] = [@ EXCEPT !.pc = "done", !.response = response]]

\* The limits to pass to the cache: not the unlimited ones, not the replaced ones.
LimitsToCheck(found) ==
  LET known == {i \in DOMAIN found : found[i] # NoLimit}
      unlimited == {i \in known : found[i].unlimited}
      replacing == UNION {ToSet(found[i].replaces) : i \in known}
  IN [unlimited |-> unlimited,
      limits |-> [i \in DOMAIN found |->
        IF i \in known \ unlimited /\ ~(found[i].name # "" /\ found[i].name \in replacing)
        THEN found[i] ELSE NoLimit]]

constructLimitsToCheck(domains, request) ==
  LimitsToCheck([i \in DOMAIN request.descriptors |->
                   GetLimit(domains, request.domain, request.descriptors[i])])

\* The checks, GetCurrentConfig and constructLimitsToCheck.
Begin(c, request) ==
  LET begun == [NoRequest EXCEPT !.pc = "limit", !.request = request, !.since = current,
                  !.config = current, !.shadow = settings.shadow, !.quota = settings.quota]
      check == constructLimitsToCheck(heap[current].domains, request)
  IN
  /\ req[c].pc = "idle"
  /\ req' = [req EXCEPT ![c] =
       IF request.domain = <<>> \/ request.descriptors = <<>> \/ current = 0
       THEN [begun EXCEPT !.pc = "done", !.response = [kind |-> "serviceError"]]
       ELSE [begun EXCEPT !.limits = check.limits, !.unlimited = check.unlimited]]
  /\ UNCHANGED <<env, heap, current, settings, configHealthy, event, events>>

\* The status of a descriptor whose counter stood at n.
StatusFor(limit, n) ==
  IF limit = NoLimit THEN [code |-> OK, remaining |-> 0, limit |-> NoLimit]
  ELSE LET s == GetResponseDescriptorStatus(
                  [limit |-> limit.rpu, shadow |-> limit.shadow, before |-> n, after |-> n + 1],
                  FALSE, 1)
       IN [code |-> s.code, remaining |-> s.remaining, limit |-> limit]

Answered(c, limits) ==
  LET counters == {f \in [DOMAIN limits -> 0 .. MaxCounter] : \A i \in DOMAIN limits :
                     f[i] <= IF limits[i] = NoLimit THEN 0 ELSE limits[i].rpu}
  IN
  /\ req[c].pc = "limit"
  /\ \/ \E f \in counters : req' = [req EXCEPT
          ![c].pc = "judge", ![c].limits = limits,
          ![c].statuses = [i \in DOMAIN limits |-> StatusFor(limits[i], f[i])]]
     \/ Reply(c, [kind |-> "redisError"])
  /\ UNCHANGED <<env, heap, current, settings, configHealthy, event, events>>

\* A slip: the limits are looked up again, in the configuration of the moment.
DoLimitReread(c) ==
  Answered(c, constructLimitsToCheck(heap[current].domains, req[c].request).limits)

DoLimit(c) == Answered(c, req[c].limits)

Over(c, i) == req[c].statuses[i].code = OVER_LIMIT

IsQuota(c, i) ==
  LET r == req[c] IN
  i \notin r.unlimited /\ (r.quota \/ (r.limits[i] # NoLimit /\ r.limits[i].quota))

ValueOf(descriptor, key) ==
  LET own == SelectSeq(descriptor.entries, LAMBDA e : e.key = key) IN
  IF own = <<>> THEN <<>> ELSE Last(own).value

Pair(descriptor) == <<ValueOf(descriptor, BackendKey), ValueOf(descriptor, ModelKey)>>

quotaGroupKey(descriptor) ==
  IF Pair(descriptor) # <<<<>>, <<>>>> THEN [pair |-> Pair(descriptor)]
  ELSE [entries |-> descriptor.entries]

Group(c, i) == quotaGroupKey(req[c].request.descriptors[i])

QuotaIndexes(c) == {i \in DOMAIN req[c].statuses : IsQuota(c, i)}

\* A group is over when any of its quota descriptors is.
GroupOver(c, i) == \E j \in QuotaIndexes(c) : Group(c, j) = Group(c, i) /\ Over(c, j)

Failed(c) == {i \in DOMAIN req[c].statuses :
                i \notin req[c].unlimited /\ ~IsQuota(c, i) /\ Over(c, i)}

OverLimit(c) ==
  Failed(c) # {} \/ (QuotaIndexes(c) # {} /\ \A i \in QuotaIndexes(c) : GroupOver(c, i))

\* A slip: an over-limit descriptor competes like the others.
JudgeMinimum(c) ==
  LET r == req[c]
      least(acc, i) ==
        IF settings.headers /\ r.statuses[i].limit # NoLimit
           /\ (acc = 0 \/ r.statuses[i].remaining < r.statuses[acc].remaining)
        THEN i ELSE acc
  IN
  /\ r.pc = "judge"
  /\ req' = [req EXCEPT ![c].pc = "respond",
       ![c].closest = FoldLeft(least, 0, [i \in DOMAIN r.statuses |-> i])]
  /\ UNCHANGED <<env, heap, current, settings, configHealthy, event, events>>

\* The loop over the statuses: the descriptor closest to its limit, or the last
\* one that is over without quota mode.
Judge(c) ==
  LET r == req[c]
      floor(acc) == IF acc \in Failed(c) THEN 0 ELSE r.statuses[acc].remaining
      least(acc, i) ==
        IF i \in Failed(c) THEN i
        ELSE IF settings.headers /\ r.statuses[i].limit # NoLimit
                /\ (acc = 0 \/ r.statuses[i].remaining < floor(acc))
        THEN i ELSE acc
  IN
  /\ r.pc = "judge"
  /\ req' = [req EXCEPT ![c].pc = "respond",
       ![c].closest = FoldLeft(least, 0, [i \in DOMAIN r.statuses |-> i])]
  /\ UNCHANGED <<env, heap, current, settings, configHealthy, event, events>>

\* Per unit, the first descriptor with the least remaining.
perUnitHeaders(c) ==
  LET s == req[c].statuses
      limited == {i \in DOMAIN s : s[i].limit # NoLimit}
      of(u) == {i \in limited : s[i].limit.unit = u}
  IN [u \in {s[i].limit.unit : i \in limited} |->
        Min({i \in of(u) : \A j \in of(u) : s[i].remaining <= s[j].remaining})]

\* A slip: every passed descriptor is advertised.
AvailableAll(c) == {i \in DOMAIN req[c].statuses : i \notin req[c].unlimited /\ ~Over(c, i)}

\* The passed descriptors, but not those of an exhausted quota group.
Available(c) == {i \in DOMAIN req[c].statuses :
  i \notin req[c].unlimited /\ ~Over(c, i) /\ ~(IsQuota(c, i) /\ GroupOver(c, i))}

passedBackendsList(c) ==
  {Pair(req[c].request.descriptors[i]) : i \in Available(c)} \ {<<<<>>, <<>>>>}

\* The metadata objects of the available descriptors, in order.
MetadataRefs(c) ==
  LET r == req[c]
      own == {i \in Available(c) : r.limits[i] # NoLimit /\ r.limits[i].meta # <<>>}
  IN [j \in 1 .. Cardinality(own) |-> r.limits[SetToSortSeq(own, <)[j]].meta]

\* mergeMetadata: the first object that has a field stays in the result, by
\* reference, and the fields of later structs are added to it.
mergeMetadata(meta, refs) ==
  LET having(k) == SelectSeq(refs, LAMBDA p : k \in DOMAIN meta[p])
      merged(k) == FoldLeft(LAMBDA acc, p : acc @@ meta[p][k], <<>>, having(k))
  IN [p \in DOMAIN meta |-> [k \in DOMAIN meta[p] |->
        IF p \in ToSet(refs) /\ p = having(k)[1] THEN merged(k) ELSE meta[p][k]]]

\* The code, the headers, the global shadow mode and the dynamic metadata.
Respond(c) ==
  LET r == req[c]
      quotas == QuotaIndexes(c)
      refs == IF settings.metadata THEN MetadataRefs(c) ELSE <<>>
  IN
  /\ r.pc = "respond"
  /\ Reply(c, [kind |-> "response",
       code |-> IF OverLimit(c) /\ ~r.shadow THEN OVER_LIMIT ELSE OK,
       headers |-> IF settings.headers THEN r.closest ELSE 0,
       perUnit |-> IF settings.perUnit THEN perUnitHeaders(c) ELSE <<>>,
       backends |-> IF settings.metadata /\ quotas # {} THEN passedBackendsList(c) ELSE {},
       metadata |-> refs])
  /\ heap' = [heap EXCEPT ![r.config].meta = mergeMetadata(@, refs)]
  /\ UNCHANGED <<env, current, settings, configHealthy, event, events>>

Terminated ==
  /\ events = MaxEvents /\ \A c \in Callers : req[c].pc = "done"
  /\ UNCHANGED vars

-----------------------------------------------------------------------------

Init ==
  /\ env \in Environments
  /\ heap = <<>> /\ current = 0
  /\ settings = Unset(env)
  /\ configHealthy = FALSE
  /\ event = [files |-> <<>>, accepted |-> TRUE]
  /\ events = 0
  /\ req = [c \in Callers |-> NoRequest]

Next ==
  \/ \E e \in Events \cup Reloads : SetConfig(e)
  \/ \E c \in Callers :
       (\E request \in Requests : Begin(c, request)) \/ DoLimit(c) \/ Judge(c) \/ Respond(c)
  \/ Terminated

Spec == Init /\ [][Next]_vars

-----------------------------------------------------------------------------
(* Properties *)

\* A configuration is loaded exactly when its files are valid: no key twice in a
\* level (merged files included), units, replaces, share_threshold and metadata
\* as loadDescriptors demands, at every depth.
LoadedIffValid == event.accepted <=> ValidFiles(event.files, env.merge)

BriefOf(limit) == IF limit = NoLimit THEN NoLimit ELSE Brief(limit, limit.shadow, limit.quota)

\* GetLimit on the loaded tree finds the rule the YAML means: the exact value
\* before the first matching wildcard before the key alone, at every level, and
\* only with all entries used up.
LimitIsReference ==
  [][current' # current => \A p \in Probes :
       LET new == heap'[current'] IN
       BriefOf(GetLimit(new.domains, p[1], p[2])) = ReferenceLimit(new.files, p[1], p[2])]_vars

\* The texts of a counter, none of which holds the separator.
Separable(meant) == \A i \in DOMAIN meant : ~Contains(meant[i][1], "_") /\ ~Contains(meant[i][2], "_")

\* Descriptors that differ only in values that a share_threshold wildcard matched
\* have one counter (GenerateCacheKey), one limit and one statistics name.  Others
\* have counters of their own as far as the separator tells them apart: a value
\* with an underscore may read like several entries.
CounterSharedAsConfigured ==
  [][current' # current =>
       LET new == heap'[current']
           limit(p) == GetLimit(new.domains, p[1], p[2])
           own == {p \in Probes : p[2].override = NoLimit /\ limit(p) # NoLimit}
           uses == {[counter |-> CounterOf(p[1], p[2].entries, limit(p)),
                     domain |-> p[1], meant |-> ReferenceCounter(new.files, p[1], p[2].entries),
                     limit |-> limit(p).rpu, name |-> limit(p).key] : p \in own}
       IN \A u, w \in uses :
            \/ u.domain = w.domain /\ u.meant = w.meant
            \/ u.counter = w.counter /\ Separable(u.meant) /\ Separable(w.meant)
            => u = w]_vars

\* What a request is judged by, given what the files say of its descriptors.
MeantAmong(found) ==
  LET replaced(i) == \E j \in DOMAIN found : /\ found[j] # NoLimit /\ found[i].name # ""
                                             /\ Contains(found[j].replaces, found[i].name)
  IN [i \in DOMAIN found |->
        IF found[i] = NoLimit THEN [limit |-> NoLimit, unlimited |-> FALSE]
        ELSE [limit |-> IF found[i].unlimited \/ replaced(i) THEN NoLimit ELSE found[i],
              unlimited |-> found[i].unlimited]]

MeantLimits(v, request) ==
  MeantAmong([i \in DOMAIN request.descriptors |->
                ReferenceLimit(heap[v].files, request.domain, request.descriptors[i])])

\* A request is answered by one configuration that was installed while it ran,
\* whatever SetConfig does meanwhile: exactly the limits of that configuration
\* that are neither unlimited nor replaced are passed to the cache, and the code is
\* OVER_LIMIT iff a limit without quota mode is exceeded, or each quota group has
\* an exceeded one, unless the global shadow mode is on.
AnswerFromOneConfig == \A c \in Callers :
  req[c].response.kind = "response" =>
    \E v \in req[c].since .. current :
      LET r == req[c]
          all == DOMAIN r.statuses
          meant == MeantLimits(v, r.request)
          inQuota(i) == env.quota \/ (meant[i].limit # NoLimit /\ meant[i].limit.quota)
          quota == {i \in all : ~meant[i].unlimited /\ inQuota(i)}
          over == {i \in all : Over(c, i)}
      IN /\ \A i \in all : BriefOf(r.limits[i]) = meant[i].limit
         /\ \A i \in all : (i \in r.unlimited) = meant[i].unlimited
         /\ r.response.code = OVER_LIMIT <=>
              /\ ~env.shadow
              /\ \/ over \ quota # {}
                 \/ quota # {} /\ \A i \in quota : \E j \in quota \cap over : Group(c, i) = Group(c, j)

\* A backend and model advertised for routing has quota left: none of its quota
\* descriptors is over, unless a descriptor outside quota mode names the same pair.
\* The exception is the code's (isAvailable); the comment where the list is built,
\* "the unique (backend_name, model_name_override) pairs that still have quota",
\* does not make it.
PassedBackendsHaveQuota == \A c \in Callers :
  req[c].response.kind = "response" =>
    \A i \in QuotaIndexes(c) :
      Over(c, i) /\ Pair(req[c].request.descriptors[i]) \in req[c].response.backends =>
        \E j \in DOMAIN req[c].statuses \ QuotaIndexes(c) : Group(c, j) = Group(c, i)

\* The headers explain the answer.  When limits outside quota mode deny the
\* request, they show one of these.  Otherwise they show a limit with the least
\* remaining, as the headers per unit do: a request denied by its quota groups is
\* shown a limit with nothing remaining, which need not be the one that denied it.
HeadersExplainAnswer == \A c \in Callers :
  LET r == req[c]
      limited == {i \in DOMAIN r.statuses : r.statuses[i].limit # NoLimit}
      h == r.response.headers
      least(i, S) == i \in S /\ \A j \in S : r.statuses[i].remaining <= r.statuses[j].remaining
  IN r.response.kind = "response" =>
     /\ env.headers /\ limited # {} =>
          /\ IF Failed(c) # {} THEN h \in Failed(c) ELSE least(h, limited)
          /\ OverLimit(c) => r.statuses[h].remaining = 0
     /\ env.perUnit => \A u \in DOMAIN r.response.perUnit :
          least(r.response.perUnit[u], {i \in limited : r.statuses[i].limit.unit = u})

\* Answering requests leaves the loaded configurations alone ("Create a copy of the
\* rate limit to avoid modifying the shared object").
ConfigurationUnmodified == \A v \in DOMAIN heap : heap[v].meta = Metadata(heap[v].files)

==============================================================================
