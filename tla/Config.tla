-------------------------------- MODULE Config --------------------------------
(***************************************************************************)
(* config_impl.go: loading a configuration into a tree and finding the      *)
(* limit of a descriptor (GetLimit), with a reference on the YAML itself.   *)
(*                                                                          *)
(* A text that is matched (key, value, pattern) is a sequence of characters *)
(* without dots.  A statistics name is the sequence of its parts between    *)
(* dots, the domain first.  Statistics, logs and the wording of errors are  *)
(* left out: loading either yields a tree or ConfigError.                   *)
(***************************************************************************)
EXTENDS Integers, Sequences, SequencesExt, FiniteSetsExt, TLC

CONSTANTS
  Units,          \* the valid units
  NoLimit,        \* nil *RateLimit
  NoNode,         \* nil *rateLimitDescriptor
  ConfigError,    \* a panic with a RateLimitConfigError
  BadMetadata     \* metadata that structpb.NewStruct refuses

Text(key, value) == IF value = <<>> THEN key ELSE key \o <<"_">> \o value

HasStar(text) == Contains(text, "*")

-----------------------------------------------------------------------------
(* Wildcards *)

\* strings.Split(text, "*")
Split(text) ==
  LET stars == {i \in DOMAIN text : text[i] = "*"}
      cuts == <<0>> \o SetToSortSeq(stars, <) \o <<Len(text) + 1>>
  IN [j \in 1 .. Len(cuts) - 1 |-> SubSeq(text, cuts[j] + 1, cuts[j + 1] - 1)]

Occurrences(s, part) ==
  {i \in 1 .. Len(s) - Len(part) + 1 : SubSeq(s, i, i + Len(part) - 1) = part}

\* The middle segments, leftmost first.
RECURSIVE Scan(_, _)
Scan(remaining, middle) ==
  \/ middle = <<>>
  \/ LET at == Occurrences(remaining, Head(middle)) IN
     /\ at # {}
     /\ Scan(SubSeq(remaining, Min(at) + Len(Head(middle)), Len(remaining)), Tail(middle))

\* A slip: prefix and suffix may overlap.
wildcardMatchOverlap(parts, value) ==
  IF Len(parts) = 1 THEN parts[1] = value
  ELSE /\ IsPrefix(parts[1], value)
       /\ IsSuffix(Last(parts), value)
       /\ Scan(SubSeq(value, Len(parts[1]) + 1, Len(value) - Len(Last(parts))),
               SubSeq(parts, 2, Len(parts) - 1))

wildcardMatch(parts, value) ==
  IF Len(parts) = 1 THEN parts[1] = value
  ELSE /\ IsPrefix(parts[1], value)
       /\ IsSuffix(Last(parts), value)
       /\ FoldLeft(LAMBDA n, p : n + Len(p), 0, parts) <= Len(value)
       /\ Scan(SubSeq(value, Len(parts[1]) + 1, Len(value) - Len(Last(parts))),
               SubSeq(parts, 2, Len(parts) - 1))

-----------------------------------------------------------------------------
(* Loading.  A YAML descriptor is [key, value, rl, kids, shadow, quota,       *)
(* detailed, v2m, share, meta], its rate limit [rpu, unit, unlimited, name,   *)
(* replaces] or NoLimit.  A node refers to its metadata object by the path of *)
(* its descriptor.                                                            *)

NewRateLimit(key, rpu, unit, unlimited, shadow, quota, name, replaces, detailed) ==
  [key |-> key, rpu |-> rpu, unit |-> unit, unlimited |-> unlimited,
   shadow |-> shadow, quota |-> quota, name |-> name, replaces |-> replaces,
   detailed |-> detailed, pats |-> <<>>, meta |-> <<>>]

EmptyNode == [kids |-> <<>>, wild |-> <<>>, limit |-> NoLimit, v2m |-> FALSE,
              share |-> FALSE, pattern |-> <<>>, meta |-> <<>>]

\* A slip: a repeated key replaces the earlier descriptor.
RepeatedNever(node, finalKey) == FALSE

Repeated(node, finalKey) == finalKey \in DOMAIN node.kids

BadLimit(rl) ==
  /\ rl # NoLimit
  /\ \/ rl.unlimited /\ rl.unit \in Units
     \/ ~rl.unlimited /\ rl.unit \notin Units
     \/ \E i \in DOMAIN rl.replaces : rl.replaces[i] \in {"", rl.name}

RECURSIVE loadDescriptors(_, _, _)
loadDescriptors(node, parentKey, descriptors) ==
  IF node = ConfigError \/ descriptors = <<>> THEN node
  ELSE
  LET d == Head(descriptors)
      finalKey == Text(d.key, d.value)
      newParentKey == Append(parentKey, finalKey)
      child == [EmptyNode EXCEPT
        !.limit = IF d.rl = NoLimit THEN NoLimit
                  ELSE NewRateLimit(newParentKey, d.rl.rpu, d.rl.unit, d.rl.unlimited,
                         d.shadow, d.quota, d.rl.name, d.rl.replaces, d.detailed),
        !.v2m = d.v2m, !.share = d.share,
        !.pattern = IF d.share THEN finalKey ELSE <<>>,
        !.meta = IF d.meta = <<>> THEN <<>> ELSE newParentKey]
      bad == \/ d.key = <<>> \/ Repeated(node, finalKey) \/ BadLimit(d.rl)
             \/ d.share /\ ~HasStar(finalKey)
             \/ d.meta = BadMetadata
      loaded == IF bad THEN ConfigError ELSE loadDescriptors(child, newParentKey, d.kids)
      next == IF loaded = ConfigError THEN ConfigError
              ELSE [node EXCEPT
                !.kids = (finalKey :> loaded) @@ @,
                !.wild = IF HasStar(finalKey)
                         THEN Append(@, [key |-> finalKey, parts |-> Split(finalKey)]) ELSE @]
  IN loadDescriptors(next, parentKey, Tail(descriptors))

\* domains maps a domain to its root node; a file is [domain, descriptors].
loadConfig(domains, file, mergeDomainConfigs) ==
  LET present == file.domain \in DOMAIN domains
      root == loadDescriptors(IF present THEN domains[file.domain] ELSE EmptyNode,
                              <<file.domain>>, file.descriptors)
  IN IF file.domain = <<>> \/ (present /\ ~mergeDomainConfigs) \/ root = ConfigError
     THEN ConfigError ELSE (file.domain :> root) @@ domains

NewRateLimitConfigImpl(files, mergeDomainConfigs) ==
  FoldLeft(LAMBDA domains, file :
             IF domains = ConfigError THEN ConfigError
             ELSE loadConfig(domains, file, mergeDomainConfigs),
           <<>>, files)

IsEmptyDomains(domains) == DOMAIN domains = {}

\* The conversion of an xDS resource, which has no value_to_metric and no
\* share_threshold.
RECURSIVE rateLimitDescriptorsPbToYaml(_)
rateLimitDescriptorsPbToYaml(pb) ==
  [i \in DOMAIN pb |-> [pb[i] EXCEPT !.v2m = FALSE, !.share = FALSE,
                          !.kids = rateLimitDescriptorsPbToYaml(@)]]

ConfigXdsProtoToYaml(file) ==
  [file EXCEPT !.descriptors = rateLimitDescriptorsPbToYaml(@)]

-----------------------------------------------------------------------------
(* GetLimit.  A request descriptor is [entries, override]: a sequence of      *)
(* [key, value], and NoLimit or [rpu, unit].                                  *)

TrimPrefix(text, prefix) ==
  IF IsPrefix(prefix, text) THEN SubSeq(text, Len(prefix) + 1, Len(text)) ELSE text

Found(node, via, how) == [node |-> node, via |-> via, how |-> how]

\* The child for an entry, and the key it was found under: key_value, else the
\* first wildcard that matches, else the key alone.
Match(node, entry) ==
  LET finalKey == entry.key \o <<"_">> \o entry.value
      wilds == {i \in DOMAIN node.wild : wildcardMatch(node.wild[i].parts, finalKey)}
  IN IF finalKey \in DOMAIN node.kids THEN Found(node.kids[finalKey], finalKey, "value")
     ELSE IF wilds # {}
     THEN LET w == node.wild[Min(wilds)].key IN Found(node.kids[w], w, "wildcard")
     ELSE IF entry.key \in DOMAIN node.kids THEN Found(node.kids[entry.key], entry.key, "key")
     ELSE Found(NoNode, entry.key, "key")

ShareThresholdPattern(m, entry) ==
  IF m.how = "wildcard" /\ m.node.share
  THEN TrimPrefix(m.node.pattern, entry.key \o <<"_">>) ELSE <<>>

\* The value in the statistics name of this level.
valueToUse(m, entry) ==
  LET pattern == ShareThresholdPattern(m, entry) IN
  IF m.node = NoNode THEN <<>>
  ELSE IF pattern # <<>> THEN pattern
  ELSE IF m.node.v2m \/ m.how = "value" THEN entry.value
  ELSE IF m.how = "wildcard" THEN TrimPrefix(m.via, entry.key \o <<"_">>)
  ELSE <<>>

\* The walk down the tree.  pats and names grow by one element per level; only a
\* node reached by the last entry yields its limit.
RECURSIVE Walk(_, _, _, _)
Level(m, entries, pats, names) ==
  LET last == Len(pats) = Len(entries)
      leaf == m.node = NoNode \/ DOMAIN m.node.kids = {}
  IN IF ~last /\ ~leaf THEN Walk(m.node, entries, pats, names)
     ELSE [limit |-> IF ~last \/ m.node = NoNode \/ m.node.limit = NoLimit THEN NoLimit
                     ELSE [m.node.limit EXCEPT
                             !.meta = m.node.meta,
                             !.pats = IF \E j \in DOMAIN pats : pats[j] # <<>>
                                      THEN pats ELSE <<>>],
           names |-> names, leaf |-> leaf]

Walk(node, entries, pats, names) ==
  LET entry == entries[Len(pats) + 1]
      m == Match(node, entry)
  IN Level(m, entries, Append(pats, ShareThresholdPattern(m, entry)),
           Append(names, Text(entry.key, valueToUse(m, entry))))

\* The metadata does not survive when the limit is created anew.
Recreated(limit, key) == [limit EXCEPT !.key = key, !.meta = <<>>]

DetailedKey(domain, entries, pats) ==
  <<domain>> \o [i \in DOMAIN entries |->
    IF pats = <<>> THEN entries[i].key \o <<"_">> \o entries[i].value
    ELSE Text(entries[i].key, IF pats[i] # <<>> THEN pats[i] ELSE entries[i].value)]

descriptorKey(domain, entries) ==
  <<domain>> \o [i \in DOMAIN entries |-> Text(entries[i].key, entries[i].value)]

\* The end of GetLimit: the statistics name of the limit that the walk w found.
Renamed(w, detailedKey) ==
  IF w.limit.detailed
  THEN IF w.leaf THEN Recreated(w.limit, detailedKey) ELSE [w.limit EXCEPT !.key = detailedKey]
  ELSE IF w.limit.key # w.names THEN Recreated(w.limit, w.names) ELSE w.limit

Resolved(w, domain, entries) ==
  IF w.limit = NoLimit THEN NoLimit
  ELSE Renamed(w, DetailedKey(domain, entries, w.limit.pats))

GetLimit(domains, domain, descriptor) ==
  LET entries == descriptor.entries IN
  IF domain \notin DOMAIN domains THEN NoLimit
  ELSE IF descriptor.override # NoLimit
  THEN NewRateLimit(descriptorKey(domain, entries), descriptor.override.rpu,
         descriptor.override.unit, FALSE, FALSE, FALSE, "", <<>>, FALSE)
  ELSE IF entries = <<>> THEN NoLimit
  ELSE Resolved(Walk(domains[domain], entries, <<>>, <<domain>>), domain, entries)

\* A slip: the pattern replaces the value only in the last entry.
CounterOfLast(domain, entries, limit) ==
  domain \o FlattenSeq([i \in DOMAIN entries |->
    <<"_">> \o entries[i].key \o <<"_">> \o
      (IF limit.pats # <<>> /\ limit.pats[i] # <<>> /\ i = Len(entries)
       THEN limit.pats[i] ELSE entries[i].value)])

\* GenerateCacheKey up to the window: joined with underscores.
CounterOf(domain, entries, limit) ==
  domain \o FlattenSeq([i \in DOMAIN entries |->
    <<"_">> \o entries[i].key \o <<"_">> \o
      (IF limit.pats # <<>> /\ limit.pats[i] # <<>> THEN limit.pats[i] ELSE entries[i].value)])

-----------------------------------------------------------------------------
(* The reference: what the YAML files say, without the tree. *)

\* A star stands for any text.
RECURSIVE Glob(_, _)
Glob(pattern, text) ==
  IF pattern = <<>> THEN text = <<>>
  ELSE IF Head(pattern) = "*"
  THEN Glob(Tail(pattern), text) \/ (text # <<>> /\ Glob(pattern, Tail(text)))
  ELSE text # <<>> /\ Head(text) = Head(pattern) /\ Glob(Tail(pattern), Tail(text))

\* All descriptors of a domain, over all files.
DomainDescriptors(files, domain) ==
  FlattenSeq([i \in DOMAIN files |->
    IF files[i].domain = domain THEN files[i].descriptors ELSE <<>>])

Named(descriptors, text) ==
  {i \in DOMAIN descriptors : Text(descriptors[i].key, descriptors[i].value) = text}

Wild(descriptors, text) ==
  {i \in DOMAIN descriptors :
     LET own == Text(descriptors[i].key, descriptors[i].value)
     IN HasStar(own) /\ Glob(own, text)}

\* The rules on the path of the entries; shorter when the path ends early.
RECURSIVE RulePath(_, _)
RulePath(descriptors, entries) ==
  IF entries = <<>> THEN <<>> ELSE
  LET e == Head(entries)
      full == e.key \o <<"_">> \o e.value
      best == IF Named(descriptors, full) # {} THEN Named(descriptors, full)
              ELSE IF Wild(descriptors, full) # {} THEN Wild(descriptors, full)
              ELSE Named(descriptors, e.key)
      d == descriptors[Min(best)]
  IN IF best = {} THEN <<>>
     ELSE <<[d EXCEPT !.share = @ /\ Named(descriptors, full) = {}]>>
            \o RulePath(d.kids, Tail(entries))

\* What of a limit decides a request.
Brief(rl, shadow, quota) ==
  [rpu |-> rl.rpu, unit |-> rl.unit, unlimited |-> rl.unlimited, name |-> rl.name,
   replaces |-> rl.replaces, shadow |-> shadow, quota |-> quota]

\* The limit at the end of a path as long as the entries.
PathLimit(path, entries) ==
  LET rule == Last(path) IN
  IF path = <<>> \/ Len(path) < Len(entries) THEN NoLimit
  ELSE IF rule.rl = NoLimit THEN NoLimit
  ELSE Brief(rule.rl, rule.shadow, rule.quota)

\* The limit of a descriptor: its own, or that of its path.
ReferenceLimit(files, domain, descriptor) ==
  LET override == descriptor.override IN
  IF \A i \in DOMAIN files : files[i].domain # domain THEN NoLimit
  ELSE IF override # NoLimit
  THEN Brief([rpu |-> override.rpu, unit |-> override.unit, unlimited |-> FALSE,
              name |-> "", replaces |-> <<>>], FALSE, FALSE)
  ELSE PathLimit(RulePath(DomainDescriptors(files, domain), descriptor.entries),
                 descriptor.entries)

\* What a counter counts: the entries, with the pattern for a shared wildcard.
ReferenceCounter(files, domain, entries) ==
  LET path == RulePath(DomainDescriptors(files, domain), entries) IN
  [i \in DOMAIN entries |->
     <<entries[i].key, IF path[i].share THEN path[i].value ELSE entries[i].value>>]

\* The metadata of the descriptors, by path.
RECURSIVE MetadataPairs(_, _)
MetadataPairs(parentKey, ds) == UNION {
  LET path == Append(parentKey, Text(ds[i].key, ds[i].value)) IN
  {<<path, ds[i].meta>>} \cup MetadataPairs(path, ds[i].kids) : i \in DOMAIN ds}

Metadata(files) ==
  LET pairs == UNION {MetadataPairs(<<files[i].domain>>, files[i].descriptors) : i \in DOMAIN files}
      given == {p \in pairs : p[2] # <<>>}
  IN [path \in {p[1] : p \in given} |-> (CHOOSE p \in given : p[1] = path)[2]]

RECURSIVE ValidDescriptors(_)
ValidDescriptors(ds) ==
  /\ \A i, j \in DOMAIN ds : Text(ds[i].key, ds[i].value) = Text(ds[j].key, ds[j].value) => i = j
  /\ \A i \in DOMAIN ds :
       /\ ds[i].key # <<>> /\ ds[i].meta # BadMetadata
       /\ ds[i].share => HasStar(Text(ds[i].key, ds[i].value))
       /\ ds[i].rl # NoLimit =>
            /\ (ds[i].rl.unlimited <=> ds[i].rl.unit \notin Units)
            /\ {"", ds[i].rl.name} \cap ToSet(ds[i].rl.replaces) = {}
       /\ ValidDescriptors(ds[i].kids)

ValidFiles(files, mergeDomainConfigs) ==
  /\ \A i \in DOMAIN files : files[i].domain # <<>>
  /\ mergeDomainConfigs \/ \A i, j \in DOMAIN files : files[i].domain = files[j].domain => i = j
  /\ \A i \in DOMAIN files : ValidDescriptors(DomainDescriptors(files, files[i].domain))

===============================================================================
