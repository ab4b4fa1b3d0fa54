------------------------------ MODULE MCService ------------------------------
(* Instances of Service: every wildcard pattern of up to three characters, and *)
(* configurations with quota groups, replaced rules, shared thresholds and     *)
(* each kind of error.                                                         *)
EXTENDS Service

Key == <<"k">>
Sub == <<"l">>
B == <<"B">>
M == <<"M">>
Dom == <<"d">>

Rate(rpu, name, replaces) ==
  [rpu |-> rpu, unit |-> "hour", unlimited |-> FALSE, name |-> name, replaces |-> replaces]
Free(replaces) ==
  [rpu |-> 0, unit |-> "", unlimited |-> TRUE, name |-> "", replaces |-> replaces]

D(key, value, rl, kids) ==
  [key |-> key, value |-> value, rl |-> rl, kids |-> kids, shadow |-> FALSE, quota |-> FALSE,
   detailed |-> FALSE, v2m |-> FALSE, share |-> FALSE, meta |-> <<>>]
Quota(d) == [d EXCEPT !.quota = TRUE]
Share(d) == [d EXCEPT !.share = TRUE]
Meta(d, sub) == [d EXCEPT !.meta = [route |-> (sub :> 1)]]
Plain(rpu) == Rate(rpu, "", <<>>)

OneFile(ds) == [src |-> "file", files |-> <<[domain |-> Dom, descriptors |-> ds]>>]
TwoFiles(ds, es) == [src |-> "file", files |-> <<[domain |-> Dom, descriptors |-> ds],
                                                [domain |-> Dom, descriptors |-> es]>>]
Xds(e) == [e EXCEPT !.src = "xds"]

\* One pattern beside an exact value and the default.
Patterns == {p \in BoundedSeq({"a", "b", "*"}, 3) : HasStar(p)}
PatternEvents == {OneFile(<<D(Key, p, Plain(1), <<>>), D(Key, <<>>, Plain(2), <<>>)>>) :
                    p \in Patterns}

Models(quotaX, quotaY) == OneFile(<<
  D(B, <<"x">>, NoLimit, <<
    [Meta(D(M, <<"m">>, Plain(1), <<D(Key, <<>>, Plain(1), <<>>)>>), "x") EXCEPT !.quota = quotaX]>>),
  D(B, <<"y">>, NoLimit, <<
    [Meta(D(M, <<>>, Plain(1), <<Quota(D(Key, <<>>, Plain(2), <<>>))>>), "y") EXCEPT !.quota = quotaY]>>),
  [D(Key, <<>>, [Plain(2) EXCEPT !.unit = "day"], <<>>) EXCEPT !.v2m = TRUE]>>)

Replacing == OneFile(<<
  D(Key, <<"a">>, Rate(1, "n", <<>>), <<>>),
  D(Sub, <<>>, Free(<<"n">>), <<>>),
  D(Sub, <<"b">>, Rate(1, "", <<"n">>), <<>>),
  [D(Sub, <<"a">>, Rate(1, "n", <<>>), <<>>) EXCEPT !.shadow = TRUE]>>)

Sharing == OneFile(<<
  Share(D(Key, <<"a", "*">>, NoLimit, <<
    D(Key, <<>>, Plain(1), <<>>), Share(D(Sub, <<"*", "b">>, Plain(2), <<>>))>>)),
  [Share(D(Key, <<"*", "b">>, Plain(1), <<>>)) EXCEPT !.detailed = TRUE],
  [D(Key, <<"b", "*">>, Plain(2), <<D(Sub, <<>>, Plain(1), <<>>)>>) EXCEPT !.v2m = TRUE],
  [D(Key, <<>>, Plain(1), <<D(Sub, <<>>, Plain(2), <<>>)>>) EXCEPT !.detailed = TRUE]>>)

Invalid == {
  OneFile(<<D(Key, <<"a">>, Plain(1), <<>>), D(Key, <<"a">>, NoLimit, <<>>)>>),
  OneFile(<<D(<<>>, <<"a">>, NoLimit, <<>>)>>),
  OneFile(<<D(Key, <<>>, NoLimit, <<D(Sub, <<>>, [Plain(1) EXCEPT !.unit = "hou"], <<>>)>>)>>),
  OneFile(<<D(Key, <<>>, [Free(<<>>) EXCEPT !.unit = "hour"], <<>>)>>),
  OneFile(<<D(Key, <<>>, Rate(1, "n", <<"m", "n">>), <<>>)>>),
  OneFile(<<Share(D(Key, <<"a">>, NoLimit, <<>>))>>),
  OneFile(<<D(Key, <<>>, NoLimit, <<[D(Sub, <<>>, NoLimit, <<>>) EXCEPT !.meta = BadMetadata]>>)>>),
  [src |-> "file", files |-> <<[domain |-> <<>>, descriptors |-> <<>>]>>]}

MCEvents == PatternEvents \cup Invalid \cup {
  Models(TRUE, TRUE), Models(FALSE, TRUE), Replacing, Sharing, Xds(Sharing),
  [src |-> "xds", files |-> <<>>],
  TwoFiles(Sharing.files[1].descriptors, <<D(Sub, <<>>, Plain(1), <<>>)>>),
  TwoFiles(<<D(Key, <<>>, Plain(1), <<>>)>>, <<D(Key, <<>>, Plain(2), <<>>)>>)}

MCReloads == {Models(FALSE, TRUE), Xds(Models(TRUE, FALSE)), CHOOSE e \in Invalid : TRUE}

E(key, value) == [key |-> key, value |-> value]
Ask(entries) == [entries |-> entries, override |-> NoLimit]
X == Ask(<<E(B, <<"x">>), E(M, <<"m">>)>>)
XKey == Ask(<<E(B, <<"x">>), E(M, <<"m">>), E(Key, <<"a">>)>>)
Y == Ask(<<E(B, <<"y">>), E(M, <<"m">>)>>)
YKey == Ask(<<E(B, <<"y">>), E(M, <<"m">>), E(Key, <<"a">>)>>)
A == Ask(<<E(Key, <<"a">>)>>)

MCRequests == {
  [domain |-> Dom, descriptors |-> ds] : ds \in {
    <<X, Y>>, <<Y, YKey, A>>, <<X, XKey>>, <<A, X>>, <<>>,
    <<A, Ask(<<E(Sub, <<"a">>)>>), Ask(<<E(Sub, <<"b">>)>>)>>,
    <<A, Ask(<<E(Sub, <<"c">>)>>)>>,
    <<[A EXCEPT !.override = [rpu |-> 1, unit |-> "day"]], X>>}}

\* Values that hold the separator: joined, they read like two entries.
Separated == {v \o <<"_", "l", "_", w>> : v \in BoundedSeq({"a", "b"}, 2), w \in {"a", "b"}}
Values == BoundedSeq({"a", "b"}, 3)
MCProbes ==
  {<<Dom, Ask(<<E(Key, v)>>)>> : v \in Values} \cup
  {<<Dom, Ask(<<E(Key, v), E(k, w)>>)>> : v \in BoundedSeq({"a", "b"}, 2), k \in {Key, Sub},
     w \in {<<"a">>, <<"b">>, <<"a", "b">>}} \cup
  {<<Dom, Ask(<<E(Key, v)>>)>> : v \in Separated} \cup
  {<<Dom, d>> : d \in {X, XKey, Y, YKey, Ask(<<>>)}} \cup
  {<<<<"e">>, A>>, <<Dom, [A EXCEPT !.override = [rpu |-> 1, unit |-> "day"]]>>}

Environment(shadow, quota, merge) ==
  [shadow |-> shadow, quota |-> quota, metadata |-> ~shadow, headers |-> TRUE,
   perUnit |-> merge, merge |-> merge, checkConfig |-> quota]
MCEnvironments == {Environment(FALSE, FALSE, TRUE), Environment(FALSE, TRUE, FALSE),
                   Environment(TRUE, FALSE, FALSE)}
==============================================================================
