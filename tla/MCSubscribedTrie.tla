-------------------------- MODULE MCSubscribedTrie --------------------------
(* SubscribedTrie for TLC: two shards with a client each, a filter inside    *)
(* another one, so that nodes without values exist.                          *)
EXTENDS SubscribedTrie, TLC

CONSTANTS s1, s2, c1, c2

HostOf(c) == IF c = c1 THEN s1 ELSE s2
Outer == [filter |-> <<"a">>, qos |-> 0]
OuterChanged == [filter |-> <<"a">>, qos |-> 1]
Nested == [filter |-> <<"a", "b">>, qos |-> 0]
FixedOptions == {Outer, Nested}
ChangedOptions == {Outer, OuterChanged, Nested}
OneName == {<<"a", "b">>}

\* The shards are alike together with their clients.
Renamings == {(s1 :> s2) @@ (s2 :> s1) @@ (c1 :> c2) @@ (c2 :> c1)}
=============================================================================
