---------------------------- MODULE MCTopicTrie -----------------------------
(* TopicTrie for TLC: filters and names up to three levels deep, one inside *)
(* the other, with both wildcards at the root, inside and at the end.       *)
EXTENDS TopicTrie

SomeFilters == {<<"a">>, <<"a", "b">>, <<"a", "#">>, <<"+", "b">>}
SomeNames == {<<"a">>, <<"a", "b">>, <<"a", "b", "a">>, <<"b", "b">>}
SomeLookups == {<<"#">>, <<"+">>, <<"a", "#">>, <<"+", "b">>, <<"a", "+", "a">>}
=============================================================================
