------------------------------ MODULE MCRetain ------------------------------
(* Retain for TLC: two topics, one inside the other.                        *)
EXTENDS Retain

NestedNames == {<<"a">>, <<"a", "b">>}
=============================================================================
