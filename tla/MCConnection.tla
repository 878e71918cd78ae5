---------------------------- MODULE MCConnection ----------------------------
(* Connection for TLC: three connections of one client.                     *)
EXTENDS Connection

CONSTANTS c1, c2, c3, k1

Three == <<c1, c2, c3>>
OneClient == [c \in {c1, c2, c3} |-> k1]

\* A Handle and a flusher that answers each request, one that collects two, and
\* the Tx of Cluster::spawn.
ThreeFlushers == {[inner |-> "Handle", max |-> 0], [inner |-> "Handle", max |-> 1],
                  [inner |-> "Tx", max |-> 0]}
=============================================================================
