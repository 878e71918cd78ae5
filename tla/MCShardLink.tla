---------------------------- MODULE MCShardLink -----------------------------
(* ShardLink for TLC: two shards with a client each.                         *)
EXTENDS ShardLink

CONSTANTS c0, c1

HostOf(c) == IF c = c0 THEN 0 ELSE 1
=============================================================================
