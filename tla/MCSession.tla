----------------------------- MODULE MCSession ------------------------------
(* Session for TLC.  HandlePublish has many kinds of PUBLISH to deal with,   *)
(* so the two directions of a session are checked in the same run with few   *)
(* names and identifiers, and enough messages to overrun every limit.        *)
EXTENDS Session
=============================================================================
