------------------------------ MODULE Channels ------------------------------
(***************************************************************************)
(* What the shards of a node promise each other: a first-in-first-out      *)
(* channel from every shard to every shard, its own included.  Nothing     *)
(* that is routed is lost, repeated or overtaken on the way.               *)
(***************************************************************************)
EXTENDS Naturals, Sequences

CONSTANTS Shards

VARIABLES seqno, \* seqno[s]: the number of the next packet of shard s
          chan,  \* chan[s][t]: numbers of the packets on their way from s to t
          taken  \* taken[t][s]: the last packet from s that t has taken, or 0

vars == <<seqno, chan, taken>>

Init == /\ seqno = [s \in Shards |-> 1]
        /\ chan = [s \in Shards |-> [t \in Shards |-> <<>>]]
        /\ taken = [t \in Shards |-> [s \in Shards |-> 0]]

Send(s, t) == /\ chan' = [chan EXCEPT ![s][t] = Append(@, seqno[s])]
              /\ seqno' = [seqno EXCEPT ![s] = @ + 1]
              /\ UNCHANGED taken

Take(t, s) == /\ chan[s][t] # <<>>
              /\ taken' = [taken EXCEPT ![t][s] = Head(chan[s][t])]
              /\ chan' = [chan EXCEPT ![s][t] = Tail(@)]
              /\ UNCHANGED seqno

Next == \E s, t \in Shards : Send(s, t) \/ Take(t, s)

Spec == Init /\ [][Next]_vars
=============================================================================
