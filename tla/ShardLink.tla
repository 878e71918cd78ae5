----------------------------- MODULE ShardLink ------------------------------
(***************************************************************************)
(* How shards pass messages to each other (shard.rs, message.rs): the back *)
(* log of every shard, the bounded queue in front of every shard, the      *)
(* acknowledgements and the book-keeping of packets that wait for them.    *)
(*                                                                         *)
(* A shard goes round its main loop, one action per message where other    *)
(* shards can get in between:                                              *)
(*   route  sessions route packets, and leave;                             *)
(*   flush  flush_to_shards, one try_send at a time;                       *)
(*   in     in_messages, one try_recv at a time, and at its end            *)
(*          ack_messages and clear_unacks, which nobody else can observe.  *)
(* What a session does with its messages is not part of this module, nor   *)
(* that route_packets takes the run-loop out before sessions call back.  A *)
(* shard that reaches an unreachable!() or a todo!() stops for good and    *)
(* its queue is closed.                                                    *)
(***************************************************************************)
EXTENDS Integers, Sequences, FiniteSets

CONSTANTS NumShards,
          Clients,
          shard_id(_), \* shard_id(c): the shard that hosts client c
          QueueSize,   \* mqtt_pkt_batch_size * num_shards
          Leavers,     \* bound: the clients whose session may end
          MaxRouted    \* bound: packets routed by all the shards

Shards == 0..NumShards - 1

ASSUME SizesPositive == NumShards \in Nat \ {0} /\ QueueSize \in Nat \ {0} /\ MaxRouted \in Nat
ASSUME Hosted == Leavers \subseteq Clients /\ \A c \in Clients : shard_id(c) \in Shards

VARIABLES pc,             \* pc[s]: the phase of the main loop
          at,             \* at[s]: in flush, the queue that is served; in in, messages taken
          sessions,       \* sessions[s]: the clients connected to shard s
          seqno,          \* seqno[s]: ClientInp::seqno
          unacks,         \* unacks[s]: ClientInp::unacks, packets
          timestamp,      \* timestamp[s]: ClientInp::timestamp, [shard -> [routed, acked]]
          ack_timestamp,  \* ack_timestamp[s]: [shard -> seqno]
          shard_back_log, \* shard_back_log[s][t]: messages for t not sent yet
          queue,          \* queue[t]: the channel into t, entries [from, msg]
          handed,         \* handed[c]: packets given to the session of client c
          taken           \* history: taken[t][s], last packet t took from s

vars == <<pc, at, sessions, seqno, unacks, timestamp, ack_timestamp, shard_back_log,
          queue, handed, taken>>

Nothing == [s \in {} |-> 0]

Bind(f, k, v) == [x \in DOMAIN f \cup {k} |-> IF x = k THEN v ELSE f[x]]

Init == /\ pc = [s \in Shards |-> "route"]
        /\ at = [s \in Shards |-> 0]
        /\ sessions = [s \in Shards |-> {c \in Clients : shard_id(c) = s}]
        /\ seqno = [s \in Shards |-> 1]
        /\ unacks = [s \in Shards |-> {}]
        /\ timestamp = [s \in Shards |-> Nothing]
        /\ ack_timestamp = [s \in Shards |-> Nothing]
        /\ shard_back_log = [s \in Shards |-> [t \in Shards |-> <<>>]]
        /\ queue = [s \in Shards |-> <<>>]
        /\ handed = [c \in Clients |-> {}]
        /\ taken = [t \in Shards |-> [s \in Shards |-> 0]]

\* The thread has panicked; its end of the queue is gone.
Stopped(s) == pc[s] \in {"unreachable", "todo"}

Goto(s, from, to) == pc[s] = from /\ pc' = [pc EXCEPT ![s] = to]
-----------------------------------------------------------------------------
(* route: what the sessions and the control channel do to the link.        *)

\* Packets routed so far by all the shards.
Routed == Cardinality({r \in Shards \X (1..MaxRouted) : r[2] < seqno[r[1]]})

\* route_to_client: one packet from client c for the subscriptions of client
\* d, which may have left meanwhile: its subscriptions were looked up before.
RouteToClient(s, c, d, qos) ==
    /\ pc[s] = "route" /\ Routed < MaxRouted
    /\ c \in sessions[s]
    /\ LET t == shard_id(d)
           msg == [type |-> "packet", client |-> c, shard |-> s, seqno |-> seqno[s],
                   subscriber |-> d]
           acked == IF t \in DOMAIN timestamp[s] THEN timestamp[s][t].acked ELSE 0
       IN  /\ seqno' = [seqno EXCEPT ![s] = @ + 1]
           /\ IF qos = 1
              THEN /\ unacks' = [unacks EXCEPT ![s] = @ \cup {msg}]
                   /\ timestamp' = [timestamp EXCEPT ![s] =
                        Bind(@, t, [routed |-> seqno[s], acked |-> acked])]
              ELSE UNCHANGED <<unacks, timestamp>>
           /\ shard_back_log' = [shard_back_log EXCEPT ![s][t] = Append(@, msg)]
    /\ UNCHANGED <<pc, at, sessions, ack_timestamp, queue, handed, taken>>

\* The same for QoS-2: a todo!(), after a number that nobody gets to see.
RouteQos2(s) == /\ sessions[s] # {}
                /\ Goto(s, "route", "todo")
                /\ UNCHANGED <<at, sessions, seqno, unacks, timestamp, ack_timestamp,
                               shard_back_log, queue, handed, taken>>

\* handle_flush_connection, as far as the link goes: a session that leaves
\* takes along the packets that wait for its acknowledgement.
RemoveSession(s, c) ==
    /\ pc[s] = "route" /\ c \in sessions[s]
    /\ sessions' = [sessions EXCEPT ![s] = @ \ {c}]
    /\ unacks' = [unacks EXCEPT ![s] = {m \in @ : m.subscriber # c}]
    /\ UNCHANGED <<pc, at, seqno, timestamp, ack_timestamp, shard_back_log, queue,
                   handed, taken>>

RouteDone(s) == /\ Goto(s, "route", "flush")
                /\ at' = [at EXCEPT ![s] = 0]
                /\ UNCHANGED <<sessions, seqno, unacks, timestamp, ack_timestamp,
                               shard_back_log, queue, handed, taken>>
-----------------------------------------------------------------------------
(* flush_to_shards: the back logs in the order of the shards, each until   *)
(* it is empty, the queue is full or its receiver is gone.                 *)

\* Mutant of Sendable: one message too many fits.
SendableOverfull(s, t) == /\ shard_back_log[s][t] # <<>>
                          /\ Len(queue[t]) <= QueueSize
                          /\ ~Stopped(t)

Sendable(s, t) == /\ shard_back_log[s][t] # <<>>
                  /\ Len(queue[t]) < QueueSize
                  /\ ~Stopped(t)

\* Mutant of TrySend: a message that does not fit is dropped.
TrySendDrops(s) ==
    /\ pc[s] = "flush"
    /\ shard_back_log[s][at[s]] # <<>>
    /\ LET t == at[s] IN
       /\ queue' = [queue EXCEPT ![t] =
             IF Sendable(s, t)
             THEN Append(@, [from |-> s, msg |-> Head(shard_back_log[s][t])]) ELSE @]
       /\ shard_back_log' = [shard_back_log EXCEPT ![s][t] = Tail(@)]
    /\ UNCHANGED <<pc, at, sessions, seqno, unacks, timestamp, ack_timestamp, handed, taken>>

TrySend(s) ==
    /\ pc[s] = "flush"
    /\ LET t == at[s] IN
       /\ Sendable(s, t)
       /\ queue' = [queue EXCEPT ![t] =
                      Append(@, [from |-> s, msg |-> Head(shard_back_log[s][t])])]
       /\ shard_back_log' = [shard_back_log EXCEPT ![s][t] = Tail(@)]
    /\ UNCHANGED <<pc, at, sessions, seqno, unacks, timestamp, ack_timestamp, handed, taken>>

\* Mutant of NextQueue: the flush ends with the first queue.
NextQueueFirstOnly(s) ==
    /\ pc[s] = "flush"
    /\ ~Sendable(s, at[s])
    /\ at' = [at EXCEPT ![s] = 0] /\ pc' = [pc EXCEPT ![s] = "in"]
    /\ UNCHANGED <<sessions, seqno, unacks, timestamp, ack_timestamp, shard_back_log,
                   queue, handed, taken>>

NextQueue(s) ==
    /\ pc[s] = "flush"
    /\ ~Sendable(s, at[s])
    /\ IF at[s] + 1 < NumShards
       THEN at' = [at EXCEPT ![s] = @ + 1] /\ UNCHANGED pc
       ELSE at' = [at EXCEPT ![s] = 0] /\ pc' = [pc EXCEPT ![s] = "in"]
    /\ UNCHANGED <<sessions, seqno, unacks, timestamp, ack_timestamp, shard_back_log,
                   queue, handed, taken>>
-----------------------------------------------------------------------------
(* in_messages: try_recvs takes messages until the queue is empty, at most *)
(* one more than the batch.  Every message is dealt with at once, which    *)
(* nobody but the shard can tell from dealing with all of them afterwards. *)

InPacket(s) ==
    /\ pc[s] = "in" /\ at[s] <= QueueSize
    /\ queue[s] # <<>> /\ Head(queue[s]).msg.type = "packet"
    /\ LET m == Head(queue[s]).msg IN
       /\ ack_timestamp' = [ack_timestamp EXCEPT ![s] = Bind(@, m.shard, m.seqno)]
       /\ handed' = IF m.client \in sessions[s]
                    THEN [handed EXCEPT ![m.client] = @ \cup {m}] ELSE handed
       /\ taken' = [taken EXCEPT ![s][m.shard] = m.seqno]
    /\ queue' = [queue EXCEPT ![s] = Tail(@)]
    /\ at' = [at EXCEPT ![s] = @ + 1]
    /\ UNCHANGED <<pc, sessions, seqno, unacks, timestamp, shard_back_log>>

\* book_local_ack: the entry of the shard the ack names must exist.
InLocalAck(s) ==
    /\ pc[s] = "in" /\ at[s] <= QueueSize
    /\ queue[s] # <<>> /\ Head(queue[s]).msg.type = "local_ack"
    /\ LET m == Head(queue[s]).msg IN
       IF m.shard \in DOMAIN timestamp[s]
       THEN /\ timestamp' = [timestamp EXCEPT ![s][m.shard].acked = m.last_received_ack]
            /\ UNCHANGED pc
       ELSE /\ pc' = [pc EXCEPT ![s] = "unreachable"]
            /\ UNCHANGED timestamp
    /\ queue' = [queue EXCEPT ![s] = Tail(@)]
    /\ at' = [at EXCEPT ![s] = @ + 1]
    /\ UNCHANGED <<sessions, seqno, unacks, ack_timestamp, shard_back_log, handed, taken>>

\* Mutant of Acknowledged: the packet after the last one is acknowledged.
AcknowledgedEarly(s) ==
    [t \in Shards |-> IF t \in DOMAIN ack_timestamp[s]
                      THEN Append(shard_back_log[s][t],
                                  [type |-> "local_ack", shard |-> t,
                                   last_received_ack |-> ack_timestamp[s][t] + 1])
                      ELSE shard_back_log[s][t]]

\* ack_messages: one LocalAck to every shard that has sent a packet since the
\* last time.  It carries the id of the shard that it is sent to.
Acknowledged(s) ==
    [t \in Shards |-> IF t \in DOMAIN ack_timestamp[s]
                      THEN Append(shard_back_log[s][t],
                                  [type |-> "local_ack", shard |-> t,
                                   last_received_ack |-> ack_timestamp[s][t]])
                      ELSE shard_back_log[s][t]]

\* remove_unacks: packets below the lowest ack of any shard.
remove_unacks(s) ==
    IF timestamp[s] = Nothing
    THEN {}
    ELSE {m \in unacks[s] : \A t \in DOMAIN timestamp[s] : m.seqno < timestamp[s][t].acked}

\* in_messages ends; ack_messages; clear_unacks, where answering the
\* publisher of an acknowledged packet is a todo!().
InDone(s) ==
    /\ queue[s] = <<>> \/ at[s] > QueueSize
    /\ Goto(s, "in", IF remove_unacks(s) = {} THEN "route" ELSE "todo")
    /\ at' = [at EXCEPT ![s] = 0]
    /\ shard_back_log' = [shard_back_log EXCEPT ![s] = Acknowledged(s)]
    /\ ack_timestamp' = [ack_timestamp EXCEPT ![s] = Nothing]
    /\ unacks' = [unacks EXCEPT ![s] = @ \ remove_unacks(s)]
    /\ UNCHANGED <<sessions, seqno, timestamp, queue, handed, taken>>
-----------------------------------------------------------------------------
\* The phases of the main loop that follow once it has been woken up.
Loop(s) == \/ RouteDone(s) \/ TrySend(s) \/ NextQueue(s)
           \/ InPacket(s) \/ InLocalAck(s) \/ InDone(s)

Next == \E s \in Shards :
    \/ \E c, d \in Clients, qos \in {0, 1} : RouteToClient(s, c, d, qos)
    \/ RouteQos2(s)
    \/ \E c \in Leavers : RemoveSession(s, c)
    \/ Loop(s)

Spec == Init /\ [][Next]_vars

\* The ticker wakes every shard every 10ms, so a loop goes on and on.
FairSpec == Spec /\ \A s \in Shards : WF_vars(Loop(s))
-----------------------------------------------------------------------------
Packets == [type : {"packet"}, client : Clients, shard : Shards, seqno : 1..MaxRouted,
            subscriber : Clients]
LocalAcks == [type : {"local_ack"}, shard : Shards, last_received_ack : 1..MaxRouted]
Entries == [from : Shards, msg : Packets \cup LocalAcks]

Seqnos == 1..MaxRouted + 1

TypeOK == /\ pc \in [Shards -> {"route", "flush", "in", "unreachable", "todo"}]
          /\ at \in [Shards -> 0..NumShards + QueueSize]
          /\ \A s \in Shards : sessions[s] \subseteq {c \in Clients : shard_id(c) = s}
          /\ seqno \in [Shards -> Seqnos]
          /\ unacks \in [Shards -> SUBSET Packets]
          /\ \A s \in Shards : \A t \in DOMAIN timestamp[s] :
                t \in Shards /\ timestamp[s][t] \in [routed : Seqnos, acked : 0..MaxRouted]
          /\ \A s \in Shards : \A t \in DOMAIN ack_timestamp[s] :
                t \in Shards /\ ack_timestamp[s][t] \in Seqnos
          /\ \A s, t \in Shards : \A i \in DOMAIN shard_back_log[s][t] :
                shard_back_log[s][t][i] \in Packets \cup LocalAcks
          /\ \A t \in Shards : /\ Len(queue[t]) <= QueueSize
                               /\ \A i \in DOMAIN queue[t] : queue[t][i] \in Entries
          /\ handed \in [Clients -> SUBSET Packets]

\* f(x) for the elements x of q that pass the test, in their order.
Select(q, Test(_), f(_)) ==
    LET sel[n \in 0..Len(q)] == IF n = 0 THEN <<>>
                                ELSE IF Test(q[n]) THEN Append(sel[n - 1], f(q[n]))
                                ELSE sel[n - 1]
    IN  sel[Len(q)]

\* The messages from s in a queue, and the numbers of the packets among messages.
From(s, q) == Select(q, LAMBDA e : e.from = s, LAMBDA e : e.msg)
Numbers(ms) == Select(ms, LAMBDA m : m.type = "packet", LAMBDA m : m.seqno)

\* Messages on their way from s to t: those in the queue, then the back log.
OnTheWay(s, t) == From(s, queue[t]) \o shard_back_log[s][t]

\* The numbers of the packets among them.
PacketsOnTheWay(s, t) == Numbers(OnTheWay(s, t))

\* The shards implement FIFO channels: whatever fills up, and whoever stops, a
\* packet is neither lost, nor sent twice, nor overtaken between the back log
\* of the shard that routes it and in_messages of the shard it is routed to.
Chan == INSTANCE Channels WITH
            chan <- [s \in Shards |-> [t \in Shards |-> PacketsOnTheWay(s, t)]]

ImplementsChannels == Chan!Spec

\* A LocalAck from t to s never runs ahead of t: the packet it acknowledges,
\* and with it every earlier packet from s to t, has been taken by t.
AcksFollowPackets == \A s, t \in Shards :
    LET back == OnTheWay(t, s)
        there == PacketsOnTheWay(s, t)
    IN  \A i \in DOMAIN back :
            back[i].type = "local_ack" =>
                /\ back[i].last_received_ack <= taken[t][s]
                /\ \A j \in DOMAIN there : there[j] > back[i].last_received_ack

\* Whenever the clients pause (MaxRouted is reached, at the latest), every
\* packet has been taken by the shard it was meant for, however often a queue
\* was full, unless one of the two threads has stopped.
PacketsArrive == []<>(\A s, t \in Shards : \/ PacketsOnTheWay(s, t) = <<>>
                                          \/ Stopped(s) \/ Stopped(t))

\* message.rs, on Message::Packet: "PUBLISH Packets received from clients and
\* routed to other local sessions."  A packet that in_messages takes is handed
\* to the session it was routed to, if that is still there.
HandedToSubscriber ==
    [][\A s \in Shards :
         InPacket(s) => LET m == Head(queue[s]).msg IN
                        m.subscriber \in sessions[s] => m \in handed'[m.subscriber]]_vars
=============================================================================
