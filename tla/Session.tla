------------------------------ MODULE Session -------------------------------
(***************************************************************************)
(* One session (session.rs, message.rs, keep_alive.rs): what it does with  *)
(* the packets of its client, and how it sends messages to its client over *)
(* the bounded packet queue that the miot thread drains.                   *)
(*                                                                         *)
(* Once per round of the shard's main loop a session goes through          *)
(*   route   route_packets: nothing has come in and the keep-alive is      *)
(*           checked, or there are packets to handle;                      *)
(*   handle  handle_packets, one packet after the other;                   *)
(*   in      in_messages, with PUBLISHes from other sessions;              *)
(*   flush   flush_messages, one try_send at a time, after handle and      *)
(*           again after in.                                               *)
(* The phase is "closed" once the shard has been told to drop the session, *)
(* and "todo" when a todo!() has ended the shard's thread.  retry_publish, *)
(* which is a todo!() too and ends every round, is not part of the module; *)
(* neither is the end of the miot thread, nor that Shard::route_packets    *)
(* hands the session a shard whose run-loop it has taken out.              *)
(***************************************************************************)
EXTENDS Integers, Sequences, FiniteSets, Functions

CONSTANTS TopicNames,
          NoName,            \* the empty topic-name, which leaves it to the alias
          PacketIds,         \* bound: packet identifiers the client uses
          mqtt_topic_alias_max,
          mqtt_maximum_qos,
          mqtt_ignore_duplicate,
          mqtt_retain_available,
          mqtt_pkt_batch_size,
          receive_maximum,   \* of the client
          KeepAlive,         \* whether there is a keep-alive interval
          MaxPacketId,       \* 2^16 - 1 in the code
          MaxOut             \* bound: PUBLISHes for the client

ASSUME Sizes == /\ {mqtt_pkt_batch_size, receive_maximum, MaxPacketId} \subseteq Nat \ {0}
                /\ {mqtt_topic_alias_max, mqtt_maximum_qos, MaxOut} \subseteq Nat
ASSUME Named == NoName \notin TopicNames

VARIABLES phase,
          after,          \* the phase that follows the flush
          acks,           \* handle_packets' msgs
          topic_aliases,
          qos1, qos2,
          seqno, next_packet_id, index, back_log, \* ClientOut
          done, left,     \* flush_messages' msgs: those sent, those not
          miot_rx,        \* the packet queue
          conn,           \* whether the miot thread has the connection
          routed,         \* history: [qos, id] of the PUBLISHes routed, QoS > 0
          again,          \* history: one was routed again, not marked as a duplicate
          unnamed,        \* history: one was routed under the empty name
          sent            \* history: seqnos of the PUBLISHes ever put on the queue

inp == <<topic_aliases, qos1, qos2, routed, again, unnamed>>
cout == <<seqno, next_packet_id, index, back_log>>
flush == <<after, done, left, miot_rx, conn, sent>>
vars == <<phase, acks, inp, cout, flush>>

ClientAck == [type |-> "ack"]
Packet(n, id) == [type |-> "packet", seqno |-> n, packet_id |-> id]

\* Session::start; the CONNACK is about to be flushed by add_session.
Init == /\ phase = "flush" /\ after = "route"
        /\ acks = <<>>
        /\ topic_aliases = [a \in {} |-> NoName]
        /\ qos1 = {} /\ qos2 = {}
        /\ seqno = 1 /\ next_packet_id = 1
        /\ index = [id \in {} |-> ClientAck]
        /\ back_log = <<>>
        /\ done = <<>> /\ left = <<ClientAck>>
        /\ miot_rx = <<>> /\ conn = "there"
        /\ routed = {} /\ again = FALSE /\ unnamed = FALSE /\ sent = {}
-----------------------------------------------------------------------------
(* route_packets and the packets of the client.                            *)

\* Where a session goes on that is to be dropped.  remove_connection yields no
\* socket once the miot thread has removed the connection, and then the shard
\* keeps the session until it gets the socket that the miot thread posts.
Failed == IF conn = "there" THEN "closed" ELSE "in"

\* No packet: KeepAlive::check_expired, an error unless the interval has passed
\* since the last packet.
RouteNothing(expired) ==
    /\ phase = "route"
    /\ phase' = IF KeepAlive /\ ~expired THEN Failed ELSE "in"
    /\ UNCHANGED <<acks, inp, cout, flush>>

\* Some packets: KeepAlive::live.  One call takes all that the queue holds, and
\* nothing comes after them once the connection is gone.
RoutePackets ==
    /\ phase = "route" /\ conn # "empty"
    /\ phase' = "handle"
    /\ conn' = IF conn = "gone" THEN "empty" ELSE conn
    /\ UNCHANGED <<acks, inp, cout, after, done, left, miot_rx, sent>>

\* At any time the miot thread removes a connection that has failed.
ConnGone == /\ conn = "there" /\ phase \notin {"closed", "todo"}
            /\ conn' = "gone"
            /\ UNCHANGED <<phase, acks, inp, cout, after, done, left, miot_rx, sent>>

\* Between two rounds the shard gets the socket of a connection that is gone, or
\* the session is taken over or shut down.
Dropped == /\ phase = "route"
           /\ phase' = "closed"
           /\ UNCHANGED <<acks, inp, cout, flush>>

Publishes == [qos : 0..2, id : PacketIds, dup : BOOLEAN, retain : BOOLEAN,
              name : TopicNames \cup {NoName}, alias : 0..mqtt_topic_alias_max + 1]

Booked(p) == \/ p.qos = 1 /\ p.id \in qos1
             \/ p.qos = 2 /\ p.id \in qos2

is_duplicate(p) == Booked(p) /\ ~(p.dup /\ mqtt_ignore_duplicate)

\* book_retain posts the message to the cluster, unless it is an error.
book_retain_fails(p) == p.retain /\ ~mqtt_retain_available

book_qos_fails(p) == p.qos > mqtt_maximum_qos

\* Mutant of book_qos: identifiers of both levels go to one list.
book_qos_one_list(p) == /\ qos1' = IF p.qos > 0 THEN qos1 \cup {p.id} ELSE qos1
                        /\ UNCHANGED qos2

book_qos(p) == /\ qos1' = IF p.qos = 1 THEN qos1 \cup {p.id} ELSE qos1
               /\ qos2' = IF p.qos = 2 THEN qos2 \cup {p.id} ELSE qos2

\* publish_topic_name, alias 0 standing for no alias.
publish_topic_name_fails(p) ==
    \/ p.alias > mqtt_topic_alias_max
    \/ p.name = NoName /\ p.alias \notin DOMAIN topic_aliases

publish_topic_name(p) == IF p.name = NoName THEN topic_aliases[p.alias] ELSE p.name

book_alias(p) ==
    IF p.alias = 0 \/ p.name = NoName THEN topic_aliases
    ELSE [a \in DOMAIN topic_aliases \cup {p.alias} |->
            IF a = p.alias THEN p.name ELSE topic_aliases[a]]

HandlePublish(p, matched) ==
    /\ phase = "handle"
    /\ \/ /\ is_duplicate(p)
          /\ UNCHANGED <<phase, acks, inp>>
       \/ /\ ~is_duplicate(p)
          /\ book_retain_fails(p) \/ book_qos_fails(p)
          /\ phase' = Failed /\ acks' = <<>>
          /\ UNCHANGED inp
       \/ /\ ~is_duplicate(p) /\ ~book_retain_fails(p) /\ ~book_qos_fails(p)
          /\ book_qos(p)
          /\ IF publish_topic_name_fails(p)
             THEN /\ phase' = Failed /\ acks' = <<>>
                  /\ UNCHANGED <<topic_aliases, routed, again, unnamed>>
             ELSE /\ topic_aliases' = book_alias(p)
                  \* Shard::route_to_client has a todo!() for QoS-2.
                  /\ phase' = IF p.qos = 2 /\ matched THEN "todo" ELSE phase
                  /\ LET r == [qos |-> p.qos, id |-> p.id] IN
                     /\ routed' = IF p.qos > 0 THEN routed \cup {r} ELSE routed
                     /\ again' = (again \/ (r \in routed /\ ~p.dup))
                  /\ unnamed' = (unnamed \/ publish_topic_name(p) \notin TopicNames)
                  /\ UNCHANGED acks
    /\ UNCHANGED <<cout, flush>>

\* SUBSCRIBE (whose effect on the trie is in SubscribedTrie) and PINGREQ lead
\* to an answer.  try_recvs yields a batch and one packet, at most.
HandleAnswered ==
    /\ phase = "handle" /\ Len(acks) <= mqtt_pkt_batch_size
    /\ acks' = Append(acks, ClientAck)
    /\ UNCHANGED <<phase, inp, cout, flush>>

\* DISCONNECT, and packets that only a broker sends; the rest is a todo!().
HandleOther ==
    /\ phase = "handle"
    /\ phase' \in {Failed, "todo"}
    /\ acks' = <<>>
    /\ UNCHANGED <<inp, cout, flush>>
-----------------------------------------------------------------------------
(* Messages for the client.                                                *)

\* Mutant of incr_cout_seqno: the identifier rolls over to ZERO.
incr_cout_seqno_zero(id) == (id + 1) % (MaxPacketId + 1)

incr_cout_seqno(id) == IF id = MaxPacketId THEN 1 ELSE id + 1

\* Mutant of Exceeds: the limit is one higher.
ExceedsLate(msgs) == Len(msgs) > 2 * mqtt_pkt_batch_size + 1

Exceeds(msgs) == Len(msgs) > 2 * mqtt_pkt_batch_size

\* in_messages' end, and flush_messages' start, which handle_packets does not get
\* to if there are too many messages; Shard::flush_messages has it for all the
\* sessions that are left.
Book(msgs, next) ==
    /\ IF Exceeds(msgs) /\ (conn = "there" \/ next = "in")
       THEN phase' = Failed /\ back_log' = msgs /\ UNCHANGED <<after, done, left>>
       ELSE IF Cardinality(DOMAIN index) > receive_maximum
       THEN phase' = next /\ back_log' = msgs /\ UNCHANGED <<after, done, left>>
       ELSE /\ phase' = "flush" /\ after' = next
            /\ back_log' = <<>>
            /\ done' = <<>> /\ left' = msgs

HandleDone ==
    /\ phase = "handle"
    /\ Book(back_log \o acks, "in")
    /\ acks' = <<>>
    /\ UNCHANGED <<inp, seqno, next_packet_id, index, miot_rx, conn, sent>>

\* Mutant of InMessages: the PUBLISHes of a call are booked back to front.
InMessagesReversed(n) ==
    /\ phase = "in" /\ seqno + n <= MaxOut + 1
    /\ Book(back_log \o [i \in 1..n |-> Packet(seqno + n - i, next_packet_id)], "route")
    /\ seqno' = seqno + n
    /\ UNCHANGED <<next_packet_id, acks, inp, index, miot_rx, conn, sent>>

\* cout_publish: one PUBLISH per subscription, n of them, with numbers of this
\* session.
InMessages(n) ==
    /\ phase = "in" /\ seqno + n <= MaxOut + 1
    /\ LET id[i \in 1..n + 1] == IF i = 1 THEN next_packet_id ELSE incr_cout_seqno(id[i - 1])
       IN  /\ Book(back_log \o [i \in 1..n |-> Packet(seqno + i - 1, id[i])], "route")
           /\ next_packet_id' = id[n + 1]
    /\ seqno' = seqno + n
    /\ UNCHANGED <<acks, inp, index, miot_rx, conn, sent>>

TrySend ==
    /\ phase = "flush"
    /\ left # <<>> /\ Len(miot_rx) < mqtt_pkt_batch_size
    /\ miot_rx' = Append(miot_rx, Head(left))
    /\ sent' = sent \cup {m.seqno : m \in {m \in {Head(left)} : m.type = "packet"}}
    /\ done' = Append(done, Head(left)) /\ left' = Tail(left)
    /\ UNCHANGED <<phase, after, conn, acks, inp, cout>>

\* The messages that were not sent are booked, if they are PUBLISHes, and the
\* messages that were sent go back to the back log.
FlushDone ==
    /\ phase = "flush"
    /\ left = <<>> \/ Len(miot_rx) = mqtt_pkt_batch_size
    /\ LET booked == {m \in Range(left) : m.type = "packet"}
           ids == {m.packet_id : m \in booked}
           latest(id) == CHOOSE m \in booked : /\ m.packet_id = id
                                               /\ \A o \in booked : o.packet_id = id
                                                                    => o.seqno <= m.seqno
       IN  index' = [id \in DOMAIN index \cup ids |->
                       IF id \in ids THEN latest(id) ELSE index[id]]
    /\ back_log' = done
    /\ done' = <<>> /\ left' = <<>>
    /\ phase' = after
    /\ UNCHANGED <<after, acks, inp, seqno, next_packet_id, miot_rx, conn, sent>>

\* Socket::write_packets, on the miot thread, takes what the queue holds.
Drain == /\ conn = "there" /\ miot_rx # <<>>
         /\ miot_rx' = Tail(miot_rx)
         /\ UNCHANGED <<phase, acks, inp, cout, after, done, left, conn, sent>>

Next == \/ \E expired \in BOOLEAN : RouteNothing(expired)
        \/ RoutePackets \/ ConnGone \/ Dropped
        \/ \E p \in Publishes, matched \in BOOLEAN : HandlePublish(p, matched)
        \/ HandleAnswered \/ HandleOther \/ HandleDone
        \/ \E n \in 0..MaxOut : InMessages(n)
        \/ TrySend \/ FlushDone \/ Drain

Spec == Init /\ [][Next]_vars
-----------------------------------------------------------------------------
Messages == {ClientAck} \cup [type : {"packet"}, seqno : 1..MaxOut, packet_id : 1..MaxPacketId]

TypeOK == /\ phase \in {"route", "handle", "in", "flush", "closed", "todo"}
          /\ after \in {"route", "in"}
          /\ conn \in {"there", "gone", "empty"}
          /\ DOMAIN topic_aliases \subseteq 1..mqtt_topic_alias_max
          /\ qos1 \subseteq PacketIds /\ qos2 \subseteq PacketIds
          /\ seqno \in 1..MaxOut + 1
          /\ next_packet_id \in 1..MaxPacketId
          /\ DOMAIN index \subseteq 1..MaxPacketId
          /\ \A id \in DOMAIN index : index[id] \in Messages /\ index[id].packet_id = id
          /\ UNION {Range(s) : s \in {acks, back_log, done, left, miot_rx}} \subseteq Messages
          /\ Len(miot_rx) <= mqtt_pkt_batch_size

\* However slowly the client reads and whatever comes in, a session that goes
\* on holds at most twice the batch for its client: in_messages ("pressure
\* exceeds limit") has the shard drop it before more is flushed.  A session whose
\* connection is gone is not dropped by that.
BackLogBounded == phase # "closed" /\ conn = "there" =>
                    Len(back_log) + Len(done) + Len(left) <= 2 * mqtt_pkt_batch_size

\* do_publish takes effect as a whole: as long as the session and its connection
\* go on, an identifier is on the list of its QoS level exactly if a PUBLISH with
\* it has been routed.  Whatever fails, one is routed under a proper name, and
\* again only if the client marks it as a duplicate.
BookedIffRouted ==
    /\ phase # "closed" /\ conn = "there" =>
          /\ qos1 = {r.id : r \in {r \in routed : r.qos = 1}}
          /\ qos2 = {r.id : r \in {r \in routed : r.qos = 2}}
    /\ ~again /\ ~unnamed

\* The client sees PUBLISHes in the order of ClientOut::seqno, repetitions
\* aside: one that was passed over because the queue was full is not put on it
\* after later ones.
FirstSendsInOrder == [][\A n \in sent' \ sent : \A m \in sent : m < n]_vars

\* message.rs, on ClientOut::back_log: "Back log of messages that needs to be
\* flushed out to the client."  Between flushes, none of them has been sent.
BackLogIsUnsent == phase # "flush" =>
                     \A m \in Range(back_log) : m.type = "packet" => m.seqno \notin sent
=============================================================================
