-------------------------------- MODULE Wire --------------------------------
(***************************************************************************)
(* The way of packets from a connection to a session: the bytes arrive in  *)
(* pieces, MQTTRead (packet.rs) puts packets together, Socket (socket.rs)  *)
(* decodes them and hands them to the bounded queue of the session.        *)
(*                                                                         *)
(* A stream is a sequence of items, each with its bytes and the packet     *)
(* that they stand for.  The environment delivers it up to one of the      *)
(* positions in Cuts, counted from the start of an item, or to its end.    *)
(* The variables `sent`, `got` and `paced` only record history.            *)
(***************************************************************************)
EXTENDS Packets

CONSTANTS
  Streams,     \* sequences of items that may be sent
  Cuts,        \* where the network may cut an item
  MaxSize,     \* max_size of MQTTRead
  BatchSize,   \* mqtt_pkt_batch_size
  QueueSize    \* size of the session's packet queue

ASSUME WireSizes == MaxSize \in Nat /\ BatchSize \in Nat \ {0} /\ QueueSize \in Nat \ {0}

VARIABLES
  sent,       \* the stream
  arrived,    \* number of its bytes that have arrived
  avail,      \* those that have not been read
  pr,         \* rd.pr
  timeout,    \* rd.timeout: None, or an instant in the Future or the Past
  packets,    \* rd.packets
  queue,      \* the session's packet queue
  phase,      \* where read_packets is, or Idle between calls
  status,     \* Open, or how the connection has ended
  got,        \* packets that the session has taken
  paced       \* TRUE as long as items arrive whole, are longer than the first read, and
              \* none arrives while the time-out is armed

vars == <<sent, arrived, avail, pr, timeout, packets, queue, phase, status, got, paced>>

\* In the place of the packet of an item: the stream must be refused here, and any packet
\* or none will do.
Refused == [type |-> "Refused", f |-> <<>>]
AnyPacket == [type |-> "AnyPacket", f |-> <<>>]

Bytes(items) == FlattenSeq([i \in DOMAIN items |-> items[i].bytes])

\* Where item i of the stream starts.
Start(i) == Len(Bytes(SubSeq(sent, 1, i - 1)))

Init ==
  /\ sent \in Streams
  /\ arrived = 0
  /\ avail = <<>> /\ packets = <<>> /\ queue = <<>> /\ got = <<>>
  /\ pr = [st |-> "Init", data |-> <<>>, start |-> 0, len |-> 0]
  /\ timeout = "None"
  /\ phase = "Idle"
  /\ status = "Open"
  /\ paced = TRUE

-----------------------------------------------------------------------------
(* The peer and the clock.                                                 *)

\* Bytes of item i arrive, up to its c-th or up to its end.
Deliver(i, c) ==
  /\ status = "Open"
  /\ arrived >= Start(i) /\ arrived < Start(i) + c
  /\ arrived' = Start(i) + c
  /\ avail' = avail \o SubSeq(Bytes(sent), arrived + 1, arrived')
  /\ paced' = (/\ paced /\ avail = <<>> /\ pr.st = "Init" /\ timeout # "Future"
               /\ arrived = Start(i) /\ c = Len(sent[i].bytes) /\ c > 5)
  /\ UNCHANGED <<sent, pr, timeout, packets, queue, phase, status, got>>

Tick ==
  /\ status = "Open" /\ timeout = "Future"
  /\ timeout' = "Past"
  /\ UNCHANGED <<sent, arrived, avail, pr, packets, queue, phase, status, got, paced>>

\* The session takes a packet from its queue.
Take ==
  /\ queue # <<>>
  /\ got' = Append(got, Head(queue))
  /\ queue' = Tail(queue)
  /\ UNCHANGED <<sent, arrived, avail, pr, timeout, packets, phase, status, paced>>

-----------------------------------------------------------------------------
(* MQTTRead::read.  It answers with the reader, the bytes it has taken, or *)
(* an error.                                                               *)

Least(a, b) == IF a < b THEN a ELSE b

\* The first n bytes of avail in the zeroed `scratch`.
Scratch(n) == [i \in 1..5 |-> IF i <= n THEN avail[i] ELSE 0]

SizedUnlimited(len, data) ==
  Then(len, LAMBDA r :
    LET pkt_len == r.n + r.val
    IN  Ok([st |-> "Remain", data |-> SubSeq(data, 1, Least(Len(data), pkt_len)),
            start |-> Len(data), len |-> pkt_len], 0))

\* Enough bytes for the remaining length, if no error: room for pkt_len bytes, the first
\* `start` of which have been read.  `data.resize` cuts off what is too much.
Sized(len, data) ==
  Then(len, LAMBDA r :
    LET pkt_len == r.n + r.val
    IN  IF pkt_len > MaxSize THEN Fail
        ELSE Ok([st |-> "Remain", data |-> SubSeq(data, 1, Least(Len(data), pkt_len)),
                 start |-> Len(data), len |-> pkt_len], 0))

\* In the code the length is decoded from the whole scratch, the bytes not read included.
ReadInit ==
  LET n == Least(5, Len(avail))
      data == SubSeq(avail, 1, n)
      header == Ok([pr EXCEPT !.st = "Header", !.data = data], 0)
  IN  IF n = 1 \/ \A i \in 2..5 : Scratch(n)[i] > 128 THEN header
      ELSE Sized(VarDecode(Scratch(n), 1), data)

ReadHeader ==
  LET n == Least(5, Len(avail))
      data == pr.data \o SubSeq(avail, 1, n)
  IN  IF \A i \in 1..5 : Scratch(n)[i] > 128 THEN Ok([pr EXCEPT !.data = data], 0)
      ELSE Sized(VarDecode(data, 1), data)

ReadRemain ==
  LET n == Least(pr.len - pr.start, Len(avail))
      data == pr.data \o SubSeq(avail, 1, n)
  IN  Ok([pr EXCEPT !.st = IF Len(data) = pr.len THEN "Fin" ELSE "Remain",
                    !.data = data, !.start = @ + n], 0)

\* Bytes that one call takes from the socket.
Wanted == IF pr.st = "Remain" THEN pr.len - pr.start ELSE 5

-----------------------------------------------------------------------------
(* Socket::read_packets, one call for each round of the miot thread.       *)

Closes(how) == status' = how /\ phase' = "Idle"

ReadPackets ==
  /\ status = "Open" /\ phase = "Idle"
  /\ phase' = "Top"
  /\ UNCHANGED <<sent, arrived, avail, pr, timeout, packets, queue, status, got, paced>>

\* A `try_send` of send_upstream, before and after reading.
SendUpstream ==
  /\ phase \in {"Top", "Last"} /\ packets # <<>> /\ Len(queue) < QueueSize
  /\ queue' = Append(queue, Head(packets))
  /\ packets' = Tail(packets)
  /\ UNCHANGED <<sent, arrived, avail, pr, timeout, phase, status, got, paced>>

\* send_upstream is through, or the queue is full and the call ends.
Sent ==
  /\ phase \in {"Top", "Last"} /\ (packets = <<>> \/ Len(queue) = QueueSize)
  /\ phase' = IF phase = "Top" /\ packets = <<>> THEN "Read" ELSE "Idle"
  /\ UNCHANGED <<sent, arrived, avail, pr, timeout, packets, queue, status, got, paced>>

\* The session is gone, and its end of the queue with it.
SendFails ==
  /\ phase \in {"Top", "Last"} /\ packets # <<>>
  /\ Closes("Disconnected")
  /\ paced' = FALSE
  /\ UNCHANGED <<sent, arrived, avail, pr, timeout, packets, queue, got>>

UnfinishedOnceArmed ==
  IF timeout # "None"
  THEN timeout' = "None" /\ Closes("Disconnected")
  ELSE timeout' = "Future" /\ phase' = "Last" /\ UNCHANGED status

\* read_packet finds the packet unfinished: it arms the time-out, and gives up if it is
\* armed with an instant in the future, which is what `read_elapsed` tests.
Unfinished ==
  IF timeout = "Future"
  THEN timeout' = "None" /\ Closes("Disconnected")
  ELSE timeout' = (IF timeout = "None" THEN "Future" ELSE timeout) /\ phase' = "Last" /\ UNCHANGED status

\* The packet is complete: `parse`, which also wants all its bytes used, and `reset`.  The
\* miot thread removes a connection for a MalformedPacket or a ProtocolError, and panics
\* on any other error.
Finished(data) ==
  LET r == Packet_decode(data)
  IN  /\ timeout' = "None"
      /\ IF r.ok /\ r.n = Len(data)
         THEN /\ packets' = Append(packets, r.val)
              /\ pr' = [st |-> "Init", data |-> <<>>, start |-> 0, len |-> 0]
              /\ phase' = IF Len(packets') < BatchSize THEN "Top" ELSE "Last"
              /\ UNCHANGED status
         ELSE /\ Closes(IF ~Unwraps(data[1]) \/ (~r.ok /\ r.kind = "InsufficientBytes")
                        THEN "Panic" ELSE "Failed")
              /\ UNCHANGED <<packets, pr>>

\* Nothing to read: WouldBlock.
ReadBlocks ==
  /\ phase = "Read" /\ avail = <<>> /\ Wanted > 0
  /\ Unfinished
  /\ UNCHANGED <<sent, arrived, avail, pr, packets, queue, got, paced>>

\* There is no room left in `data`: a read of no bytes is taken for the end of the stream,
\* and a slice that starts behind its end panics.
ReadNothing ==
  /\ phase = "Read" /\ Wanted <= 0
  /\ Closes(IF Wanted = 0 THEN "Disconnected" ELSE "Panic")
  /\ UNCHANGED <<sent, arrived, avail, pr, timeout, packets, queue, got, paced>>

Read ==
  /\ phase = "Read" /\ avail # <<>> /\ Wanted > 0
  /\ avail' = SubSeq(avail, Wanted + 1, Len(avail))
  /\ LET r == CASE pr.st = "Init" -> ReadInit
                [] pr.st = "Header" -> ReadHeader
                [] pr.st = "Remain" -> ReadRemain
     IN  IF ~r.ok THEN Closes("Failed") /\ UNCHANGED <<pr, timeout, packets>>
         ELSE IF r.val.st = "Fin" THEN Finished(r.val.data)
         ELSE pr' = r.val /\ Unfinished /\ UNCHANGED packets
  /\ UNCHANGED <<sent, arrived, queue, got, paced>>

\* The peer has closed the connection and everything is read.
ReadClosed ==
  /\ phase = "Read" /\ avail = <<>> /\ arrived = Len(Bytes(sent)) /\ Wanted > 0
  /\ Closes("Disconnected")
  /\ paced' = FALSE
  /\ UNCHANGED <<sent, arrived, avail, pr, timeout, packets, queue, got>>

Miot == ReadPackets \/ SendUpstream \/ Sent \/ SendFails \/ ReadBlocks \/ ReadNothing \/ Read \/ ReadClosed

Next ==
  \/ \E i \in DOMAIN sent : \E c \in Cuts \cup {Len(sent[i].bytes)} :
       c <= Len(sent[i].bytes) /\ Deliver(i, c)
  \/ Tick
  \/ Take
  \/ Miot

Spec == Init /\ [][Next]_vars

\* The shard wakes the miot thread whenever it is woken, every 10ms, so that it goes on
\* until the connection ends; and it takes packets from the queue in each of its rounds.
\* (Miot is enabled as long as the connection is open: this is its weak fairness.)
FairSpec == Spec /\ (<>(status # "Open") \/ []<><<Miot>>_vars) /\ WF_vars(Take)

-----------------------------------------------------------------------------
(* What a packet that was encoded should be read as, from what MQTT says   *)
(* of packets and not from the tables of the decoder.                      *)

PropertiesOf(p) == IF "properties" \in DOMAIN p.f THEN p.f.properties ELSE <<>>

HasZero(p, q) ==
  \E i \in DOMAIN PropertiesOf(p) :
    LET c == PropertiesOf(p)[i] IN q \in DOMAIN c /\ \E j \in DOMAIN c[q] : IsZero(q, c[q][j])

\* The enums of the codes of PUBACK and PUBREC, and of PUBREL and PUBCOMP.
PubAckReasonCode == {0, 16, 128, 131, 135, 144, 145, 146, 151, 153}
PubRelReasonCode == {0, 146}

\* Reserved flags, a code that does not belong to the packet, an empty list, a text that
\* is none, a zero where MQTT forbids it.
Malformed(p) ==
  \/ p.type = "ConnAck" /\ p.f.flags[1] \notin {0, 1}
  \/ /\ p.type = "Publish"
     /\ \/ p.f.qos = <<0>> /\ p.f.duplicate = <<1>>
        \/ IsUtf8(p.f.properties) /\ p.f.payload # <<>> /\ ~Utf8(p.f.payload[1])
  \/ p.type \in {"PubAck", "PubRec"} /\ p.f.code[1] \notin PubAckReasonCode
  \/ p.type \in {"PubRel", "PubComp"} /\ p.f.code[1] \notin PubRelReasonCode
  \/ p.type = "UnSubscribe" /\ p.f.filters = <<>>
  \/ p.type = "SubAck" /\ p.f.return_codes = <<>>
  \/ \E q \in {"ReceiveMaximum", "MaximumPacketSize", "TopicAlias"} : HasZero(p, q)
  \/ p.type = "Subscribe" /\ HasZero(p, "SubscriptionIdentifier")

\* Packets that come out of encode and decode as others, or not at all: PINGREQ and
\* PINGRESP have each other's header, UNSUBACK has the one of SUBACK; a CONNECT has the
\* length of its will properties even without a will, and with a will needs some of them;
\* its AuthenticationData is the method; a QoS 0 PUBLISH gets its packet-id, if there is
\* one, and the properties that PUBLISH may repeat are refused when they are.
Deviates(p) ==
  \/ p.type \in {"PingReq", "PingResp", "UnsubAck"}
  \/ /\ p.type = "Connect"
     /\ \/ ~is_will_flag(p.f)
        \/ \A q \in DOMAIN p.f.will_properties[1] : p.f.will_properties[1][q] = <<>>
        \/ \E i \in DOMAIN p.f.properties :
             p.f.properties[i]["AuthenticationData"] # p.f.properties[i]["AuthenticationMethod"]
  \/ /\ p.type = "Publish"
     /\ \/ p.f.qos = <<0>> /\ p.f.packet_id # <<>>
        \/ \E i \in DOMAIN p.f.properties : \E q \in {"UserProp", "SubscriptionIdentifier"} :
             Len(p.f.properties[i][q]) > 1

\* None and Some of nothing are written alike: no properties, and an empty payload.
Normal(p) ==
  [p EXCEPT !.f = [x \in DOMAIN @ |->
     IF \/ x = "properties" /\ @[x] # <<>> /\ \A q \in DOMAIN @[x][1] : @[x][1][q] = <<>>
        \/ x = "payload" /\ @[x] = <<<<>>>>
     THEN <<>> ELSE @[x]]]

\* The item that `Packet::encode` makes of p.
Item(p) ==
  LET bytes == Packet_encode(p)
  IN  [bytes |-> bytes,
       packet |-> IF Deviates(p) THEN AnyPacket
                  ELSE IF Malformed(p) \/ Len(bytes) > MaxSize THEN Refused
                  ELSE Normal(p)]

-----------------------------------------------------------------------------
(* Properties.                                                             *)

\* The variables have their types, the reader never has more bytes than the packet, and
\* the queues their bounds.
TypeOK ==
  /\ status \in {"Open", "Disconnected", "Failed", "Panic"}
  /\ phase \in {"Idle", "Top", "Read", "Last"}
  /\ timeout \in {"None", "Future", "Past"}
  /\ pr.st \in {"Init", "Header", "Remain"}
  /\ pr.st = "Remain" => Len(pr.data) <= pr.len /\ pr.len <= MaxSize
  /\ Len(queue) <= QueueSize /\ Len(packets) <= BatchSize
  /\ arrived >= Len(avail)

\* However the bytes are cut, a session gets the packets that were sent, in order, and
\* nothing else: no packet is made of half a length field, of parts of two packets or of
\* bytes left in a buffer, and a malformed packet or one that is too long does not get
\* through (MQTTRead::read, Packet::encode, Packet::decode, Socket::read_packets).  Of
\* the packets that Deviates lists it only says that no more than one comes out.
DecodedAsSent ==
  LET all == got \o queue \o packets
  IN  /\ Len(all) <= Len(sent)
      /\ \A i \in DOMAIN all : sent[i].packet \in {all[i], AnyPacket}

\* Items that have arrived.
Arrived == Cardinality({i \in DOMAIN sent : arrived >= Start(i) + Len(sent[i].bytes)})

\* A packet of more than five bytes that arrives whole, while no time-out is armed, gets
\* to the session (Socket::read_packets, called again and again by the miot thread).
PacedArrives ==
  \A i \in 1..2 :
    (paced /\ Arrived >= i /\ \A j \in 1..i : sent[j].packet \notin {Refused, AnyPacket})
      ~> (Len(got) >= i \/ ~paced)
=============================================================================
