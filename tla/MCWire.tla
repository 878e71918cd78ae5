------------------------------- MODULE MCWire -------------------------------
(***************************************************************************)
(* An instance of Wire: every type of packet alone, with each property of  *)
(* its collection alone and all of them together, and pairs of short and   *)
(* long packets.                                                           *)
(***************************************************************************)
EXTENDS Wire

Values(kind) ==
  CASE kind = "u16" -> {0, 1, 65535}
    [] kind = "u32" -> {<<0, 0>>, <<1, 256>>}
    [] kind = "VarU32" -> {0, 127, 128, 16383, 16384, 2097151, 2097152, MAX, MAX + 1}
    [] kind \in {"String", "Vec"} -> {<<>>, <<97>>, <<31>>}
    [] kind = "TopicName" -> {<<>>, <<97>>, <<97, 43>>}
    [] kind = "UserProperty" -> {<<<<97>>, <<>>>>}
    [] kind = "QoS" -> QoS
    [] kind = "bool" -> {0, 1}

ValuesOf(p) == IF p = "PayloadFormatIndicator" THEN {1} ELSE Values(ValueType(p))

\* Auth properties always have their two required members.
Default(coll) ==
  [p \in DOMAIN NoProperties(coll) |-> IF p \in Accepts(coll).required THEN <<<<97>>>> ELSE <<>>]

Given(coll) ==
  LET d == Default(coll)  ps == DOMAIN d
  IN  {<<>>, <<d>>, <<[d EXCEPT !["UserProp"] = <<<<<<97>>, <<>>>>, <<<<>>, <<98>>>>>>]>>,
       <<[p \in ps |-> <<CHOOSE v \in ValuesOf(p) : Encodes(ValueType(p), v) /\ (ValueType(p) \in {"u16", "u32", "VarU32"} => ~IsZero(p, v))>>]>>}
      \cup UNION {{<<[d EXCEPT ![p] = <<v>>]>> : v \in ValuesOf(p)} : p \in ps}

Packet(type, f) == [type |-> type, f |-> f]

Login(flags, name, pass) ==
  [protocol_name |-> <<<<77, 81, 84, 84>>>>, protocol_version |-> <<5>>, flags |-> <<flags>>,
   keep_alive |-> <<60>>, properties |-> <<>>, client_id |-> <<<<97>>>>,
   will_properties |-> <<>>, will_topic |-> <<>>, will_payload |-> <<>>,
   user_name |-> name, password |-> pass]

Will(f, props, payload) ==
  [f EXCEPT !.flags[1] = @ + 4, !.will_properties = props, !.will_topic = <<<<47>>>>,
            !.will_payload = <<payload>>]

Delayed == <<[NoProperties("WillProperties") EXCEPT !["WillDelayInterval"] = <<<<0, 0>>>>]>>

Users == {Login(2, <<>>, <<>>), Login(66, <<<<97>>>>, <<>>), Login(192, <<<<>>>>, <<<<98>>>>)}

Connects ==
  {Packet("Connect", f) : f \in Users \cup {Will(g, Delayed, <<>>) : g \in Users}
     \cup {Will(Login(34, <<>>, <<>>), c, w) : c \in Given("WillProperties") \ {<<>>}, w \in {<<97>>, <<200>>}}
     \cup {[Will(Login(0, <<>>, <<>>), Delayed, <<>>) EXCEPT !.properties = c] : c \in Given("ConnectProperties")}}

ConnAcks ==
  {Packet("ConnAck", [flags |-> <<x>>, code |-> <<y>>, properties |-> <<>>]) :
     x \in 0..2, y \in {0, 138, 140, 159}}
  \cup {Packet("ConnAck", [flags |-> <<1>>, code |-> <<0>>, properties |-> c]) : c \in Given("ConnAckProperties")}

Message(retain, qos, dup, id, props, payload) ==
  Packet("Publish", [retain |-> <<retain>>, qos |-> <<qos>>, duplicate |-> <<dup>>, topic_name |-> <<<<97>>>>,
                     packet_id |-> id, properties |-> props, payload |-> payload])

Contents == {<<>>, <<<<>>>>, <<<<97>>>>, <<<<200>>>>}

Publishes ==
  {Message(r, q, d, IF q = 0 THEN <<>> ELSE <<257>>, <<>>, c) : r \in {0, 1}, q \in QoS, d \in {0, 1}, c \in Contents}
  \cup {Message(0, 0, 0, <<>>, ps, c) : ps \in Given("PublishProperties"), c \in {<<>>, <<<<200>>>>}}
  \cup {Message(0, 0, 0, <<1>>, <<>>, c) : c \in Contents}

Acks ==
  {Packet(t, [packet_id |-> <<1>>, code |-> <<c>>, properties |-> <<>>]) : t \in Pubs, c \in {0, 16, 146, 153, 162}}
  \cup {Packet("PubRel", [packet_id |-> <<1>>, code |-> <<0>>, properties |-> c]) : c \in Given("PubProperties")}

Filters ==
  {<<35>>, <<43, 47, 97>>, <<47, 35>>, <<97>>, <<97, 43>>, <<35, 47>>, <<>>}

Subscribes ==
  {Packet("Subscribe", [packet_id |-> <<2>>, properties |-> <<>>, filters |-> <<<<x, o>>>>]) :
     x \in Filters, o \in {0, 1, 2, 3, 12, 46, 48, 64}}
  \cup {Packet("Subscribe", [packet_id |-> <<2>>, properties |-> c, filters |-> <<<<<<97>>, 1>>, <<<<43>>, 0>>>>]) :
     c \in Given("SubscribeProperties")}

UnSubscribes ==
  {Packet("UnSubscribe", [packet_id |-> <<2>>, properties |-> c, filters |-> x]) :
     x \in {<<>>, <<<<97>>, <<43, 47, 98>>>>} \cup {<<y>> : y \in Filters}, c \in Given("UnSubscribeProperties")}

SubAcks ==
  {Packet("SubAck", [packet_id |-> <<2>>, properties |-> c, return_codes |-> x]) :
     x \in {<<>>, <<0, 2>>, <<162>>}, c \in Given("SubAckProperties")}
  \cup {Packet("UnsubAck", [packet_id |-> <<2>>, properties |-> c, return_codes |-> x]) :
     x \in {<<>>, <<0, 143>>, <<17>>}, c \in Given("UnsubAckProperties")}

Others ==
  {Packet("PingReq", <<>>), Packet("PingResp", <<>>)}
  \cup {Packet("Disconnect", [code |-> <<x>>, properties |-> c]) : x \in {0, 139, 162}, c \in Given("DisconnProperties")}
  \cup {Packet("Auth", [code |-> <<x>>, properties |-> c]) : x \in {0, 25}, c \in Given("AuthProperties")}

Single ==
  {p \in Connects \cup ConnAcks \cup Publishes \cup Acks \cup Subscribes \cup UnSubscribes \cup SubAcks \cup Others :
     Encodable(p)}

-----------------------------------------------------------------------------
(* Items of another implementation: the short forms, and what `encode`     *)
(* does not produce.                                                       *)

Ack(code) == Packet("PubAck", [packet_id |-> <<1>>, code |-> <<code>>, properties |-> <<>>])

Bye == Packet("Disconnect", [code |-> <<0>>, properties |-> <<>>])

Peer ==
  {[bytes |-> <<64, 2, 0, 1>>, packet |-> Ack(0)],
   [bytes |-> <<64, 3, 0, 1, 16>>, packet |-> Ack(16)],
   [bytes |-> <<192, 0>>, packet |-> Packet("PingReq", <<>>)],
   [bytes |-> <<208, 0>>, packet |-> Packet("PingResp", <<>>)],
   [bytes |-> <<224, 0>>, packet |-> Bye],
   [bytes |-> <<224, 1, 0>>, packet |-> Bye],
   [bytes |-> <<240, 0>>, packet |-> Packet("Auth", [code |-> <<0>>, properties |-> <<>>])],
   [bytes |-> <<176, 5, 0, 2, 0, 0, 17>>,
    packet |-> Packet("UnsubAck", [packet_id |-> <<2>>, properties |-> <<>>, return_codes |-> <<0, 17>>])],
   [bytes |-> <<16, 14, 0, 4, 77, 81, 84, 84, 5, 2, 0, 60, 0, 0, 1, 97>>,
    packet |-> Packet("Connect", Login(2, <<>>, <<>>))]}

Long(n) == Message(0, 1, 0, <<1>>, <<>>, <<[i \in 1..n |-> 97]>>)

Few ==
  {Item(Ack(0)), Item(Message(0, 0, 0, <<>>, <<>>, <<<<97>>>>)), Item(Long(140)),
   [bytes |-> <<192, 0>>, packet |-> Packet("PingReq", <<>>)]}

MCStreams == {<<Item(p)>> : p \in Single \cup {Long(200)}} \cup {<<x>> : x \in Peer} \cup Few \X Few
=============================================================================
