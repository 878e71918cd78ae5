------------------------------ MODULE Packets -------------------------------
(***************************************************************************)
(* The packets of MQTT (v5/).                                              *)
(*                                                                         *)
(* A packet is a record of its type and its fields.  Each field is a       *)
(* sequence of values: one for a plain field, at most one for an Option,   *)
(* any number for a list.  Decoding goes field by field, as `dec_field!`   *)
(* does, through intermediate results whose value is the record of fields. *)
(***************************************************************************)
EXTENDS Properties

PacketType ==
  <<"Connect", "ConnAck", "Publish", "PubAck", "PubRec", "PubRel", "PubComp", "Subscribe",
    "SubAck", "UnSubscribe", "UnsubAck", "PingReq", "PingResp", "Disconnect", "Auth">>

Collections ==
  {"ConnectProperties", "WillProperties", "ConnAckProperties", "PublishProperties",
   "PubProperties", "SubscribeProperties", "SubAckProperties", "UnSubscribeProperties",
   "UnsubAckProperties", "DisconnProperties", "AuthProperties"}

Bit(byte, b) == (byte \div b) % 2

-----------------------------------------------------------------------------
(* Fixed header.                                                           *)

\* The first byte for a packet type and the flags below it, `fixed_byte!`.
fixed_byte(type, flags) == 16 * (CHOOSE i \in DOMAIN PacketType : PacketType[i] = type) + flags

\* `FixedHeader::new`, `new_publish`, `new_pubrel`, `new_subscribe`, `new_unsubscribe`:
\* the flags of a packet.
HeaderFlags(type, f) ==
  CASE type = "Publish" -> 8 * f.duplicate[1] + 2 * f.qos[1] + f.retain[1]
    [] type \in {"PubRel", "Subscribe", "UnSubscribe"} -> 2
    [] OTHER -> 0

\* `FixedHeader::unwrap` finds a packet type and a QoS in the first byte, else it panics.
Unwraps(byte1) == byte1 \div 16 \in DOMAIN PacketType /\ (byte1 \div 2) % 4 \in QoS

TypeOf(byte1) == PacketType[byte1 \div 16]

\* `FixedHeader::validate`
ValidHeader(byte1) ==
  /\ Unwraps(byte1)
  /\ TypeOf(byte1) = "Publish" \/ byte1 % 16 = HeaderFlags(TypeOf(byte1), <<>>)

\* `FixedHeader::decode`, with the first byte and the end that the remaining length says.
Header(s) ==
  Then(u8_decode(s, 0), LAMBDA b : Then(VarDecode(s, b.n), LAMBDA len :
    IF ValidHeader(b.val)
    THEN Ok([byte1 |-> b.val, remaining_len |-> len.val, end |-> len.n + len.val], len.n)
    ELSE Fail))

insert_fixed_header(byte1, data) == <<byte1>> \o VarEncode(Len(data)) \o data

-----------------------------------------------------------------------------
(* Fields in the order in which they are written or read.                  *)

\* Fields in use: an Option that is None leaves nothing, missing properties a length of 0.
Written(f, layout) ==
  FlattenSeq([i \in DOMAIN layout |->
    LET kind == layout[i][2]  vs == f[layout[i][1]]
    IN  IF kind \in Collections
          THEN IF vs = <<>> THEN <<0>> ELSE EncodeProperties(kind, vs[1])
        ELSE IF kind = "bytes" THEN FlattenSeq(vs)
        ELSE FlattenSeq([j \in DOMAIN vs |-> Encode(kind, vs[j])])])

\* Each field's `encode` succeeds.
Writable(f, layout) ==
  \A i \in DOMAIN layout :
    LET kind == layout[i][2]  vs == f[layout[i][1]]
    IN  \A j \in DOMAIN vs :
          IF kind \in Collections THEN PropertiesEncode(kind, vs[j]) ELSE Encodes(kind, vs[j])

Put(f, name, vs) == [x \in DOMAIN f \cup {name} |-> IF x = name THEN vs ELSE f[x]]

\* What `decode` does with each field of a layout is its third member: "one" value, the
\* "payload" or the "entries" that fill the packet, or when the field is there.
Always(layout) == [i \in DOMAIN layout |-> Append(layout[i], "one")]

\* What is left of the packet, up to `end`.  The stream is never shorter than what has
\* been read, and ends at `end` or before it.
Payload(s, n, end) ==
  IF end = n THEN Ok(<<>>, n)
  ELSE IF end <= Len(s) THEN Ok(<<SubSeq(s, n + 1, end)>>, end)
  ELSE Fail

\* One or more values that fill the packet up to `end`, or just one.
RECURSIVE Many(_, _, _, _, _)
Many(kind, s, n, end, acc) ==
  Then(Decode(kind, s, n), LAMBDA d :
    IF d.n >= end THEN Ok(Append(acc, d.val), d.n)
    ELSE Many(kind, s, d.n, end, Append(acc, d.val)))

Entries(kind, s, n, end) ==
  IF n = end \/ end > Len(s) THEN Fail ELSE Many(kind, SubSeq(s, 1, end), n, end, <<>>)

-----------------------------------------------------------------------------
(* The packets.  `_fields` lists what `encode` writes.                     *)

Utf8(data) == \A i \in DOMAIN data : data[i] < 128

IsUtf8(props) == props # <<>> /\ props[1]["PayloadFormatIndicator"] = <<1>>

Connect_fields ==
  <<<<"protocol_name", "String">>, <<"protocol_version", "MqttProtocol">>,
    <<"flags", "ConnectFlags">>, <<"keep_alive", "u16">>, <<"properties", "ConnectProperties">>,
    <<"client_id", "String">>, <<"will_properties", "WillProperties">>,
    <<"will_topic", "TopicName">>, <<"will_payload", "Vec">>, <<"user_name", "String">>,
    <<"password", "String">>>>

is_will_flag(f) == Bit(f.flags[1], 4) = 1

is_username(f) == Bit(f.flags[1], 64) = 1

is_password(f) == Bit(f.flags[1], 128) = 1

Connect_decode ==
  Always(SubSeq(Connect_fields, 1, 6))
    \o <<<<"will_properties", "WillProperties", "will">>, <<"will_topic", "TopicName", "will">>,
         <<"will_payload", "Vec", "will">>, <<"user_name", "String", "username">>,
         <<"password", "String", "password">>>>

\* `Connect::validate`.  It panics on Utf8 will properties without a payload.
Connect_validate(f) ==
  /\ f.protocol_name = <<<<77, 81, 84, 84>>>>
  /\ f.protocol_version = <<5>>
  /\ f.flags[1] \in ConnectFlags
  /\ (f.flags[1] \div 8) % 4 \in QoS
  /\ is_will_flag(f) => f.will_topic # <<>> /\ f.will_properties # <<>> /\ f.will_payload # <<>>
  /\ IsUtf8(f.will_properties) => Utf8(f.will_payload[1])

ConnAck_fields ==
  <<<<"flags", "ConnackFlags">>, <<"code", "ConnackReasonCode">>,
    <<"properties", "ConnAckProperties">>>>

ConnAck_decode == Always(ConnAck_fields)

Publish_fields ==
  <<<<"topic_name", "TopicName">>, <<"packet_id", "u16">>, <<"properties", "PublishProperties">>,
    <<"payload", "bytes">>>>

\* The flags of PUBLISH are read from its first byte.
Publish_head(b) == [retain |-> <<b % 2>>, qos |-> <<(b \div 2) % 4>>, duplicate |-> <<Bit(b, 8)>>]

Publish_decode ==
  <<<<"topic_name", "TopicName", "one">>, <<"packet_id", "u16", "qos">>,
    <<"properties", "PublishProperties", "one">>, <<"payload", "bytes", "payload">>>>

\* `Publish::validate`, which only `decode` calls.
Publish_validate(f) ==
  /\ f.qos = <<0>> => f.duplicate = <<0>>
  /\ f.qos # <<0>> => f.packet_id # <<>>
  /\ IsUtf8(f.properties) /\ f.payload # <<>> => Utf8(f.payload[1])

Pub_fields ==
  <<<<"packet_id", "u16">>, <<"code", "ReasonCode">>, <<"properties", "PubProperties">>>>

\* PUBACK, PUBREC, PUBREL and PUBCOMP may end after the packet-id or the code.
Pub_decode ==
  <<<<"packet_id", "u16", "one">>, <<"code", "ReasonCode", "len # 2">>,
    <<"properties", "PubProperties", "len # 2, 3">>>>

\* `Pub::validate`, which only `decode` calls.
Pub_validate(type, f) ==
  f.code[1] \in IF type \in {"PubAck", "PubRec"}
                THEN {0, 16, 128, 131, 135, 144, 145, 146, 151, 153} ELSE {0, 146}

Subscribe_fields ==
  <<<<"packet_id", "u16">>, <<"properties", "SubscribeProperties">>, <<"filters", "SubscribeFilter">>>>

Subscribe_decode ==
  Always(SubSeq(Subscribe_fields, 1, 2)) \o <<<<"filters", "SubscribeFilter", "entries">>>>

\* `Subscribe::validate`: reserved bits, retain handling and QoS of the options.
Subscribe_validate(f) ==
  /\ f.filters # <<>>
  /\ \A i \in DOMAIN f.filters :
       LET opt == f.filters[i][2] IN opt < 64 /\ opt \div 16 # 3 /\ opt % 4 \in QoS

SubAck_fields ==
  <<<<"packet_id", "u16">>, <<"properties", "SubAckProperties">>, <<"return_codes", "SubAckReasonCode">>>>

SubAck_decode ==
  Always(SubSeq(SubAck_fields, 1, 2)) \o <<<<"return_codes", "SubAckReasonCode", "entries">>>>

UnSubscribe_fields ==
  <<<<"packet_id", "u16">>, <<"properties", "UnSubscribeProperties">>, <<"filters", "TopicFilter">>>>

UnSubscribe_decode ==
  Always(SubSeq(UnSubscribe_fields, 1, 2)) \o <<<<"filters", "TopicFilter", "entries">>>>

UnsubAck_fields ==
  <<<<"packet_id", "u16">>, <<"properties", "UnsubAckProperties">>,
    <<"return_codes", "UnsubAckReasonCode">>>>

UnsubAck_decode ==
  Always(SubSeq(UnsubAck_fields, 1, 2)) \o <<<<"return_codes", "UnsubAckReasonCode", "entries">>>>

Disconnect_fields == <<<<"code", "DisconnReasonCode">>, <<"properties", "DisconnProperties">>>>

\* DISCONNECT may end before or after the code.
Disconnect_decode ==
  <<<<"code", "DisconnReasonCode", "len # 0">>, <<"properties", "DisconnProperties", "len >= 2">>>>

Auth_fields == <<<<"code", "AuthReasonCode">>, <<"properties", "AuthProperties">>>>

Auth_decode ==
  <<<<"code", "AuthReasonCode", "len # 0">>, <<"properties", "AuthProperties", "len # 0">>>>

-----------------------------------------------------------------------------
Pubs == {"PubAck", "PubRec", "PubRel", "PubComp"}

Layout(type) ==
  CASE type = "Connect" -> Connect_fields
    [] type = "ConnAck" -> ConnAck_fields
    [] type = "Publish" -> Publish_fields
    [] type \in Pubs -> Pub_fields
    [] type = "Subscribe" -> Subscribe_fields
    [] type = "SubAck" -> SubAck_fields
    [] type = "UnSubscribe" -> UnSubscribe_fields
    [] type = "UnsubAck" -> UnsubAck_fields
    [] type \in {"PingReq", "PingResp"} -> <<>>
    [] type = "Disconnect" -> Disconnect_fields
    [] type = "Auth" -> Auth_fields

\* The type in the header that `encode` writes: PINGREQ and PINGRESP have each other's,
\* UNSUBACK has the one of SUBACK.
HeaderType(type) ==
  CASE type = "PingReq" -> "PingResp"
    [] type = "PingResp" -> "PingReq"
    [] type = "UnsubAck" -> "SubAck"
    [] OTHER -> type

\* `Packet::encode`, and when it succeeds.
Packet_encode(p) ==
  insert_fixed_header(fixed_byte(HeaderType(p.type), HeaderFlags(p.type, p.f)),
                      Written(p.f, Layout(p.type)))

Encodable(p) ==
  /\ Writable(p.f, Layout(p.type))
  /\ p.type = "Connect" => Connect_validate(p.f)
  /\ p.type = "Subscribe" => Subscribe_validate(p.f)

Validate(type, f) ==
  CASE type = "Connect" -> Connect_validate(f)
    [] type = "Publish" -> Publish_validate(f)
    [] type \in Pubs -> Pub_validate(type, f)
    [] type = "Subscribe" -> Subscribe_validate(f)
    [] type = "UnSubscribe" -> f.filters # <<>>
    [] OTHER -> TRUE

Plan(type) ==
  CASE type = "Connect" -> Connect_decode
    [] type = "ConnAck" -> ConnAck_decode
    [] type = "Publish" -> Publish_decode
    [] type \in Pubs -> Pub_decode
    [] type = "Subscribe" -> Subscribe_decode
    [] type = "SubAck" -> SubAck_decode
    [] type = "UnSubscribe" -> UnSubscribe_decode
    [] type = "UnsubAck" -> UnsubAck_decode
    [] type \in {"PingReq", "PingResp"} -> <<>>
    [] type = "Disconnect" -> Disconnect_decode
    [] type = "Auth" -> Auth_decode

\* Whether a field is there, after the fields f and for a remaining length of len.
IsThere(when, f, len) ==
  CASE when = "will" -> is_will_flag(f)
    [] when = "username" -> is_username(f)
    [] when = "password" -> is_password(f)
    [] when = "qos" -> f.qos # <<0>>
    [] when = "len # 0" -> len # 0
    [] when = "len >= 2" -> len >= 2
    [] when = "len # 2" -> len # 2
    [] when = "len # 2, 3" -> len \notin {2, 3}
    [] OTHER -> TRUE

\* What stands for a field that is not there.
Missing(name) == IF name = "code" THEN <<0>> ELSE <<>>

\* One field of the stream s after what r has read, `dec_field!` and `dec_props!`.
ReadField(s, h, r, name, kind, when) ==
  Then(r, LAMBDA a :
    LET d == IF ~IsThere(when, a.val, h.val.remaining_len) THEN Ok(Missing(name), a.n)
             ELSE IF kind \in Collections THEN dec_props(kind, s, a.n)
             ELSE IF when = "payload" THEN Payload(s, a.n, h.val.end)
             ELSE IF when = "entries" THEN Entries(kind, s, a.n, h.val.end)
             ELSE Many(kind, s, a.n, a.n, <<>>)
    IN  Then(d, LAMBDA v : Ok(Put(a.val, name, v.val), v.n)))

\* `Packet::decode`
Packet_decode(s) ==
  Then(Header(s), LAMBDA h :
    LET type == TypeOf(h.val.byte1)
        head == IF type = "Publish" THEN Publish_head(h.val.byte1) ELSE <<>>
        r == FoldLeft(LAMBDA a, e : ReadField(s, h, a, e[1], e[2], e[3]), Ok(head, h.n), Plan(type))
    IN  Then(r, LAMBDA a :
          IF Validate(type, a.val) THEN Ok([type |-> type, f |-> a.val], a.n) ELSE Fail))
=============================================================================
