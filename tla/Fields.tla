------------------------------- MODULE Fields -------------------------------
(***************************************************************************)
(* The fields that packets are made of (types.rs, v5/mod.rs, util.rs).     *)
(*                                                                         *)
(* A stream is a sequence of bytes.  A decoder is given a stream and the   *)
(* number n of bytes that are behind it, and answers Ok(value, bytes       *)
(* behind it then), or an error.  The error kind InsufficientBytes is told *)
(* from the others.                                                        *)
(* Strings are ASCII.  A u32 is the pair of its 16-bit halves.             *)
(***************************************************************************)
EXTENDS VarInt

Short == [ok |-> FALSE, kind |-> "InsufficientBytes"]

Then(r, Rest(_)) == IF r.ok THEN Rest(r) ELSE r

Guard(r, Holds(_)) == IF ~r.ok \/ Holds(r.val) THEN r ELSE Fail

-----------------------------------------------------------------------------
u8_decode(s, n) == IF n + 1 <= Len(s) THEN Ok(s[n + 1], n + 1) ELSE Short

u16_encode(v) == <<v \div 256, v % 256>>

u16_decode(s, n) == IF n + 2 <= Len(s) THEN Ok(s[n + 1] * 256 + s[n + 2], n + 2) ELSE Short

u32_encode(v) == u16_encode(v[1]) \o u16_encode(v[2])

u32_decode(s, n) ==
  Then(u16_decode(s, n), LAMBDA hi : Then(u16_decode(s, hi.n), LAMBDA lo : Ok(<<hi.val, lo.val>>, lo.n)))

\* `is_valid_utf8_code_point`, for a code point of one byte.
is_valid_utf8_code_point(c) == c \in 32..126

Vec_encode(v) == u16_encode(Len(v)) \o v

Vec_decode(s, n) ==
  Then(u16_decode(s, n),
       LAMBDA len : IF len.n + len.val <= Len(s)
                    THEN Ok(SubSeq(s, len.n + 1, len.n + len.val), len.n + len.val)
                    ELSE Short)

\* What `encode` refuses: more than the length field can tell, and of a string
\* other characters.
Vec_encodes(v) == Len(v) <= 65535

valid_chars(v) == \A i \in DOMAIN v : is_valid_utf8_code_point(v[i])

String_encodes(v) == valid_chars(v) /\ Vec_encodes(v)

String_decode(s, n) == Guard(Vec_decode(s, n), valid_chars)

\* `TopicName::validate`: not empty, no wildcard, no NUL.
TopicName_validate(v) == v # <<>> /\ \A i \in DOMAIN v : v[i] \notin {35, 43, 0}

\* `TopicFilter::validate`: a wildcard is a whole level, and a # is the last one.
TopicFilter_validate(v) ==
  /\ v # <<>>
  /\ \A i \in DOMAIN v :
       /\ v[i] # 0
       /\ v[i] \in {35, 43} => \A j \in {i - 1, i + 1} \cap DOMAIN v : v[j] = 47
       /\ v[i] = 35 => i = Len(v)

UserProperty_decode(s, n) ==
  Then(String_decode(s, n), LAMBDA k : Then(String_decode(s, k.n), LAMBDA v : Ok(<<k.val, v.val>>, v.n)))

SubscribeFilter_decode(s, n) ==
  Then(Guard(String_decode(s, n), TopicFilter_validate),
       LAMBDA f : Then(u8_decode(s, f.n), LAMBDA o : Ok(<<f.val, o.val>>, o.n)))

-----------------------------------------------------------------------------
(* Numbers that stand for something: what `try_from` accepts of them.      *)

ConnackReasonCode == {0} \cup 128..138 \cup {140, 144, 149, 151, 153, 154, 155, 156, 157, 159}

SubAckReasonCode == {0, 1, 2, 128, 131, 135, 143, 145, 151, 158, 161, 162}

UnsubAckReasonCode == {0, 17, 128, 131, 135, 143, 145}

DisconnReasonCode == {0, 4, 135, 137, 139} \cup 128..131 \cup 141..144 \cup 147..162

AuthReasonCode == {0, 24, 25}

\* `ReasonCode::try_from`, every code of the protocol.
ReasonCode ==
  {0, 1, 2, 4, 16, 17, 24, 25} \cup 128..162

MqttProtocol == {4, 5}

QoS == 0..2

\* `ConnectFlags::validate`, the reserved bit, and `ConnackFlags::unwrap`.
ConnectFlags == {f \in Byte : f % 2 = 0}

ConnackFlags == {0, 1}

Numbers(kind) ==
  CASE kind = "u8" -> Byte
    [] kind = "bool" -> {0, 1}
    [] kind = "QoS" -> QoS
    [] kind = "MqttProtocol" -> MqttProtocol
    [] kind = "ConnectFlags" -> ConnectFlags
    [] kind = "ConnackFlags" -> ConnackFlags
    [] kind = "ConnackReasonCode" -> ConnackReasonCode
    [] kind = "SubAckReasonCode" -> SubAckReasonCode
    [] kind = "UnsubAckReasonCode" -> UnsubAckReasonCode
    [] kind = "DisconnReasonCode" -> DisconnReasonCode
    [] kind = "AuthReasonCode" -> AuthReasonCode
    [] kind = "ReasonCode" -> ReasonCode

-----------------------------------------------------------------------------
\* What `encode` of a field refuses.
Encodes(kind, v) ==
  CASE kind = "VarU32" -> v <= MAX
    [] kind = "Vec" -> Vec_encodes(v)
    [] kind = "String" -> String_encodes(v)
    [] kind = "TopicName" -> String_encodes(v) /\ TopicName_validate(v)
    [] kind = "TopicFilter" -> String_encodes(v) /\ TopicFilter_validate(v)
    [] kind = "UserProperty" -> String_encodes(v[1]) /\ String_encodes(v[2])
    [] kind = "SubscribeFilter" -> String_encodes(v[1]) /\ TopicFilter_validate(v[1])
    [] OTHER -> TRUE

Encode(kind, v) ==
  CASE kind = "u16" -> u16_encode(v)
    [] kind = "u32" -> u32_encode(v)
    [] kind = "VarU32" -> VarEncode(v)
    [] kind \in {"String", "Vec", "TopicName", "TopicFilter"} -> Vec_encode(v)
    [] kind = "UserProperty" -> Vec_encode(v[1]) \o Vec_encode(v[2])
    [] kind = "SubscribeFilter" -> Vec_encode(v[1]) \o <<v[2]>>
    [] OTHER -> <<v>>

Decode(kind, s, n) ==
  CASE kind = "u16" -> u16_decode(s, n)
    [] kind = "u32" -> u32_decode(s, n)
    [] kind = "VarU32" -> VarDecode(s, n)
    [] kind = "String" -> String_decode(s, n)
    [] kind = "Vec" -> Vec_decode(s, n)
    [] kind = "TopicName" -> Guard(String_decode(s, n), TopicName_validate)
    [] kind = "TopicFilter" -> Guard(String_decode(s, n), TopicFilter_validate)
    [] kind = "UserProperty" -> UserProperty_decode(s, n)
    [] kind = "SubscribeFilter" -> SubscribeFilter_decode(s, n)
    [] OTHER -> Guard(u8_decode(s, n), LAMBDA v : v \in Numbers(kind))
=============================================================================
