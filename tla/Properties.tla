----------------------------- MODULE Properties -----------------------------
(***************************************************************************)
(* Properties and the eleven collections of them that packets carry        *)
(* (v5/).                                                                  *)
(*                                                                         *)
(* A collection is a function from its properties to sequences of values:  *)
(* empty for None, one value for Some, several for a list.  `encode` of a  *)
(* collection is given by the list of what it writes, each property with   *)
(* the one whose value it takes.  `decode` is given by its match: what is  *)
(* accepted, refused when repeated, refused when zero, kept as a list or   *)
(* required.                                                               *)
(***************************************************************************)
EXTENDS Fields, SequencesExt

PropertyType ==
  <<"PayloadFormatIndicator", "MessageExpiryInterval", "ContentType", "", "", "", "",
    "ResponseTopic", "CorrelationData", "", "SubscriptionIdentifier", "", "", "", "", "",
    "SessionExpiryInterval", "AssignedClientIdentifier", "ServerKeepAlive", "",
    "AuthenticationMethod", "AuthenticationData", "RequestProblemInformation",
    "WillDelayInterval", "RequestResponseInformation", "ResponseInformation", "",
    "ServerReference", "", "", "ReasonString", "", "ReceiveMaximum", "TopicAliasMaximum",
    "TopicAlias", "MaximumQoS", "RetainAvailable", "UserProp", "MaximumPacketSize",
    "WildcardSubscriptionAvailable", "SubscriptionIdentifierAvailable",
    "SharedSubscriptionAvailable">>

TypeNumber(p) == CHOOSE i \in DOMAIN PropertyType : PropertyType[i] = p

\* The type of a property's value.  The numbers that a collection takes for a bool or
\* a PayloadFormat are 0 and 1.
ValueType(p) ==
  CASE p \in {"MessageExpiryInterval", "SessionExpiryInterval", "WillDelayInterval",
              "MaximumPacketSize"} -> "u32"
    [] p \in {"ServerKeepAlive", "ReceiveMaximum", "TopicAliasMaximum", "TopicAlias"} -> "u16"
    [] p \in {"ContentType", "AssignedClientIdentifier", "AuthenticationMethod",
              "ResponseInformation", "ServerReference", "ReasonString"} -> "String"
    [] p \in {"CorrelationData", "AuthenticationData"} -> "Vec"
    [] p = "ResponseTopic" -> "TopicName"
    [] p = "SubscriptionIdentifier" -> "VarU32"
    [] p = "UserProp" -> "UserProperty"
    [] p = "MaximumQoS" -> "QoS"
    [] OTHER -> "bool"

IsZero(p, v) == v = IF ValueType(p) = "u32" THEN <<0, 0>> ELSE 0

-----------------------------------------------------------------------------
(* What each collection writes, in order.                                  *)

Own(ps) == [i \in DOMAIN ps |-> <<ps[i], ps[i]>>]

\* The AuthenticationData that it writes is the authentication_method.
ConnectProperties_encode ==
  Own(<<"SessionExpiryInterval", "ReceiveMaximum", "MaximumPacketSize", "TopicAliasMaximum",
        "RequestResponseInformation", "RequestProblemInformation", "AuthenticationMethod">>)
    \o <<<<"AuthenticationData", "AuthenticationMethod">>>> \o Own(<<"UserProp">>)

WillProperties_encode ==
  Own(<<"WillDelayInterval", "PayloadFormatIndicator", "MessageExpiryInterval", "ContentType",
        "ResponseTopic", "CorrelationData", "UserProp">>)

ConnAckProperties_encode ==
  Own(<<"SessionExpiryInterval", "ReceiveMaximum", "MaximumQoS", "RetainAvailable",
        "MaximumPacketSize", "AssignedClientIdentifier", "TopicAliasMaximum", "ReasonString",
        "WildcardSubscriptionAvailable", "SubscriptionIdentifierAvailable",
        "SharedSubscriptionAvailable", "ServerKeepAlive", "ResponseInformation",
        "ServerReference", "AuthenticationMethod", "AuthenticationData", "UserProp">>)

PublishProperties_encode ==
  Own(<<"PayloadFormatIndicator", "MessageExpiryInterval", "TopicAlias", "ResponseTopic",
        "CorrelationData", "ContentType", "SubscriptionIdentifier", "UserProp">>)

PubProperties_encode == Own(<<"ReasonString", "UserProp">>)

SubscribeProperties_encode == Own(<<"SubscriptionIdentifier", "UserProp">>)

SubAckProperties_encode == Own(<<"ReasonString", "UserProp">>)

UnSubscribeProperties_encode == Own(<<"UserProp">>)

UnsubAckProperties_encode == Own(<<"ReasonString", "UserProp">>)

DisconnProperties_encode ==
  Own(<<"SessionExpiryInterval", "ReasonString", "ServerReference", "UserProp">>)

AuthProperties_encode ==
  Own(<<"AuthenticationMethod", "AuthenticationData", "ReasonString", "UserProp">>)

Writes(coll) ==
  CASE coll = "ConnectProperties" -> ConnectProperties_encode
    [] coll = "WillProperties" -> WillProperties_encode
    [] coll = "ConnAckProperties" -> ConnAckProperties_encode
    [] coll = "PublishProperties" -> PublishProperties_encode
    [] coll = "PubProperties" -> PubProperties_encode
    [] coll = "SubscribeProperties" -> SubscribeProperties_encode
    [] coll = "SubAckProperties" -> SubAckProperties_encode
    [] coll = "UnSubscribeProperties" -> UnSubscribeProperties_encode
    [] coll = "UnsubAckProperties" -> UnsubAckProperties_encode
    [] coll = "DisconnProperties" -> DisconnProperties_encode
    [] coll = "AuthProperties" -> AuthProperties_encode

\* One property with its number, `enc_prop!`.
enc_prop(p, v) == VarEncode(TypeNumber(p)) \o Encode(ValueType(p), v)

\* `encode` of a collection c, and when it succeeds.
EncodeProperties(coll, c) ==
  LET each == [i \in DOMAIN Writes(coll) |->
                 LET w == Writes(coll)[i]
                 IN  FlattenSeq([j \in DOMAIN c[w[2]] |-> enc_prop(w[1], c[w[2]][j])])]
      data == FlattenSeq(each)
  IN  VarEncode(Len(data)) \o data

PropertiesEncode(coll, c) ==
  \A p \in DOMAIN c : \A j \in DOMAIN c[p] : Encodes(ValueType(p), c[p][j])

-----------------------------------------------------------------------------
(* What each collection accepts.                                           *)

\* Every decoder but the one of PUBLISH refuses repeats of all but UserProp.
Match(ps, nonzero) ==
  [allowed |-> ps, once |-> ps \ {"UserProp"}, nonzero |-> nonzero, list |-> {"UserProp"},
   required |-> {}]

ConnectProperties_decode ==
  Match({"SessionExpiryInterval", "ReceiveMaximum", "MaximumPacketSize", "TopicAliasMaximum",
         "RequestResponseInformation", "RequestProblemInformation", "UserProp",
         "AuthenticationMethod", "AuthenticationData"}, {"ReceiveMaximum", "MaximumPacketSize"})

WillProperties_decode ==
  Match({"WillDelayInterval", "PayloadFormatIndicator", "MessageExpiryInterval",
         "ContentType", "ResponseTopic", "CorrelationData", "UserProp"}, {})

ConnAckProperties_decode ==
  Match({"SessionExpiryInterval", "ReceiveMaximum", "MaximumQoS", "RetainAvailable",
         "MaximumPacketSize", "AssignedClientIdentifier", "TopicAliasMaximum",
         "ReasonString", "UserProp", "WildcardSubscriptionAvailable",
         "SubscriptionIdentifierAvailable", "SharedSubscriptionAvailable",
         "ServerKeepAlive", "ResponseInformation", "ServerReference",
         "AuthenticationMethod", "AuthenticationData"}, {"ReceiveMaximum", "MaximumPacketSize"})

\* `dup_ok.contains(&pt) && dups[..]`: what may be repeated is refused when repeated, and
\* the last one of the others counts.
PublishProperties_decode ==
  [Match({"PayloadFormatIndicator", "MessageExpiryInterval", "TopicAlias", "ResponseTopic",
          "CorrelationData", "SubscriptionIdentifier", "ContentType", "UserProp"}, {"TopicAlias"})
     EXCEPT !.once = {"UserProp", "SubscriptionIdentifier"},
            !.list = {"UserProp", "SubscriptionIdentifier"}]

PubProperties_decode == Match({"ReasonString", "UserProp"}, {})

SubscribeProperties_decode ==
  Match({"SubscriptionIdentifier", "UserProp"}, {"SubscriptionIdentifier"})

SubAckProperties_decode == Match({"ReasonString", "UserProp"}, {})

UnSubscribeProperties_decode == Match({"UserProp"}, {})

UnsubAckProperties_decode == Match({"ReasonString", "UserProp"}, {})

DisconnProperties_decode ==
  Match({"SessionExpiryInterval", "ReasonString", "ServerReference", "UserProp"}, {})

AuthProperties_decode ==
  [Match({"AuthenticationMethod", "AuthenticationData", "ReasonString", "UserProp"}, {})
     EXCEPT !.required = {"AuthenticationMethod", "AuthenticationData"}]

Accepts(coll) ==
  CASE coll = "ConnectProperties" -> ConnectProperties_decode
    [] coll = "WillProperties" -> WillProperties_decode
    [] coll = "ConnAckProperties" -> ConnAckProperties_decode
    [] coll = "PublishProperties" -> PublishProperties_decode
    [] coll = "PubProperties" -> PubProperties_decode
    [] coll = "SubscribeProperties" -> SubscribeProperties_decode
    [] coll = "SubAckProperties" -> SubAckProperties_decode
    [] coll = "UnSubscribeProperties" -> UnSubscribeProperties_decode
    [] coll = "UnsubAckProperties" -> UnsubAckProperties_decode
    [] coll = "DisconnProperties" -> DisconnProperties_decode
    [] coll = "AuthProperties" -> AuthProperties_decode

\* `Property::decode`: the number, and a value of its type.
Property_decode(s, n) ==
  Then(VarDecode(s, n), LAMBDA t :
    IF t.val \in DOMAIN PropertyType /\ PropertyType[t.val] # ""
    THEN Then(Decode(ValueType(PropertyType[t.val]), s, t.n),
              LAMBDA v : Ok(<<PropertyType[t.val], v.val>>, v.n))
    ELSE Fail)

\* A property that has come in: a list grows, everything else is overwritten, and a
\* PayloadFormatIndicator of 0 is the default.
Store(m, c, p, v) ==
  [c EXCEPT ![p] = IF p \in m.list THEN Append(@, v)
                   ELSE IF p = "PayloadFormatIndicator" /\ v = 0 THEN <<>> ELSE <<v>>]

\* The loop of a collection's `decode` up to `limit`, with the properties seen so far.
RECURSIVE PropertyLoop(_, _, _, _, _, _)
PropertyLoop(m, s, n, limit, c, dups) ==
  IF n >= limit THEN IF \A p \in m.required : c[p] # <<>> THEN Ok(c, n) ELSE Fail
  ELSE Then(Property_decode(s, n), LAMBDA r :
         LET p == r.val[1]  v == r.val[2]
         IN  IF \/ p \notin m.allowed
                \/ p \in m.once \cap dups
                \/ p \in m.nonzero /\ IsZero(p, v)
             THEN Fail
             ELSE PropertyLoop(m, s, r.n, limit, Store(m, c, p, v), dups \cup {p}))

NoProperties(coll) == [p \in Accepts(coll).allowed |-> <<>>]

\* `dec_props!`: None for a length of zero, else Some collection of just that length.
dec_props(coll, s, n) ==
  Then(VarDecode(s, n), LAMBDA len :
    IF len.val = 0 THEN Ok(<<>>, len.n)
    ELSE LET limit == len.n + len.val
             r == PropertyLoop(Accepts(coll), s, len.n, limit, NoProperties(coll), {})
         IN  Then(r, LAMBDA c : IF c.n = limit THEN Ok(<<c.val>>, c.n) ELSE Fail))
=============================================================================
