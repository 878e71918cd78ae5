--------------------------- MODULE SessionProofs ----------------------------
(***************************************************************************)
(* What a session promises its client and its shard, for every batch size, *)
(* receive-maximum, range of identifiers and set of PUBLISHes.             *)
(*                                                                         *)
(* The bound of the back log needs to know where the messages are in each  *)
(* phase.  The order of sends needs to know how the numbers of the         *)
(* messages that wait relate to each other and to those already sent: a    *)
(* message is waiting for the first time only behind everything that was   *)
(* ever sent.                                                              *)
(***************************************************************************)
EXTENDS Session, SequenceTheorems, WellFoundedInduction, TLAPS

IsQueue(q) == q \in Seq(Range(q))

IsPacket(q, i) == q[i].type = "packet"

\* The PUBLISHes of q have numbers below n.
Below(q, n) == \A i \in 1..Len(q) : IsPacket(q, i) => q[i].seqno \in Nat /\ q[i].seqno < n

\* The PUBLISHes of q are in S.
Within(q, S) == \A i \in 1..Len(q) : IsPacket(q, i) => q[i].seqno \in S

\* Those that are not come behind all that are, and behind all in front of them.
Fresh(q, S) == \A i \in 1..Len(q) : IsPacket(q, i) /\ q[i].seqno \notin S =>
                   /\ \A m \in S : m < q[i].seqno
                   /\ \A j \in 1..i - 1 : IsPacket(q, j) => q[j].seqno < q[i].seqno

Queues == IsQueue(acks) /\ IsQueue(back_log) /\ IsQueue(done) /\ IsQueue(left)

\* Messages are in the back log between flushes, and in msgs during one.
Places == /\ after \in {"in", "route"}
          /\ phase = "flush" => back_log = <<>>
          /\ phase # "flush" => done = <<>> /\ left = <<>>

Numbers == /\ seqno \in Nat
           /\ sent \subseteq Nat /\ \A m \in sent : m < seqno
           /\ \A i \in 1..Len(acks) : acks[i] = ClientAck
           /\ Below(back_log, seqno) /\ Below(left, seqno)
           /\ Within(done, sent)
           /\ Fresh(back_log, sent) /\ Fresh(left, sent)

\* What do_publish relies on, also when it has failed before.
Bookings == /\ \A r \in routed : (r.qos = 1 => r.id \in qos1) /\ (r.qos = 2 => r.id \in qos2)
            /\ routed \subseteq [qos : {1, 2}, id : PacketIds]
            /\ DOMAIN topic_aliases \subseteq 1..mqtt_topic_alias_max
            /\ \A a \in DOMAIN topic_aliases : topic_aliases[a] \in TopicNames

Outgoing == Queues /\ Places /\ BackLogBounded /\ Numbers

Incoming == Bookings /\ BookedIffRouted

IInv == Outgoing /\ Incoming
-----------------------------------------------------------------------------
(* Queues.                                                                 *)

\* A sequence is one over its own elements.
LEMMA QueueOfSeq ==
    ASSUME NEW S, NEW q \in Seq(S)
    PROVE  IsQueue(q)
<1>1. Len(q) \in Nat /\ DOMAIN q = 1..Len(q) /\ q \in [1..Len(q) -> S]
  BY LenProperties
<1>2. q \in [1..Len(q) -> Range(q)]
  BY <1>1 DEF Range
<1> QED
  BY <1>1, <1>2, SeqDef DEF IsQueue

\* Positions in a queue.
LEMMA QueueLen ==
    ASSUME NEW q, IsQueue(q)
    PROVE  Len(q) \in Nat /\ DOMAIN q = 1..Len(q)
BY LenProperties DEF IsQueue

\* The empty queue.
LEMMA QueueEmpty == IsQueue(<<>>) /\ Len(<<>>) = 0
BY EmptySeq, QueueOfSeq, Zenon

\* A function on 1..n is a queue, as are the PUBLISHes of one call.
LEMMA QueueOfFunction ==
    ASSUME NEW n \in Nat, NEW f, NEW S, f \in [1..n -> S]
    PROVE  IsQueue(f) /\ Len(f) = n
<1>1. f \in Seq(S)
  BY SeqDef
<1>2. DOMAIN f = 1..n /\ DOMAIN f = 1..Len(f) /\ Len(f) \in Nat
  BY <1>1, LenProperties
<1> QED
  BY <1>1, <1>2, QueueOfSeq

\* One queue behind the other.
LEMMA QueueConcat ==
    ASSUME NEW q, NEW r, IsQueue(q), IsQueue(r)
    PROVE  /\ IsQueue(q \o r)
           /\ Len(q \o r) = Len(q) + Len(r)
           /\ \A i \in 1..Len(q) + Len(r) :
                  (q \o r)[i] = IF i <= Len(q) THEN q[i] ELSE r[i - Len(q)]
<1> DEFINE S == Range(q) \cup Range(r)
<1>1. q \in Seq(S) /\ r \in Seq(S)
  <2>1. /\ q \in [1..Len(q) -> Range(q)] /\ Len(q) \in Nat
        /\ r \in [1..Len(r) -> Range(r)] /\ Len(r) \in Nat
    BY LenProperties DEF IsQueue
  <2>2. q \in [1..Len(q) -> S] /\ r \in [1..Len(r) -> S]
    BY <2>1
  <2> QED
    BY <2>1, <2>2, SeqDef
<1> HIDE DEF S
<1> QED
  BY <1>1, ConcatProperties, QueueOfSeq, Zenon

\* One more at the end.
LEMMA QueueAppend ==
    ASSUME NEW q, NEW e, IsQueue(q)
    PROVE  /\ IsQueue(Append(q, e))
           /\ Len(Append(q, e)) = Len(q) + 1
           /\ \A i \in 1..Len(q) : Append(q, e)[i] = q[i]
           /\ Append(q, e)[Len(q) + 1] = e
<1> DEFINE S == Range(q) \cup {e}
<1>1. q \in Seq(S)
  <2>1. q \in [1..Len(q) -> Range(q)] /\ Len(q) \in Nat
    BY LenProperties DEF IsQueue
  <2>2. q \in [1..Len(q) -> S]
    BY <2>1
  <2> QED
    BY <2>1, <2>2, SeqDef
<1>2. e \in S
  OBVIOUS
<1> HIDE DEF S
<1>3. /\ Append(q, e) \in Seq(S)
      /\ Len(Append(q, e)) = Len(q) + 1
      /\ \A i \in 1..Len(q) : Append(q, e)[i] = q[i]
      /\ Append(q, e)[Len(q) + 1] = e
  BY <1>1, <1>2, AppendProperties
<1> QED
  BY <1>3, QueueOfSeq, Zenon

\* One less at the front.
LEMMA QueueTail ==
    ASSUME NEW q, IsQueue(q), q # <<>>
    PROVE  /\ IsQueue(Tail(q))
           /\ Len(q) \in Nat \ {0} /\ Len(Tail(q)) = Len(q) - 1
           /\ Head(q) = q[1]
           /\ \A i \in 1..Len(q) - 1 : Tail(q)[i] = q[i + 1]
<1>1. /\ Tail(q) \in Seq(Range(q)) /\ Len(Tail(q)) = Len(q) - 1
      /\ \A i \in 1..Len(Tail(q)) : Tail(q)[i] = q[i + 1]
  BY HeadTailProperties DEF IsQueue
<1>2. Len(q) \in Nat \ {0}
  BY EmptySeq DEF IsQueue
<1>3. Head(q) = q[1]
  BY DEF IsQueue
<1> QED
  BY <1>1, <1>2, <1>3, QueueOfSeq, Zenon
-----------------------------------------------------------------------------
(* The numbers of the messages in a queue.                                 *)

\* Messages that join a queue at its end, with numbers from n up to k.
LEMMA Joined ==
    ASSUME NEW q, NEW r, IsQueue(q), IsQueue(r),
           NEW n \in Nat, NEW k \in Nat, n <= k,
           NEW S \in SUBSET Nat, \A m \in S : m < n,
           Below(q, n), Fresh(q, S),
           \A i \in 1..Len(r) : IsPacket(r, i) =>
               /\ r[i].seqno \in Nat /\ n <= r[i].seqno /\ r[i].seqno < k
               /\ \A j \in 1..i - 1 : IsPacket(r, j) => r[j].seqno < r[i].seqno
    PROVE  Below(q \o r, k) /\ Fresh(q \o r, S)
<1> DEFINE s == q \o r
<1>1. /\ Len(q) \in Nat /\ Len(r) \in Nat /\ Len(s) = Len(q) + Len(r)
      /\ \A i \in 1..Len(q) : s[i] = q[i]
      /\ \A i \in 1..Len(s) : i > Len(q) => i - Len(q) \in 1..Len(r) /\ s[i] = r[i - Len(q)]
  BY QueueConcat, QueueLen
<1> HIDE DEF s
<1>2. ASSUME NEW i \in 1..Len(s), IsPacket(s, i)
      PROVE  /\ s[i].seqno \in Nat /\ s[i].seqno < k
             /\ i <= Len(q) => s[i].seqno < n
             /\ i > Len(q) => n <= s[i].seqno
  <2>1. CASE i <= Len(q)
    <3>1. i \in 1..Len(q) /\ s[i] = q[i]
      BY <1>1, <2>1
    <3>2. q[i].seqno \in Nat /\ q[i].seqno < n
      BY <1>2, <3>1 DEF Below, IsPacket
    <3> QED
      BY <1>1, <2>1, <3>1, <3>2
  <2>2. CASE i > Len(q)
    <3>1. i - Len(q) \in 1..Len(r) /\ s[i] = r[i - Len(q)]
      BY <1>1, <2>2
    <3>2. /\ r[i - Len(q)].seqno \in Nat /\ n <= r[i - Len(q)].seqno
          /\ r[i - Len(q)].seqno < k
      BY <1>2, <3>1 DEF IsPacket
    <3> QED
      BY <1>1, <2>2, <3>1, <3>2
  <2> QED
    BY <1>1, <2>1, <2>2
<1>3. Below(s, k)
  BY <1>2 DEF Below
<1>4. ASSUME NEW i \in 1..Len(s), IsPacket(s, i), s[i].seqno \notin S
      PROVE  /\ \A m \in S : m < s[i].seqno
             /\ \A j \in 1..i - 1 : IsPacket(s, j) => s[j].seqno < s[i].seqno
  <2>1. CASE i <= Len(q)
    <3>1. i \in 1..Len(q) /\ s[i] = q[i] /\ \A j \in 1..i - 1 : s[j] = q[j]
      BY <1>1, <2>1
    <3> QED
      BY <1>4, <3>1, Zenon DEF Fresh, IsPacket
  <2>2. CASE i > Len(q)
    <3>1. n <= s[i].seqno /\ s[i].seqno \in Nat
      BY <1>2, <1>4, <2>2
    <3>2. ASSUME NEW m \in S PROVE m < s[i].seqno
      <4>1. m \in Nat /\ m < n
        BY Zenon
      <4> QED
        BY <3>1, <4>1
    <3>3. ASSUME NEW j \in 1..i - 1, IsPacket(s, j) PROVE s[j].seqno < s[i].seqno
      <4>1. j \in 1..Len(s)
        BY <1>1
      <4>2. CASE j <= Len(q)
        <5>1. s[j].seqno < n /\ s[j].seqno \in Nat
          BY <1>2, <3>3, <4>1, <4>2
        <5> QED
          BY <3>1, <5>1
      <4>3. CASE j > Len(q)
        <5>1. /\ i - Len(q) \in 1..Len(r) /\ s[i] = r[i - Len(q)]
              /\ j - Len(q) \in 1..Len(r) /\ s[j] = r[j - Len(q)]
              /\ j - Len(q) \in 1..(i - Len(q)) - 1
          BY <1>1, <2>2, <4>1, <4>3
        <5> QED
          BY <1>4, <3>3, <5>1 DEF IsPacket
      <4> QED
        BY <1>1, <4>1, <4>2, <4>3
    <3> QED
      BY <3>2, <3>3, Zenon
  <2> QED
    BY <1>1, <2>1, <2>2
<1> QED
  BY <1>3, <1>4 DEF Fresh, s
-----------------------------------------------------------------------------
(* Messages for the client.                                                *)

\* Session::start, with the CONNACK to be sent.
LEMMA InitOutgoing == Init => Outgoing
<1> SUFFICES ASSUME Init PROVE Outgoing
  OBVIOUS
<1>1. IsQueue(<<ClientAck>>) /\ Len(<<ClientAck>>) = 1 /\ <<ClientAck>>[1] = ClientAck
  <2>1. <<ClientAck>> \in Seq({ClientAck})
    OBVIOUS
  <2> QED
    BY <2>1, QueueOfSeq, Zenon
<1>2. Queues /\ Places
  BY <1>1, QueueEmpty DEF Init, Queues, Places
<1>3. BackLogBounded
  <2>1. Len(back_log) = 0 /\ Len(done) = 0 /\ Len(left) = 1
    BY <1>1, QueueEmpty DEF Init
  <2>2. mqtt_pkt_batch_size \in Nat \ {0}
    BY Sizes
  <2>3. Len(back_log) + Len(done) + Len(left) <= 2 * mqtt_pkt_batch_size
    BY <2>1, <2>2
  <2> QED
    BY <2>3 DEF BackLogBounded
<1>4. Numbers
  <2>1. \A i \in 1..Len(left) : ~IsPacket(left, i)
    <3>1. \A i \in 1..1 : i = 1
      OBVIOUS
    <3> QED
      BY <1>1, <3>1 DEF Init, IsPacket, ClientAck
  <2>2. \A q \in {acks, back_log, done} : 1..Len(q) = {}
    BY QueueEmpty DEF Init
  <2> QED
    BY <2>1, <2>2 DEF Init, Numbers, Below, Within, Fresh
<1> QED
  BY <1>2, <1>3, <1>4 DEF Outgoing

\* Steps that leave all of it alone, as the client's packets do, or lose answers.
LEMMA OutgoingKept ==
    ASSUME Outgoing, UNCHANGED <<back_log, after, done, left, seqno, sent>>,
           acks' \in {acks, <<>>}, conn' = "there" => conn = "there",
           phase # "flush", phase # "closed", phase' # "flush"
    PROVE  Outgoing'
<1>1. IsQueue(acks') /\ \A i \in 1..Len(acks') : acks'[i] = ClientAck
  <2>1. CASE acks' = acks
    BY <2>1 DEF Outgoing, Queues, Numbers
  <2>2. CASE acks' = <<>>
    BY <2>2, QueueEmpty
  <2> QED
    BY <2>1, <2>2
<1> QED
  BY <1>1 DEF Outgoing, Queues, Places, BackLogBounded, Numbers

\* The end of in_messages and the start of flush_messages, with messages that are
\* in order behind those sent.
LEMMA BookStep ==
    ASSUME Outgoing, phase \in {"handle", "in"}, NEW msgs, NEW next \in {"in", "route"},
           Book(msgs, next), IsQueue(msgs), sent' = sent, conn' = conn,
           seqno' \in Nat, seqno <= seqno', Below(msgs, seqno'), Fresh(msgs, sent),
           IsQueue(acks'), \A i \in 1..Len(acks') : acks'[i] = ClientAck
    PROVE  Outgoing'
<1> USE DEF Outgoing
<1>0. /\ done = <<>> /\ left = <<>> /\ Len(msgs) \in Nat /\ mqtt_pkt_batch_size \in Nat
      /\ Len(<<>>) = 0 /\ IsQueue(<<>>)
  BY QueueLen, QueueEmpty, Sizes DEF Places
<1>1. \A m \in sent' : m < seqno'
  <2> SUFFICES ASSUME NEW m \in sent PROVE m < seqno'
    OBVIOUS
  <2>1. m \in Nat /\ m < seqno /\ seqno \in Nat
    BY DEF Numbers
  <2> QED
    BY <2>1
<1>2. \A S, n : Below(<<>>, n) /\ Fresh(<<>>, S) /\ Within(<<>>, S)
  <2>1. 1..Len(<<>>) = {}
    BY <1>0
  <2> QED
    BY <2>1 DEF Below, Fresh, Within
<1>3. /\ \/ /\ phase' # "flush"
            /\ back_log' = msgs /\ done' = <<>> /\ left' = <<>>
         \/ /\ phase' = "flush"
            /\ back_log' = <<>> /\ done' = <<>> /\ left' = msgs
      /\ Exceeds(msgs) /\ conn = "there" => phase' = "closed"
  BY <1>0 DEF Book, Failed
<1>4. Queues'
  BY <1>0, <1>3 DEF Queues
<1>5. Places'
  BY <1>3 DEF Places, Book
<1>6. BackLogBounded'
  <2>1. ~Exceeds(msgs) => Len(msgs) <= 2 * mqtt_pkt_batch_size
    BY <1>0 DEF Exceeds
  <2>2. phase' # "closed" /\ conn' = "there" => ~Exceeds(msgs)
    BY <1>3
  <2>3. Len(back_log') + Len(done') + Len(left') = Len(msgs)
    <3>1. CASE back_log' = msgs /\ done' = <<>> /\ left' = <<>>
      BY <1>0, <3>1
    <3>2. CASE back_log' = <<>> /\ done' = <<>> /\ left' = msgs
      BY <1>0, <3>2
    <3> QED
      BY <1>3, <3>1, <3>2
  <2> QED
    BY <2>1, <2>2, <2>3 DEF BackLogBounded
<1>7. Numbers'
  BY <1>1, <1>2, <1>3 DEF Numbers
<1> QED
  BY <1>4, <1>5, <1>6, <1>7

\* Answers to the client's packets are added behind the back log.
LEMMA HandleSteps ==
    ASSUME Outgoing, HandleAnswered \/ HandleDone
    PROVE  Outgoing'
<1> USE DEF Outgoing
<1>1. CASE HandleAnswered
  <2>1. /\ IsQueue(acks') /\ Len(acks') = Len(acks) + 1 /\ Len(acks) \in Nat
        /\ \A i \in 1..Len(acks) : acks'[i] = acks[i]
        /\ acks'[Len(acks) + 1] = ClientAck
    BY <1>1, QueueAppend, QueueLen DEF HandleAnswered, Queues
  <2>2. \A i \in 1..Len(acks') : acks'[i] = ClientAck
    <3> SUFFICES ASSUME NEW i \in 1..Len(acks') PROVE acks'[i] = ClientAck
      OBVIOUS
    <3>1. i \in 1..Len(acks) \/ i = Len(acks) + 1
      BY <2>1
    <3> QED
      BY <2>1, <3>1 DEF Numbers
  <2>3. UNCHANGED <<phase, conn, back_log, after, done, left, seqno, sent>>
    BY <1>1 DEF HandleAnswered, cout, flush
  <2> QED
    BY <2>1, <2>2, <2>3 DEF Queues, Places, BackLogBounded, Numbers
<1>2. CASE HandleDone
  <2>1. \A i \in 1..Len(acks) : ~IsPacket(acks, i)
    BY DEF Numbers, IsPacket, ClientAck
  <2>2. IsQueue(back_log \o acks)
    BY QueueConcat DEF Queues
  <2>3. seqno \in Nat /\ seqno <= seqno
    BY DEF Numbers
  <2>4. Below(back_log \o acks, seqno) /\ Fresh(back_log \o acks, sent)
    BY <2>1, <2>3, Joined DEF Queues, Numbers
  <2>5. phase = "handle" /\ Book(back_log \o acks, "in") /\ acks' = <<>> /\ UNCHANGED <<seqno, conn, sent>>
    BY <1>2 DEF HandleDone
  <2>6. IsQueue(acks') /\ \A i \in 1..Len(acks') : acks'[i] = ClientAck
    BY <2>5, QueueEmpty
  <2> QED
    BY <2>2, <2>3, <2>4, <2>5, <2>6, BookStep
<1> QED
  BY <1>1, <1>2

\* PUBLISHes are numbered one after the other and join the back log.
LEMMA InMessagesStep ==
    ASSUME Outgoing, NEW n \in 0..MaxOut, InMessages(n)
    PROVE  Outgoing'
<1> USE DEF Outgoing
<1> DEFINE id[i \in 1..n + 1] == IF i = 1 THEN next_packet_id ELSE incr_cout_seqno(id[i - 1])
<1>1. Book(back_log \o [i \in 1..n |-> Packet(seqno + i - 1, id[i])], "route")
  BY DEF InMessages
<1> HIDE DEF id
<1> DEFINE new == [i \in 1..n |-> Packet(seqno + i - 1, id[i])]
<1>2. phase = "in" /\ seqno' = seqno + n /\ UNCHANGED <<acks, conn, sent>>
  BY DEF InMessages
<1>3. n \in Nat /\ seqno \in Nat
  BY Sizes DEF Numbers
<1>4. IsQueue(new) /\ Len(new) = n
  <2>1. new \in [1..n -> {Packet(seqno + i - 1, id[i]) : i \in 1..n}]
    OBVIOUS
  <2> HIDE DEF new
  <2> QED
    BY <1>3, <2>1, QueueOfFunction, Zenon
<1>5. \A i \in 1..n : new[i].seqno = seqno + i - 1
  BY DEF Packet
<1> HIDE DEF new
<1>6. \A i \in 1..Len(new) : /\ new[i].seqno \in Nat /\ seqno <= new[i].seqno
                             /\ new[i].seqno < seqno + n
                             /\ \A j \in 1..i - 1 : new[j].seqno < new[i].seqno
  <2> SUFFICES ASSUME NEW i \in 1..n
               PROVE  /\ new[i].seqno \in Nat /\ seqno <= new[i].seqno
                      /\ new[i].seqno < seqno + n
                      /\ \A j \in 1..i - 1 : new[j].seqno < new[i].seqno
    BY <1>4
  <2>1. new[i].seqno = seqno + i - 1
    BY <1>5
  <2>2. ASSUME NEW j \in 1..i - 1 PROVE new[j].seqno < new[i].seqno
    <3>1. j \in 1..n /\ j < i /\ j \in Nat
      BY <1>3
    <3>2. new[j].seqno = seqno + j - 1
      BY <1>5, <3>1
    <3>3. seqno + j - 1 < seqno + i - 1
      BY <1>3, <3>1
    <3> QED
      BY <2>1, <3>2, <3>3
  <2>3. seqno + i - 1 \in Nat /\ seqno <= seqno + i - 1 /\ seqno + i - 1 < seqno + n
    BY <1>3
  <2> QED
    BY <2>1, <2>2, <2>3
<1>7. seqno + n \in Nat /\ seqno <= seqno + n
  BY <1>3
<1>8. Below(back_log \o new, seqno + n) /\ Fresh(back_log \o new, sent)
  BY <1>3, <1>4, <1>6, <1>7, Joined, Zenon DEF Queues, Numbers
<1>9. IsQueue(back_log \o new)
  BY <1>4, QueueConcat DEF Queues
<1>10. Book(back_log \o new, "route")
  BY <1>1 DEF new
<1>11. IsQueue(acks') /\ \A i \in 1..Len(acks') : acks'[i] = ClientAck
  BY <1>2 DEF Queues, Numbers
<1> QED
  BY <1>2, <1>7, <1>8, <1>9, <1>10, <1>11, BookStep

\* What try_send puts on the queue.
LEMMA SentBy ==
    ASSUME Outgoing, TrySend
    PROVE  /\ IsQueue(left) /\ left # <<>>
           /\ left[1].type = "packet" => sent' = sent \cup {left[1].seqno}
           /\ left[1].type # "packet" => sent' = sent
<1>1. IsQueue(left) /\ left # <<>> /\ Head(left) = left[1]
  BY QueueTail DEF Outgoing, Queues, TrySend
<1>2. sent' = sent \cup {m.seqno : m \in {m \in {left[1]} : m.type = "packet"}}
  BY <1>1 DEF TrySend
<1> QED
  BY <1>1, <1>2

\* A message that is sent for the first time comes behind all that were sent.
LEMMA SentInOrder ==
    ASSUME Outgoing, TrySend, NEW n \in sent' \ sent, NEW m \in sent
    PROVE  m < n
<1>1. IsPacket(left, 1) /\ n = left[1].seqno /\ left[1].seqno \notin sent /\ 1 \in 1..Len(left)
  BY SentBy, QueueTail DEF IsPacket
<1> QED
  BY <1>1 DEF Outgoing, Numbers, Fresh

\* A message goes from those left to those done.
LEMMA TrySendStep ==
    ASSUME Outgoing, TrySend
    PROVE  Outgoing'
<1> USE DEF Outgoing
<1>1. /\ IsQueue(left') /\ Len(left) \in Nat \ {0} /\ Len(left') = Len(left) - 1
      /\ \A i \in 1..Len(left') : left'[i] = left[i + 1]
      /\ left[1] = Head(left)
  BY SentBy, QueueTail DEF TrySend
<1>2. /\ IsQueue(done') /\ Len(done) \in Nat /\ Len(done') = Len(done) + 1
      /\ \A i \in 1..Len(done) : done'[i] = done[i]
      /\ done'[Len(done) + 1] = left[1]
  BY <1>1, QueueAppend, QueueLen DEF TrySend, Queues
<1>3. UNCHANGED <<phase, conn, acks, back_log, after, seqno>> /\ phase = "flush" /\ back_log = <<>>
  BY DEF TrySend, cout, Places
<1>4. Queues' /\ Places'
  BY <1>1, <1>2, <1>3 DEF Queues, Places
<1>5. BackLogBounded'
  <2>1. Len(done') + Len(left') = Len(done) + Len(left)
    BY <1>1, <1>2
  <2>2. Len(back_log) = 0
    BY <1>3, QueueEmpty
  <2>3. conn = "there" => 0 + Len(done) + Len(left) <= 2 * mqtt_pkt_batch_size
    BY <1>3, <2>2 DEF BackLogBounded
  <2>4. conn = "there" => 0 + Len(done') + Len(left') <= 2 * mqtt_pkt_batch_size
    BY <1>1, <1>2, <2>1, <2>3
  <2> QED
    BY <1>3, <2>2, <2>4 DEF BackLogBounded
<1>6. sent \subseteq sent' /\ sent' \subseteq Nat /\ \A m \in sent' : m < seqno
  <2>1. 1 \in 1..Len(left)
    BY <1>1
  <2>2. left[1].type = "packet" => left[1].seqno \in Nat /\ left[1].seqno < seqno
    BY <2>1 DEF Numbers, Below, IsPacket
  <2> QED
    BY <2>2, SentBy, Zenon DEF Numbers
<1>7. Within(done', sent')
  <2> SUFFICES ASSUME NEW i \in 1..Len(done'), IsPacket(done', i) PROVE done'[i].seqno \in sent'
    BY DEF Within
  <2>1. CASE i \in 1..Len(done)
    BY <1>2, <1>6, <2>1, Zenon DEF Numbers, Within, IsPacket
  <2>2. CASE i = Len(done) + 1
    BY <1>2, <2>2, SentBy DEF IsPacket
  <2> QED
    BY <1>2, <2>1, <2>2
<1>8. ASSUME NEW i \in 1..Len(left') PROVE i + 1 \in 1..Len(left) /\ left'[i] = left[i + 1]
  BY <1>1
<1>9. Below(left', seqno)
  BY <1>8 DEF Numbers, Below, IsPacket
<1>10. Fresh(left', sent')
  <2> SUFFICES ASSUME NEW i \in 1..Len(left'), IsPacket(left', i), left'[i].seqno \notin sent'
               PROVE  /\ \A m \in sent' : m < left'[i].seqno
                      /\ \A j \in 1..i - 1 : IsPacket(left', j) => left'[j].seqno < left'[i].seqno
    BY DEF Fresh
  <2>1. i + 1 \in 1..Len(left) /\ left'[i] = left[i + 1]
    BY <1>8
  <2>2. /\ \A m \in sent : m < left[i + 1].seqno
        /\ \A j \in 1..(i + 1) - 1 : IsPacket(left, j) => left[j].seqno < left[i + 1].seqno
    BY <1>6, <2>1 DEF Numbers, Fresh, IsPacket
  <2>3. ASSUME NEW j \in 1..i - 1, IsPacket(left', j) PROVE left'[j].seqno < left'[i].seqno
    <3>1. j \in 1..Len(left') /\ j + 1 \in 1..(i + 1) - 1
      BY <1>1
    <3>2. left'[j] = left[j + 1]
      BY <1>8, <3>1
    <3> QED
      BY <2>1, <2>2, <2>3, <3>1, <3>2 DEF IsPacket
  <2>4. IsPacket(left, 1) => left[1].seqno < left[i + 1].seqno
    <3>1. 1 \in 1..(i + 1) - 1
      BY <1>1
    <3> QED
      BY <2>2, <3>1
  <2> QED
    BY <2>1, <2>2, <2>3, <2>4, SentBy DEF IsPacket
<1>11. Fresh(back_log', sent') /\ Below(back_log', seqno)
  <2>1. 1..Len(<<>>) = {}
    BY QueueEmpty
  <2> QED
    BY <1>3, <2>1 DEF Fresh, Below
<1>12. Numbers'
  BY <1>3, <1>6, <1>7, <1>9, <1>10, <1>11 DEF Numbers
<1> QED
  BY <1>4, <1>5, <1>12

\* What was sent goes back to the back log.
LEMMA FlushDoneStep ==
    ASSUME Outgoing, FlushDone
    PROVE  Outgoing'
<1> USE DEF Outgoing
<1>1. /\ phase = "flush" /\ phase' = after /\ after' = after
      /\ back_log = <<>> /\ back_log' = done /\ done' = <<>> /\ left' = <<>>
      /\ UNCHANGED <<acks, seqno, conn, sent>>
  BY DEF FlushDone, Places
<1>2. IsQueue(<<>>) /\ Len(<<>>) = 0 /\ 1..Len(<<>>) = {}
  BY QueueEmpty
<1>3. Queues'
  BY <1>1, <1>2 DEF Queues
<1>4. BackLogBounded'
  <2>1. Len(done) \in Nat /\ Len(left) \in Nat /\ mqtt_pkt_batch_size \in Nat
    BY QueueLen, Sizes DEF Queues
  <2>2. conn = "there" => 0 + Len(done) + Len(left) <= 2 * mqtt_pkt_batch_size
    BY <1>1, <1>2 DEF BackLogBounded
  <2>3. conn = "there" => Len(done) + 0 + 0 <= 2 * mqtt_pkt_batch_size
    BY <2>1, <2>2
  <2> QED
    BY <1>1, <1>2, <2>3 DEF BackLogBounded
<1>5. Numbers'
  <2>1. Below(done, seqno) /\ Fresh(done, sent)
    BY Zenon DEF Numbers, Within, Below, Fresh
  <2>2. \A S, n : Below(<<>>, n) /\ Fresh(<<>>, S) /\ Within(<<>>, S)
    BY <1>2 DEF Below, Fresh, Within
  <2> QED
    BY <1>1, <2>1, <2>2 DEF Numbers
<1> QED
  BY <1>1, <1>3, <1>4, <1>5 DEF Places
-----------------------------------------------------------------------------
(* PUBLISHes of the client.                                                *)

\* Session::start, with empty lists.
LEMMA InitIncoming == Init => Incoming
BY DEF Init, Incoming, Bookings, BookedIffRouted

\* Steps that leave the lists alone, and revive neither the session nor its
\* connection.
LEMMA IncomingKept ==
    ASSUME Incoming, UNCHANGED inp, phase = "closed" => phase' = "closed",
           conn' = "there" => conn = "there"
    PROVE  Incoming'
BY Zenon DEF inp, Incoming, Bookings, BookedIffRouted

\* do_publish books and routes, or fails.
LEMMA PublishStep ==
    ASSUME Incoming, NEW p \in Publishes, NEW matched \in BOOLEAN, HandlePublish(p, matched)
    PROVE  Incoming'
<1> USE DEF Incoming
<1>0. /\ p.qos \in 0..2 /\ p.id \in PacketIds /\ p.name \in TopicNames \cup {NoName}
      /\ p.alias \in 0..mqtt_topic_alias_max + 1 /\ phase = "handle"
      /\ mqtt_topic_alias_max \in Nat /\ conn' = conn
  BY Sizes DEF Publishes, HandlePublish, flush
<1>1. CASE UNCHANGED inp
  BY <1>0, <1>1, IncomingKept
<1>2. CASE phase' = Failed /\ book_qos(p) /\ UNCHANGED <<topic_aliases, routed, again, unnamed>>
  <2>1. qos1 \subseteq qos1' /\ qos2 \subseteq qos2'
    BY <1>2 DEF book_qos
  <2>2. Bookings'
    BY <1>2, <2>1 DEF Bookings
  <2>3. conn' = "there" => phase' = "closed"
    BY <1>0, <1>2 DEF Failed
  <2>4. ~again' /\ ~unnamed'
    BY <1>2, Zenon DEF BookedIffRouted
  <2> QED
    BY <2>2, <2>3, <2>4, Zenon DEF BookedIffRouted
<1>3. CASE /\ ~is_duplicate(p) /\ book_qos(p) /\ ~publish_topic_name_fails(p)
           /\ topic_aliases' = book_alias(p)
           /\ LET r == [qos |-> p.qos, id |-> p.id] IN
              /\ routed' = IF p.qos > 0 THEN routed \cup {r} ELSE routed
              /\ again' = (again \/ (r \in routed /\ ~p.dup))
           /\ unnamed' = (unnamed \/ publish_topic_name(p) \notin TopicNames)
  <2> DEFINE r == [qos |-> p.qos, id |-> p.id]
  <2>0. p.qos \in {0, 1, 2} /\ (p.qos > 0 <=> p.qos \in {1, 2})
    BY <1>0
  <2>1. routed' \subseteq [qos : {1, 2}, id : PacketIds]
    BY <1>0, <1>3, <2>0 DEF Bookings
  <2>2. ASSUME conn = "there"
        PROVE  /\ qos1' = {x.id : x \in {x \in routed' : x.qos = 1}}
               /\ qos2' = {x.id : x \in {x \in routed' : x.qos = 2}}
    <3>0. /\ qos1 = {x.id : x \in {x \in routed : x.qos = 1}}
          /\ qos2 = {x.id : x \in {x \in routed : x.qos = 2}}
      BY <1>0, <2>2 DEF BookedIffRouted
    <3>1. CASE p.qos = 0
      BY <1>3, <3>0, <3>1 DEF book_qos
    <3>2. CASE p.qos = 1
      BY <1>3, <3>0, <3>2 DEF book_qos
    <3>3. CASE p.qos = 2
      BY <1>3, <3>0, <3>3 DEF book_qos
    <3> QED
      BY <2>0, <3>1, <3>2, <3>3
  <2>3. ~again'
    <3>1. ASSUME r \in routed PROVE p.dup
      <4>1. p.qos \in {1, 2} /\ r.qos = p.qos /\ r.id = p.id
        BY <3>1 DEF Bookings
      <4>2. Booked(p)
        BY <3>1, <4>1 DEF Booked, Bookings
      <4> QED
        BY <1>3, <4>2 DEF is_duplicate
    <3>2. ~again
      BY DEF BookedIffRouted
    <3> QED
      BY <1>3, <3>1, <3>2, Zenon
  <2>4. publish_topic_name(p) \in TopicNames
    BY <1>0, <1>3 DEF publish_topic_name, publish_topic_name_fails, Bookings
  <2>5. ~unnamed'
    BY <1>3, <2>4, Zenon DEF BookedIffRouted
  <2>6. /\ DOMAIN topic_aliases' \subseteq 1..mqtt_topic_alias_max
        /\ \A a \in DOMAIN topic_aliases' : topic_aliases'[a] \in TopicNames
    <3>1. CASE p.alias = 0 \/ p.name = NoName
      BY <1>3, <3>1 DEF book_alias, Bookings
    <3>2. CASE ~(p.alias = 0 \/ p.name = NoName)
      <4>1. p.alias \in 1..mqtt_topic_alias_max /\ p.name \in TopicNames
        BY <1>0, <1>3, <3>2 DEF publish_topic_name_fails
      <4>2. topic_aliases' = [a \in DOMAIN topic_aliases \cup {p.alias} |->
                                IF a = p.alias THEN p.name ELSE topic_aliases[a]]
        BY <1>3, <3>2 DEF book_alias
      <4> QED
        BY <4>1, <4>2 DEF Bookings
    <3> QED
      BY <3>1, <3>2
  <2>7. \A x \in routed' : (x.qos = 1 => x.id \in qos1') /\ (x.qos = 2 => x.id \in qos2')
    BY <1>3, <2>0 DEF book_qos, Bookings
  <2>8. Bookings'
    BY <2>1, <2>6, <2>7 DEF Bookings
  <2> QED
    BY <1>0, <2>2, <2>3, <2>5, <2>8, Zenon DEF BookedIffRouted
<1> QED
  BY <1>1, <1>2, <1>3 DEF HandlePublish, inp
-----------------------------------------------------------------------------
\* Every step keeps what is true of the messages for the client.
LEMMA NextOutgoing == Outgoing /\ [Next]_vars => Outgoing'
<1> SUFFICES ASSUME Outgoing, [Next]_vars PROVE Outgoing'
  OBVIOUS
<1>1. CASE \E expired \in BOOLEAN : RouteNothing(expired)
  BY <1>1, OutgoingKept DEF RouteNothing, Failed, cout, flush
<1>2. CASE RoutePackets \/ Dropped \/ HandleOther
  BY <1>2, OutgoingKept DEF RoutePackets, Dropped, HandleOther, Failed, cout, flush
<1>3. CASE \E p \in Publishes, matched \in BOOLEAN : HandlePublish(p, matched)
  <2>1. PICK p \in Publishes, matched \in BOOLEAN : HandlePublish(p, matched)
    BY <1>3
  <2>2. phase = "handle" /\ phase' \in {"handle", "in", "closed", "todo"}
    BY <2>1 DEF HandlePublish, Failed
  <2>3. UNCHANGED <<back_log, after, done, left, seqno, conn, sent>> /\ acks' \in {acks, <<>>}
    BY <2>1 DEF HandlePublish, cout, flush
  <2> QED
    BY <2>2, <2>3, OutgoingKept
<1>4. CASE /\ UNCHANGED <<phase, acks, back_log, after, done, left, seqno, sent>>
           /\ conn' = "there" => conn = "there"
  BY <1>4 DEF Outgoing, Queues, Places, BackLogBounded, Numbers
<1>5. ConnGone \/ Drain \/ UNCHANGED vars
      => /\ UNCHANGED <<phase, acks, back_log, after, done, left, seqno, sent>>
         /\ conn' = "there" => conn = "there"
  BY DEF ConnGone, Drain, vars, cout, flush
<1> QED
  BY <1>1, <1>2, <1>3, <1>4, <1>5, HandleSteps, InMessagesStep, TrySendStep, FlushDoneStep
  DEF Next

\* Every step keeps what is true of the client's PUBLISHes.
LEMMA NextIncoming == Incoming /\ [Next]_vars => Incoming'
<1> SUFFICES ASSUME Incoming, [Next]_vars PROVE Incoming'
  OBVIOUS
<1>1. CASE \E p \in Publishes, matched \in BOOLEAN : HandlePublish(p, matched)
  BY <1>1, PublishStep
<1>2. CASE UNCHANGED inp /\ (phase = "closed" => phase' = "closed") /\ (conn' = "there" => conn = "there")
  BY <1>2, IncomingKept
<1>3. \/ \E expired \in BOOLEAN : RouteNothing(expired)
      \/ RoutePackets \/ ConnGone \/ Dropped \/ HandleAnswered \/ HandleOther \/ HandleDone
      \/ \E n \in 0..MaxOut : InMessages(n)
      \/ TrySend \/ FlushDone \/ Drain \/ UNCHANGED vars
      => UNCHANGED inp /\ (phase = "closed" => phase' = "closed") /\ (conn' = "there" => conn = "there")
  <2>1. (\E expired \in BOOLEAN : RouteNothing(expired)) \/ RoutePackets \/ ConnGone \/ Dropped
        \/ HandleAnswered \/ HandleOther \/ HandleDone
        => UNCHANGED inp /\ phase # "closed" /\ (conn' = "there" => conn = "there")
    BY DEF RouteNothing, RoutePackets, ConnGone, Dropped, HandleAnswered, HandleOther, HandleDone, flush
  <2>2. (\E n \in 0..MaxOut : InMessages(n)) => UNCHANGED inp /\ phase # "closed" /\ conn' = conn
    BY Zenon DEF InMessages
  <2>3. TrySend \/ FlushDone \/ Drain \/ UNCHANGED vars
        => UNCHANGED inp /\ (phase = "closed" => phase' = "closed") /\ conn' = conn
    BY DEF TrySend, FlushDone, Drain, vars, flush
  <2> QED
    BY <2>1, <2>2, <2>3
<1> QED
  BY <1>1, <1>2, <1>3 DEF Next

\* For all sizes and names: the invariant of a session.
THEOREM Invariance == Spec => []IInv
<1>1. Init => IInv
  BY InitOutgoing, InitIncoming DEF IInv
<1>2. IInv /\ [Next]_vars => IInv'
  BY NextOutgoing, NextIncoming DEF IInv
<1> QED
  BY <1>1, <1>2, PTL DEF Spec

\* A session that goes on, with its connection, holds at most twice a batch for its
\* client, however slowly the client reads (the limit in Session::in_messages).
THEOREM PressureBounded == Spec => []BackLogBounded
<1>1. IInv => BackLogBounded
  BY DEF IInv, Outgoing
<1> QED
  BY <1>1, Invariance, PTL

\* do_publish books an identifier exactly if it routes the PUBLISH, as long as the
\* session has its connection; and whatever fails, it routes under proper names, and
\* none twice that is not marked as a duplicate.
THEOREM PublishWhole == Spec => []BookedIffRouted
<1>1. IInv => BookedIffRouted
  BY DEF IInv, Incoming
<1> QED
  BY <1>1, Invariance, PTL

\* Messages are sent for the first time in the order of their numbers (cout_publish
\* and flush_messages), though what was sent is sent again with every flush.
THEOREM SendsInOrder == Spec => FirstSendsInOrder
<1> DEFINE InOrder == \A n \in sent' \ sent : \A m \in sent : m < n
<1>1. IInv /\ [Next]_vars => [InOrder]_vars
  <2> SUFFICES ASSUME IInv, Next, NEW n \in sent' \ sent, NEW m \in sent PROVE m < n
    OBVIOUS
  <2>1. TrySend
    <3>1. sent' # sent
      OBVIOUS
    <3>2. (\E k \in 0..MaxOut : InMessages(k)) => sent' = sent
      BY Zenon DEF InMessages
    <3>3. (\E p \in Publishes, matched \in BOOLEAN : HandlePublish(p, matched)) => sent' = sent
      BY DEF HandlePublish, flush
    <3>4. (\E expired \in BOOLEAN : RouteNothing(expired)) \/ RoutePackets \/ Dropped
          \/ ConnGone \/ HandleAnswered \/ HandleOther \/ HandleDone \/ FlushDone \/ Drain
          => sent' = sent
      BY DEF RouteNothing, RoutePackets, ConnGone, Dropped, HandleAnswered, HandleOther, HandleDone,
         FlushDone, Drain, flush
    <3> QED
      BY <3>1, <3>2, <3>3, <3>4 DEF Next
  <2> QED
    BY <2>1, SentInOrder DEF IInv
<1> QED
  BY <1>1, Invariance, PTL DEF Spec, FirstSendsInOrder
-----------------------------------------------------------------------------
(* Type correctness, and with it that no identifier is ever 0.             *)

Ids == 1..MaxPacketId

Phases == phase \in {"route", "handle", "in", "flush", "closed", "todo"} /\ after \in {"route", "in"}
          /\ conn \in {"there", "gone", "empty"}

InFlight == /\ acks \in Seq(Messages) /\ back_log \in Seq(Messages)
            /\ done \in Seq(Messages) /\ left \in Seq(Messages)

OnQueue == miot_rx \in Seq(Messages) /\ Len(miot_rx) <= mqtt_pkt_batch_size

Counters == seqno \in 1..MaxOut + 1 /\ next_packet_id \in Ids

Identified == \A id \in DOMAIN index : id \in Ids /\ index[id] \in Messages /\ index[id].packet_id = id

OnLists == qos1 \subseteq PacketIds /\ qos2 \subseteq PacketIds

Proper == Phases /\ InFlight /\ OnQueue /\ Counters /\ Identified /\ OnLists

\* The identifiers that cout_publish gives to n PUBLISHes, and the one after them.
Numbering(n, first, f) == [i \in 1..n + 1 |-> IF i = 1 THEN first ELSE incr_cout_seqno(f[i - 1])]

\* Counting goes round from MaxPacketId to 1.
LEMMA NextId ==
    ASSUME NEW id \in Ids
    PROVE  incr_cout_seqno(id) \in Ids
BY Sizes DEF Ids, incr_cout_seqno

\* A set of naturals has a least one, which stands in for induction.
LEMMA Least ==
    ASSUME NEW S \in SUBSET Nat, S # {}
    PROVE  \E n \in S : \A m \in S : n <= m
<1>1. PICK n \in S : \A m \in S : ~(<<m, n>> \in OpToRel(<, Nat))
  BY NatLessThanWellFounded, WFMin, Zenon
<1>2. \A m \in S : ~(m < n)
  BY <1>1, Zenon DEF OpToRel
<1> QED BY <1>2

\* There is a numbering for every n, as there is no least n without one, ...
LEMMA NumberingExists ==
    ASSUME NEW n \in Nat, NEW first \in Ids
    PROVE  \E f : f = Numbering(n, first, f)
<1> DEFINE P(m) == \E f \in [1..m + 1 -> Ids] :
                     f[1] = first /\ \A i \in 2..m + 1 : f[i] = incr_cout_seqno(f[i - 1])
           bad == {m \in Nat : ~P(m)}
<1>1. P(0)
  <2> DEFINE f == [i \in 1..0 + 1 |-> first]
  <2>1. f \in [1..0 + 1 -> Ids] /\ f[1] = first /\ \A i \in 2..0 + 1 : f[i] = incr_cout_seqno(f[i - 1])
    OBVIOUS
  <2> QED BY <2>1, Zenon
<1>2. ASSUME NEW m \in Nat, P(m) PROVE P(m + 1)
  <2>1. PICK f \in [1..m + 1 -> Ids] :
              f[1] = first /\ \A i \in 2..m + 1 : f[i] = incr_cout_seqno(f[i - 1])
    BY <1>2
  <2> DEFINE k == incr_cout_seqno(f[m + 1])
             h == [i \in 1..m + 2 |-> IF i = m + 2 THEN k ELSE f[i]]
  <2>2. f[m + 1] \in Ids
    BY <2>1
  <2>3. k \in Ids
    BY <2>2, NextId
  <2>4. k = incr_cout_seqno(f[m + 1])
    OBVIOUS
  <2> HIDE DEF k
  <2>5. h \in [1..m + 2 -> Ids] /\ h[1] = first
    BY <2>1, <2>3
  <2>6. ASSUME NEW i \in 2..m + 2 PROVE h[i] = incr_cout_seqno(h[i - 1])
    <3>1. CASE i = m + 2
      <4>1. h[i] = k /\ h[i - 1] = f[m + 1]
        BY <3>1
      <4> QED BY <2>4, <4>1
    <3>2. CASE i # m + 2
      <4>1. i \in 2..m + 1 /\ h[i] = f[i] /\ h[i - 1] = f[i - 1]
        BY <3>2
      <4> QED BY <2>1, <4>1
    <3> QED BY <3>1, <3>2
  <2> HIDE DEF h
  <2>7. (m + 1) + 1 = m + 2
    OBVIOUS
  <2> QED BY <2>5, <2>6, <2>7
<1> HIDE DEF P
<1>3. bad = {}
  <2>1. SUFFICES ASSUME bad # {} PROVE FALSE
    OBVIOUS
  <2>2. PICK m \in bad : \A k \in bad : m <= k
    BY <2>1, Least, Zenon
  <2>3. m \in Nat /\ m # 0
    BY <1>1
  <2>4. m - 1 \in Nat /\ m - 1 \notin bad /\ (m - 1) + 1 = m
    BY <2>2, <2>3
  <2> QED BY <1>2, <2>2, <2>4
<1>4. P(n)
  BY <1>3
<1>5. PICK f \in [1..n + 1 -> Ids] : f[1] = first /\ \A i \in 2..n + 1 : f[i] = incr_cout_seqno(f[i - 1])
  BY <1>4 DEF P
<1>6. f = Numbering(n, first, f)
  <2>1. \A i \in 1..n + 1 : f[i] = IF i = 1 THEN first ELSE incr_cout_seqno(f[i - 1])
    BY <1>5
  <2>2. f = [i \in 1..n + 1 |-> f[i]]
    BY <1>5
  <2> QED BY <2>1, <2>2 DEF Numbering
<1> QED BY <1>6

\* ... and it consists of identifiers.
LEMMA NumberingIds ==
    ASSUME NEW n \in Nat, NEW first \in Ids, NEW f, f = Numbering(n, first, f), NEW i \in 1..n + 1
    PROVE  f[i] \in Ids
<1> DEFINE bad == {j \in 1..n + 1 : f[j] \notin Ids}
<1>1. \A j \in 1..n + 1 : f[j] = IF j = 1 THEN first ELSE incr_cout_seqno(f[j - 1])
  BY DEF Numbering
<1>2. bad = {}
  <2>1. SUFFICES ASSUME bad # {} PROVE FALSE
    OBVIOUS
  <2>2. PICK j \in bad : \A k \in bad : j <= k
    <3>1. bad \in SUBSET Nat
      OBVIOUS
    <3> HIDE DEF bad
    <3> QED BY <2>1, <3>1, Least
  <2>3. j \in 1..n + 1 /\ f[j] \notin Ids
    OBVIOUS
  <2>4. j # 1
    BY <1>1, <2>3
  <2>5. j - 1 \in 1..n + 1 /\ j - 1 \notin bad
    BY <2>2, <2>3, <2>4
  <2>6. f[j - 1] \in Ids
    BY <2>5
  <2>7. f[j] = incr_cout_seqno(f[j - 1])
    BY <1>1, <2>3, <2>4
  <2> QED BY <2>3, <2>6, <2>7, NextId
<1> QED BY <1>2

PacketMsgs == [type : {"packet"}, seqno : 1..MaxOut, packet_id : Ids]

\* Messages are acknowledgements or PUBLISHes.
LEMMA MessageKinds ==
    /\ Messages = {ClientAck} \cup PacketMsgs
    /\ ClientAck \in Messages /\ ClientAck.type # "packet"
    /\ \A m \in PacketMsgs : m \in Messages /\ m.type = "packet" /\ m.seqno \in 1..MaxOut /\ m.packet_id \in Ids
    /\ \A m \in Messages : m.type = "packet" => m \in PacketMsgs
    /\ \A n \in 1..MaxOut, id \in Ids : Packet(n, id) \in PacketMsgs
<1>1. Messages = {ClientAck} \cup PacketMsgs
  BY DEF Messages, PacketMsgs, Ids
<1>2. ClientAck.type # "packet"
  BY DEF ClientAck
<1>3. \A m \in PacketMsgs : m.type = "packet" /\ m.seqno \in 1..MaxOut /\ m.packet_id \in Ids
  BY DEF PacketMsgs
<1>4. \A n \in 1..MaxOut, id \in Ids : Packet(n, id) \in PacketMsgs
  BY DEF PacketMsgs, Packet
<1> QED BY <1>1, <1>2, <1>3, <1>4

\* Among PUBLISHes there is a last one.
LEMMA LastPacket ==
    ASSUME NEW S \in SUBSET PacketMsgs, S # {}
    PROVE  \E m \in S : \A o \in S : o.seqno <= m.seqno
<1> DEFINE gaps == {MaxOut - m.seqno : m \in S}
<1>1. \A m \in S : m.seqno \in 1..MaxOut
  BY MessageKinds
<1>2. MaxOut \in Nat
  BY Sizes
<1>3. gaps \in SUBSET Nat /\ gaps # {}
  BY <1>1, <1>2
<1>4. PICK g \in gaps : \A h \in gaps : g <= h
  BY <1>3, Least, Zenon
<1>5. PICK m \in S : g = MaxOut - m.seqno
  BY <1>4
<1>6. ASSUME NEW o \in S PROVE o.seqno <= m.seqno
  <2>1. MaxOut - o.seqno \in gaps
    OBVIOUS
  <2>2. MaxOut - m.seqno <= MaxOut - o.seqno
    BY <1>4, <1>5, <2>1
  <2> QED BY <1>1, <1>2, <2>2
<1> QED BY <1>6

\* in_messages' end and flush_messages' start hand on the messages that they get.
LEMMA ProperBook ==
    ASSUME Phases, InFlight, NEW msgs \in Seq(Messages), NEW next \in {"in", "route"}, Book(msgs, next),
           conn' = conn
    PROVE  /\ Phases'
           /\ back_log' \in Seq(Messages) /\ done' \in Seq(Messages) /\ left' \in Seq(Messages)
<1>1. <<>> \in Seq(Messages)
  OBVIOUS
<1>2. CASE phase' = Failed /\ back_log' = msgs /\ UNCHANGED <<after, done, left>>
  BY <1>2 DEF Phases, InFlight, Failed
<1>3. CASE phase' = next /\ back_log' = msgs /\ UNCHANGED <<after, done, left>>
  BY <1>3 DEF Phases, InFlight
<1>4. CASE phase' = "flush" /\ after' = next /\ back_log' = <<>> /\ done' = <<>> /\ left' = msgs
  BY <1>1, <1>4 DEF Phases
<1> QED BY <1>2, <1>3, <1>4 DEF Book

\* Answers to the client's packets.
LEMMA ProperHandle ==
    ASSUME Proper, HandleAnswered \/ HandleDone
    PROVE  Proper'
<1>0. Phases /\ InFlight /\ OnQueue /\ Counters /\ Identified /\ OnLists
  BY DEF Proper
<1>1. ClientAck \in Messages
  BY MessageKinds
<1>2. CASE HandleAnswered
  <2>1. acks' = Append(acks, ClientAck) /\ UNCHANGED <<phase, inp, cout, flush>>
    BY <1>2 DEF HandleAnswered
  <2>2. InFlight'
    BY <1>0, <1>1, <2>1 DEF InFlight, cout, flush
  <2>3. Phases' /\ OnQueue' /\ Counters' /\ Identified' /\ OnLists'
    BY <1>0, <2>1, Zenon DEF Phases, OnQueue, Counters, Identified, OnLists, inp, cout, flush
  <2> QED BY <2>2, <2>3 DEF Proper
<1>3. CASE HandleDone
  <2>1. /\ Book(back_log \o acks, "in") /\ acks' = <<>>
        /\ UNCHANGED <<inp, seqno, next_packet_id, index, miot_rx, conn>>
    BY <1>3 DEF HandleDone
  <2>2. back_log \o acks \in Seq(Messages) /\ <<>> \in Seq(Messages)
    BY <1>0 DEF InFlight
  <2>3. Phases' /\ back_log' \in Seq(Messages) /\ done' \in Seq(Messages) /\ left' \in Seq(Messages)
    BY <1>0, <2>1, <2>2, ProperBook, Zenon
  <2>4. InFlight'
    BY <2>1, <2>2, <2>3 DEF InFlight
  <2>5. OnQueue' /\ Counters' /\ Identified' /\ OnLists'
    BY <1>0, <2>1 DEF OnQueue, Counters, Identified, OnLists, inp
  <2> QED BY <2>3, <2>4, <2>5 DEF Proper
<1> QED BY <1>2, <1>3

\* cout_publish: the PUBLISHes have numbers up to MaxOut and identifiers from 1.
LEMMA ProperInMessages ==
    ASSUME Proper, NEW n \in 0..MaxOut, InMessages(n)
    PROVE  Proper'
<1> DEFINE id[i \in 1..n + 1] == IF i = 1 THEN next_packet_id ELSE incr_cout_seqno(id[i - 1])
<1>0. Phases /\ InFlight /\ OnQueue /\ Counters /\ Identified /\ OnLists
  BY DEF Proper
<1>1. /\ Book(back_log \o [i \in 1..n |-> Packet(seqno + i - 1, id[i])], "route")
      /\ next_packet_id' = id[n + 1]
  BY DEF InMessages
<1>2. /\ seqno + n <= MaxOut + 1 /\ seqno' = seqno + n
      /\ UNCHANGED <<acks, inp, index, miot_rx, conn>>
  BY DEF InMessages
<1>3. n \in Nat /\ MaxOut \in Nat /\ seqno \in 1..MaxOut + 1 /\ next_packet_id \in Ids
  BY <1>0, Sizes DEF Counters
<1>4. id = CHOOSE f : f = Numbering(n, next_packet_id, f)
  BY DEF Numbering
<1> HIDE DEF id
<1>5. id = Numbering(n, next_packet_id, id)
  BY <1>3, <1>4, NumberingExists, Zenon
<1>6. \A i \in 1..n + 1 : id[i] \in Ids
  BY <1>3, <1>5, NumberingIds
<1> DEFINE new == [i \in 1..n |-> Packet(seqno + i - 1, id[i])]
<1>7. new \in Seq(Messages)
  <2>1. ASSUME NEW i \in 1..n PROVE Packet(seqno + i - 1, id[i]) \in Messages
    <3>1. seqno + i - 1 \in 1..MaxOut /\ i \in 1..n + 1
      BY <1>2, <1>3
    <3>2. id[i] \in Ids
      BY <1>6, <3>1
    <3> QED BY <3>1, <3>2, MessageKinds
  <2>2. new \in [1..n -> Messages]
    BY <2>1
  <2> QED BY <1>3, <2>2
<1>8. Book(back_log \o new, "route")
  BY <1>1
<1> HIDE DEF new
<1>9. back_log \o new \in Seq(Messages)
  BY <1>0, <1>7 DEF InFlight
<1>10. Phases' /\ back_log' \in Seq(Messages) /\ done' \in Seq(Messages) /\ left' \in Seq(Messages)
  BY <1>0, <1>2, <1>8, <1>9, ProperBook, Zenon
<1>11. InFlight'
  BY <1>0, <1>2, <1>10 DEF InFlight
<1>12. Counters'
  <2>1. n + 1 \in 1..n + 1
    BY <1>3
  <2>2. next_packet_id' \in Ids
    BY <1>1, <1>6, <2>1
  <2>3. seqno + n \in 1..MaxOut + 1
    BY <1>2, <1>3
  <2> QED BY <1>2, <2>2, <2>3 DEF Counters
<1>13. OnQueue' /\ Identified' /\ OnLists'
  BY <1>0, <1>2 DEF OnQueue, Identified, OnLists, inp
<1> QED BY <1>10, <1>11, <1>12, <1>13 DEF Proper

\* The queue to the miot thread is never longer than a batch.
LEMMA ProperQueue ==
    ASSUME Proper, TrySend \/ Drain
    PROVE  Proper'
<1>0. Phases /\ InFlight /\ OnQueue /\ Counters /\ Identified /\ OnLists
  BY DEF Proper
<1>1. mqtt_pkt_batch_size \in Nat
  BY Sizes
<1>2. miot_rx \in Seq(Messages) /\ Len(miot_rx) \in Nat /\ Len(miot_rx) <= mqtt_pkt_batch_size
  BY <1>0 DEF OnQueue
<1>3. CASE TrySend
  <2>1. /\ left # <<>> /\ Len(miot_rx) < mqtt_pkt_batch_size
        /\ miot_rx' = Append(miot_rx, Head(left))
        /\ done' = Append(done, Head(left)) /\ left' = Tail(left)
        /\ UNCHANGED <<phase, after, conn, acks, inp, cout>>
    BY <1>3 DEF TrySend
  <2>2. left \in Seq(Messages) /\ done \in Seq(Messages)
    BY <1>0 DEF InFlight
  <2>3. Head(left) \in Messages /\ Tail(left) \in Seq(Messages)
    BY <2>1, <2>2
  <2>4. /\ Append(done, Head(left)) \in Seq(Messages) /\ Append(miot_rx, Head(left)) \in Seq(Messages)
        /\ Len(Append(miot_rx, Head(left))) = Len(miot_rx) + 1
    BY <1>2, <2>2, <2>3
  <2>5. Len(miot_rx) + 1 <= mqtt_pkt_batch_size
    BY <1>1, <1>2, <2>1
  <2>6. InFlight' /\ OnQueue'
    BY <1>0, <2>1, <2>3, <2>4, <2>5 DEF InFlight, OnQueue, cout
  <2>7. Phases' /\ Counters' /\ Identified' /\ OnLists'
    BY <1>0, <2>1 DEF Phases, Counters, Identified, OnLists, inp, cout
  <2> QED BY <2>6, <2>7 DEF Proper
<1>4. CASE Drain
  <2>1. miot_rx # <<>> /\ miot_rx' = Tail(miot_rx) /\ UNCHANGED <<phase, acks, inp, cout, after, done, left, conn>>
    BY <1>4 DEF Drain
  <2>2. Tail(miot_rx) \in Seq(Messages) /\ Len(Tail(miot_rx)) = Len(miot_rx) - 1
    BY <1>2, <2>1
  <2>3. OnQueue'
    BY <1>1, <1>2, <2>1, <2>2 DEF OnQueue
  <2>4. Phases' /\ InFlight' /\ Counters' /\ Identified' /\ OnLists'
    BY <1>0, <2>1 DEF Phases, InFlight, Counters, Identified, OnLists, inp, cout
  <2> QED BY <2>3, <2>4 DEF Proper
<1> QED BY <1>3, <1>4

\* flush_messages' end: a PUBLISH is booked in the index under its own identifier.
LEMMA ProperFlushDone ==
    ASSUME Proper, FlushDone
    PROVE  Proper'
<1> DEFINE booked == {m \in Range(left) : m.type = "packet"}
           ids == {m.packet_id : m \in booked}
           latest(id) == CHOOSE m \in booked : /\ m.packet_id = id
                                               /\ \A o \in booked : o.packet_id = id
                                                                    => o.seqno <= m.seqno
<1>0. Phases /\ InFlight /\ OnQueue /\ Counters /\ Identified /\ OnLists
  BY DEF Proper
<1>1. /\ index' = [id \in DOMAIN index \cup ids |-> IF id \in ids THEN latest(id) ELSE index[id]]
      /\ back_log' = done /\ done' = <<>> /\ left' = <<>> /\ phase' = after
      /\ UNCHANGED <<after, acks, inp, seqno, next_packet_id, miot_rx, conn>>
  BY DEF FlushDone
<1>2. booked \subseteq PacketMsgs
  <2>1. Range(left) \subseteq Messages
    BY <1>0 DEF InFlight, Range
  <2> QED BY <2>1, MessageKinds
<1>3. ASSUME NEW id \in ids
      PROVE  latest(id) \in booked /\ latest(id).packet_id = id
  <2> DEFINE same == {m \in booked : m.packet_id = id}
  <2>1. same \in SUBSET PacketMsgs /\ same # {}
    BY <1>2
  <2>2. PICK m \in same : \A o \in same : o.seqno <= m.seqno
    BY <2>1, LastPacket, Zenon
  <2>3. m \in booked /\ m.packet_id = id /\ \A o \in booked : o.packet_id = id => o.seqno <= m.seqno
    BY <2>2
  <2> HIDE DEF booked
  <2> QED BY <2>3, Zenon
<1> HIDE DEF latest, booked
<1>4. Identified'
  <2> SUFFICES ASSUME NEW id \in DOMAIN index'
               PROVE  id \in Ids /\ index'[id] \in Messages /\ index'[id].packet_id = id
    BY DEF Identified
  <2>1. CASE id \in ids
    <3>1. index'[id] = latest(id)
      BY <1>1, <2>1
    <3>2. latest(id) \in PacketMsgs /\ latest(id).packet_id = id
      BY <1>2, <1>3, <2>1
    <3> QED BY <3>1, <3>2, MessageKinds
  <2>2. CASE id \notin ids
    <3>1. id \in DOMAIN index /\ index'[id] = index[id]
      BY <1>1, <2>2
    <3> QED BY <1>0, <3>1 DEF Identified
  <2> QED BY <2>1, <2>2
<1>5. InFlight'
  BY <1>0, <1>1 DEF InFlight
<1>6. Phases' /\ OnQueue' /\ Counters' /\ OnLists'
  BY <1>0, <1>1 DEF Phases, OnQueue, Counters, OnLists, inp
<1> QED BY <1>4, <1>5, <1>6 DEF Proper

\* The steps that leave the messages for the client alone.
LEMMA ProperRest ==
    ASSUME Proper,
           \/ \E expired \in BOOLEAN : RouteNothing(expired)
           \/ RoutePackets \/ ConnGone \/ Dropped \/ HandleOther
           \/ \E p \in Publishes, matched \in BOOLEAN : HandlePublish(p, matched)
    PROVE  Proper'
<1>0. Phases /\ InFlight /\ OnQueue /\ Counters /\ Identified /\ OnLists
  BY DEF Proper
<1>1. UNCHANGED <<cout, after, done, left, miot_rx, sent>>
  BY Zenon DEF RouteNothing, RoutePackets, ConnGone, Dropped, HandleOther, HandlePublish, flush
<1>2. acks' = acks \/ acks' = <<>>
  BY Zenon DEF RouteNothing, RoutePackets, ConnGone, Dropped, HandleOther, HandlePublish
<1>3. phase' \in {"route", "handle", "in", "flush", "closed", "todo"}
  BY <1>0, Zenon DEF RouteNothing, RoutePackets, ConnGone, Dropped, HandleOther, HandlePublish,
     Failed, Phases
<1>4. conn' \in {"there", "gone", "empty"}
  BY <1>0, Zenon DEF RouteNothing, RoutePackets, ConnGone, Dropped, HandleOther, HandlePublish,
     flush, Phases
<1>5. OnLists'
  <2>1. CASE UNCHANGED inp
    BY <1>0, <2>1 DEF OnLists, inp
  <2>2. ASSUME NEW p \in Publishes, book_qos(p) PROVE OnLists'
    <3>1. p.id \in PacketIds
      BY DEF Publishes
    <3> QED BY <1>0, <2>2, <3>1 DEF OnLists, book_qos
  <2> QED BY <2>1, <2>2, Zenon
          DEF RouteNothing, RoutePackets, ConnGone, Dropped, HandleOther, HandlePublish
<1>6. InFlight'
  <2>1. <<>> \in Seq(Messages)
    OBVIOUS
  <2> QED BY <1>0, <1>1, <1>2, <2>1, Zenon DEF InFlight, cout
<1>7. Phases' /\ OnQueue' /\ Counters' /\ Identified'
  BY <1>0, <1>1, <1>3, <1>4 DEF Phases, OnQueue, Counters, Identified, cout
<1> QED BY <1>5, <1>6, <1>7 DEF Proper

\* A new session has its CONNACK to flush, and nothing else.
LEMMA ProperInit == Init => Proper
<1> SUFFICES ASSUME Init PROVE Proper
  OBVIOUS
<1>1. ClientAck \in Messages
  BY MessageKinds
<1>2. <<>> \in Seq(Messages) /\ Len(<<>>) = 0 /\ <<ClientAck>> \in Seq(Messages)
  BY <1>1
<1>3. 1 \in 1..MaxOut + 1 /\ 1 \in Ids /\ 0 <= mqtt_pkt_batch_size
  BY Sizes DEF Ids
<1>4. DOMAIN index = {}
  BY DEF Init
<1>5. InFlight /\ OnQueue
  BY <1>2, <1>3 DEF Init, InFlight, OnQueue
<1>6. Phases /\ Counters /\ Identified /\ OnLists
  BY <1>3, <1>4 DEF Init, Phases, Counters, Identified, OnLists
<1> QED BY <1>5, <1>6 DEF Proper

\* The state of a session is of the right type, for every size: aliases, numbers
\* and identifiers are within their limits (incr_cout_seqno never yields 0), the
\* index holds PUBLISHes under their own identifiers, and the queue to the miot
\* thread holds at most a batch.
THEOREM TypeCorrect == Spec => []TypeOK
<1>1. Proper /\ [Next]_vars => Proper'
  <2> SUFFICES ASSUME Proper, [Next]_vars PROVE Proper'
    OBVIOUS
  <2>1. CASE UNCHANGED vars
    BY <2>1 DEF vars, inp, cout, flush, Proper, Phases, InFlight, OnQueue, Counters, Identified, OnLists
  <2>2. CASE Next
    BY <2>2, ProperHandle, ProperInMessages, ProperQueue, ProperFlushDone, ProperRest, Zenon DEF Next
  <2> QED BY <2>1, <2>2
<1>2. Proper /\ IInv => TypeOK
  <2> SUFFICES ASSUME Proper, IInv PROVE TypeOK
    OBVIOUS
  <2>1. Phases /\ InFlight /\ OnQueue /\ Counters /\ Identified /\ OnLists
    BY DEF Proper
  <2>2. DOMAIN topic_aliases \subseteq 1..mqtt_topic_alias_max
    BY DEF IInv, Incoming, Bookings
  <2>3. \A q \in Seq(Messages) : Range(q) \subseteq Messages
    BY DEF Range
  <2>4. UNION {Range(q) : q \in {acks, back_log, done, left, miot_rx}} \subseteq Messages
    BY <2>1, <2>3 DEF InFlight, OnQueue
  <2>5. DOMAIN index \subseteq 1..MaxPacketId
    BY <2>1 DEF Identified, Ids
  <2> QED BY <2>1, <2>2, <2>4, <2>5
          DEF TypeOK, Phases, OnQueue, Counters, Identified, OnLists, Ids
<1> QED BY <1>1, <1>2, ProperInit, Invariance, PTL DEF Spec
=============================================================================
