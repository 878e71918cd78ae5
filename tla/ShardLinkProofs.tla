-------------------------- MODULE ShardLinkProofs ---------------------------
(***************************************************************************)
(* Theorems about ShardLink.tla, for any number of shards and clients, any *)
(* length of the queues and any number of packets: the shards implement    *)
(* the channels of Channels.tla, and acknowledgements follow the packets.  *)
(***************************************************************************)
EXTENDS ShardLink, FiniteSetTheorems, SequenceTheorems, WellFoundedInduction, TLAPS

Msgs == Packets \cup LocalAcks

\* Functions on some of the shards.
Partial(S) == UNION {[D -> S] : D \in SUBSET Shards}

Stamps == [routed : Seqnos, acked : 0..MaxRouted]

\* The phase of every loop, and how far it is.
Phases == /\ pc \in [Shards -> {"route", "flush", "in", "unreachable", "todo"}]
          /\ at \in [Shards -> 0..NumShards + QueueSize]
          /\ \A s \in Shards : pc[s] = "flush" => at[s] \in Shards

Hosts == /\ sessions \in [Shards -> SUBSET Clients]
         /\ \A s \in Shards : \A c \in sessions[s] : shard_id(c) = s

Books == /\ seqno \in [Shards -> Seqnos]
         /\ unacks \in [Shards -> SUBSET Packets]
         /\ timestamp \in [Shards -> Partial(Stamps)]
         /\ ack_timestamp \in [Shards -> Partial(1..MaxRouted)]

Links == /\ shard_back_log \in [Shards -> [Shards -> Seq(Msgs)]]
         /\ queue \in [Shards -> Seq(Entries)]
         /\ \A t \in Shards : Len(queue[t]) <= QueueSize

Seen == /\ handed \in [Clients -> SUBSET Packets]
        /\ taken \in [Shards -> [Shards -> 0..MaxRouted]]

Types == Phases /\ Hosts /\ Books /\ Links /\ Seen

\* A message from s is fine if a packet names s as the shard that it comes
\* from, and if an acknowledgement is for a packet that s has taken, where ack
\* is the last one.
Fine(m, s, ack) == /\ m.type = "packet" => m.shard = s
                   /\ m.type = "local_ack" => m.last_received_ack <= ack

\* The same for those in the queue q and in the back log b.
FineLink(s, q, b, ack) ==
    /\ \A i \in 1..Len(b) : Fine(b[i], s, ack)
    /\ \A i \in 1..Len(q) : q[i].from = s => Fine(q[i].msg, s, ack)

AllFine == \A s, t \in Shards : FineLink(s, queue[t], shard_back_log[s][t], taken[s][t])

\* So is an acknowledgement that ack_messages is going to send.
AcksEarned == \A s, t \in Shards :
    t \in DOMAIN ack_timestamp[s] => ack_timestamp[s][t] <= taken[s][t]

\* The numbers on their way go up from what has been taken to what is next.
Rising(c, low, high) ==
    /\ \A i \in 1..Len(c) : low < c[i] /\ c[i] < high
    /\ \A i, j \in 1..Len(c) : i < j => c[i] < c[j]

Ordered == \A s, t \in Shards : Rising(PacketsOnTheWay(s, t), taken[t][s], seqno[s])

\* No shard has taken a packet that is still to be routed.
TakenRouted == \A s, t \in Shards : taken[t][s] < seqno[s]

IInv == Types /\ AllFine /\ AcksEarned /\ Ordered /\ TakenRouted
-----------------------------------------------------------------------------
\* A set of naturals has a least one, which stands in for induction: a statement
\* about what Select computes up to n has no least n for which it fails.
LEMMA Least ==
    ASSUME NEW S \in SUBSET Nat, S # {}
    PROVE  \E n \in S : \A m \in S : n <= m
<1>1. PICK n \in S : \A m \in S : ~(<<m, n>> \in OpToRel(<, Nat))
  BY NatLessThanWellFounded, WFMin, Zenon
<1>2. \A m \in S : ~(m < n)
  BY <1>1, Zenon DEF OpToRel
<1> QED BY <1>2
-----------------------------------------------------------------------------
(* Selecting from a sequence: what Select computes, for a test that is     *)
(* membership in S and a function g on S.                                  *)

\* Adding to the second of two parts of a queue is adding to both together.
AddsBehind(a, b, x) == Append(a \o b, x) = a \o Append(b, x)

\* Messages that are added to the back log come behind those in the queue.
LEMMA ConcatAppend ==
    ASSUME NEW R, NEW a \in Seq(R), NEW b \in Seq(R), NEW x \in R
    PROVE  AddsBehind(a, b, x)
<1>1. a \o b \in Seq(R) /\ <<x>> \in Seq(R)
  BY ConcatProperties
<1>2. Append(a \o b, x) = (a \o b) \o <<x>>
  BY <1>1, AppendIsConcat
<1>3. Append(b, x) = b \o <<x>>
  BY AppendIsConcat
<1> QED BY <1>1, <1>2, <1>3, ConcatAssociative DEF AddsBehind

Keep(q, S, g, n, before) == IF q[n] \in S THEN Append(before, g[q[n]]) ELSE before

\* f[n] is selected from the first n elements of q.
IsPick(q, S, g, f) == /\ f = [n \in 0..Len(q) |-> f[n]] /\ f[0] = <<>>
                      /\ \A n \in 1..Len(q) : f[n] = Keep(q, S, g, n, f[n - 1])

PickOf(q, S, g, R, f) == f \in [0..Len(q) -> Seq(R)] /\ IsPick(q, S, g, f)

\* y is what becomes of an element of q.
Chosen(q, S, g, y) == \E j \in 1..Len(q) : q[j] \in S /\ y = g[q[j]]

\* What is selected from the first element of q.
First(q, S, g) == IF q[1] \in S THEN <<g[q[1]]>> ELSE <<>>

\* f selects from q, and h from the rest p of q.
Joined(q, p, S, g, f, h) == f[Len(q)] = First(q, S, g) \o h[Len(p)]

\* The selections from the beginnings of a queue exist, ...
LEMMA PickExists ==
    ASSUME NEW E, NEW q \in Seq(E), NEW S, NEW R, NEW g \in [S -> R]
    PROVE  \E f \in [0..Len(q) -> Seq(R)] : IsPick(q, S, g, f)
<1> DEFINE N == Len(q)
           P(m) == \E f \in [0..m -> Seq(R)] :
                       f[0] = <<>> /\ \A n \in 1..m : f[n] = Keep(q, S, g, n, f[n - 1])
           bad == {m \in 0..N : ~P(m)}
<1>1. N \in Nat /\ <<>> \in Seq(R)
  OBVIOUS
<1>2. P(0)
  <2> DEFINE f == [n \in 0..0 |-> <<>>]
  <2>1. f \in [0..0 -> Seq(R)] /\ f[0] = <<>>
    BY <1>1
  <2>2. \A n \in 1..0 : f[n] = Keep(q, S, g, n, f[n - 1])
    OBVIOUS
  <2> QED BY <2>1, <2>2, Zenon
<1>3. ASSUME NEW m \in 1..N, P(m - 1) PROVE P(m)
  <2>1. PICK f \in [0..m - 1 -> Seq(R)] :
              f[0] = <<>> /\ \A n \in 1..m - 1 : f[n] = Keep(q, S, g, n, f[n - 1])
    BY <1>3, Zenon
  <2> DEFINE k == Keep(q, S, g, m, f[m - 1])
             h == [n \in 0..m |-> IF n = m THEN k ELSE f[n]]
  <2>2. m \in Nat /\ m - 1 \in 0..m - 1
    BY <1>1
  <2>3. f[m - 1] \in Seq(R)
    BY <2>1, <2>2
  <2>4. k \in Seq(R)
    <3>1. CASE q[m] \in S
      <4>1. g[q[m]] \in R
        BY <3>1
      <4> QED BY <4>1, <2>3, <3>1, AppendProperties DEF Keep
    <3>2. CASE q[m] \notin S
      BY <3>2, <2>3 DEF Keep
    <3> QED BY <3>1, <3>2
  <2> HIDE DEF k
  <2>5. \A n \in 0..m : n = m \/ n \in 0..m - 1
    BY <2>2
  <2>6. h \in [0..m -> Seq(R)]
    BY <2>1, <2>4, <2>5
  <2>7. h[0] = <<>> /\ h[m] = k /\ \A n \in 0..m - 1 : h[n] = f[n]
    BY <2>1, <2>2
  <2> HIDE DEF h
  <2>8. ASSUME NEW n \in 1..m PROVE h[n] = Keep(q, S, g, n, h[n - 1])
    <3>1. n - 1 \in 0..m - 1
      BY <2>2
    <3>2. h[n - 1] = f[n - 1]
      BY <3>1, <2>7
    <3>3. CASE n = m
      BY <3>2, <3>3, <2>7 DEF k
    <3>4. CASE n # m
      <4>1. n \in 1..m - 1 /\ n \in 0..m - 1
        BY <3>4, <2>2
      <4> QED BY <4>1, <3>2, <2>1, <2>7
    <3> QED BY <3>3, <3>4
  <2> QED BY <2>6, <2>7, <2>8, Zenon
<1> HIDE DEF P
<1>4. bad = {}
  <2>1. SUFFICES ASSUME bad # {} PROVE FALSE
    OBVIOUS
  <2>2. bad \in SUBSET Nat
    BY <1>1
  <2>3. PICK m \in bad : \A n \in bad : m <= n
    BY <2>1, <2>2, Least, Zenon
  <2>4. m \in 0..N /\ ~P(m)
    BY <2>3
  <2>5. m # 0
    BY <2>4, <1>2
  <2>6. m \in 1..N /\ m - 1 \in 0..N /\ ~(m <= m - 1)
    BY <2>4, <2>5, <1>1
  <2>7. m - 1 \notin bad
    BY <2>3, <2>6
  <2>8. P(m - 1)
    BY <2>6, <2>7
  <2> QED BY <2>4, <2>6, <2>8, <1>3
<1>5. P(N)
  <2>1. N \in 0..N
    BY <1>1
  <2> QED BY <2>1, <1>4
<1>6. PICK f \in [0..N -> Seq(R)] :
              f[0] = <<>> /\ \A n \in 1..N : f[n] = Keep(q, S, g, n, f[n - 1])
  BY <1>5 DEF P
<1>7. f = [n \in 0..N |-> f[n]]
  BY <1>6
<1> QED BY <1>6, <1>7, Zenon DEF IsPick

\* ... and depend on those beginnings alone.
LEMMA PickAgree ==
    ASSUME NEW E, NEW q \in Seq(E), NEW p \in Seq(E), NEW S, NEW g, NEW f, NEW h,
           IsPick(q, S, g, f), IsPick(p, S, g, h),
           NEW k \in 0..Len(q), k <= Len(p), \A n \in 1..k : q[n] = p[n]
    PROVE  f[k] = h[k]
<1> DEFINE bad == {n \in 0..k : f[n] # h[n]}
<1>1. k \in Nat /\ Len(q) \in Nat /\ Len(p) \in Nat
  OBVIOUS
<1>2. bad = {}
  <2>1. SUFFICES ASSUME bad # {} PROVE FALSE
    OBVIOUS
  <2>2. bad \in SUBSET Nat
    BY <1>1
  <2>3. PICK m \in bad : \A n \in bad : m <= n
    BY <2>1, <2>2, Least, Zenon
  <2>4. m \in 0..k /\ f[m] # h[m]
    BY <2>3
  <2>5. m # 0
    BY <2>4 DEF IsPick
  <2>6. m \in 1..k /\ m - 1 \in 0..k /\ ~(m <= m - 1) /\ m \in 1..Len(q) /\ m \in 1..Len(p)
    BY <2>4, <2>5, <1>1
  <2>7. m - 1 \notin bad
    BY <2>3, <2>6
  <2>8. f[m - 1] = h[m - 1]
    BY <2>6, <2>7
  <2>9. f[m] = Keep(q, S, g, m, f[m - 1]) /\ h[m] = Keep(p, S, g, m, h[m - 1])
    BY <2>6, Zenon DEF IsPick
  <2> QED BY <2>4, <2>6, <2>8, <2>9 DEF Keep
<1>3. k \in 0..k
  BY <1>1
<1> QED BY <1>2, <1>3

\* Everything selected is in the queue.
LEMMA PickElements ==
    ASSUME NEW E, NEW q \in Seq(E), NEW S, NEW R, NEW g \in [S -> R],
           NEW f, PickOf(q, S, g, R, f), NEW i \in 1..Len(f[Len(q)])
    PROVE  Chosen(q, S, g, f[Len(q)][i])
<1> USE DEF PickOf
<1> DEFINE P(n) == \A m \in 1..Len(f[n]) : \E j \in 1..Len(q) : q[j] \in S /\ f[n][m] = g[q[j]]
           bad == {n \in 0..Len(q) : ~P(n)}
<1>1. Len(q) \in Nat
  OBVIOUS
<1>2. P(0)
  BY DEF IsPick
<1>3. ASSUME NEW n \in 1..Len(q), P(n - 1) PROVE P(n)
  <2>1. n - 1 \in 0..Len(q)
    BY <1>1
  <2>2. f[n - 1] \in Seq(R) /\ f[n] = Keep(q, S, g, n, f[n - 1])
    BY <2>1, Zenon DEF IsPick
  <2>3. CASE q[n] \notin S
    BY <2>2, <2>3, <1>3 DEF Keep
  <2>4. CASE q[n] \in S
    <3>1. f[n] = Append(f[n - 1], g[q[n]]) /\ g[q[n]] \in R
      BY <2>2, <2>4 DEF Keep
    <3> DEFINE a == f[n - 1]
               x == g[q[n]]
    <3>6. a \in Seq(R) /\ x \in R /\ f[n] = Append(a, x)
      BY <3>1, <2>2
    <3>7. ASSUME NEW c \in Seq(R), NEW y \in R
          PROVE  /\ Len(c) \in Nat /\ Len(Append(c, y)) = Len(c) + 1 /\ Append(c, y)[Len(c) + 1] = y
                 /\ \A m \in 1..Len(c) : Append(c, y)[m] = c[m]
      BY AppendProperties
    <3> HIDE DEF a, x
    <3>2. Len(a) \in Nat /\ Len(f[n]) = Len(a) + 1 /\ f[n][Len(a) + 1] = x /\ \A m \in 1..Len(a) : f[n][m] = a[m]
      BY <3>6, <3>7
    <3>3. ASSUME NEW m \in 1..Len(f[n]) PROVE m = Len(a) + 1 \/ m \in 1..Len(a)
      BY <3>2
    <3>4. \A m \in 1..Len(a) : \E j \in 1..Len(q) : q[j] \in S /\ a[m] = g[q[j]]
      BY <1>3 DEF a
    <3>5. x = g[q[n]] /\ n \in 1..Len(q)
      BY DEF x
    <3> QED BY <3>2, <3>3, <3>4, <3>5, <2>4
  <2> QED BY <2>3, <2>4
<1> HIDE DEF P
<1>4. bad = {}
  <2>1. SUFFICES ASSUME bad # {} PROVE FALSE
    OBVIOUS
  <2>2. bad \in SUBSET Nat
    BY <1>1
  <2>3. PICK m \in bad : \A n \in bad : m <= n
    BY <2>1, <2>2, Least, Zenon
  <2>4. m \in 0..Len(q) /\ ~P(m)
    BY <2>3
  <2>5. m # 0
    BY <2>4, <1>2
  <2>6. m \in 1..Len(q) /\ m - 1 \in 0..Len(q) /\ ~(m <= m - 1)
    BY <2>4, <2>5, <1>1
  <2>7. m - 1 \notin bad
    BY <2>3, <2>6
  <2>8. P(m - 1)
    BY <2>6, <2>7
  <2> QED BY <2>4, <2>6, <2>8, <1>3
<1>5. P(Len(q))
  BY <1>1, <1>4
<1> QED BY <1>5 DEF P, Chosen

\* What is selected from the rest of a queue, when its head is taken.
LEMMA PickTail ==
    ASSUME NEW E, NEW q \in Seq(E), q # <<>>, NEW S, NEW R, NEW g \in [S -> R],
           NEW p, p = Tail(q), NEW f, PickOf(q, S, g, R, f), NEW h, PickOf(p, S, g, R, h)
    PROVE  Joined(q, p, S, g, f, h)
<1> DEFINE first == First(q, S, g)
           N == Len(q) - 1
           bad == {n \in 0..N : f[n + 1] # first \o h[n]}
<1>1. N \in Nat /\ Len(q) = N + 1 /\ Len(p) = N /\ \A n \in 1..N : p[n] = q[n + 1]
  OBVIOUS
<1>2. first \in Seq(R)
  BY DEF First
<1>3. h[0] = <<>> /\ \A n \in 1..N : h[n] = Keep(p, S, g, n, h[n - 1])
  BY <1>1, Zenon DEF PickOf, IsPick
<1>4. f[0] = <<>> /\ \A n \in 1..N + 1 : f[n] = Keep(q, S, g, n, f[n - 1])
  BY <1>1, Zenon DEF PickOf, IsPick
<1>5. f[1] = first \o h[0]
  <2>1. f[1] = Keep(q, S, g, 1, <<>>)
    BY <1>1, <1>4
  <2>2. CASE q[1] \in S
    BY <2>1, <2>2, <1>3 DEF Keep, First
  <2>3. CASE q[1] \notin S
    BY <2>1, <2>3, <1>3 DEF Keep, First
  <2> QED BY <2>2, <2>3
<1>6. \A n \in 0..N : h[n] \in Seq(R)
  BY <1>1, Zenon DEF PickOf
<1> HIDE DEF N, first
<1>7. ASSUME NEW n \in 1..N, f[n] = first \o h[n - 1] PROVE f[n + 1] = first \o h[n]
  <2>1. n + 1 \in 1..N + 1 /\ (n + 1) - 1 = n /\ n - 1 \in 0..N
    BY <1>1
  <2>2. f[n + 1] = Keep(q, S, g, n + 1, first \o h[n - 1])
    BY <2>1, <1>4, <1>7, Zenon
  <2>3. h[n] = Keep(p, S, g, n, h[n - 1]) /\ p[n] = q[n + 1]
    BY <1>1, <1>3
  <2>4. h[n - 1] \in Seq(R)
    BY <2>1, <1>6
  <2>5. CASE q[n + 1] \notin S
    BY <2>2, <2>3, <2>5, Zenon DEF Keep
  <2>6. CASE q[n + 1] \in S
    <3>1. f[n + 1] = Append(first \o h[n - 1], g[q[n + 1]]) /\ h[n] = Append(h[n - 1], g[q[n + 1]])
      BY <2>2, <2>3, <2>6, Zenon DEF Keep
    <3>2. g[q[n + 1]] \in R
      BY <2>6
    <3> DEFINE x == g[q[n + 1]]
               b == h[n - 1]
    <3>3. x \in R /\ b \in Seq(R) /\ f[n + 1] = Append(first \o b, x) /\ h[n] = Append(b, x)
      BY <3>1, <3>2, <2>4
    <3> HIDE DEF x, b
    <3>4. x \in R /\ b \in Seq(R)
      BY <3>3
    <3>5. AddsBehind(first, b, x)
      BY <3>4, <1>2, ConcatAppend
    <3> QED BY <3>3, <3>5 DEF AddsBehind
  <2> QED BY <2>5, <2>6
<1>8. bad = {}
  <2>1. SUFFICES ASSUME bad # {} PROVE FALSE
    OBVIOUS
  <2>2. bad \in SUBSET Nat
    BY <1>1
  <2>3. PICK m \in bad : \A n \in bad : m <= n
    BY <2>1, <2>2, Least, Zenon
  <2>4. m \in 0..N /\ f[m + 1] # first \o h[m]
    BY <2>3
  <2>5. m # 0
    BY <2>4, <1>5
  <2>6. m \in 1..N /\ m - 1 \in 0..N /\ ~(m <= m - 1) /\ (m - 1) + 1 = m
    BY <2>4, <2>5, <1>1
  <2>7. m - 1 \notin bad
    BY <2>3, <2>6
  <2>8. f[(m - 1) + 1] = first \o h[m - 1]
    BY <2>6, <2>7
  <2> QED BY <2>4, <2>6, <2>8, <1>7, Zenon
<1>9. N \in 0..N /\ f[N + 1] = first \o h[N]
  BY <1>1, <1>8
<1> QED BY <1>1, <1>9, Zenon DEF first, Joined

\* The selection itself.
Pick(q, S, g) == (CHOOSE f : IsPick(q, S, g, f))[Len(q)]

\* The selection, and any other way to compute it.
LEMMA PickDef ==
    ASSUME NEW E, NEW q \in Seq(E), NEW S, NEW R, NEW g \in [S -> R]
    PROVE  /\ \E f : PickOf(q, S, g, R, f) /\ f[Len(q)] = Pick(q, S, g)
           /\ \A f : IsPick(q, S, g, f) => f[Len(q)] = Pick(q, S, g)
<1>1. PICK f \in [0..Len(q) -> Seq(R)] : IsPick(q, S, g, f)
  BY PickExists
<1> DEFINE h == CHOOSE h : IsPick(q, S, g, h)
<1>2. IsPick(q, S, g, h)
  BY <1>1
<1>3. Pick(q, S, g) = h[Len(q)]
  BY DEF Pick
<1>4. Len(q) \in 0..Len(q) /\ Len(q) <= Len(q) /\ \A n \in 1..Len(q) : q[n] = q[n]
  OBVIOUS
<1> HIDE DEF h
<1>5. ASSUME NEW e, IsPick(q, S, g, e) PROVE e[Len(q)] = h[Len(q)]
  BY <1>2, <1>4, <1>5, PickAgree
<1> QED BY <1>1, <1>3, <1>5 DEF PickOf

\* Selecting from nothing.
LEMMA PickEmpty ==
    ASSUME NEW E, NEW q \in Seq(E), Len(q) = 0, NEW S, NEW R, NEW g \in [S -> R]
    PROVE  Pick(q, S, g) = <<>>
<1>1. PICK f : PickOf(q, S, g, R, f) /\ f[Len(q)] = Pick(q, S, g)
  BY PickDef, Zenon
<1> QED BY <1>1 DEF PickOf, IsPick

\* Selecting yields a sequence.
LEMMA PickType ==
    ASSUME NEW E, NEW q \in Seq(E), NEW S, NEW R, NEW g \in [S -> R]
    PROVE  Pick(q, S, g) \in Seq(R)
<1>1. PICK f : PickOf(q, S, g, R, f) /\ f[Len(q)] = Pick(q, S, g)
  BY PickDef, Zenon
<1>2. Len(q) \in 0..Len(q)
  OBVIOUS
<1> QED BY <1>1, <1>2 DEF PickOf

\* Behind q, x is selected too if it passes.
PicksMore(q, x, S, g) ==
    Pick(Append(q, x), S, g) = IF x \in S THEN Append(Pick(q, S, g), g[x]) ELSE Pick(q, S, g)

\* Selecting from one element more.
LEMMA PickAppend ==
    ASSUME NEW E, NEW q \in Seq(E), NEW x \in E, NEW S, NEW R, NEW g \in [S -> R]
    PROVE  PicksMore(q, x, S, g)
<1> DEFINE p == Append(q, x)
           N == Len(q)
<1>1. p \in Seq(E) /\ N \in Nat /\ Len(p) = N + 1 /\ p[N + 1] = x /\ \A n \in 1..N : q[n] = p[n]
  OBVIOUS
<1> HIDE DEF p
<1>2. PICK f : PickOf(q, S, g, R, f) /\ f[N] = Pick(q, S, g)
  BY PickDef, Zenon
<1>3. PICK h : PickOf(p, S, g, R, h) /\ h[Len(p)] = Pick(p, S, g)
  BY <1>1, PickDef, Zenon
<1>4. N \in 0..Len(q) /\ N <= Len(p) /\ IsPick(q, S, g, f) /\ IsPick(p, S, g, h)
  BY <1>1, <1>2, <1>3 DEF PickOf
<1>5. f[N] = h[N]
  BY <1>1, <1>4, PickAgree
<1>6. h[N + 1] = Keep(p, S, g, N + 1, h[N])
  <2>1. N + 1 \in 1..Len(p) /\ (N + 1) - 1 = N
    BY <1>1
  <2> QED BY <2>1, <1>4, Zenon DEF IsPick
<1> QED BY <1>1, <1>2, <1>3, <1>5, <1>6, Zenon DEF Keep, p, PicksMore

\* Selecting from the head and from the rest.
LEMMA PickHead ==
    ASSUME NEW E, NEW q \in Seq(E), q # <<>>, NEW S, NEW R, NEW g \in [S -> R]
    PROVE  Pick(q, S, g) = First(q, S, g) \o Pick(Tail(q), S, g)
<1> DEFINE p == Tail(q)
<1>0. p = Tail(q)
  OBVIOUS
<1>1. p \in Seq(E)
  OBVIOUS
<1> HIDE DEF p
<1>2. PICK f : PickOf(q, S, g, R, f) /\ f[Len(q)] = Pick(q, S, g)
  BY PickDef, Zenon
<1>3. PICK h : PickOf(p, S, g, R, h) /\ h[Len(p)] = Pick(p, S, g)
  BY <1>1, PickDef, Zenon
<1>4. Joined(q, p, S, g, f, h)
  BY <1>0, <1>2, <1>3, PickTail, Zenon
<1> QED BY <1>0, <1>2, <1>3, <1>4 DEF Joined

\* What is selected is there.
LEMMA PickChosen ==
    ASSUME NEW E, NEW q \in Seq(E), NEW S, NEW R, NEW g \in [S -> R], NEW i \in 1..Len(Pick(q, S, g))
    PROVE  Chosen(q, S, g, Pick(q, S, g)[i])
<1>1. PICK f : PickOf(q, S, g, R, f) /\ f[Len(q)] = Pick(q, S, g)
  BY PickDef, Zenon
<1>2. i \in 1..Len(f[Len(q)])
  BY <1>1
<1>3. Chosen(q, S, g, f[Len(q)][i])
  BY <1>1, <1>2, PickElements, Zenon
<1> QED BY <1>1, <1>3
-----------------------------------------------------------------------------
(* What is on its way.                                                     *)

Sent(s) == {e \in Entries : e.from = s}
Payload(s) == [e \in Sent(s) |-> e.msg]
Pkts == {m \in Msgs : m.type = "packet"}
SeqnoOf == [m \in Pkts |-> m.seqno]

\* The fields of messages and of entries.
LEMMA MsgFields ==
    /\ \A m \in Msgs : m.type \in {"packet", "local_ack"}
    /\ \A m \in Pkts : m \in Packets /\ m.seqno \in 1..MaxRouted /\ m.shard \in Shards
    /\ \A m \in Packets : m \in Msgs /\ m.type = "packet" /\ m.type # "local_ack"
    /\ \A m \in LocalAcks : m \in Msgs /\ m.type = "local_ack" /\ m.type # "packet"
    /\ \A m \in Msgs : m.type = "local_ack" => m \in LocalAcks
    /\ \A e \in Entries : e.from \in Shards /\ e.msg \in Msgs
    /\ \A s \in Shards, m \in Msgs : LET e == [from |-> s, msg |-> m]
                                     IN e \in Entries /\ e.from = s /\ e.msg = m
<1>1. /\ \A m \in Packets : m.type = "packet" /\ m.seqno \in 1..MaxRouted /\ m.shard \in Shards
      /\ \A m \in LocalAcks : m.type = "local_ack"
  BY DEF Packets, LocalAcks
<1>2. "packet" # "local_ack"
  OBVIOUS
<1>3. /\ \A e \in Entries : e.from \in Shards /\ e.msg \in Msgs
      /\ \A s \in Shards, m \in Msgs : LET e == [from |-> s, msg |-> m]
                                       IN e \in Entries /\ e.from = s /\ e.msg = m
  BY DEF Entries, Msgs
<1> QED BY <1>1, <1>2, <1>3 DEF Msgs, Pkts

\* Payload and SeqnoOf are functions as the lemmas on selections want them.
LEMMA SelectTypes ==
    /\ \A s \in Shards : Payload(s) \in [Sent(s) -> Msgs]
    /\ SeqnoOf \in [Pkts -> Nat]
<1>1. \A m \in Pkts : m.seqno \in Nat
  BY MsgFields, SizesPositive
<1>2. SeqnoOf \in [Pkts -> Nat]
  BY <1>1 DEF SeqnoOf
<1>3. \A e \in Entries : e.msg \in Msgs
  BY MsgFields
<1> QED BY <1>2, <1>3 DEF Payload, Sent

\* The messages from s in a queue are a selection.
LEMMA FromDef ==
    ASSUME NEW s \in Shards, NEW q \in Seq(Entries)
    PROVE  From(s, q) = Pick(q, Sent(s), Payload(s))
<1> DEFINE F(f) == [n \in 0..Len(q) |-> IF n = 0 THEN <<>>
                                        ELSE IF q[n].from = s THEN Append(f[n - 1], q[n].msg)
                                        ELSE f[n - 1]]
           h == CHOOSE h : h = F(h)
<1>1. Payload(s) \in [Sent(s) -> Msgs] /\ Len(q) \in Nat
  BY SelectTypes
<1>2. \A n \in 1..Len(q) : /\ q[n] \in Sent(s) <=> q[n].from = s
                           /\ q[n].from = s => Payload(s)[q[n]] = q[n].msg
  BY DEF Sent, Payload
<1>3. PICK f : PickOf(q, Sent(s), Payload(s), Msgs, f)
  BY <1>1, PickDef, Zenon
<1>4. f = F(f)
  <2>1. f = [n \in 0..Len(q) |-> f[n]] /\ f[0] = <<>>
    BY <1>3 DEF PickOf, IsPick
  <2>2. ASSUME NEW n \in 0..Len(q) PROVE f[n] = F(f)[n]
    <3>1. CASE n = 0
      BY <2>1, <3>1
    <3>2. CASE n # 0
      <4>1. n \in 1..Len(q)
        BY <3>2, <1>1
      <4>2. f[n] = IF q[n] \in Sent(s) THEN Append(f[n - 1], Payload(s)[q[n]]) ELSE f[n - 1]
        BY <4>1, <1>3, Zenon DEF PickOf, IsPick, Keep
      <4>3. q[n] \in Sent(s) <=> q[n].from = s
        BY <4>1, <1>2
      <4>4. q[n].from = s => Payload(s)[q[n]] = q[n].msg
        BY <4>1, <1>2
      <4>5. F(f)[n] = IF q[n].from = s THEN Append(f[n - 1], q[n].msg) ELSE f[n - 1]
        BY <3>2
      <4> QED BY <4>2, <4>3, <4>4, <4>5
    <3> QED BY <3>1, <3>2
  <2> QED BY <2>1, <2>2
<1>5. h = F(h)
  BY <1>4, Zenon
<1>6. From(s, q) = h[Len(q)]
  BY DEF From, Select
<1> HIDE DEF h
<1>7. IsPick(q, Sent(s), Payload(s), h)
  <2>1. h = [n \in 0..Len(q) |-> h[n]]
    BY <1>5
  <2>2. ASSUME NEW n \in 0..Len(q) PROVE h[n] = IF n = 0 THEN <<>>
                                                ELSE IF q[n].from = s THEN Append(h[n - 1], q[n].msg)
                                                ELSE h[n - 1]
    BY <1>5, Zenon
  <2>3. h[0] = <<>>
    BY <2>2, <1>1
  <2>4. ASSUME NEW n \in 1..Len(q) PROVE h[n] = Keep(q, Sent(s), Payload(s), n, h[n - 1])
    <3>1. n \in 0..Len(q) /\ n # 0
      BY <1>1
    <3>2. h[n] = IF q[n].from = s THEN Append(h[n - 1], q[n].msg) ELSE h[n - 1]
      BY <3>1, <2>2
    <3> QED BY <3>2, <1>2 DEF Keep
  <2> QED BY <2>1, <2>3, <2>4 DEF IsPick
<1> QED BY <1>1, <1>6, <1>7, PickDef, Zenon

\* So are the numbers of the packets among messages.
LEMMA NumbersDef ==
    ASSUME NEW q \in Seq(Msgs)
    PROVE  Numbers(q) = Pick(q, Pkts, SeqnoOf)
<1> DEFINE F(f) == [n \in 0..Len(q) |-> IF n = 0 THEN <<>>
                                        ELSE IF q[n].type = "packet" THEN Append(f[n - 1], q[n].seqno)
                                        ELSE f[n - 1]]
           h == CHOOSE h : h = F(h)
<1>1. SeqnoOf \in [Pkts -> Nat] /\ Len(q) \in Nat
  BY SelectTypes
<1>2. \A n \in 1..Len(q) : /\ q[n] \in Pkts <=> q[n].type = "packet"
                           /\ q[n].type = "packet" => SeqnoOf[q[n]] = q[n].seqno
  BY DEF Pkts, SeqnoOf
<1>3. PICK f : PickOf(q, Pkts, SeqnoOf, Nat, f)
  BY <1>1, PickDef, Zenon
<1>4. f = F(f)
  <2>1. f = [n \in 0..Len(q) |-> f[n]] /\ f[0] = <<>>
    BY <1>3 DEF PickOf, IsPick
  <2>2. ASSUME NEW n \in 0..Len(q) PROVE f[n] = F(f)[n]
    <3>1. CASE n = 0
      BY <2>1, <3>1
    <3>2. CASE n # 0
      <4>1. n \in 1..Len(q)
        BY <3>2, <1>1
      <4>2. f[n] = IF q[n] \in Pkts THEN Append(f[n - 1], SeqnoOf[q[n]]) ELSE f[n - 1]
        BY <4>1, <1>3, Zenon DEF PickOf, IsPick, Keep
      <4>3. q[n] \in Pkts <=> q[n].type = "packet"
        BY <4>1, <1>2
      <4>4. q[n].type = "packet" => SeqnoOf[q[n]] = q[n].seqno
        BY <4>1, <1>2
      <4>5. F(f)[n] = IF q[n].type = "packet" THEN Append(f[n - 1], q[n].seqno) ELSE f[n - 1]
        BY <3>2
      <4> QED BY <4>2, <4>3, <4>4, <4>5
    <3> QED BY <3>1, <3>2
  <2> QED BY <2>1, <2>2
<1>5. h = F(h)
  BY <1>4, Zenon
<1>6. Numbers(q) = h[Len(q)]
  BY DEF Numbers, Select
<1> HIDE DEF h
<1>7. IsPick(q, Pkts, SeqnoOf, h)
  <2>1. h = [n \in 0..Len(q) |-> h[n]]
    BY <1>5
  <2>2. ASSUME NEW n \in 0..Len(q) PROVE h[n] = IF n = 0 THEN <<>>
                                                ELSE IF q[n].type = "packet" THEN Append(h[n - 1], q[n].seqno)
                                                ELSE h[n - 1]
    BY <1>5, Zenon
  <2>3. h[0] = <<>>
    BY <2>2, <1>1
  <2>4. ASSUME NEW n \in 1..Len(q) PROVE h[n] = Keep(q, Pkts, SeqnoOf, n, h[n - 1])
    <3>1. n \in 0..Len(q) /\ n # 0
      BY <1>1
    <3>2. h[n] = IF q[n].type = "packet" THEN Append(h[n - 1], q[n].seqno) ELSE h[n - 1]
      BY <3>1, <2>2
    <3> QED BY <3>2, <1>2 DEF Keep
  <2> QED BY <2>1, <2>3, <2>4 DEF IsPick
<1> QED BY <1>1, <1>6, <1>7, PickDef, Zenon

\* The messages from s in a queue q, ...
LEMMA FromType ==
    ASSUME NEW s \in Shards, NEW q \in Seq(Entries)
    PROVE  From(s, q) \in Seq(Msgs)
<1>1. Payload(s) \in [Sent(s) -> Msgs]
  BY SelectTypes
<1>2. Pick(q, Sent(s), Payload(s)) \in Seq(Msgs)
  BY <1>1, PickType
<1> QED BY <1>2, FromDef

\* ... when another entry is put behind it (TrySend), ...
LEMMA FromAppend ==
    ASSUME NEW s \in Shards, NEW q \in Seq(Entries), NEW e \in Entries
    PROVE  From(s, Append(q, e)) = IF e.from = s THEN Append(From(s, q), e.msg) ELSE From(s, q)
<1> DEFINE S == Sent(s)
           g == Payload(s)
<1>1. g \in [S -> Msgs]
  BY SelectTypes
<1>2. e \in S <=> e.from = s
  BY DEF Sent
<1>3. e \in S => g[e] = e.msg
  BY DEF Payload
<1>4. Append(q, e) \in Seq(Entries)
  BY AppendProperties
<1> HIDE DEF S, g
<1>5. Pick(Append(q, e), S, g) = IF e \in S THEN Append(Pick(q, S, g), g[e]) ELSE Pick(q, S, g)
  <2>1. PicksMore(q, e, S, g)
    BY <1>1, PickAppend
  <2> QED BY <2>1 DEF PicksMore
<1>6. From(s, Append(q, e)) = Pick(Append(q, e), S, g)
  BY <1>4, FromDef, Zenon DEF S, g
<1>7. From(s, q) = Pick(q, S, g)
  BY FromDef DEF S, g
<1> QED BY <1>2, <1>3, <1>5, <1>6, <1>7

\* ... and when its head is taken (InPacket and InLocalAck).
LEMMA FromHead ==
    ASSUME NEW s \in Shards, NEW q \in Seq(Entries), q # <<>>
    PROVE  From(s, q) = (IF q[1].from = s THEN <<q[1].msg>> ELSE <<>>) \o From(s, Tail(q))
<1> DEFINE S == Sent(s)
           g == Payload(s)
           p == Tail(q)
<1>1. g \in [S -> Msgs]
  BY SelectTypes
<1>2. q[1] \in Entries /\ p \in Seq(Entries)
  OBVIOUS
<1>3. q[1] \in S <=> q[1].from = s
  BY <1>2 DEF Sent
<1>4. q[1] \in S => g[q[1]] = q[1].msg
  BY DEF Payload
<1> HIDE DEF S, g
<1>5. Pick(q, S, g) = First(q, S, g) \o Pick(p, S, g)
  BY <1>1, PickHead, Zenon
<1> HIDE DEF p
<1>6. From(s, p) = Pick(p, S, g)
  BY <1>2, FromDef DEF S, g
<1>7. From(s, q) = Pick(q, S, g)
  BY FromDef DEF S, g
<1>8. First(q, S, g) = IF q[1].from = s THEN <<q[1].msg>> ELSE <<>>
  BY <1>3, <1>4 DEF First
<1>9. From(s, q) = (IF q[1].from = s THEN <<q[1].msg>> ELSE <<>>) \o From(s, p)
  BY <1>5, <1>6, <1>7, <1>8
<1> QED BY <1>9 DEF p

\* They are in the queue.
LEMMA FromElements ==
    ASSUME NEW s \in Shards, NEW q \in Seq(Entries), NEW i \in 1..Len(From(s, q))
    PROVE  \E j \in 1..Len(q) : q[j].from = s /\ From(s, q)[i] = q[j].msg
<1> DEFINE S == Sent(s)
           g == Payload(s)
<1>1. g \in [S -> Msgs]
  BY SelectTypes
<1>2. From(s, q) = Pick(q, S, g)
  BY FromDef
<1>3. \A e \in S : e.from = s /\ g[e] = e.msg
  BY DEF Sent, Payload
<1> HIDE DEF S, g
<1>4. i \in 1..Len(Pick(q, S, g))
  BY <1>2
<1>5. Chosen(q, S, g, Pick(q, S, g)[i])
  BY <1>1, <1>4, PickChosen, Zenon
<1> QED BY <1>2, <1>3, <1>5 DEF Chosen

\* The numbers of the packets among messages, when one is added and when one is taken.
LEMMA NumbersSteps ==
    ASSUME NEW q \in Seq(Msgs)
    PROVE  /\ Numbers(q) \in Seq(Nat)
           /\ \A m \in Msgs : Numbers(Append(q, m)) = IF m.type = "packet" THEN Append(Numbers(q), m.seqno)
                                                      ELSE Numbers(q)
           /\ \A m \in Msgs : Numbers(<<m>> \o q) = IF m.type = "packet" THEN <<m.seqno>> \o Numbers(q)
                                                    ELSE Numbers(q)
<1>1. SeqnoOf \in [Pkts -> Nat]
  BY SelectTypes
<1>2. Numbers(q) = Pick(q, Pkts, SeqnoOf)
  BY NumbersDef
<1>3. Pick(q, Pkts, SeqnoOf) \in Seq(Nat)
  BY <1>1, PickType
<1>4. \A m \in Msgs : /\ m \in Pkts <=> m.type = "packet"
                      /\ m \in Pkts => SeqnoOf[m] = m.seqno
  BY DEF Pkts, SeqnoOf
<1>5. ASSUME NEW m \in Msgs
      PROVE  Numbers(Append(q, m)) = IF m.type = "packet" THEN Append(Numbers(q), m.seqno) ELSE Numbers(q)
  <2>1. Append(q, m) \in Seq(Msgs)
    BY AppendProperties
  <2>2. Numbers(Append(q, m)) = Pick(Append(q, m), Pkts, SeqnoOf)
    BY <2>1, NumbersDef, Zenon
  <2>3. Pick(Append(q, m), Pkts, SeqnoOf) = IF m \in Pkts THEN Append(Pick(q, Pkts, SeqnoOf), SeqnoOf[m])
                                            ELSE Pick(q, Pkts, SeqnoOf)
    <3>1. PicksMore(q, m, Pkts, SeqnoOf)
      BY <1>1, PickAppend, Zenon
    <3> QED BY <3>1 DEF PicksMore
  <2> QED BY <2>2, <2>3, <1>2, <1>4
<1>6. ASSUME NEW m \in Msgs
      PROVE  Numbers(<<m>> \o q) = IF m.type = "packet" THEN <<m.seqno>> \o Numbers(q) ELSE Numbers(q)
  <2> DEFINE p == <<m>> \o q
  <2>1. p \in Seq(Msgs) /\ p # <<>> /\ Tail(p) = q /\ p[1] = m
    OBVIOUS
  <2> HIDE DEF p
  <2>2. Numbers(p) = Pick(p, Pkts, SeqnoOf)
    BY <2>1, NumbersDef
  <2>3. Pick(p, Pkts, SeqnoOf) = First(p, Pkts, SeqnoOf) \o Pick(Tail(p), Pkts, SeqnoOf)
    <3>1. p \in Seq(Msgs) /\ p # <<>>
      BY <2>1
    <3> QED BY <3>1, <1>1, PickHead, Zenon
  <2>4. First(p, Pkts, SeqnoOf) = IF m.type = "packet" THEN <<m.seqno>> ELSE <<>>
    BY <2>1, <1>4 DEF First
  <2>5. Numbers(q) \in Seq(Nat) /\ <<>> \o Numbers(q) = Numbers(q)
    BY <1>2, <1>3, ConcatEmptySeq
  <2>6. Numbers(p) = (IF m.type = "packet" THEN <<m.seqno>> ELSE <<>>) \o Numbers(q)
    BY <2>1, <2>2, <2>3, <2>4, <1>2, Zenon
  <2>7. Numbers(p) = IF m.type = "packet" THEN <<m.seqno>> \o Numbers(q) ELSE Numbers(q)
    BY <2>5, <2>6
  <2> QED BY <2>7 DEF p
<1> QED BY <1>2, <1>3, <1>5, <1>6
-----------------------------------------------------------------------------
(* The packets on their way from s through a queue q and behind it the     *)
(* back log b, and what the operations on q and b do to them.              *)

On(s, q, b) == Numbers(From(s, q) \o b)

\* m is put behind the back log.
Routes(s, q, b, m) ==
    On(s, q, Append(b, m)) = IF m.type = "packet" THEN Append(On(s, q, b), m.seqno) ELSE On(s, q, b)

\* The head of the back log moves into the queue.
Moves(s, q, b) == On(s, Append(q, [from |-> s, msg |-> Head(b)]), Tail(b)) = On(s, q, b)

\* e, from another shard, moves into the queue.
Bypasses(s, q, b, e) == On(s, Append(q, e), b) = On(s, q, b)

\* The head of the queue is taken.
HeadTaken(s, q, b) == On(s, q, b) = IF q[1].from = s /\ q[1].msg.type = "packet"
                                THEN <<q[1].msg.seqno>> \o On(s, Tail(q), b) ELSE On(s, Tail(q), b)

\* The packets on their way are numbers.
LEMMA OnType ==
    ASSUME NEW s \in Shards, NEW q \in Seq(Entries), NEW b \in Seq(Msgs)
    PROVE  On(s, q, b) \in Seq(Nat)
<1>1. From(s, q) \o b \in Seq(Msgs)
  BY FromType, ConcatProperties
<1> QED BY <1>1, NumbersSteps, Zenon DEF On

\* Routing puts the number of a packet behind those on their way, and the
\* acknowledgements that ack_messages puts there are none of them.
LEMMA OnRoute ==
    ASSUME NEW s \in Shards, NEW q \in Seq(Entries), NEW b \in Seq(Msgs), NEW m \in Msgs
    PROVE  Routes(s, q, b, m)
<1> DEFINE a == From(s, q)
<1>1. a \in Seq(Msgs)
  BY FromType
<1> HIDE DEF a
<1>2. a \o b \in Seq(Msgs)
  BY <1>1, ConcatProperties
<1>3. AddsBehind(a, b, m)
  BY <1>1, ConcatAppend
<1>4. Numbers(Append(a \o b, m)) = IF m.type = "packet" THEN Append(Numbers(a \o b), m.seqno)
                                   ELSE Numbers(a \o b)
  BY <1>2, NumbersSteps, Zenon
<1> QED BY <1>3, <1>4 DEF AddsBehind, Routes, On, a

\* A message that try_send moves from the back log into the queue stays where
\* it is among those on their way, ...
LEMMA OnMove ==
    ASSUME NEW s \in Shards, NEW q \in Seq(Entries), NEW b \in Seq(Msgs), b # <<>>
    PROVE  Moves(s, q, b)
<1> DEFINE a == From(s, q)
           m == Head(b)
           e == [from |-> s, msg |-> m]
<1>1. a \in Seq(Msgs)
  BY FromType
<1>2. m \in Msgs /\ Tail(b) \in Seq(Msgs) /\ b = <<m>> \o Tail(b)
  OBVIOUS
<1>3. e \in Entries /\ e.from = s /\ e.msg = m
  BY <1>2 DEF Entries, Msgs
<1>4. From(s, Append(q, e)) = Append(a, m)
  <2> HIDE DEF e
  <2> QED BY <1>3, FromAppend
<1> HIDE DEF a, m, e
<1>5. Append(a, m) = a \o <<m>>
  BY <1>1, <1>2, AppendIsConcat
<1>6. <<m>> \in Seq(Msgs)
  BY <1>2
<1>7. (a \o <<m>>) \o Tail(b) = a \o (<<m>> \o Tail(b))
  BY <1>1, <1>2, <1>6, ConcatAssociative
<1>8. Append(a, m) \o Tail(b) = a \o b
  BY <1>2, <1>5, <1>7
<1>9. Numbers(From(s, Append(q, e)) \o Tail(b)) = Numbers(a \o b)
  BY <1>4, <1>8, Zenon
<1> QED BY <1>9 DEF Moves, On, a, e, m

\* ... and does not get between those of another shard.
LEMMA OnBypass ==
    ASSUME NEW s \in Shards, NEW q \in Seq(Entries), NEW b, NEW e \in Entries, e.from # s
    PROVE  Bypasses(s, q, b, e)
<1>1. From(s, Append(q, e)) = From(s, q)
  BY FromAppend
<1> QED BY <1>1 DEF Bypasses, On

\* try_recv takes the first of the packets on their way, or none of them.
LEMMA OnTake ==
    ASSUME NEW s \in Shards, NEW q \in Seq(Entries), NEW b \in Seq(Msgs), q # <<>>
    PROVE  HeadTaken(s, q, b)
<1> DEFINE a == From(s, Tail(q))
           m == q[1].msg
<1>1. q[1] \in Entries /\ Tail(q) \in Seq(Entries)
  OBVIOUS
<1>2. m \in Msgs
  BY <1>1 DEF Entries, Msgs
<1>3. a \in Seq(Msgs)
  BY <1>1, FromType, Zenon
<1>4. From(s, q) = (IF q[1].from = s THEN <<m>> ELSE <<>>) \o a
  BY FromHead
<1> HIDE DEF a, m
<1>5. a \o b \in Seq(Msgs)
  BY <1>3, ConcatProperties
<1>6. <<>> \o a = a
  BY <1>3, ConcatEmptySeq
<1>7. <<m>> \in Seq(Msgs)
  BY <1>2
<1>8. (<<m>> \o a) \o b = <<m>> \o (a \o b)
  BY <1>3, <1>7, ConcatAssociative
<1>9. Numbers(<<m>> \o (a \o b)) = IF m.type = "packet" THEN <<m.seqno>> \o Numbers(a \o b)
                                   ELSE Numbers(a \o b)
  BY <1>2, <1>5, NumbersSteps, Zenon
<1>10. CASE q[1].from = s
  <2>1. Numbers(From(s, q) \o b) = IF m.type = "packet" THEN <<m.seqno>> \o Numbers(a \o b)
                                   ELSE Numbers(a \o b)
    BY <1>4, <1>8, <1>9, <1>10, Zenon
  <2> QED BY <2>1, <1>10 DEF HeadTaken, On, a, m
<1>11. CASE q[1].from # s
  <2>1. Numbers(From(s, q) \o b) = Numbers(a \o b)
    BY <1>4, <1>6, <1>11
  <2> QED BY <2>1, <1>11 DEF HeadTaken, On, a
<1> QED BY <1>10, <1>11
-----------------------------------------------------------------------------
(* The bound on the packets routed by all the shards together bounds the   *)
(* packets of every one of them.                                           *)

\* While not all the packets have been routed, no shard has routed all of them.
LEMMA RoutedBound ==
    ASSUME NEW s \in Shards, seqno \in [Shards -> Seqnos], Routed < MaxRouted
    PROVE  seqno[s] <= MaxRouted
<1> DEFINE All == Shards \X (1..MaxRouted)
           Done == {r \in All : r[2] < seqno[r[1]]}
           Mine == {s} \X (1..MaxRouted)
<1>1. MaxRouted \in Nat /\ NumShards \in Nat /\ seqno[s] \in 1..MaxRouted + 1
  BY SizesPositive DEF Seqnos
<1>2. IsFiniteSet(1..MaxRouted) /\ Cardinality(1..MaxRouted) = MaxRouted
  BY <1>1, FS_Interval
<1>3. IsFiniteSet(Shards)
  BY <1>1, FS_Interval DEF Shards
<1>4. IsFiniteSet({s}) /\ Cardinality({s}) = 1
  BY FS_Singleton, Zenon
<1>5. IsFiniteSet(All)
  BY <1>2, <1>3, FS_Product, Zenon
<1>6. IsFiniteSet(Done) /\ Cardinality(Done) \in Nat
  <2>1. Done \in SUBSET All
    OBVIOUS
  <2> HIDE DEF Done, All
  <2>2. IsFiniteSet(Done)
    BY <1>5, <2>1, FS_Subset
  <2> QED BY <2>2, FS_CardinalityType
<1>7. Cardinality(Mine) = 1 * MaxRouted
  <2>1. Cardinality(Mine) = Cardinality({s}) * Cardinality(1..MaxRouted)
    BY <1>2, <1>4, FS_Product, Zenon
  <2> QED BY <1>2, <1>4, <2>1, Zenon
<1>8. ASSUME ~(seqno[s] <= MaxRouted)
      PROVE  FALSE
  <2>1. Mine \in SUBSET Done
    <3>1. \A n \in 1..MaxRouted : n < seqno[s]
      BY <1>1, <1>8
    <3> QED BY <3>1
  <2>2. Cardinality(Mine) <= Cardinality(Done)
    BY <2>1, <1>6, FS_Subset
  <2>3. Routed = Cardinality(Done)
    BY DEF Routed
  <2> HIDE DEF Mine, Done
  <2> QED BY <1>1, <1>6, <1>7, <2>2, <2>3
<1> QED BY <1>8
-----------------------------------------------------------------------------
(* Type correctness.                                                       *)

\* A map from shards stays one when an entry is bound.
LEMMA BindPartial ==
    ASSUME NEW S, NEW f \in Partial(S)
    PROVE  /\ DOMAIN f \in SUBSET Shards /\ \A t \in DOMAIN f : f[t] \in S
           /\ \A k \in Shards, v \in S : Bind(f, k, v) \in Partial(S)
           /\ Nothing \in Partial(S)
<1>1. PICK D \in SUBSET Shards : f \in [D -> S]
  BY DEF Partial
<1>2. DOMAIN f = D /\ \A t \in D : f[t] \in S
  BY <1>1
<1>3. ASSUME NEW k \in Shards, NEW v \in S
      PROVE  Bind(f, k, v) \in Partial(S)
  <2>1. Bind(f, k, v) \in [D \cup {k} -> S]
    BY <1>2 DEF Bind
  <2>2. D \cup {k} \in SUBSET Shards
    OBVIOUS
  <2> QED BY <2>1, <2>2 DEF Partial
<1>4. Nothing \in Partial(S)
  <2>1. Nothing \in [{} -> S]
    BY DEF Nothing
  <2>2. {} \in SUBSET Shards
    OBVIOUS
  <2> QED BY <2>1, <2>2 DEF Partial
<1> QED BY <1>2, <1>3, <1>4

\* Packets that are routed, and the book-keeping of those with QoS-1.
LEMMA TypesRoute ==
    ASSUME Types, NEW s \in Shards, NEW c \in Clients, NEW d \in Clients, NEW qos \in {0, 1},
           RouteToClient(s, c, d, qos)
    PROVE  Types'
<1> DEFINE t == shard_id(d)
           msg == [type |-> "packet", client |-> c, shard |-> s, seqno |-> seqno[s],
                   subscriber |-> d]
           acked == IF t \in DOMAIN timestamp[s] THEN timestamp[s][t].acked ELSE 0
           stamp == [routed |-> seqno[s], acked |-> acked]
<1>0. Phases /\ Hosts /\ Books /\ Links /\ Seen
  BY DEF Types
<1>1. t \in Shards
  BY Hosted
<1>2. seqno[s] \in 1..MaxRouted
  <2>1. seqno \in [Shards -> Seqnos] /\ seqno[s] \in 1..MaxRouted + 1
    BY <1>0 DEF Books, Seqnos
  <2>2. Routed < MaxRouted
    BY DEF RouteToClient
  <2>3. seqno[s] <= MaxRouted
    BY <2>1, <2>2, RoutedBound
  <2> QED BY <2>1, <2>3, SizesPositive
<1>3. msg \in Packets
  BY <1>2 DEF Packets
<1>4. timestamp[s] \in Partial(Stamps) /\ shard_back_log[s][t] \in Seq(Msgs)
  BY <1>0, <1>1 DEF Books, Links
<1>5. acked \in 0..MaxRouted
  <2>1. t \in DOMAIN timestamp[s] => timestamp[s][t] \in Stamps
    BY <1>4, BindPartial
  <2>2. \A x \in Stamps : x.acked \in 0..MaxRouted
    BY DEF Stamps
  <2> QED BY <2>1, <2>2, SizesPositive
<1>6. stamp \in Stamps
  BY <1>2, <1>5, SizesPositive DEF Stamps, Seqnos
<1>7. /\ seqno' = [seqno EXCEPT ![s] = @ + 1]
      /\ unacks' = [unacks EXCEPT ![s] = @ \cup {msg}] \/ unacks' = unacks
      /\ timestamp' = [timestamp EXCEPT ![s] = Bind(@, t, stamp)] \/ timestamp' = timestamp
      /\ shard_back_log' = [shard_back_log EXCEPT ![s][t] = Append(@, msg)]
      /\ UNCHANGED <<pc, at, sessions, ack_timestamp, queue, handed, taken>>
  BY DEF RouteToClient
<1> HIDE DEF msg, stamp, t
<1>8. Bind(timestamp[s], t, stamp) \in Partial(Stamps)
  BY <1>1, <1>4, <1>6, BindPartial
<1>9. Books'
  <2>1. seqno' \in [Shards -> Seqnos]
    BY <1>0, <1>2, <1>7, SizesPositive DEF Books, Seqnos
  <2>2. unacks' \in [Shards -> SUBSET Packets]
    BY <1>0, <1>3, <1>7 DEF Books
  <2>3. timestamp' \in [Shards -> Partial(Stamps)]
    BY <1>0, <1>8, <1>7 DEF Books
  <2> QED BY <1>0, <1>7, <2>1, <2>2, <2>3 DEF Books
<1>10. Links'
  <2>1. Append(shard_back_log[s][t], msg) \in Seq(Msgs)
    <3>1. msg \in Msgs
      BY <1>3 DEF Msgs
    <3> QED BY <3>1, <1>4, AppendProperties
  <2>2. shard_back_log' \in [Shards -> [Shards -> Seq(Msgs)]]
    BY <1>0, <1>1, <1>7, <2>1 DEF Links
  <2> QED BY <1>0, <1>7, <2>2 DEF Links
<1>11. Phases' /\ Hosts' /\ Seen'
  BY <1>0, <1>7 DEF Phases, Hosts, Seen
<1> QED BY <1>9, <1>10, <1>11 DEF Types

\* Sessions that leave, and the ends of the phases before in_messages.
LEMMA TypesQuiet ==
    ASSUME Types, NEW s \in Shards,
           \/ RouteQos2(s) \/ RouteDone(s) \/ NextQueue(s) \/ \E c \in Leavers : RemoveSession(s, c)
    PROVE  Types'
<1>0. Phases /\ Hosts /\ Books /\ Links /\ Seen
  BY DEF Types
<1>1. CASE RouteQos2(s)
  <2>1. Phases'
    BY <1>0, <1>1 DEF Phases, RouteQos2, Goto
  <2>2. Hosts' /\ Books' /\ Links' /\ Seen'
    BY <1>0, <1>1 DEF Hosts, Books, Links, Seen, RouteQos2
  <2> QED BY <2>1, <2>2 DEF Types
<1>2. CASE RouteDone(s)
  <2>1. 0 \in 0..NumShards + QueueSize /\ 0 \in Shards
    BY SizesPositive DEF Shards
  <2>2. Phases'
    BY <1>0, <1>2, <2>1 DEF Phases, RouteDone, Goto
  <2>3. Hosts' /\ Books' /\ Links' /\ Seen'
    BY <1>0, <1>2 DEF Hosts, Books, Links, Seen, RouteDone
  <2> QED BY <2>2, <2>3 DEF Types
<1>3. CASE NextQueue(s)
  <2>1. 0 \in 0..NumShards + QueueSize
    BY SizesPositive
  <2>2. at[s] \in Shards /\ at \in [Shards -> 0..NumShards + QueueSize]
    BY <1>0, <1>3 DEF Phases, NextQueue
  <2>3. at[s] + 1 < NumShards => at[s] + 1 \in Shards /\ at[s] + 1 \in 0..NumShards + QueueSize
    BY <2>2, SizesPositive DEF Shards
  <2>4. Phases'
    <3>1. CASE at[s] + 1 < NumShards
      <4>1. at' = [at EXCEPT ![s] = at[s] + 1] /\ pc' = pc
        BY <1>3, <3>1 DEF NextQueue
      <4> QED BY <1>0, <2>3, <3>1, <4>1 DEF Phases
    <3>2. CASE ~(at[s] + 1 < NumShards)
      <4>1. at' = [at EXCEPT ![s] = 0] /\ pc' = [pc EXCEPT ![s] = "in"]
        BY <1>3, <3>2 DEF NextQueue
      <4> QED BY <1>0, <2>1, <4>1 DEF Phases
    <3> QED BY <3>1, <3>2
  <2>5. Hosts' /\ Books' /\ Links' /\ Seen'
    BY <1>0, <1>3 DEF Hosts, Books, Links, Seen, NextQueue
  <2> QED BY <2>4, <2>5 DEF Types
<1>4. ASSUME NEW c \in Leavers, RemoveSession(s, c) PROVE Types'
  <2>1. Hosts'
    BY <1>0, <1>4 DEF Hosts, RemoveSession
  <2>2. Books'
    BY <1>0, <1>4 DEF Books, RemoveSession
  <2>3. Phases' /\ Links' /\ Seen'
    BY <1>0, <1>4 DEF Phases, Links, Seen, RemoveSession
  <2> QED BY <2>1, <2>2, <2>3 DEF Types
<1> QED BY <1>1, <1>2, <1>3, <1>4

\* A message that moves into a queue, which has room for it.
LEMMA TypesSend ==
    ASSUME Types, NEW s \in Shards, TrySend(s)
    PROVE  Types'
<1> DEFINE t == at[s]
           b == shard_back_log[s][t]
           e == [from |-> s, msg |-> Head(b)]
<1>0. Phases /\ Hosts /\ Books /\ Links /\ Seen
  BY DEF Types
<1>1. t \in Shards
  BY <1>0 DEF Phases, TrySend
<1>2. b \in Seq(Msgs) /\ b # <<>> /\ queue[t] \in Seq(Entries) /\ Len(queue[t]) < QueueSize
  BY <1>0, <1>1 DEF Links, TrySend, Sendable
<1>3. Head(b) \in Msgs /\ Tail(b) \in Seq(Msgs)
  BY <1>2
<1>4. e \in Entries
  BY <1>3 DEF Entries, Msgs
<1>5. /\ queue' = [queue EXCEPT ![t] = Append(@, e)]
      /\ shard_back_log' = [shard_back_log EXCEPT ![s][t] = Tail(@)]
      /\ UNCHANGED <<pc, at, sessions, seqno, unacks, timestamp, ack_timestamp, handed, taken>>
  BY DEF TrySend
<1> HIDE DEF e
<1>6. Append(queue[t], e) \in Seq(Entries) /\ Len(Append(queue[t], e)) = Len(queue[t]) + 1
  BY <1>2, <1>4, AppendProperties
<1>7. Links'
  <2>1. queue' \in [Shards -> Seq(Entries)]
    BY <1>0, <1>1, <1>5, <1>6 DEF Links
  <2>2. Len(Append(queue[t], e)) <= QueueSize
    <3>1. Len(queue[t]) \in Nat
      BY <1>2
    <3> QED BY <1>2, <1>6, <3>1, SizesPositive
  <2>3. \A r \in Shards : Len(queue'[r]) <= QueueSize
    BY <1>0, <1>1, <1>5, <2>2 DEF Links
  <2>4. shard_back_log' \in [Shards -> [Shards -> Seq(Msgs)]]
    BY <1>0, <1>1, <1>3, <1>5 DEF Links
  <2> QED BY <2>1, <2>3, <2>4 DEF Links
<1>8. Phases' /\ Hosts' /\ Books' /\ Seen'
  BY <1>0, <1>5 DEF Phases, Hosts, Books, Seen
<1> QED BY <1>7, <1>8 DEF Types

\* What taking the head of a queue does to the queues and to at.
LEMMA TypesTaken ==
    ASSUME Types, NEW s \in Shards, queue[s] # <<>>, at[s] <= QueueSize, pc[s] = "in",
           queue' = [queue EXCEPT ![s] = Tail(@)], at' = [at EXCEPT ![s] = @ + 1],
           shard_back_log' = shard_back_log,
           pc' = pc \/ pc' = [pc EXCEPT ![s] = "unreachable"]
    PROVE  /\ Links' /\ Phases'
           /\ Head(queue[s]) = queue[s][1] /\ queue[s][1] \in Entries
           /\ 1 \in 1..Len(queue[s])
<1>0. Phases /\ Links
  BY DEF Types
<1>1. queue[s] \in Seq(Entries)
  BY <1>0 DEF Links
<1>2. /\ Tail(queue[s]) \in Seq(Entries) /\ Len(Tail(queue[s])) = Len(queue[s]) - 1
      /\ Len(queue[s]) \in Nat /\ 1 \in 1..Len(queue[s])
      /\ Head(queue[s]) = queue[s][1] /\ queue[s][1] \in Entries
  BY <1>1
<1>3. Len(Tail(queue[s])) <= QueueSize
  <2>1. Len(queue[s]) <= QueueSize
    BY <1>0 DEF Links
  <2> QED BY <1>2, <2>1, SizesPositive
<1>4. Links'
  BY <1>0, <1>2, <1>3 DEF Links
<1>5. at[s] + 1 \in 0..NumShards + QueueSize
  <2>1. at[s] \in 0..NumShards + QueueSize
    BY <1>0 DEF Phases
  <2> QED BY <2>1, SizesPositive
<1>6. Phases'
  BY <1>0, <1>5 DEF Phases
<1> QED BY <1>2, <1>4, <1>6

\* A packet that is taken: it is counted, and handed to a session.
LEMMA TypesPacket ==
    ASSUME Types, NEW s \in Shards, InPacket(s)
    PROVE  Types'
<1> DEFINE m == queue[s][1].msg
<1>0. Phases /\ Hosts /\ Books /\ Links /\ Seen
  BY DEF Types
<1>1. Links' /\ Phases' /\ Head(queue[s]) = queue[s][1] /\ queue[s][1] \in Entries
  BY TypesTaken, Zenon DEF InPacket
<1>2. /\ m.type = "packet"
      /\ ack_timestamp' = [ack_timestamp EXCEPT ![s] = Bind(@, m.shard, m.seqno)]
      /\ \/ handed' = [handed EXCEPT ![m.client] = @ \cup {m}]
         \/ handed' = handed
      /\ taken' = [taken EXCEPT ![s][m.shard] = m.seqno]
      /\ UNCHANGED <<sessions, seqno, unacks, timestamp>>
  BY <1>1 DEF InPacket
<1>3. m \in Packets
  <2>1. m \in Msgs
    BY <1>1 DEF Entries, Msgs
  <2> QED BY <1>2, <2>1, MsgFields DEF Msgs
<1>4. m.shard \in Shards /\ m.seqno \in 1..MaxRouted /\ m.client \in Clients
  BY <1>3 DEF Packets
<1> HIDE DEF m
<1>5. Books'
  <2>1. ack_timestamp[s] \in Partial(1..MaxRouted)
    BY <1>0 DEF Books
  <2>2. Bind(ack_timestamp[s], m.shard, m.seqno) \in Partial(1..MaxRouted)
    BY <2>1, <1>4, BindPartial, Zenon
  <2> QED BY <1>0, <1>2, <2>2 DEF Books
<1>6. Seen'
  <2>1. m.seqno \in 0..MaxRouted
    BY <1>4, SizesPositive
  <2>2. handed' \in [Clients -> SUBSET Packets]
    BY <1>0, <1>2, <1>3, <1>4 DEF Seen
  <2>3. taken' \in [Shards -> [Shards -> 0..MaxRouted]]
    BY <1>0, <1>2, <1>4, <2>1 DEF Seen
  <2> QED BY <2>2, <2>3 DEF Seen
<1>7. Hosts'
  BY <1>0, <1>2 DEF Hosts
<1> QED BY <1>1, <1>5, <1>6, <1>7 DEF Types

\* An acknowledgement that is taken.
LEMMA TypesAck ==
    ASSUME Types, NEW s \in Shards, InLocalAck(s)
    PROVE  Types'
<1> DEFINE m == queue[s][1].msg
           v == m.last_received_ack
           f == timestamp[s]
           g == [f EXCEPT ![m.shard] = [@ EXCEPT !.acked = v]]
<1>0. Phases /\ Hosts /\ Books /\ Links /\ Seen
  BY DEF Types
<1>1. Links' /\ Phases' /\ Head(queue[s]) = queue[s][1] /\ queue[s][1] \in Entries
  BY TypesTaken, Zenon DEF InLocalAck
<1>2. /\ m.type = "local_ack"
      /\ \/ m.shard \in DOMAIN timestamp[s] /\ timestamp' = [timestamp EXCEPT ![s] = g]
         \/ timestamp' = timestamp
      /\ UNCHANGED <<sessions, seqno, unacks, ack_timestamp, handed, taken>>
  BY <1>1, Zenon DEF InLocalAck
<1>3. v \in 0..MaxRouted
  <2>1. m \in Msgs
    BY <1>1 DEF Entries, Msgs
  <2>2. m \in LocalAcks
    BY <1>2, <2>1, MsgFields, Zenon
  <2> QED BY <2>2, SizesPositive DEF LocalAcks
<1>4. m.shard \in DOMAIN f => g \in Partial(Stamps)
  <2>1. SUFFICES ASSUME m.shard \in DOMAIN f PROVE g \in Partial(Stamps)
    OBVIOUS
  <2>2. PICK D \in SUBSET Shards : f \in [D -> Stamps]
    BY <1>0 DEF Books, Partial
  <2>3. f[m.shard] \in Stamps
    BY <2>1, <2>2
  <2>4. [f[m.shard] EXCEPT !.acked = v] \in Stamps
    BY <1>3, <2>3, Zenon DEF Stamps
  <2>5. g \in [D -> Stamps]
    BY <2>2, <2>4, Zenon
  <2> QED BY <2>2, <2>5 DEF Partial
<1> HIDE DEF g
<1>5. timestamp' \in [Shards -> Partial(Stamps)]
  BY <1>0, <1>2, <1>4 DEF Books
<1>6. Books' /\ Hosts' /\ Seen'
  BY <1>0, <1>2, <1>5 DEF Books, Hosts, Seen
<1> QED BY <1>1, <1>6 DEF Types

\* The acknowledgement that s sends to t when in_messages ends.
AckFor(s, t) == [type |-> "local_ack", shard |-> t, last_received_ack |-> ack_timestamp[s][t]]

\* ack_messages puts it behind the back log.
LEMMA AckTypes ==
    ASSUME Types, NEW s \in Shards, NEW t \in Shards
    PROVE  /\ t \in DOMAIN ack_timestamp[s] => AckFor(s, t) \in LocalAcks
           /\ Acknowledged(s)[t] \in Seq(Msgs)
           /\ Acknowledged(s) = [r \in Shards |-> Acknowledged(s)[r]]
           /\ \/ t \in DOMAIN ack_timestamp[s] /\ Acknowledged(s)[t] = Append(shard_back_log[s][t], AckFor(s, t))
              \/ t \notin DOMAIN ack_timestamp[s] /\ Acknowledged(s)[t] = shard_back_log[s][t]
<1>1. ack_timestamp[s] \in Partial(1..MaxRouted) /\ shard_back_log[s][t] \in Seq(Msgs)
  BY DEF Types, Books, Links
<1>2. t \in DOMAIN ack_timestamp[s] => ack_timestamp[s][t] \in 1..MaxRouted
  BY <1>1, BindPartial, Zenon
<1>3. t \in DOMAIN ack_timestamp[s] => AckFor(s, t) \in LocalAcks
  BY <1>2 DEF AckFor, LocalAcks
<1>4. \/ t \in DOMAIN ack_timestamp[s] /\ Acknowledged(s)[t] = Append(shard_back_log[s][t], AckFor(s, t))
      \/ t \notin DOMAIN ack_timestamp[s] /\ Acknowledged(s)[t] = shard_back_log[s][t]
  BY DEF Acknowledged, AckFor
<1>5. t \in DOMAIN ack_timestamp[s] => Append(shard_back_log[s][t], AckFor(s, t)) \in Seq(Msgs)
  <2>1. \A x \in Msgs : Append(shard_back_log[s][t], x) \in Seq(Msgs)
    BY <1>1, AppendProperties
  <2> QED BY <2>1, <1>3, MsgFields
<1>6. Acknowledged(s) = [r \in Shards |-> Acknowledged(s)[r]]
  BY DEF Acknowledged
<1> QED BY <1>1, <1>3, <1>4, <1>5, <1>6

\* The end of in_messages.
LEMMA TypesDone ==
    ASSUME Types, NEW s \in Shards, InDone(s)
    PROVE  Types'
<1>0. Phases /\ Hosts /\ Books /\ Links /\ Seen
  BY DEF Types
<1>1. /\ pc' = [pc EXCEPT ![s] = "route"] \/ pc' = [pc EXCEPT ![s] = "todo"]
      /\ at' = [at EXCEPT ![s] = 0]
      /\ shard_back_log' = [shard_back_log EXCEPT ![s] = Acknowledged(s)]
      /\ ack_timestamp' = [ack_timestamp EXCEPT ![s] = Nothing]
      /\ unacks' = [unacks EXCEPT ![s] = @ \ remove_unacks(s)]
      /\ UNCHANGED <<sessions, seqno, timestamp, queue, handed, taken>>
  BY Zenon DEF InDone, Goto
<1>2. Phases'
  <2>1. 0 \in 0..NumShards + QueueSize
    BY SizesPositive
  <2> QED BY <1>0, <1>1, <2>1 DEF Phases
<1>3. Books'
  <2>1. ack_timestamp[s] \in Partial(1..MaxRouted)
    BY <1>0 DEF Books
  <2>2. Nothing \in Partial(1..MaxRouted)
    BY <2>1, BindPartial
  <2> QED BY <1>0, <1>1, <2>2 DEF Books
<1>4. Links'
  <2>1. Acknowledged(s) \in [Shards -> Seq(Msgs)]
    BY AckTypes
  <2> QED BY <1>0, <1>1, <2>1, Zenon DEF Links
<1>5. Hosts' /\ Seen'
  BY <1>0, <1>1 DEF Hosts, Seen
<1> QED BY <1>2, <1>3, <1>4, <1>5 DEF Types

\* Where everything begins: nothing is on its way.
LEMMA TypesInit ==
    ASSUME Init
    PROVE  Types
<1>1. Phases
  <2>1. 0 \in 0..NumShards + QueueSize
    BY SizesPositive
  <2> QED BY <2>1 DEF Init, Phases
<1>2. Hosts
  BY DEF Init, Hosts
<1>3. Books
  <2>1. \A S : Nothing \in Partial(S)
    <3>1. {} \in SUBSET Shards /\ \A S : Nothing \in [{} -> S]
      BY DEF Nothing
    <3> QED BY <3>1 DEF Partial
  <2>2. 1 \in Seqnos
    BY SizesPositive DEF Seqnos
  <2> QED BY <2>1, <2>2 DEF Init, Books
<1>4. Links
  <2>1. <<>> \in Seq(Msgs) /\ <<>> \in Seq(Entries) /\ Len(<<>>) = 0
    OBVIOUS
  <2> QED BY <2>1, SizesPositive DEF Init, Links
<1>5. Seen
  <2>1. 0 \in 0..MaxRouted
    BY SizesPositive
  <2> QED BY <2>1 DEF Init, Seen
<1> QED BY <1>1, <1>2, <1>3, <1>4, <1>5 DEF Types
-----------------------------------------------------------------------------
(* The steps of the shards, as steps of the channels between them.         *)

\* No other channel than that from s to t changes.
OthersStay(s, t) == \A r, u \in Shards : r # s \/ u # t => PacketsOnTheWay(r, u)' = PacketsOnTheWay(r, u)

Sends(s, t) == /\ PacketsOnTheWay(s, t)' = Append(PacketsOnTheWay(s, t), seqno[s])
               /\ OthersStay(s, t)
               /\ seqno' = [seqno EXCEPT ![s] = @ + 1]
               /\ taken' = taken

TakesNext(s, t) == /\ PacketsOnTheWay(s, t) # <<>>
                   /\ taken' = [taken EXCEPT ![t][s] = Head(PacketsOnTheWay(s, t))]
                   /\ PacketsOnTheWay(s, t)' = Tail(PacketsOnTheWay(s, t))
                   /\ OthersStay(s, t)
                   /\ seqno' = seqno

Stays == /\ \A r, u \in Shards : PacketsOnTheWay(r, u)' = PacketsOnTheWay(r, u)
         /\ seqno' = seqno /\ taken' = taken

\* The packets on their way from s to t are those in the queue and in the back log.
LEMMA WayDef ==
    ASSUME NEW s \in Shards, NEW t \in Shards
    PROVE  /\ PacketsOnTheWay(s, t) = On(s, queue[t], shard_back_log[s][t])
           /\ PacketsOnTheWay(s, t)' = On(s, queue'[t], shard_back_log'[s][t])
BY DEF PacketsOnTheWay, OnTheWay, On

\* Packets on their way are numbers.
LEMMA WayType ==
    ASSUME Links, NEW s \in Shards, NEW t \in Shards
    PROVE  PacketsOnTheWay(s, t) \in Seq(Nat)
<1>1. queue[t] \in Seq(Entries) /\ shard_back_log[s][t] \in Seq(Msgs)
  BY DEF Links
<1> QED BY <1>1, OnType, WayDef

\* route_to_client sends the next packet of the shard, behind all the others.
LEMMA RouteSends ==
    ASSUME Types, NEW s \in Shards, NEW c \in Clients, NEW d \in Clients, NEW qos \in {0, 1},
           RouteToClient(s, c, d, qos), Types'
    PROVE  Sends(s, shard_id(d))
<1> DEFINE t == shard_id(d)
           b == shard_back_log[s][t]
           msg == [type |-> "packet", client |-> c, shard |-> s, seqno |-> seqno[s],
                   subscriber |-> d]
<1>1. t \in Shards
  BY Hosted
<1>2. b \in Seq(Msgs) /\ queue[t] \in Seq(Entries) /\ shard_back_log \in [Shards -> [Shards -> Seq(Msgs)]]
  BY <1>1 DEF Types, Links
<1>3. msg.type = "packet" /\ msg.seqno = seqno[s]
  OBVIOUS
<1>4. msg \in Msgs
  <2>1. seqno[s] \in Seqnos /\ seqno'[s] \in Seqnos /\ seqno' = [seqno EXCEPT ![s] = @ + 1]
        /\ seqno \in [Shards -> Seqnos]
    BY DEF Types, Books, RouteToClient
  <2>2. seqno[s] \in 1..MaxRouted
    BY <2>1, SizesPositive DEF Seqnos
  <2> QED BY <2>2 DEF Packets, Msgs
<1>5. /\ shard_back_log' = [shard_back_log EXCEPT ![s][t] = Append(@, msg)]
      /\ seqno' = [seqno EXCEPT ![s] = @ + 1]
      /\ queue' = queue /\ taken' = taken
  BY DEF RouteToClient
<1> HIDE DEF msg, t
<1>6. Routes(s, queue[t], b, msg)
  BY <1>2, <1>4, OnRoute
<1>7. On(s, queue[t], Append(b, msg)) = Append(On(s, queue[t], b), seqno[s])
  BY <1>3, <1>6 DEF Routes
<1>8. PacketsOnTheWay(s, t)' = Append(PacketsOnTheWay(s, t), seqno[s])
  <2>1. shard_back_log'[s][t] = Append(b, msg)
    BY <1>1, <1>2, <1>5
  <2> QED BY <1>1, <1>5, <1>7, <2>1, WayDef
<1>9. OthersStay(s, t)
  <2>1. \A r, u \in Shards : r # s \/ u # t => shard_back_log'[r][u] = shard_back_log[r][u]
    BY <1>1, <1>2, <1>5
  <2> QED BY <1>5, <2>1, WayDef DEF OthersStay
<1>10. Sends(s, t)
  BY <1>5, <1>8, <1>9 DEF Sends
<1> QED BY <1>10 DEF t

\* try_send moves no packet past another one.
LEMMA TrySendStays ==
    ASSUME Types, NEW s \in Shards, TrySend(s)
    PROVE  Stays
<1>1. PICK t \in Shards : t = at[s]
  BY DEF Types, Phases, TrySend
<1> DEFINE b == shard_back_log[s][t]
           e == [from |-> s, msg |-> Head(b)]
<1>2. /\ b \in Seq(Msgs) /\ b # <<>> /\ queue[t] \in Seq(Entries)
      /\ shard_back_log \in [Shards -> [Shards -> Seq(Msgs)]] /\ queue \in [Shards -> Seq(Entries)]
  BY <1>1 DEF Types, Links, TrySend, Sendable
<1>3. e \in Entries /\ e.from = s
  BY <1>2 DEF Entries, Msgs
<1>4. /\ queue' = [queue EXCEPT ![t] = Append(@, e)]
      /\ shard_back_log' = [shard_back_log EXCEPT ![s][t] = Tail(@)]
      /\ seqno' = seqno /\ taken' = taken
  BY <1>1 DEF TrySend
<1>5. Moves(s, queue[t], b)
  <2> HIDE DEF b
  <2> QED BY <1>2, OnMove
<1>6. On(s, Append(queue[t], e), Tail(b)) = On(s, queue[t], b)
  BY <1>5 DEF Moves
<1> HIDE DEF e
<1>7. queue'[t] = Append(queue[t], e) /\ shard_back_log'[s][t] = Tail(b)
  BY <1>1, <1>2, <1>4
<1>8. PacketsOnTheWay(s, t)' = PacketsOnTheWay(s, t)
  BY <1>1, <1>6, <1>7, WayDef, Zenon
<1>9. ASSUME NEW r \in Shards, r # s
      PROVE  PacketsOnTheWay(r, t)' = PacketsOnTheWay(r, t)
  <2>1. shard_back_log'[r][t] = shard_back_log[r][t]
    BY <1>1, <1>2, <1>4, <1>9
  <2>2. Bypasses(r, queue[t], shard_back_log[r][t], e)
    BY <1>2, <1>3, <1>9, OnBypass
  <2>3. On(r, queue'[t], shard_back_log'[r][t]) = On(r, queue[t], shard_back_log[r][t])
    BY <1>7, <2>1, <2>2, Zenon DEF Bypasses
  <2>4. /\ PacketsOnTheWay(r, t) = On(r, queue[t], shard_back_log[r][t])
        /\ PacketsOnTheWay(r, t)' = On(r, queue'[t], shard_back_log'[r][t])
    BY <1>1, WayDef, Zenon
  <2> QED BY <2>3, <2>4, Zenon
<1>10. ASSUME NEW r \in Shards, NEW u \in Shards, u # t
       PROVE  PacketsOnTheWay(r, u)' = PacketsOnTheWay(r, u)
  <2>1. shard_back_log'[r][u] = shard_back_log[r][u] /\ queue'[u] = queue[u]
    BY <1>1, <1>2, <1>4, <1>10
  <2> QED BY <2>1, WayDef
<1> QED BY <1>4, <1>8, <1>9, <1>10 DEF Stays

\* A step that leaves the queues and the back logs alone.
LEMMA UntouchedStays ==
    ASSUME queue' = queue, shard_back_log' = shard_back_log, seqno' = seqno, taken' = taken
    PROVE  Stays
BY WayDef DEF Stays

\* A packet that is taken was the first on its way from the shard it names.
LEMMA PacketTaken ==
    ASSUME Types, AllFine, NEW s \in Shards, InPacket(s)
    PROVE  \E r \in Shards : TakesNext(r, s)
<1>0. queue[s] # <<>> /\ Links /\ queue[s] \in Seq(Entries) /\ queue \in [Shards -> Seq(Entries)]
  BY DEF InPacket, Types, Links
<1>1. Head(queue[s]) = queue[s][1] /\ queue[s][1] \in Entries /\ 1 \in 1..Len(queue[s])
  BY <1>0
<1>2. PICK r \in Shards : r = queue[s][1].from
  BY <1>1, MsgFields
<1>3. PICK m \in Msgs : m = queue[s][1].msg
  BY <1>1, MsgFields
<1>4. m.type = "packet" /\ m.shard = r
  <2>1. FineLink(r, queue[s], shard_back_log[r][s], taken[r][s])
    BY DEF AllFine
  <2>2. Fine(m, r, taken[r][s])
    BY <1>1, <1>2, <1>3, <2>1 DEF FineLink
  <2>3. m.type = "packet"
    BY <1>1, <1>3 DEF InPacket
  <2> QED BY <2>2, <2>3 DEF Fine
<1>5. /\ taken' = [taken EXCEPT ![s][r] = m.seqno]
      /\ queue' = [queue EXCEPT ![s] = Tail(@)]
      /\ shard_back_log' = shard_back_log /\ seqno' = seqno
  BY <1>1, <1>3, <1>4, Zenon DEF InPacket
<1>6. queue'[s] = Tail(queue[s]) /\ \A u \in Shards : u # s => queue'[u] = queue[u]
  BY <1>0, <1>5
<1>7. \A x \in Shards : HeadTaken(x, queue[s], shard_back_log[x][s])
  <2>1. \A x \in Shards : shard_back_log[x][s] \in Seq(Msgs)
    BY <1>0 DEF Links
  <2> QED BY <1>0, <2>1, OnTake
<1>8. PacketsOnTheWay(r, s) = <<m.seqno>> \o PacketsOnTheWay(r, s)'
  <2>1. On(r, queue[s], shard_back_log[r][s]) = <<m.seqno>> \o On(r, Tail(queue[s]), shard_back_log[r][s])
    BY <1>2, <1>3, <1>4, <1>7, Zenon DEF HeadTaken
  <2> QED BY <1>5, <1>6, <2>1, WayDef
<1>9. OthersStay(r, s)
  <2>1. ASSUME NEW x \in Shards, x # r
        PROVE  PacketsOnTheWay(x, s)' = PacketsOnTheWay(x, s)
    BY <1>2, <1>5, <1>6, <1>7, <2>1, WayDef DEF HeadTaken
  <2>2. ASSUME NEW x \in Shards, NEW u \in Shards, u # s
        PROVE  PacketsOnTheWay(x, u)' = PacketsOnTheWay(x, u)
    BY <1>5, <1>6, <2>2, WayDef
  <2> QED BY <2>1, <2>2 DEF OthersStay
<1>10. PacketsOnTheWay(r, s)' \in Seq(Nat)
  <2>1. Tail(queue[s]) \in Seq(Entries) /\ shard_back_log[r][s] \in Seq(Msgs)
    BY <1>0 DEF Links
  <2>2. On(r, Tail(queue[s]), shard_back_log[r][s]) \in Seq(Nat)
    BY <2>1, OnType, Zenon
  <2> QED BY <1>5, <1>6, <2>2, WayDef
<1>11. /\ PacketsOnTheWay(r, s) # <<>> /\ Head(PacketsOnTheWay(r, s)) = m.seqno
       /\ PacketsOnTheWay(r, s)' = Tail(PacketsOnTheWay(r, s))
  BY <1>8, <1>10
<1>12. TakesNext(r, s)
  BY <1>5, <1>9, <1>11, Zenon DEF TakesNext
<1> QED BY <1>12

\* Taking an acknowledgement takes no packet.
LEMMA AckTaken ==
    ASSUME Types, NEW s \in Shards, InLocalAck(s)
    PROVE  Stays
<1>0. queue[s] # <<>> /\ Links /\ queue[s] \in Seq(Entries) /\ queue \in [Shards -> Seq(Entries)]
  BY DEF InLocalAck, Types, Links
<1>1. queue[s][1].msg.type # "packet"
  <2>1. Head(queue[s]) = queue[s][1]
    BY <1>0
  <2>2. queue[s][1].msg.type = "local_ack"
    BY <2>1 DEF InLocalAck
  <2> QED BY <2>2
<1>2. /\ queue' = [queue EXCEPT ![s] = Tail(@)]
      /\ shard_back_log' = shard_back_log /\ seqno' = seqno /\ taken' = taken
  BY DEF InLocalAck
<1>3. queue'[s] = Tail(queue[s]) /\ \A u \in Shards : u # s => queue'[u] = queue[u]
  BY <1>0, <1>2
<1>4. \A x \in Shards : HeadTaken(x, queue[s], shard_back_log[x][s])
  <2>1. \A x \in Shards : shard_back_log[x][s] \in Seq(Msgs)
    BY <1>0 DEF Links
  <2> QED BY <1>0, <2>1, OnTake
<1>5. \A x \in Shards : PacketsOnTheWay(x, s)' = PacketsOnTheWay(x, s)
  BY <1>1, <1>2, <1>3, <1>4, WayDef DEF HeadTaken
<1>6. ASSUME NEW x \in Shards, NEW u \in Shards, u # s
      PROVE  PacketsOnTheWay(x, u)' = PacketsOnTheWay(x, u)
  BY <1>2, <1>3, <1>6, WayDef
<1> QED BY <1>2, <1>5, <1>6 DEF Stays

\* The acknowledgements of ack_messages are no packets.
LEMMA DoneStays ==
    ASSUME Types, NEW s \in Shards, InDone(s)
    PROVE  Stays
<1>1. /\ shard_back_log' = [shard_back_log EXCEPT ![s] = Acknowledged(s)]
      /\ queue' = queue /\ seqno' = seqno /\ taken' = taken
  BY DEF InDone
<1>2. shard_back_log \in [Shards -> [Shards -> Seq(Msgs)]] /\ queue \in [Shards -> Seq(Entries)]
  BY DEF Types, Links
<1>3. ASSUME NEW t \in Shards PROVE PacketsOnTheWay(s, t)' = PacketsOnTheWay(s, t)
  <2>1. CASE t \in DOMAIN ack_timestamp[s]
    <3>1. PICK m \in Msgs : m = AckFor(s, t) /\ m.type # "packet"
      BY <2>1, AckTypes, MsgFields
    <3>2. shard_back_log'[s][t] = Append(shard_back_log[s][t], m)
      BY <1>1, <1>2, <2>1, <3>1, AckTypes
    <3>3. Routes(s, queue[t], shard_back_log[s][t], m)
      BY <1>2, OnRoute
    <3> QED BY <1>1, <3>1, <3>2, <3>3, WayDef, Zenon DEF Routes
  <2>2. CASE t \notin DOMAIN ack_timestamp[s]
    <3>1. shard_back_log'[s][t] = shard_back_log[s][t]
      BY <1>1, <1>2, <2>2, AckTypes
    <3> QED BY <1>1, <3>1, WayDef
  <2> QED BY <2>1, <2>2
<1>4. ASSUME NEW r \in Shards, NEW t \in Shards, r # s
      PROVE  PacketsOnTheWay(r, t)' = PacketsOnTheWay(r, t)
  <2>1. shard_back_log'[r][t] = shard_back_log[r][t]
    BY <1>1, <1>2, <1>4
  <2> QED BY <1>1, <2>1, WayDef
<1> QED BY <1>1, <1>3, <1>4 DEF Stays

\* Every step sends one packet, takes the next one from somewhere, or neither.
LEMMA StepKinds ==
    ASSUME Types, AllFine, Next
    PROVE  /\ Types'
           /\ Stays \/ \E s, t \in Shards : Sends(s, t) \/ TakesNext(s, t)
<1>1. PICK s \in Shards : \/ \E c, d \in Clients, qos \in {0, 1} : RouteToClient(s, c, d, qos)
                          \/ RouteQos2(s)
                          \/ \E c \in Leavers : RemoveSession(s, c)
                          \/ Loop(s)
  BY DEF Next
<1>2. ASSUME NEW c \in Clients, NEW d \in Clients, NEW qos \in {0, 1}, RouteToClient(s, c, d, qos)
      PROVE  Types' /\ \E t \in Shards : Sends(s, t)
  <2>1. Types'
    BY <1>2, TypesRoute
  <2>2. Sends(s, shard_id(d))
    BY <1>2, <2>1, RouteSends
  <2> QED BY <2>1, <2>2, Hosted
<1>3. CASE \/ RouteQos2(s) \/ RouteDone(s) \/ NextQueue(s) \/ \E c \in Leavers : RemoveSession(s, c)
  <2>1. Types'
    BY <1>3, TypesQuiet
  <2>2. queue' = queue /\ shard_back_log' = shard_back_log /\ seqno' = seqno /\ taken' = taken
    BY <1>3 DEF RouteQos2, RouteDone, NextQueue, RemoveSession
  <2> QED BY <2>1, <2>2, UntouchedStays
<1>4. CASE TrySend(s)
  BY <1>4, TypesSend, TrySendStays
<1>5. CASE InPacket(s)
  BY <1>5, TypesPacket, PacketTaken
<1>6. CASE InLocalAck(s)
  BY <1>6, TypesAck, AckTaken
<1>7. CASE InDone(s)
  BY <1>7, TypesDone, DoneStays
<1> QED BY <1>1, <1>2, <1>3, <1>4, <1>5, <1>6, <1>7 DEF Loop
-----------------------------------------------------------------------------
(* The order of the packets.                                               *)

\* A packet that is routed has the highest number yet.
LEMMA RisingAppend ==
    ASSUME NEW c \in Seq(Nat), NEW low \in Nat, NEW high \in Nat, Rising(c, low, high), low < high
    PROVE  Rising(Append(c, high), low, high + 1)
<1> DEFINE d == Append(c, high)
<1>1. /\ Len(c) \in Nat /\ Len(d) = Len(c) + 1 /\ d[Len(c) + 1] = high
      /\ \A i \in 1..Len(c) : d[i] = c[i] /\ c[i] \in Nat
  OBVIOUS
<1> HIDE DEF d
<1>2. \A i \in 1..Len(d) : i \in 1..Len(c) \/ i = Len(c) + 1
  BY <1>1
<1>3. \A i \in 1..Len(d) : low < d[i] /\ d[i] < high + 1
  BY <1>1, <1>2 DEF Rising
<1>4. ASSUME NEW i \in 1..Len(d), NEW j \in 1..Len(d), i < j
      PROVE  d[i] < d[j]
  <2>1. i \in 1..Len(c)
    BY <1>1, <1>4
  <2>2. CASE j \in 1..Len(c)
    BY <1>1, <1>4, <2>1, <2>2 DEF Rising
  <2>3. CASE j = Len(c) + 1
    BY <1>1, <2>1, <2>3 DEF Rising
  <2> QED BY <1>2, <2>2, <2>3
<1>5. Rising(d, low, high + 1)
  BY <1>3, <1>4 DEF Rising
<1> QED BY <1>5 DEF d

\* A packet that is taken has the lowest number of those on their way.
LEMMA RisingTail ==
    ASSUME NEW c \in Seq(Nat), c # <<>>, NEW low \in Nat, NEW high \in Nat, Rising(c, low, high)
    PROVE  low < Head(c) /\ Head(c) < high /\ Rising(Tail(c), Head(c), high)
<1> DEFINE d == Tail(c)
<1>1. /\ Len(c) \in Nat /\ Len(c) > 0 /\ Len(d) = Len(c) - 1 /\ Head(c) = c[1]
      /\ \A i \in 1..Len(c) : c[i] \in Nat
      /\ \A i \in 1..Len(d) : d[i] = c[i + 1]
  OBVIOUS
<1> HIDE DEF d
<1>2. 1 \in 1..Len(c) /\ \A i \in 1..Len(d) : i + 1 \in 1..Len(c) /\ 1 < i + 1
  BY <1>1
<1>3. low < c[1] /\ c[1] < high
  BY <1>2 DEF Rising
<1>4. \A i \in 1..Len(d) : c[1] < d[i] /\ d[i] < high
  BY <1>1, <1>2, Zenon DEF Rising
<1>5. ASSUME NEW i \in 1..Len(d), NEW j \in 1..Len(d), i < j
      PROVE  d[i] < d[j]
  <2>1. i + 1 < j + 1
    BY <1>1, <1>5
  <2> QED BY <1>1, <1>2, <2>1, Zenon DEF Rising
<1>6. Rising(d, c[1], high)
  BY <1>4, <1>5 DEF Rising
<1> QED BY <1>1, <1>3, <1>6 DEF d

\* Packets for other shards leave a gap.
LEMMA RisingGap ==
    ASSUME NEW c \in Seq(Nat), NEW low \in Nat, NEW high \in Nat, Rising(c, low, high)
    PROVE  Rising(c, low, high + 1)
<1>1. \A i \in 1..Len(c) : c[i] \in Nat
  OBVIOUS
<1> QED BY <1>1 DEF Rising

\* What the order needs to know of the types.
LEMMA OrderTypes ==
    ASSUME Types, NEW s \in Shards, NEW t \in Shards
    PROVE  /\ PacketsOnTheWay(s, t) \in Seq(Nat) /\ seqno[s] \in Nat /\ taken[t][s] \in Nat
           /\ seqno \in [Shards -> Seqnos] /\ taken \in [Shards -> [Shards -> 0..MaxRouted]]
<1>1. PacketsOnTheWay(s, t) \in Seq(Nat)
  BY WayType DEF Types
<1>2. seqno \in [Shards -> Seqnos] /\ taken \in [Shards -> [Shards -> 0..MaxRouted]]
  BY DEF Types, Books, Seen
<1> QED BY <1>1, <1>2, SizesPositive DEF Seqnos

\* Sending and taking keep the order, and no shard takes a packet with a lower
\* number than the last one.
LEMMA OrderedStep ==
    ASSUME Types, Ordered, TakenRouted,
           Stays \/ \E s, t \in Shards : Sends(s, t) \/ TakesNext(s, t)
    PROVE  Ordered' /\ TakenRouted' /\ \A s, t \in Shards : taken[t][s] <= taken'[t][s]
<1>1. SUFFICES ASSUME NEW s \in Shards, NEW t \in Shards
               PROVE  /\ Rising(PacketsOnTheWay(s, t)', taken'[t][s], seqno'[s])
                      /\ taken'[t][s] < seqno'[s] /\ taken[t][s] <= taken'[t][s]
  BY DEF Ordered, TakenRouted
<1> DEFINE c == PacketsOnTheWay(s, t)
           low == taken[t][s]
           high == seqno[s]
<1>2. c \in Seq(Nat) /\ low \in Nat /\ high \in Nat
  BY OrderTypes
<1>3. seqno \in [Shards -> Seqnos] /\ taken \in [Shards -> [Shards -> 0..MaxRouted]]
  BY OrderTypes
<1>4. Rising(c, low, high) /\ low < high
  BY DEF Ordered, TakenRouted
<1> HIDE DEF c, low, high
<1>5. CASE Stays
  BY <1>2, <1>4, <1>5 DEF Stays, c, low, high
<1>6. ASSUME NEW r \in Shards, NEW u \in Shards, Sends(r, u)
      PROVE  /\ Rising(PacketsOnTheWay(s, t)', taken'[t][s], seqno'[s])
             /\ taken'[t][s] < seqno'[s] /\ taken[t][s] <= taken'[t][s]
  <2>1. taken'[t][s] = low /\ low <= low /\ low < high + 1
    BY <1>2, <1>4, <1>6 DEF Sends, low
  <2>2. CASE s = r
    <3>1. seqno'[s] = high + 1
      BY <1>3, <1>6, <2>2 DEF Sends, high
    <3>2. PacketsOnTheWay(s, t)' = Append(c, high) \/ PacketsOnTheWay(s, t)' = c
      BY <1>6, <2>2 DEF Sends, OthersStay, c, high
    <3>3. Rising(Append(c, high), low, high + 1) /\ Rising(c, low, high + 1)
      BY <1>2, <1>4, RisingAppend, RisingGap
    <3> QED BY <2>1, <3>1, <3>2, <3>3, Zenon DEF low
  <2>3. CASE s # r
    <3>1. seqno'[s] = high /\ PacketsOnTheWay(s, t)' = c
      BY <1>3, <1>6, <2>3 DEF Sends, OthersStay, c, high
    <3> QED BY <1>4, <2>1, <3>1 DEF low
  <2> QED BY <2>2, <2>3
<1>7. ASSUME NEW r \in Shards, NEW u \in Shards, TakesNext(r, u)
      PROVE  /\ Rising(PacketsOnTheWay(s, t)', taken'[t][s], seqno'[s])
             /\ taken'[t][s] < seqno'[s] /\ taken[t][s] <= taken'[t][s]
  <2>1. seqno'[s] = high
    BY <1>7 DEF TakesNext, high
  <2>2. CASE s = r /\ t = u
    <3>1. c # <<>> /\ taken'[t][s] = Head(c) /\ PacketsOnTheWay(s, t)' = Tail(c)
      BY <1>3, <1>7, <2>2 DEF TakesNext, c
    <3>2. low < Head(c) /\ Head(c) < high /\ Rising(Tail(c), Head(c), high)
      BY <1>2, <1>4, <3>1, RisingTail
    <3>3. Head(c) \in Nat
      BY <1>2, <3>1
    <3> QED BY <1>2, <2>1, <3>1, <3>2, <3>3 DEF low
  <2>3. CASE s # r \/ t # u
    <3>1. taken'[t][s] = low /\ PacketsOnTheWay(s, t)' = c
      BY <1>3, <1>7, <2>3 DEF TakesNext, OthersStay, c, low
    <3> QED BY <1>2, <1>4, <2>1, <3>1 DEF low
  <2> QED BY <2>2, <2>3
<1> QED BY <1>5, <1>6, <1>7
-----------------------------------------------------------------------------
(* What the messages say.                                                  *)

\* A message that is put into the back log, ...
LEMMA FineRoute ==
    ASSUME NEW s, NEW q, NEW b \in Seq(Msgs), NEW ack, NEW m \in Msgs, FineLink(s, q, b, ack), Fine(m, s, ack)
    PROVE  FineLink(s, q, Append(b, m), ack)
<1> DEFINE d == Append(b, m)
<1>1. Len(b) \in Nat /\ Len(d) = Len(b) + 1 /\ d[Len(b) + 1] = m /\ \A i \in 1..Len(b) : d[i] = b[i]
  OBVIOUS
<1> HIDE DEF d
<1>2. \A i \in 1..Len(d) : i \in 1..Len(b) \/ i = Len(b) + 1
  BY <1>1
<1>3. FineLink(s, q, d, ack)
  BY <1>1, <1>2 DEF FineLink
<1> QED BY <1>3 DEF d

\* ... or into the queue, from s or from another shard, ...
LEMMA FineQueue ==
    ASSUME NEW s, NEW q \in Seq(Entries), NEW b, NEW ack, NEW e \in Entries, FineLink(s, q, b, ack),
           e.from = s => Fine(e.msg, s, ack)
    PROVE  FineLink(s, Append(q, e), b, ack)
<1> DEFINE d == Append(q, e)
<1>1. Len(q) \in Nat /\ Len(d) = Len(q) + 1 /\ d[Len(q) + 1] = e /\ \A i \in 1..Len(q) : d[i] = q[i]
  OBVIOUS
<1> HIDE DEF d
<1>2. \A i \in 1..Len(d) : i \in 1..Len(q) \/ i = Len(q) + 1
  BY <1>1
<1>3. FineLink(s, d, b, ack)
  BY <1>1, <1>2 DEF FineLink
<1> QED BY <1>3 DEF d

\* ... or that is taken from one of them.
LEMMA FineTails ==
    ASSUME NEW s, NEW q \in Seq(Entries), NEW b \in Seq(Msgs), NEW ack, FineLink(s, q, b, ack)
    PROVE  /\ q # <<>> => FineLink(s, Tail(q), b, ack)
           /\ b # <<>> => FineLink(s, q, Tail(b), ack) /\ Fine(Head(b), s, ack)
<1>1. ASSUME q # <<>> PROVE FineLink(s, Tail(q), b, ack)
  <2> DEFINE d == Tail(q)
  <2>1. Len(q) \in Nat /\ Len(d) = Len(q) - 1 /\ \A i \in 1..Len(d) : d[i] = q[i + 1]
    BY <1>1
  <2> HIDE DEF d
  <2>2. \A i \in 1..Len(d) : i + 1 \in 1..Len(q)
    BY <2>1
  <2>3. FineLink(s, d, b, ack)
    BY <2>1, <2>2 DEF FineLink
  <2> QED BY <2>3 DEF d
<1>2. ASSUME b # <<>> PROVE FineLink(s, q, Tail(b), ack) /\ Fine(Head(b), s, ack)
  <2> DEFINE d == Tail(b)
  <2>1. /\ Len(b) \in Nat /\ Len(d) = Len(b) - 1 /\ \A i \in 1..Len(d) : d[i] = b[i + 1]
        /\ 1 \in 1..Len(b) /\ Head(b) = b[1]
    BY <1>2
  <2> HIDE DEF d
  <2>2. \A i \in 1..Len(d) : i + 1 \in 1..Len(b)
    BY <2>1
  <2>3. FineLink(s, q, d, ack) /\ Fine(b[1], s, ack)
    BY <2>1, <2>2 DEF FineLink
  <2> QED BY <2>1, <2>3 DEF d
<1> QED BY <1>1, <1>2

\* What has been earned stays earned when more is taken.
LEMMA FineLater ==
    ASSUME NEW s, NEW q \in Seq(Entries), NEW b \in Seq(Msgs), NEW ack \in Nat, NEW more \in Nat,
           FineLink(s, q, b, ack), ack <= more
    PROVE  FineLink(s, q, b, more)
<1>1. \A m \in Msgs : m.type = "local_ack" => m.last_received_ack \in Nat
  <2>1. \A m \in LocalAcks : m.last_received_ack \in Nat
    BY DEF LocalAcks
  <2> QED BY <2>1, MsgFields
<1>2. \A m \in Msgs : Fine(m, s, ack) => Fine(m, s, more)
  BY <1>1 DEF Fine
<1>3. /\ \A i \in 1..Len(b) : b[i] \in Msgs
      /\ \A i \in 1..Len(q) : q[i] \in Entries
  OBVIOUS
<1>4. \A i \in 1..Len(q) : q[i].msg \in Msgs
  BY <1>3, MsgFields
<1> QED BY <1>2, <1>3, <1>4 DEF FineLink

\* Messages stay fine: with what has been taken before the step, ...
LEMMA FineMessages ==
    ASSUME Types, AllFine, AcksEarned, Next, NEW s \in Shards, NEW t \in Shards
    PROVE  FineLink(s, queue'[t], shard_back_log'[s][t], taken[s][t])
<1> DEFINE q == queue[t]
           b == shard_back_log[s][t]
           ack == taken[s][t]
<1>0. /\ shard_back_log \in [Shards -> [Shards -> Seq(Msgs)]] /\ queue \in [Shards -> Seq(Entries)]
      /\ q \in Seq(Entries) /\ b \in Seq(Msgs)
  BY DEF Types, Links
<1>1. FineLink(s, q, b, ack)
  BY DEF AllFine
<1> HIDE DEF q, b, ack
<1>2. PICK x \in Shards : \/ \E c, d \in Clients, qos \in {0, 1} : RouteToClient(x, c, d, qos)
                          \/ RouteQos2(x)
                          \/ \E c \in Leavers : RemoveSession(x, c)
                          \/ Loop(x)
  BY DEF Next
<1>3. CASE queue' = queue /\ shard_back_log'[s][t] = b
  BY <1>1, <1>3 DEF q, ack
<1>4. ASSUME NEW c \in Clients, NEW d \in Clients, NEW qos \in {0, 1}, RouteToClient(x, c, d, qos)
      PROVE  FineLink(s, queue'[t], shard_back_log'[s][t], ack)
  <2>1. (x = s /\ shard_id(d) = t) \/ shard_back_log'[s][t] = b
    BY <1>0, <1>4, Hosted, Zenon DEF RouteToClient, b
  <2>2. CASE x = s /\ shard_id(d) = t
    <3> DEFINE msg == [type |-> "packet", client |-> c, shard |-> s, seqno |-> seqno[s],
                       subscriber |-> d]
    <3>1. shard_back_log'[s][t] = Append(b, msg) /\ queue' = queue
      BY <1>0, <1>4, <2>2 DEF RouteToClient, b
    <3>2. Fine(msg, s, ack)
      BY DEF Fine
    <3>3. msg \in Msgs
      <4>1. Types'
        BY <1>4, TypesRoute
      <4>2. seqno[s] \in Seqnos /\ seqno[s] + 1 \in Seqnos
        BY <1>4, <2>2, <4>1 DEF Types, Books, RouteToClient
      <4>3. seqno[s] \in 1..MaxRouted
        BY <4>2, SizesPositive DEF Seqnos
      <4> QED BY <4>3 DEF Packets, Msgs
    <3> HIDE DEF msg
    <3>4. FineLink(s, q, Append(b, msg), ack)
      BY <1>0, <1>1, <3>2, <3>3, FineRoute
    <3> QED BY <3>1, <3>4 DEF q
  <2>3. queue' = queue
    BY <1>4 DEF RouteToClient
  <2> QED BY <1>3, <2>1, <2>2, <2>3 DEF ack
<1>5. CASE \/ RouteQos2(x) \/ RouteDone(x) \/ NextQueue(x) \/ \E c \in Leavers : RemoveSession(x, c)
  <2>1. queue' = queue /\ shard_back_log' = shard_back_log
    BY <1>5 DEF RouteQos2, RouteDone, NextQueue, RemoveSession
  <2> QED BY <1>3, <2>1 DEF b, ack
<1>6. CASE TrySend(x)
  <2>1. PICK u \in Shards : u = at[x]
    BY <1>6 DEF Types, Phases, TrySend
  <2> DEFINE a == shard_back_log[x][u]
             e == [from |-> x, msg |-> Head(a)]
  <2>2. a \in Seq(Msgs) /\ a # <<>> /\ Head(a) \in Msgs
    <3>1. a \in Seq(Msgs) /\ a # <<>>
      BY <1>0, <1>6, <2>1 DEF TrySend, Sendable
    <3> QED BY <3>1
  <2>3. e \in Entries /\ e.from = x /\ e.msg = Head(a)
    BY <2>2, MsgFields
  <2>4. /\ queue' = [queue EXCEPT ![u] = Append(@, e)]
        /\ shard_back_log' = [shard_back_log EXCEPT ![x][u] = Tail(@)]
    BY <1>6, <2>1 DEF TrySend
  <2> HIDE DEF e
  <2>5. CASE u # t
    <3>1. queue'[t] = q /\ shard_back_log'[s][t] = b
      BY <1>0, <2>4, <2>5 DEF q, b
    <3> QED BY <1>1, <3>1 DEF ack
  <2>6. CASE u = t /\ x # s
    <3>1. queue'[t] = Append(q, e) /\ shard_back_log'[s][t] = b
      BY <1>0, <2>4, <2>6 DEF q, b
    <3>2. FineLink(s, Append(q, e), b, ack)
      BY <1>0, <1>1, <2>3, <2>6, FineQueue
    <3> QED BY <3>1, <3>2 DEF ack
  <2>7. CASE u = t /\ x = s
    <3>1. queue'[t] = Append(q, e) /\ shard_back_log'[s][t] = Tail(b) /\ a = b
      BY <1>0, <2>4, <2>7 DEF q, b
    <3>2. FineLink(s, q, Tail(b), ack) /\ Fine(Head(b), s, ack)
      BY <1>0, <1>1, <2>2, <3>1, FineTails, Zenon
    <3>3. Fine(e.msg, s, ack)
      BY <2>3, <3>1, <3>2
    <3>4. FineLink(s, Append(q, e), Tail(b), ack)
      BY <1>0, <2>3, <3>2, <3>3, FineQueue
    <3> QED BY <3>1, <3>4 DEF ack
  <2> QED BY <2>5, <2>6, <2>7 DEF ack
<1>7. CASE InPacket(x) \/ InLocalAck(x)
  <2>1. /\ queue[x] # <<>> /\ queue' = [queue EXCEPT ![x] = Tail(@)]
        /\ shard_back_log' = shard_back_log
    BY <1>7, Zenon DEF InPacket, InLocalAck
  <2>2. CASE x = t
    <3>1. queue'[t] = Tail(q) /\ q # <<>> /\ shard_back_log'[s][t] = b
      BY <1>0, <2>1, <2>2 DEF q, b
    <3>2. FineLink(s, Tail(q), b, ack)
      BY <1>0, <1>1, <3>1, FineTails
    <3> QED BY <3>1, <3>2 DEF ack
  <2>3. CASE x # t
    <3>1. queue'[t] = q /\ shard_back_log'[s][t] = b
      BY <1>0, <2>1, <2>3 DEF q, b
    <3> QED BY <1>1, <3>1 DEF ack
  <2> QED BY <2>2, <2>3
<1>8. CASE InDone(x)
  <2>1. queue' = queue /\ shard_back_log' = [shard_back_log EXCEPT ![x] = Acknowledged(x)]
    BY <1>8 DEF InDone
  <2>2. CASE x = s /\ t \in DOMAIN ack_timestamp[s]
    <3>1. PICK m \in LocalAcks : m = AckFor(s, t)
      BY <2>2, AckTypes
    <3>2. shard_back_log'[s][t] = Append(b, m)
      BY <1>0, <2>1, <2>2, <3>1, AckTypes DEF b
    <3>3. m \in Msgs /\ m.type # "packet"
      BY MsgFields
    <3>4. m.last_received_ack <= ack
      BY <2>2, <3>1 DEF AcksEarned, AckFor, ack
    <3>5. Fine(m, s, ack)
      BY <3>3, <3>4 DEF Fine
    <3>6. FineLink(s, q, Append(b, m), ack)
      BY <1>0, <1>1, <3>3, <3>5, FineRoute
    <3> QED BY <2>1, <3>2, <3>6, Zenon DEF q, ack
  <2>3. CASE ~(x = s /\ t \in DOMAIN ack_timestamp[s])
    <3>1. shard_back_log'[s][t] = b
      BY <1>0, <2>1, <2>3, AckTypes DEF b
    <3> QED BY <1>3, <2>1, <3>1
  <2> QED BY <2>2, <2>3
<1> QED BY <1>2, <1>4, <1>5, <1>6, <1>7, <1>8, Zenon DEF Loop, ack

\* ... and so with what has been taken after it.  What ack_messages is going
\* to acknowledge has been taken.
LEMMA FineStep ==
    ASSUME Types, AllFine, AcksEarned, Next, Types', \A s, t \in Shards : taken[s][t] <= taken'[s][t]
    PROVE  AllFine' /\ AcksEarned'
<1>1. ASSUME NEW s \in Shards, NEW t \in Shards
      PROVE  FineLink(s, queue'[t], shard_back_log'[s][t], taken'[s][t])
  <2>1. FineLink(s, queue'[t], shard_back_log'[s][t], taken[s][t])
    BY FineMessages
  <2>2. taken[s][t] \in Nat /\ taken'[s][t] \in Nat
    BY SizesPositive DEF Types, Seen
  <2>3. queue'[t] \in Seq(Entries) /\ shard_back_log'[s][t] \in Seq(Msgs)
    BY DEF Types, Links
  <2> QED BY <2>1, <2>2, <2>3, FineLater
<1>2. ASSUME NEW s \in Shards, NEW t \in Shards, t \in DOMAIN ack_timestamp'[s]
      PROVE  ack_timestamp'[s][t] <= taken'[s][t]
  <2>0. /\ ack_timestamp \in [Shards -> Partial(1..MaxRouted)]
        /\ taken \in [Shards -> [Shards -> 0..MaxRouted]]
    BY DEF Types, Books, Seen
  <2>1. PICK x \in Shards : \/ \E c, d \in Clients, qos \in {0, 1} : RouteToClient(x, c, d, qos)
                            \/ RouteQos2(x)
                            \/ \E c \in Leavers : RemoveSession(x, c)
                            \/ Loop(x)
    BY DEF Next
  <2>2. taken[s][t] \in Nat /\ taken'[s][t] \in Nat /\ taken[s][t] <= taken'[s][t]
    BY SizesPositive DEF Types, Seen
  <2>3. CASE ack_timestamp'[s] = ack_timestamp[s]
    <3>1. t \in DOMAIN ack_timestamp[s] /\ ack_timestamp[s] \in Partial(1..MaxRouted)
      BY <1>2, <2>0, <2>3
    <3>2. ack_timestamp[s][t] \in 1..MaxRouted
      BY <3>1, BindPartial, Zenon
    <3>3. ack_timestamp[s][t] <= taken[s][t]
      BY <3>1 DEF AcksEarned
    <3> QED BY <2>2, <2>3, <3>2, <3>3
  <2>4. CASE InPacket(x)
    <3>1. /\ ack_timestamp' = [ack_timestamp EXCEPT ![x] =
                Bind(@, Head(queue[x]).msg.shard, Head(queue[x]).msg.seqno)]
          /\ taken' = [taken EXCEPT ![x][Head(queue[x]).msg.shard] = Head(queue[x]).msg.seqno]
      BY <2>4 DEF InPacket
    <3>2. CASE x = s /\ t = Head(queue[x]).msg.shard
      <4>1. ack_timestamp'[s] = Bind(ack_timestamp[s], t, Head(queue[x]).msg.seqno)
        BY <2>0, <3>1, <3>2
      <4>2. ack_timestamp'[s][t] = Head(queue[x]).msg.seqno
        BY <4>1 DEF Bind
      <4>3. taken'[s][t] = Head(queue[x]).msg.seqno
        BY <2>0, <3>1, <3>2
      <4> QED BY <2>2, <4>2, <4>3
    <3>3. CASE x = s /\ t # Head(queue[x]).msg.shard
      <4>1. ack_timestamp'[s] = Bind(ack_timestamp[s], Head(queue[x]).msg.shard, Head(queue[x]).msg.seqno)
        BY <2>0, <3>1, <3>3
      <4>2. t \in DOMAIN ack_timestamp[s] /\ ack_timestamp'[s][t] = ack_timestamp[s][t]
        BY <1>2, <3>3, <4>1 DEF Bind
      <4>3. ack_timestamp[s][t] \in 1..MaxRouted
        <5>1. ack_timestamp[s] \in Partial(1..MaxRouted)
          BY <2>0
        <5> QED BY <4>2, <5>1, BindPartial, Zenon
      <4>4. ack_timestamp[s][t] <= taken[s][t]
        BY <4>2 DEF AcksEarned
      <4> QED BY <2>2, <4>2, <4>3, <4>4
    <3>4. CASE x # s
      BY <2>0, <2>3, <3>1, <3>4
    <3> QED BY <3>2, <3>3, <3>4
  <2>5. CASE InDone(x)
    <3>1. ack_timestamp' = [ack_timestamp EXCEPT ![x] = Nothing]
      BY <2>5 DEF InDone
    <3>2. DOMAIN Nothing = {}
      BY DEF Nothing
    <3> QED BY <1>2, <2>0, <2>3, <3>1, <3>2
  <2>6. ASSUME ~InPacket(x), ~InDone(x) PROVE ack_timestamp' = ack_timestamp
    BY <2>1, <2>6, Zenon DEF Loop, RouteToClient, RouteQos2, RemoveSession, RouteDone, TrySend, NextQueue, InLocalAck
  <2> QED BY <2>3, <2>4, <2>5, <2>6
<1> QED BY <1>1, <1>2 DEF AllFine, AcksEarned
-----------------------------------------------------------------------------
\* At the start nothing is on its way.
LEMMA InitWays ==
    ASSUME Init, NEW s \in Shards, NEW t \in Shards
    PROVE  PacketsOnTheWay(s, t) = <<>>
<1>1. queue[t] = <<>> /\ shard_back_log[s][t] = <<>>
  BY DEF Init
<1>2. <<>> \in Seq(Entries) /\ <<>> \in Seq(Msgs) /\ Len(<<>>) = 0
  OBVIOUS
<1>3. From(s, <<>>) = <<>>
  <2>1. Payload(s) \in [Sent(s) -> Msgs]
    BY SelectTypes
  <2>2. Pick(<<>>, Sent(s), Payload(s)) = <<>>
    BY <1>2, <2>1, PickEmpty, Zenon
  <2> QED BY <1>2, <2>2, FromDef, Zenon
<1>4. Numbers(<<>>) = <<>>
  <2>1. SeqnoOf \in [Pkts -> Nat]
    BY SelectTypes
  <2>2. Pick(<<>>, Pkts, SeqnoOf) = <<>>
    BY <1>2, <2>1, PickEmpty, Zenon
  <2> QED BY <1>2, <2>2, NumbersDef, Zenon
<1>5. <<>> \o <<>> = <<>>
  OBVIOUS
<1> QED BY <1>1, <1>3, <1>4, <1>5 DEF PacketsOnTheWay, OnTheWay

\* The inductive invariant: the packets on their way from one shard to another
\* rise from the last one taken to the next one to be routed, packets name the
\* shard they come from, and acknowledgements name packets that were taken.
THEOREM Invariance == Spec => []IInv
<1>1. Init => IInv
  <2>1. SUFFICES ASSUME Init PROVE IInv
    OBVIOUS
  <2>2. Types
    BY <2>1, TypesInit
  <2>3. AllFine
    BY <2>1 DEF Init, AllFine, FineLink
  <2>4. AcksEarned
    BY <2>1 DEF Init, AcksEarned, Nothing
  <2>5. Ordered
    BY <2>1, InitWays DEF Ordered, Rising
  <2>6. TakenRouted
    BY <2>1 DEF Init, TakenRouted
  <2> QED BY <2>2, <2>3, <2>4, <2>5, <2>6 DEF IInv
<1>2. IInv /\ [Next]_vars => IInv'
  <2>1. SUFFICES ASSUME IInv, [Next]_vars PROVE IInv'
    OBVIOUS
  <2>2. Types /\ AllFine /\ AcksEarned /\ Ordered /\ TakenRouted
    BY <2>1 DEF IInv
  <2>3. CASE Next
    <3>1. /\ Types'
          /\ Stays \/ \E s, t \in Shards : Sends(s, t) \/ TakesNext(s, t)
      BY <2>2, <2>3, StepKinds
    <3>2. Ordered' /\ TakenRouted' /\ \A s, t \in Shards : taken[t][s] <= taken'[t][s]
      BY <2>2, <3>1, OrderedStep
    <3>3. AllFine' /\ AcksEarned'
      BY <2>2, <2>3, <3>1, <3>2, FineStep
    <3> QED BY <3>1, <3>2, <3>3 DEF IInv
  <2>4. CASE UNCHANGED vars
    <3>1. /\ queue' = queue /\ shard_back_log' = shard_back_log /\ seqno' = seqno /\ taken' = taken
          /\ ack_timestamp' = ack_timestamp
      BY <2>4 DEF vars
    <3>2. Stays
      BY <3>1, UntouchedStays
    <3>3. Ordered' /\ TakenRouted'
      BY <2>2, <3>2, OrderedStep
    <3>4. AllFine' /\ AcksEarned'
      BY <2>2, <3>1 DEF AllFine, AcksEarned
    <3>5. Types'
      BY <2>2, <2>4 DEF vars, Types, Phases, Hosts, Books, Links, Seen
    <3> QED BY <3>3, <3>4, <3>5 DEF IInv
  <2> QED BY <2>1, <2>3, <2>4
<1> QED BY <1>1, <1>2, PTL DEF Spec

\* Every phase, map, back log and queue stays of its kind, no queue gets longer
\* than its bound, and no number exceeds that of the packets routed.
THEOREM TypeCorrect == Spec => []TypeOK
<1>1. IInv => TypeOK
  <2>1. SUFFICES ASSUME IInv PROVE TypeOK
    OBVIOUS
  <2>2. Phases /\ Hosts /\ Books /\ Links /\ Seen
    BY <2>1 DEF IInv, Types
  <2>3. \A s \in Shards : sessions[s] \subseteq {c \in Clients : shard_id(c) = s}
    BY <2>2 DEF Hosts
  <2>4. \A s \in Shards : \A t \in DOMAIN timestamp[s] :
            t \in Shards /\ timestamp[s][t] \in [routed : Seqnos, acked : 0..MaxRouted]
    <3>1. \A s \in Shards : timestamp[s] \in Partial(Stamps)
      BY <2>2 DEF Books
    <3>2. \A s \in Shards : \A t \in DOMAIN timestamp[s] : t \in Shards /\ timestamp[s][t] \in Stamps
      BY <3>1, BindPartial
    <3> QED BY <3>2 DEF Stamps
  <2>5. \A s \in Shards : \A t \in DOMAIN ack_timestamp[s] : t \in Shards /\ ack_timestamp[s][t] \in Seqnos
    <3>1. \A s \in Shards : ack_timestamp[s] \in Partial(1..MaxRouted)
      BY <2>2 DEF Books
    <3>2. \A s \in Shards : \A t \in DOMAIN ack_timestamp[s] :
              t \in Shards /\ ack_timestamp[s][t] \in 1..MaxRouted
      BY <3>1, BindPartial, Zenon
    <3>3. \A n \in 1..MaxRouted : n \in Seqnos
      BY SizesPositive DEF Seqnos
    <3> QED BY <3>2, <3>3
  <2>6. \A s, t \in Shards : \A i \in DOMAIN shard_back_log[s][t] :
            shard_back_log[s][t][i] \in Packets \cup LocalAcks
    <3>1. \A s, t \in Shards : shard_back_log[s][t] \in Seq(Msgs)
      BY <2>2 DEF Links
    <3>2. \A b \in Seq(Msgs) : \A i \in DOMAIN b : b[i] \in Msgs
      OBVIOUS
    <3> QED BY <3>1, <3>2 DEF Msgs
  <2>7. \A t \in Shards : /\ Len(queue[t]) <= QueueSize
                          /\ \A i \in DOMAIN queue[t] : queue[t][i] \in Entries
    <3>1. \A t \in Shards : queue[t] \in Seq(Entries) /\ Len(queue[t]) <= QueueSize
      BY <2>2 DEF Links
    <3>2. \A q \in Seq(Entries) : \A i \in DOMAIN q : q[i] \in Entries
      OBVIOUS
    <3> QED BY <3>1, <3>2
  <2> QED BY <2>2, <2>3, <2>4, <2>5, <2>6, <2>7 DEF Phases, Books, Seen, TypeOK
<1> QED BY <1>1, Invariance, PTL

\* A LocalAck on its way from t to s names a packet that t has taken, and every
\* packet still on its way from s to t comes after that one.
THEOREM AcksFollow == Spec => []AcksFollowPackets
<1>1. IInv => AcksFollowPackets
  <2>1. SUFFICES ASSUME IInv, NEW s \in Shards, NEW t \in Shards,
                        NEW i \in DOMAIN OnTheWay(t, s), OnTheWay(t, s)[i].type = "local_ack"
                 PROVE  /\ OnTheWay(t, s)[i].last_received_ack <= taken[t][s]
                        /\ \A j \in DOMAIN PacketsOnTheWay(s, t) :
                               PacketsOnTheWay(s, t)[j] > OnTheWay(t, s)[i].last_received_ack
    BY DEF AcksFollowPackets
  <2> DEFINE q == queue[s]
             b == shard_back_log[t][s]
             f == From(t, q)
             m == OnTheWay(t, s)[i]
             ack == taken[t][s]
             c == PacketsOnTheWay(s, t)
  <2>2. q \in Seq(Entries) /\ b \in Seq(Msgs) /\ ack \in Nat
    BY <2>1, SizesPositive DEF IInv, Types, Links, Seen
  <2>3. f \in Seq(Msgs)
    BY <2>2, FromType
  <2>4. FineLink(t, q, b, ack)
    BY <2>1 DEF IInv, AllFine
  <2>5. OnTheWay(t, s) = f \o b
    BY DEF OnTheWay
  <2> HIDE DEF q, b, f, ack
  <2>6. \/ i \in 1..Len(f) /\ m = f[i]
        \/ \E j \in 1..Len(b) : m = b[j]
    BY <2>1, <2>2, <2>3, <2>5, ConcatProperties
  <2>7. m \in Msgs
    BY <2>2, <2>3, <2>6
  <2> HIDE DEF m
  <2>8. Fine(m, t, ack)
    <3>1. CASE i \in 1..Len(f) /\ m = f[i]
      <4>1. \E j \in 1..Len(q) : q[j].from = t /\ f[i] = q[j].msg
        BY <2>2, <3>1, FromElements DEF f
      <4> QED BY <2>4, <3>1, <4>1 DEF FineLink
    <3>2. CASE \E j \in 1..Len(b) : m = b[j]
      BY <2>4, <3>2 DEF FineLink
    <3> QED BY <2>6, <3>1, <3>2
  <2>9. m.type = "local_ack"
    BY <2>1 DEF m
  <2>10. m.last_received_ack <= ack
    BY <2>8, <2>9 DEF Fine
  <2>11. m.last_received_ack \in Nat
    <3>1. m \in LocalAcks
      BY <2>7, <2>9, MsgFields
    <3> QED BY <3>1 DEF LocalAcks
  <2>12. \A j \in DOMAIN c : c[j] > m.last_received_ack
    <3>1. Rising(c, ack, seqno[s])
      BY <2>1 DEF IInv, Ordered, ack
    <3>2. c \in Seq(Nat)
      BY <2>1, OrderTypes DEF IInv
    <3> HIDE DEF c
    <3>3. DOMAIN c = 1..Len(c) /\ \A j \in 1..Len(c) : c[j] \in Nat
      BY <3>2
    <3>4. \A j \in DOMAIN c : c[j] \in Nat /\ ack < c[j]
      BY <3>1, <3>3 DEF Rising
    <3> QED BY <2>2, <2>10, <2>11, <3>4
  <2> QED BY <2>10, <2>12 DEF m, ack
<1> QED BY <1>1, Invariance, PTL

\* The channels between the shards, as Channels.tla sees them.
Ways == [s \in Shards |-> [t \in Shards |-> PacketsOnTheWay(s, t)]]

\* Changing one channel.
LEMMA OneWay ==
    ASSUME NEW s \in Shards, NEW t \in Shards, OthersStay(s, t)
    PROVE  Ways' = [Ways EXCEPT ![s][t] = PacketsOnTheWay(s, t)']
<1> DEFINE new == [Ways EXCEPT ![s][t] = PacketsOnTheWay(s, t)']
<1>1. Ways' = [r \in Shards |-> [u \in Shards |-> PacketsOnTheWay(r, u)']]
  BY DEF Ways
<1>2. new = [r \in Shards |-> [u \in Shards |-> IF r = s /\ u = t THEN PacketsOnTheWay(s, t)'
                                                ELSE PacketsOnTheWay(r, u)]]
  BY Zenon DEF Ways
<1>3. \A r, u \in Shards : PacketsOnTheWay(r, u)' = IF r = s /\ u = t THEN PacketsOnTheWay(s, t)'
                                                    ELSE PacketsOnTheWay(r, u)
  BY DEF OthersStay
<1> HIDE DEF new
<1>4. Ways' = new
  BY <1>1, <1>2, <1>3
<1> QED BY <1>4 DEF new

\* Every step of the shards is a step of the channels, or none.
LEMMA StepSimulates ==
    ASSUME IInv, [Next]_vars
    PROVE  [Chan!Next]_(Chan!vars)
<1>1. Stays \/ \E s, t \in Shards : Sends(s, t) \/ TakesNext(s, t)
  <2>1. CASE Next
    BY <2>1, StepKinds DEF IInv
  <2>2. CASE UNCHANGED vars
    <3>1. queue' = queue /\ shard_back_log' = shard_back_log /\ seqno' = seqno /\ taken' = taken
      BY <2>2 DEF vars
    <3> QED BY <3>1, UntouchedStays
  <2> QED BY <2>1, <2>2
<1>2. CASE Stays
  <2>1. Ways' = Ways
    BY <1>2 DEF Stays, Ways
  <2> QED BY <1>2, <2>1 DEF Stays, Chan!vars, Ways
<1>3. ASSUME NEW s \in Shards, NEW t \in Shards, Sends(s, t)
      PROVE  Chan!Send(s, t)
  <2>1. Ways[s][t] = PacketsOnTheWay(s, t)
    BY DEF Ways
  <2>2. Ways' = [Ways EXCEPT ![s][t] = PacketsOnTheWay(s, t)']
    BY <1>3, OneWay DEF Sends
  <2>3. Ways' = [Ways EXCEPT ![s][t] = Append(@, seqno[s])]
    BY <1>3, <2>1, <2>2 DEF Sends
  <2> QED BY <1>3, <2>3 DEF Sends, Chan!Send, Ways
<1>4. ASSUME NEW s \in Shards, NEW t \in Shards, TakesNext(s, t)
      PROVE  Chan!Take(t, s)
  <2>1. Ways[s][t] = PacketsOnTheWay(s, t)
    BY DEF Ways
  <2>2. Ways' = [Ways EXCEPT ![s][t] = PacketsOnTheWay(s, t)']
    BY <1>4, OneWay DEF TakesNext
  <2>3. Ways' = [Ways EXCEPT ![s][t] = Tail(@)]
    BY <1>4, <2>1, <2>2 DEF TakesNext
  <2>4. Ways[s][t] # <<>> /\ taken' = [taken EXCEPT ![t][s] = Head(Ways[s][t])] /\ seqno' = seqno
    BY <1>4, <2>1 DEF TakesNext
  <2> QED BY <2>3, <2>4 DEF Chan!Take, Ways
<1> QED BY <1>1, <1>2, <1>3, <1>4 DEF Chan!Next

\* The back logs, the queues and the main loops of the shards, whatever fills up
\* and whoever stops, implement FIFO channels: a packet is neither lost, nor
\* sent twice, nor overtaken.
THEOREM Refinement == Spec => ImplementsChannels
<1>1. Init => Chan!Init
  <2>1. SUFFICES ASSUME Init PROVE Chan!Init
    OBVIOUS
  <2>2. Ways = [s \in Shards |-> [t \in Shards |-> <<>>]]
    BY <2>1, InitWays DEF Ways
  <2> QED BY <2>1, <2>2 DEF Init, Chan!Init, Ways
<1>2. IInv /\ [Next]_vars => [Chan!Next]_(Chan!vars)
  BY StepSimulates
<1> QED BY <1>1, <1>2, Invariance, PTL DEF Spec, ImplementsChannels, Chan!Spec
=============================================================================
