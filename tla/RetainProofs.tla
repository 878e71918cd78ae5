---------------------------- MODULE RetainProofs ----------------------------
(***************************************************************************)
(* Theorems about Retain.tla, for any set of topic names, any message      *)
(* expiry intervals and any lengths of the channel.                        *)
(***************************************************************************)
EXTENDS Retain, DataLemmas

Requests == [op : {"set"}, topic : TopicNames, id : Ids, secs : Secs \cup {NoExpiry}]
                \cup [op : {"reset"}, topic : TopicNames]
Retains == [topic : TopicNames, id : Ids]

Types == /\ phase \in {"poll", "drain", "expire", "panic"}
         /\ chan \in Seq(Requests)
         /\ list \in Lists(Retains) /\ deleted \subseteq Retains
         /\ elapsed \in 0..MaxElapsed
         /\ Trie(trie) /\ Topics(trie) \subseteq TopicNames

\* The index maps a topic to a Retain of that topic.
Indexed == /\ retain_topics = [t \in DOMAIN retain_topics |-> retain_topics[t]]
           /\ DOMAIN retain_topics \subseteq TopicNames
           /\ \A t \in DOMAIN retain_topics : retain_topics[t] = Retain(t, retain_topics[t].id)

\* While the thread lives, the trie holds what the index names.
Held(T, idx) == \A t \in TopicNames :
                    ValuesAt(T, t) = IF t \in DOMAIN idx THEN {idx[t].id} ELSE {}

\* The request i is the last one for its topic.
LastFor(i, c) == \A j \in i + 1..Len(c) : c[j].topic # c[i].topic

\* What the last request for a topic asks for is what has been posted last;
\* without one, that has been done.
Pending(c, idx, posted) ==
    /\ posted = [t \in DOMAIN posted |-> posted[t]] /\ DOMAIN posted \subseteq TopicNames
    /\ \A i \in 1..Len(c) :
         LastFor(i, c) => IF c[i].op = "set"
                          THEN c[i].topic \in DOMAIN posted /\ posted[c[i].topic] = c[i].id
                          ELSE c[i].topic \notin DOMAIN posted
    /\ \A t \in TopicNames :
         (\A i \in 1..Len(c) : c[i].topic # t) =>
             /\ t \in DOMAIN posted <=> t \in DOMAIN idx
             /\ t \in DOMAIN posted => posted[t] = idx[t].id

IInv == /\ Types /\ Indexed /\ TimersAreCurrent
        /\ phase # "panic" => Held(trie, retain_topics)
        /\ Pending(chan, retain_topics, last)
-----------------------------------------------------------------------------
(* The requests and what becomes of them.                                  *)

\* The fields of the requests that book_retain posts.
LEMMA RequestFields ==
    ASSUME NEW r \in Requests
    PROVE  /\ r.op \in {"set", "reset"} /\ r.topic \in TopicNames
           /\ r.op = "set" => r.id \in Ids /\ r.secs \in Secs \cup {NoExpiry}
BY DEF Requests

\* f and g agree on everything but t.
But(f, g, t) == \A u : u # t => /\ u \in DOMAIN f <=> u \in DOMAIN g
                                /\ u \in DOMAIN f => f[u] = g[u]

\* A request that is posted last decides for its topic (PostSet and PostReset).
LEMMA PostPending ==
    ASSUME NEW c \in Seq(Requests), NEW idx, NEW posted, Pending(c, idx, posted),
           NEW r \in Requests, NEW new, But(posted, new, r.topic),
           new = [t \in DOMAIN new |-> new[t]], DOMAIN new \subseteq TopicNames,
           IF r.op = "set" THEN r.topic \in DOMAIN new /\ new[r.topic] = r.id
                           ELSE r.topic \notin DOMAIN new
    PROVE  Pending(Append(c, r), idx, new)
<1> DEFINE d == Append(c, r)
           N == Len(c)
<1>1. N \in Nat /\ Len(d) = N + 1 /\ d[N + 1] = r /\ \A i \in 1..N : d[i] = c[i]
  OBVIOUS
<1> HIDE DEF d, N
<1>2. ASSUME NEW i \in 1..N + 1, LastFor(i, d)
      PROVE  IF d[i].op = "set" THEN d[i].topic \in DOMAIN new /\ new[d[i].topic] = d[i].id
                                ELSE d[i].topic \notin DOMAIN new
  <2>1. CASE i = N + 1
    BY <1>1, <2>1
  <2>2. CASE i # N + 1
    <3>1. i \in 1..N /\ N + 1 \in i + 1..N + 1
      BY <2>2, <1>1
    <3>2. d[i] = c[i] /\ c[i].topic # r.topic
      BY <3>1, <1>1, <1>2 DEF LastFor
    <3>3. ASSUME NEW j \in i + 1..N PROVE c[j].topic # c[i].topic
      <4>1. j \in i + 1..N + 1 /\ j \in 1..N
        BY <1>1, <3>1
      <4>2. d[j].topic # d[i].topic
        BY <4>1, <1>1, <1>2 DEF LastFor
      <4> QED BY <4>1, <4>2, <3>1, <1>1
    <3>4. LastFor(i, c)
      BY <3>3 DEF LastFor, N
    <3>5. IF c[i].op = "set" THEN c[i].topic \in DOMAIN posted /\ posted[c[i].topic] = c[i].id
                             ELSE c[i].topic \notin DOMAIN posted
      BY <3>1, <3>4 DEF Pending, N
    <3>6. /\ c[i].topic \in DOMAIN posted <=> c[i].topic \in DOMAIN new
          /\ c[i].topic \in DOMAIN posted => posted[c[i].topic] = new[c[i].topic]
      BY <3>2 DEF But
    <3> QED BY <3>2, <3>5, <3>6
  <2> QED BY <2>1, <2>2
<1>3. ASSUME NEW t \in TopicNames, \A i \in 1..N + 1 : d[i].topic # t
      PROVE  /\ t \in DOMAIN new <=> t \in DOMAIN idx
             /\ t \in DOMAIN new => new[t] = idx[t].id
  <2>1. t # r.topic
    <3>1. N + 1 \in 1..N + 1
      BY <1>1
    <3> QED BY <3>1, <1>1, <1>3
  <2>2. \A i \in 1..N : i \in 1..N + 1
    BY <1>1
  <2>3. \A i \in 1..Len(c) : c[i].topic # t
    BY <2>2, <1>1, <1>3 DEF N
  <2> QED BY <2>1, <2>3 DEF But, Pending
<1> QED BY <1>1, <1>2, <1>3 DEF Pending, d

\* A request that is handled is done: the index has what it asks for (HandleSet and
\* HandleReset).
LEMMA HandlePending ==
    ASSUME NEW c \in Seq(Requests), c # <<>>, NEW idx, NEW posted, Pending(c, idx, posted),
           NEW new, But(idx, new, Head(c).topic),
           IF Head(c).op = "set" THEN Head(c).topic \in DOMAIN new /\ new[Head(c).topic].id = Head(c).id
                                 ELSE Head(c).topic \notin DOMAIN new
    PROVE  Pending(Tail(c), new, posted)
<1> DEFINE d == Tail(c)
           N == Len(c)
           r == Head(c)
<1>1. N \in Nat /\ N > 0 /\ Len(d) = N - 1 /\ r = c[1] /\ \A i \in 1..N - 1 : d[i] = c[i + 1]
  OBVIOUS
<1>2. d \in Seq(Requests)
  OBVIOUS
<1> HIDE DEF d, N
<1>3. ASSUME NEW i \in 1..N - 1, LastFor(i, d)
      PROVE  IF d[i].op = "set" THEN d[i].topic \in DOMAIN posted /\ posted[d[i].topic] = d[i].id
                                ELSE d[i].topic \notin DOMAIN posted
  <2>1. i + 1 \in 1..N /\ d[i] = c[i + 1]
    BY <1>1
  <2>2. ASSUME NEW j \in i + 1 + 1..N PROVE c[j].topic # c[i + 1].topic
    <3>1. j - 1 \in i + 1..N - 1 /\ j - 1 \in 1..N - 1 /\ (j - 1) + 1 = j
      BY <1>1
    <3>2. d[j - 1] = c[j]
      BY <3>1, <1>1, Zenon
    <3>3. d[j - 1].topic # d[i].topic
      BY <3>1, <1>1, <1>3 DEF LastFor
    <3> QED BY <3>2, <3>3, <2>1
  <2>3. LastFor(i + 1, c)
    BY <2>2 DEF LastFor, N
  <2> QED BY <2>1, <2>3 DEF Pending, N
<1>4. ASSUME NEW t \in TopicNames, \A i \in 1..N - 1 : d[i].topic # t
      PROVE  /\ t \in DOMAIN posted <=> t \in DOMAIN new
             /\ t \in DOMAIN posted => posted[t] = new[t].id
  <2>1. ASSUME NEW j \in 1 + 1..N PROVE c[j].topic # t
    <3>1. j - 1 \in 1..N - 1 /\ (j - 1) + 1 = j
      BY <1>1
    <3> QED BY <3>1, <1>1, <1>4, Zenon
  <2>2. CASE t = r.topic
    <3>1. LastFor(1, c) /\ 1 \in 1..N
      BY <2>1, <2>2, <1>1 DEF LastFor, N
    <3>2. IF r.op = "set" THEN t \in DOMAIN posted /\ posted[t] = r.id ELSE t \notin DOMAIN posted
      BY <3>1, <1>1, <2>2 DEF Pending, N
    <3> QED BY <3>2, <2>2
  <2>3. CASE t # r.topic
    <3>1. \A i \in 1..N : i = 1 \/ i \in 1 + 1..N
      BY <1>1
    <3>2. \A i \in 1..Len(c) : c[i].topic # t
      BY <3>1, <2>1, <2>3, <1>1 DEF N
    <3>3. /\ t \in DOMAIN posted <=> t \in DOMAIN idx
          /\ t \in DOMAIN posted => posted[t] = idx[t].id
      BY <3>2 DEF Pending
    <3>4. /\ t \in DOMAIN idx <=> t \in DOMAIN new
          /\ t \in DOMAIN idx => idx[t] = new[t]
      BY <2>3 DEF But
    <3> QED BY <3>3, <3>4
  <2> QED BY <2>2, <2>3
<1> QED BY <1>1, <1>3, <1>4 DEF Pending, d
-----------------------------------------------------------------------------
(* The steps.                                                              *)

\* Topic names are paths of the trie.
LEMMA NamesArePaths == TopicNames \subseteq Paths
BY RetainSizes DEF Paths

\* Expiring nothing leaves the trie as it is.
LEMMA FoldNothing ==
    ASSUME NEW T
    PROVE  FoldSet(LAMBDA t, U : remove(U, t), T, {}) = T
<1> DEFINE F(f) == [s \in SUBSET {} |-> IF s = {} THEN T
                                        ELSE remove(f[s \ {CHOOSE x \in s : TRUE}], CHOOSE x \in s : TRUE)]
           f == CHOOSE f : f = F(f)
           g == [s \in SUBSET {} |-> T]
<1>1. SUBSET {} = {{}}
  OBVIOUS
<1>2. g = F(g)
  BY <1>1
<1>3. f = F(f)
  BY <1>2, Zenon
<1>4. f[{}] = T
  <2>1. F(f)[{}] = T
    BY <1>1
  <2> QED BY <1>3, <2>1, Zenon
<1> QED BY <1>4 DEF FoldSet, MapThenFoldSet

\* The number of a new message is one that no other has.
LEMMA FreshIds ==
    ASSUME NEW t, Fresh(t) # {}
    PROVE  Min(Fresh(t)) \in Ids
<1>1. Fresh(t) \in SUBSET Nat /\ Fresh(t) \subseteq Ids
  BY RetainSizes, Zenon DEF Fresh
<1>2. PICK n \in Fresh(t) : \A m \in Fresh(t) : n <= m
  BY <1>1, Least
<1> QED BY <1>1, <1>2 DEF Min

\* The invariant at the start.
LEMMA InitInv == Init => IInv
<1> SUFFICES ASSUME Init PROVE IInv
  OBVIOUS
<1>1. /\ phase = "poll" /\ chan = <<>> /\ trie = Empty
      /\ list = <<>> /\ elapsed = 0 /\ deleted = {}
      /\ DOMAIN retain_topics = {} /\ DOMAIN last = {}
      /\ retain_topics = [t \in {} |-> Retain(t, 0)] /\ last = [t \in {} |-> 0]
  BY DEF Init
<1>2. /\ <<>> \in Seq(Requests) /\ <<>> \in Seq(Items(Retains)) /\ Len(<<>>) = 0
      /\ DOMAIN <<>> = {}
  BY EmptySeq
<1>3. Types
  <2>1. Trie(trie) /\ Topics(trie) \subseteq TopicNames
    BY <1>1, EmptyTrie
  <2>2. elapsed \in 0..MaxElapsed
    BY <1>1, RetainSizes
  <2>3. phase \in {"poll", "drain", "expire", "panic"} /\ deleted \subseteq Retains
    BY <1>1
  <2> QED BY <2>1, <2>2, <2>3, <1>1, <1>2 DEF Types, Lists
<1>4. Indexed
  BY <1>1 DEF Indexed
<1>5. TimersAreCurrent
  BY <1>1, <1>2 DEF TimersAreCurrent, ValuesOf
<1>6. Held(trie, retain_topics)
  BY <1>1 DEF Held, Empty, ValuesAt
<1>7. Pending(chan, retain_topics, last)
  BY <1>1, <1>2 DEF Pending
<1> QED BY <1>3, <1>4, <1>5, <1>6, <1>7 DEF IInv

\* book_retain of a message keeps the invariant.
LEMMA PostSetStep ==
    ASSUME IInv, NEW t \in TopicNames, NEW secs \in Secs \cup {NoExpiry}, PostSet(t, secs)
    PROVE  IInv'
<1> DEFINE id == Min(Fresh(t))
           r == SetRetainTopic(t, id, secs)
<1>1. /\ id \in Ids /\ chan' = Append(chan, r)
      /\ last' = [u \in DOMAIN last \cup {t} |-> IF u = t THEN id ELSE last[u]]
      /\ UNCHANGED <<phase, retain_topics, trie, list, elapsed, deleted>>
  BY FreshIds DEF PostSet, timer
<1> HIDE DEF id
<1>2. chan \in Seq(Requests) /\ DOMAIN last \subseteq TopicNames
  BY DEF IInv, Types, Pending
<1>3. r \in Requests /\ r.topic = t /\ r.op = "set" /\ r.id = id
  BY <1>1 DEF Requests, SetRetainTopic
<1>4. chan' \in Seq(Requests)
  BY <1>1, <1>2, <1>3, AppendProperties
<1>5. Types' /\ Indexed' /\ TimersAreCurrent'
  BY <1>1, <1>4 DEF IInv, Types, Indexed, TimersAreCurrent
<1>6. phase' # "panic" => Held(trie, retain_topics)'
  BY <1>1 DEF IInv, Held
<1> HIDE DEF r
<1>7. Pending(Append(chan, r), retain_topics, last')
  <2>1. But(last, last', t)
    BY <1>1 DEF But
  <2>2. last' = [u \in DOMAIN last' |-> last'[u]] /\ DOMAIN last' \subseteq TopicNames
    BY <1>1, <1>2
  <2>3. t \in DOMAIN last' /\ last'[t] = id
    BY <1>1
  <2>4. Pending(chan, retain_topics, last)
    BY DEF IInv
  <2> QED BY <2>1, <2>2, <2>3, <2>4, <1>2, <1>3, PostPending
<1>8. Pending(chan, retain_topics, last)'
  BY <1>1, <1>7
<1> QED BY <1>5, <1>6, <1>8 DEF IInv

\* book_retain of an empty message keeps the invariant.
LEMMA PostResetStep ==
    ASSUME IInv, NEW t \in TopicNames, PostReset(t)
    PROVE  IInv'
<1> DEFINE r == ResetRetainTopic(t)
<1>1. /\ chan' = Append(chan, r) /\ last' = [u \in DOMAIN last \ {t} |-> last[u]]
      /\ UNCHANGED <<phase, retain_topics, trie, list, elapsed, deleted>>
  BY DEF PostReset, Without, timer
<1>2. chan \in Seq(Requests) /\ DOMAIN last \subseteq TopicNames
  BY DEF IInv, Types, Pending
<1>3. r \in Requests /\ r.topic = t /\ r.op = "reset"
  BY <1>1 DEF Requests, ResetRetainTopic
<1>4. chan' \in Seq(Requests)
  BY <1>1, <1>2, <1>3, AppendProperties
<1>5. Types' /\ Indexed' /\ TimersAreCurrent'
  BY <1>1, <1>4 DEF IInv, Types, Indexed, TimersAreCurrent
<1>6. phase' # "panic" => Held(trie, retain_topics)'
  BY <1>1 DEF IInv, Held
<1> HIDE DEF r
<1>7. Pending(Append(chan, r), retain_topics, last')
  <2>1. But(last, last', t)
    BY <1>1 DEF But
  <2>2. last' = [u \in DOMAIN last' |-> last'[u]] /\ DOMAIN last' \subseteq TopicNames
    BY <1>1, <1>2
  <2>3. t \notin DOMAIN last' /\ r.op # "set"
    BY <1>1, <1>3
  <2>4. Pending(chan, retain_topics, last)
    BY DEF IInv
  <2> QED BY <2>1, <2>2, <2>3, <2>4, <1>2, <1>3, PostPending
<1>8. Pending(chan, retain_topics, last)'
  BY <1>1, <1>7
<1> QED BY <1>5, <1>6, <1>8 DEF IInv

\* handle_set_retain_topic: the message goes into the index and the trie together, and the
\* timer of the one it replaces is marked.
LEMMA HandleSetStep == ASSUME IInv, HandleSet PROVE IInv'
<1> DEFINE r == Head(chan)
           t == r.topic
           new == Retain(t, r.id)
           n == saturating_sub(r.secs, elapsed)
<1>1. /\ phase = "drain" /\ chan # <<>> /\ r.op = "set"
      /\ retain_topics' = [u \in DOMAIN retain_topics \cup {t} |->
                              IF u = t THEN new ELSE retain_topics[u]]
      /\ deleted' = deleted \cup Replaced(t)
      /\ trie' = Put(trie, t, {r.id})
      /\ list' = IF r.secs = NoExpiry THEN list ELSE add_timeout(list, n, new)
      /\ chan' = Tail(chan) /\ UNCHANGED <<phase, elapsed, last>>
  BY DEF HandleSet, handle_set_retain_topic, set
<1>2. /\ chan \in Seq(Requests) /\ list \in Lists(Retains) /\ deleted \subseteq Retains
      /\ Trie(trie) /\ Topics(trie) \subseteq TopicNames /\ elapsed \in Nat
  BY RetainSizes DEF IInv, Types
<1>3. r \in Requests /\ chan' \in Seq(Requests)
  BY <1>1, <1>2, HeadTailProperties
<1>4. t \in TopicNames /\ r.id \in Ids /\ r.secs \in Secs \cup {NoExpiry}
  BY <1>1, <1>3, RequestFields
<1> HIDE DEF r
<1>5. new \in Retains /\ new.topic = t /\ new.id = r.id
  BY <1>4 DEF Retain, Retains
<1>6. r.secs # NoExpiry => n \in Nat
  <2>1. r.secs # NoExpiry => r.secs \in Nat
    BY <1>4, Intervals, Zenon
  <2>2. \A a, b \in Nat : saturating_sub(a, b) \in Nat
    BY DEF saturating_sub
  <2> QED BY <2>1, <2>2, <1>2, Zenon
<1> HIDE DEF new, n, t
<1>7. list' \in Lists(Retains) /\ ValuesOf(list') \subseteq ValuesOf(list) \cup {new}
  <2>1. CASE r.secs = NoExpiry
    BY <2>1, <1>1, <1>2
  <2>2. CASE r.secs # NoExpiry
    BY <2>2, <1>1, <1>2, <1>5, <1>6, AddTimeoutDef, AddTimeoutValues
  <2> QED BY <2>1, <2>2
<1>8. ValuesOf(list) \subseteq Retains
  BY <1>2, ListItems DEF ValuesOf
<1>9. Trie(trie') /\ Topics(trie') = Topics(trie) \cup {t}
  <2>1. {r.id} # {} /\ \A v, w \in {r.id} : SameKey(v, w) => v = w
    OBVIOUS
  <2>2. t \in Paths
    BY <1>4, NamesArePaths
  <2> QED BY <2>1, <2>2, <1>1, <1>2, PutTrie, Zenon
<1>10. Types'
  <2>1. deleted' \subseteq Retains
    BY <1>1, <1>2, <1>8 DEF Replaced
  <2> QED BY <2>1, <1>1, <1>3, <1>4, <1>7, <1>9, Zenon DEF IInv, Types
<1>11. Indexed'
  <2>1. DOMAIN retain_topics' = DOMAIN retain_topics \cup {t}
    BY <1>1
  <2>2. retain_topics'[t] = Retain(t, retain_topics'[t].id)
    BY <1>1, <1>5 DEF new
  <2>3. \A u \in DOMAIN retain_topics : u # t => retain_topics'[u] = retain_topics[u]
    BY <1>1
  <2>4. \A u \in DOMAIN retain_topics' : retain_topics'[u] = Retain(u, retain_topics'[u].id)
    BY <2>1, <2>2, <2>3 DEF IInv, Indexed
  <2>5. DOMAIN retain_topics' \subseteq TopicNames
    BY <2>1, <1>4 DEF IInv, Indexed
  <2>6. retain_topics' = [u \in DOMAIN retain_topics' |-> retain_topics'[u]]
    BY <1>1
  <2> QED BY <2>4, <2>5, <2>6 DEF Indexed
<1>12. TimersAreCurrent'
  <2>1. SUFFICES ASSUME NEW v \in ValuesOf(list'), v \notin deleted'
                 PROVE  v.topic \in DOMAIN retain_topics' /\ retain_topics'[v.topic] = v
    BY DEF TimersAreCurrent
  <2>2. CASE v = new
    BY <2>2, <1>1, <1>5
  <2>3. CASE v # new
    <3>1. v \in ValuesOf(list) /\ v \notin deleted /\ v \notin Replaced(t)
      BY <2>1, <2>3, <1>1, <1>7
    <3>2. v.topic \in DOMAIN retain_topics /\ retain_topics[v.topic] = v
      BY <3>1 DEF IInv, TimersAreCurrent
    <3>3. v.topic # t
      BY <3>1, <3>2 DEF Replaced
    <3> QED BY <3>2, <3>3, <1>1
  <2> QED BY <2>2, <2>3
<1>13. Held(trie', retain_topics')
  <2>1. SUFFICES ASSUME NEW u \in TopicNames
                 PROVE  ValuesAt(trie', u) = IF u \in DOMAIN retain_topics' THEN {retain_topics'[u].id} ELSE {}
    BY DEF Held
  <2>2. t \in Paths
    BY <1>4, NamesArePaths
  <2>3. ValuesAt(trie', u) = IF u = t THEN {r.id} ELSE ValuesAt(trie, u)
    BY <2>2, <1>1, PutValues
  <2>4. ValuesAt(trie, u) = IF u \in DOMAIN retain_topics THEN {retain_topics[u].id} ELSE {}
    BY <1>1 DEF IInv, Held
  <2> QED BY <2>3, <2>4, <1>1, <1>5, Zenon
<1>14. Pending(chan', retain_topics', last')
  <2>1. But(retain_topics, retain_topics', t)
    BY <1>1 DEF But
  <2>2. t \in DOMAIN retain_topics' /\ retain_topics'[t].id = r.id
    BY <1>1, <1>5
  <2>3. Pending(chan, retain_topics, last)
    BY DEF IInv
  <2>4. Pending(Tail(chan), retain_topics', last)
    BY <2>1, <2>2, <2>3, <1>1, <1>2, HandlePending DEF t, r
  <2> QED BY <2>4, <1>1
<1> QED BY <1>10, <1>11, <1>12, <1>13, <1>14 DEF IInv

\* handle_reset_retain_topic: the message leaves the index and the trie together, unless
\* the thread panics, and its timer is marked.
LEMMA HandleResetStep == ASSUME IInv, HandleReset PROVE IInv'
<1> DEFINE r == Head(chan)
           t == r.topic
<1>1. /\ phase = "drain" /\ chan # <<>> /\ r.op = "reset"
      /\ retain_topics' = [u \in DOMAIN retain_topics \ {t} |-> retain_topics[u]]
      /\ deleted' = deleted \cup Replaced(t)
      /\ trie' = IF remove_panics(trie, t) THEN trie ELSE remove(trie, t)
      /\ list' = list /\ phase' = IF remove_panics(trie, t) THEN "panic" ELSE "drain"
      /\ chan' = Tail(chan) /\ UNCHANGED <<elapsed, last>>
  BY DEF HandleReset, handle_reset_retain_topic, Without
<1>2. /\ chan \in Seq(Requests) /\ list \in Lists(Retains) /\ deleted \subseteq Retains
      /\ Trie(trie) /\ Topics(trie) \subseteq TopicNames
  BY DEF IInv, Types
<1>3. r \in Requests /\ chan' \in Seq(Requests)
  BY <1>1, <1>2, HeadTailProperties
<1>4. t \in TopicNames
  BY <1>3, RequestFields
<1> HIDE DEF r, t
<1>5. ValuesOf(list) \subseteq Retains
  BY <1>2, ListItems DEF ValuesOf
<1>6. /\ Trie(trie') /\ Topics(trie') \subseteq Topics(trie)
      /\ ~remove_panics(trie, t) => \A q : ValuesAt(trie', q) = IF q = t THEN {} ELSE ValuesAt(trie, q)
  <2>1. CASE remove_panics(trie, t)
    BY <2>1, <1>1, <1>2
  <2>2. CASE ~remove_panics(trie, t) /\ t \notin DOMAIN trie
    BY <2>2, <1>1, <1>2 DEF remove, ValuesAt
  <2>3. CASE ~remove_panics(trie, t) /\ t \in DOMAIN trie
    <3>1. trie' = Prune(Put(trie, t, {}), t) /\ {} \in SUBSET trie[t]
      BY <2>3, <1>1 DEF remove
    <3>2. Trie(Prune(Put(trie, t, {}), t))
      BY <3>1, <2>3, <1>2, PruneTrie
    <3>3. Topics(Prune(Put(trie, t, {}), t)) = Topics(trie) \ {t}
      BY <3>1, <2>3, <1>2, PruneTrie
    <3>4. \A q : ValuesAt(Prune(Put(trie, t, {}), t), q) = IF q = t THEN {} ELSE ValuesAt(trie, q)
      BY <3>1, <2>3, <1>2, PruneTrie
    <3> QED BY <3>1, <3>2, <3>3, <3>4
  <2> QED BY <2>1, <2>2, <2>3
<1>7. Types'
  <2>1. deleted' \subseteq Retains
    BY <1>1, <1>2, <1>5 DEF Replaced
  <2>2. phase' \in {"poll", "drain", "expire", "panic"}
    BY <1>1
  <2> QED BY <2>1, <2>2, <1>1, <1>2, <1>3, <1>6 DEF IInv, Types
<1>8. Indexed'
  BY <1>1 DEF IInv, Indexed
<1>9. TimersAreCurrent'
  <2>1. SUFFICES ASSUME NEW v \in ValuesOf(list), v \notin deleted'
                 PROVE  v.topic \in DOMAIN retain_topics' /\ retain_topics'[v.topic] = v
    BY <1>1, Zenon DEF TimersAreCurrent
  <2>2. v \notin deleted /\ v \notin Replaced(t)
    BY <2>1, <1>1
  <2>3. v.topic \in DOMAIN retain_topics /\ retain_topics[v.topic] = v
    BY <2>1, <2>2 DEF IInv, TimersAreCurrent
  <2>4. v.topic # t
    BY <2>1, <2>2, <2>3 DEF Replaced
  <2> QED BY <2>3, <2>4, <1>1
<1>10. ASSUME phase' # "panic" PROVE Held(trie', retain_topics')
  <2>1. SUFFICES ASSUME NEW u \in TopicNames
                 PROVE  ValuesAt(trie', u) = IF u \in DOMAIN retain_topics' THEN {retain_topics'[u].id} ELSE {}
    BY DEF Held
  <2>2. ValuesAt(trie', u) = IF u = t THEN {} ELSE ValuesAt(trie, u)
    BY <1>1, <1>6, <1>10
  <2>3. ValuesAt(trie, u) = IF u \in DOMAIN retain_topics THEN {retain_topics[u].id} ELSE {}
    BY <1>1 DEF IInv, Held
  <2> QED BY <2>2, <2>3, <1>1
<1>11. Pending(chan', retain_topics', last')
  <2>1. But(retain_topics, retain_topics', t)
    BY <1>1 DEF But
  <2>2. t \notin DOMAIN retain_topics' /\ r.op # "set"
    BY <1>1
  <2>3. Pending(chan, retain_topics, last)
    BY DEF IInv
  <2>4. Pending(Tail(chan), retain_topics', last)
    BY <2>1, <2>2, <2>3, <1>1, <1>2, HandlePending DEF t, r
  <2> QED BY <2>4, <1>1
<1> QED BY <1>7, <1>8, <1>9, <1>10, <1>11 DEF IInv

\* retain_expires, when gc has not panicked: gc has collected the whole list, so nothing
\* is left to expire.
LEMMA RetainExpiresStep == ASSUME IInv, RetainExpires PROVE IInv'
<1> DEFINE collected == gc(list, deleted)
           expired == Expires(collected, deleted, elapsed)
           gone == {r.topic : r \in expired}
<1>0. trie' = FoldSet(LAMBDA t, T : remove(T, t), trie, gone)
  BY Zenon DEF RetainExpires
<1>1. collected = <<>>
  BY Zenon DEF RetainExpires, gc_panics
<1>2. /\ phase' = IF gone \subseteq DOMAIN retain_topics THEN "poll" ELSE "panic"
      /\ retain_topics' = [t \in DOMAIN retain_topics \ gone |-> retain_topics[t]]
      /\ list' = Remaining(collected, elapsed)
      /\ elapsed' = 0
      /\ deleted' = deleted \cap ValuesOf(list')
      /\ last' = [t \in {u \in DOMAIN last : Retain(u, last[u]) \notin expired} |-> last[t]]
      /\ phase = "expire" /\ chan' = chan
  BY Zenon DEF RetainExpires
<1>3. elapsed \in Nat /\ deleted \subseteq Retains /\ <<>> \in Lists(Retains) /\ Len(<<>>) = 0
  BY RetainSizes, EmptySeq DEF IInv, Types, Lists
<1> HIDE DEF collected
<1>4. collected \in Lists(Retains) /\ Len(collected) = 0
  BY <1>1, <1>3
<1>5. Takes(collected, elapsed) \in 0..Len(collected)
  BY <1>3, <1>4, TakesDef
<1>6. expired = {} /\ gone = {}
  <2>1. ValuesOf(UpTo(collected, Takes(collected, elapsed))) = {collected[i].value : i \in 1..Takes(collected, elapsed)}
    BY <1>4, <1>5, UpToValues
  <2>2. 1..Takes(collected, elapsed) = {}
    BY <1>4, <1>5
  <2> QED BY <2>1, <2>2 DEF Expires
<1>7. list' \in Lists(Retains) /\ Len(list') = 0
  <2>1. list' \in Lists(Retains) /\ Cut(collected, list', Takes(collected, elapsed), elapsed)
    BY <1>2, <1>3, <1>4, RemainingCut
  <2>2. Len(list') = Len(collected) - Takes(collected, elapsed)
    BY <2>1 DEF Cut
  <2> QED BY <2>1, <2>2, <1>4, <1>5
<1> HIDE DEF expired, gone
<1>8. phase' = "poll" /\ retain_topics' = retain_topics /\ trie' = trie /\ last' = last
  <2>1. trie' = trie
    BY <1>0, <1>6, FoldNothing, Zenon
  <2>2. retain_topics' = retain_topics /\ phase' = "poll"
    BY <1>2, <1>6 DEF IInv, Indexed
  <2>3. last = [t \in DOMAIN last |-> last[t]]
    BY DEF IInv, Pending
  <2>4. {u \in DOMAIN last : Retain(u, last[u]) \notin expired} = DOMAIN last
    BY <1>6
  <2>5. last' = last
    BY <2>3, <2>4, <1>2
  <2> QED BY <2>1, <2>2, <2>5
<1>9. Types'
  <2>1. elapsed' \in 0..MaxElapsed /\ deleted' \subseteq Retains
    BY <1>2, <1>3, RetainSizes
  <2> QED BY <2>1, <1>2, <1>7, <1>8 DEF IInv, Types
<1>10. Indexed'
  BY <1>8 DEF IInv, Indexed
<1>11. TimersAreCurrent'
  <2>1. ValuesOf(list') = {}
    BY <1>7, ListItems DEF ValuesOf
  <2> QED BY <2>1 DEF TimersAreCurrent
<1>12. Held(trie', retain_topics') /\ Pending(chan', retain_topics', last')
  BY <1>2, <1>8 DEF IInv
<1> QED BY <1>9, <1>10, <1>11, <1>12 DEF IInv

\* Every step keeps the invariant.
LEMMA NextInv == IInv /\ [Next]_vars => IInv'
<1> SUFFICES ASSUME IInv, [Next]_vars PROVE IInv'
  OBVIOUS
<1>1. ASSUME UNCHANGED <<chan, retain_topics, trie, list, deleted, last>>,
             elapsed' \in 0..MaxElapsed, phase' \in {"poll", "drain", "expire", "panic"},
             phase' # "panic" => phase # "panic"
      PROVE  IInv'
  BY <1>1 DEF IInv, Types, Indexed, TimersAreCurrent, Held, Pending
<1>2. elapsed \in 0..MaxElapsed /\ phase \in {"poll", "drain", "expire", "panic"}
  BY DEF IInv, Types
<1>3. CASE UNCHANGED vars
  BY <1>1, <1>2, <1>3 DEF vars
<1>4. CASE Tick
  <2>1. elapsed' \in 0..MaxElapsed
    BY <1>2, <1>4, RetainSizes DEF Tick
  <2> QED BY <2>1, <1>1, <1>2, <1>4 DEF Tick
<1>5. CASE Poll \/ DrainDone \/ GcPanics
  BY <1>1, <1>2, <1>5 DEF Poll, DrainDone, GcPanics, timer
<1>6. CASE \E t \in TopicNames, secs \in Secs \cup {NoExpiry} : PostSet(t, secs)
  BY <1>6, PostSetStep
<1>7. CASE \E t \in TopicNames : PostReset(t)
  BY <1>7, PostResetStep
<1>8. CASE HandleSet \/ HandleReset \/ RetainExpires
  BY <1>8, HandleSetStep, HandleResetStep, RetainExpiresStep
<1> QED BY <1>3, <1>4, <1>5, <1>6, <1>7, <1>8 DEF Next
-----------------------------------------------------------------------------
\* The index, the trie, the timer and the requests on their way stay in step, whatever the
\* sessions post and whenever the cluster thread wakes up.
THEOREM Invariance == Spec => []IInv
BY InitInv, NextInv, PTL DEF Spec

\* No request, topic or timer the cluster thread holds is other than what was posted, and
\* no delta of retain_timer is negative.
THEOREM TypeCorrect == Spec => []TypeOK
<1>1. ASSUME IInv PROVE TypeOK
  <2>1. /\ phase \in {"poll", "drain", "expire", "panic"} /\ elapsed \in 0..MaxElapsed
        /\ chan \in Seq(Requests) /\ list \in Lists(Retains) /\ deleted \subseteq Retains
        /\ Topics(trie) \subseteq TopicNames
    BY <1>1 DEF IInv, Types
  <2>2. ASSUME NEW i \in DOMAIN chan PROVE chan[i].op \in {"set", "reset"} /\ chan[i].topic \in TopicNames
    <3>1. chan[i] \in Requests
      BY <2>1
    <3> QED BY <3>1, RequestFields
  <2>3. ValuesOf(list) \subseteq Retains /\ \A i \in DOMAIN list : list[i].delta \in Nat
    BY <2>1, ListItems DEF ValuesOf
  <2> QED BY <2>1, <2>2, <2>3 DEF TypeOK, Retains
<1> QED BY <1>1, Invariance, PTL

\* What the trie retains is what the index names and, once the channel is drained, what
\* was posted last.
THEOREM RetainsLastPost == Spec => []LastPostRetained
<1>1. ASSUME IInv, phase # "panic"
      PROVE  Retained = [t \in DOMAIN retain_topics |-> retain_topics[t].id]
  <2>1. /\ DOMAIN retain_topics \subseteq TopicNames /\ Topics(trie) \subseteq TopicNames
        /\ \A t \in TopicNames :
              ValuesAt(trie, t) = IF t \in DOMAIN retain_topics THEN {retain_topics[t].id} ELSE {}
    BY <1>1 DEF IInv, Types, Indexed, Held
  <2>2. ASSUME NEW t \in Topics(trie)
        PROVE  t \in DOMAIN retain_topics /\ trie[t] = {retain_topics[t].id}
    <3>1. t \in TopicNames /\ ValuesAt(trie, t) = trie[t] /\ trie[t] # {}
      BY <2>1 DEF Topics, ValuesAt
    <3> QED BY <3>1, <2>1
  <2>3. ASSUME NEW t \in DOMAIN retain_topics PROVE t \in Topics(trie)
    <3>1. ValuesAt(trie, t) = {retain_topics[t].id}
      BY <2>1
    <3>2. t \in DOMAIN trie
      BY <3>1 DEF ValuesAt
    <3> QED BY <3>1, <3>2 DEF ValuesAt, Topics
  <2>4. Topics(trie) = DOMAIN retain_topics
    BY <2>2, <2>3
  <2>5. ASSUME NEW t \in Topics(trie) PROVE (CHOOSE m \in trie[t] : TRUE) = retain_topics[t].id
    BY <2>2
  <2> QED BY <2>4, <2>5 DEF Retained
<1>2. ASSUME IInv, chan = <<>>
      PROVE  last = [t \in DOMAIN retain_topics |-> retain_topics[t].id]
  <2>1. Len(chan) = 0
    BY <1>2
  <2>2. \A t \in TopicNames : \A i \in 1..Len(chan) : chan[i].topic # t
    BY <2>1
  <2>3. /\ last = [t \in DOMAIN last |-> last[t]] /\ DOMAIN last \subseteq TopicNames
        /\ \A t \in TopicNames : /\ t \in DOMAIN last <=> t \in DOMAIN retain_topics
                                 /\ t \in DOMAIN last => last[t] = retain_topics[t].id
    BY <2>2, <1>2 DEF IInv, Pending
  <2>4. DOMAIN last = DOMAIN retain_topics
    BY <2>3, <1>2 DEF IInv, Indexed
  <2> QED BY <2>3, <2>4
<1>3. IInv => LastPostRetained
  BY <1>1, <1>2 DEF LastPostRetained
<1> QED BY <1>3, Invariance, PTL

\* A timer that is not marked belongs to the message that is retained: the expiry of a
\* replaced one cannot remove its successor.
THEOREM OnlyCurrentTimers == Spec => []TimersAreCurrent
<1>1. IInv => TimersAreCurrent
  BY DEF IInv
<1> QED BY <1>1, Invariance, PTL
=============================================================================
