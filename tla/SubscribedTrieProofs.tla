------------------------ MODULE SubscribedTrieProofs ------------------------
(***************************************************************************)
(* What the shared trie promises its shards, for any number of shards,     *)
(* clients and filters, and for any interleaving of their calls.           *)
(*                                                                         *)
(* That every version is a proper trie with a right count only needs to    *)
(* know that each version was computed from one.  What the trie has to do  *)
(* with the sessions' lists needs to know in addition which calls are      *)
(* under way: until an update is lost, a call that nobody has overtaken    *)
(* works on the current version, and a filter is missing from the trie     *)
(* only between its removal and the close of its session.                  *)
(***************************************************************************)
EXTENDS SubscribedTrie, DataLemmas

\* A version that the calls can work on.
Sound(i) == /\ Trie(i.root)
            /\ Topics(i.root) \subseteq Filters /\ IsFiniteSet(Topics(i.root))
            /\ i.count = Cardinality(Topics(i.root))
            /\ \A p \in DOMAIN i.root : i.root[p] \subseteq Subscriptions

Versions == Sound(inner) /\ \A s \in Shards : Sound(snap[s])

Types == /\ call \in [Shards -> Calls \cup {Idle}]
         /\ ending \in [Shards -> Clients \cup {NoClient}]
         /\ todo \in [Shards -> SUBSET Filters]
         /\ DOMAIN subscriptions = Clients
         /\ \A c \in Clients : \A f \in DOMAIN subscriptions[c] :
               f \in Filters /\ subscriptions[c][f] \in Qos
         /\ panicked \subseteq Shards
         /\ DOMAIN snap = Shards
         /\ overwritten \in [Shards -> BOOLEAN]
         /\ lost \in BOOLEAN /\ changed \in BOOLEAN

Calling(s, op) == call[s] # Idle /\ call[s].op = op

\* A shard serves its own clients.  It unsubscribes what is left on the list of
\* the session it removes, and does nothing else meanwhile.
Serving(s) ==
    /\ ending[s] = NoClient => todo[s] = {}
    /\ ending[s] # NoClient => /\ shard_id(ending[s]) = s
                               /\ todo[s] \subseteq DOMAIN subscriptions[ending[s]]
    /\ Calling(s, "match") => ending[s] = NoClient
    /\ Calling(s, "subscribe") => ending[s] = NoClient /\ shard_id(call[s].client) = s
    /\ Calling(s, "unsubscribe") =>
          /\ ending[s] # NoClient /\ call[s].client = ending[s]
          /\ call[s].filter \in todo[s]
          /\ call[s].qos = subscriptions[ending[s]][call[s].filter]

\* f is off the trie, and c's session with its list about to go.
Removed(c, f) == ending[shard_id(c)] = c /\ f \notin todo[shard_id(c)]

Holds(i, c, f) == \E v \in ValuesAt(i.root, f) : v.client = c

\* What the version a call has read is worth: until another shard writes it is
\* the current one, and a filter that is to be removed is there.
Read(s) == /\ call[s] # Idle /\ ~overwritten[s] => snap[s] = inner
           /\ Calling(s, "unsubscribe") => Holds(snap[s], call[s].client, call[s].filter)

\* Every filter on a list is in the trie, ...
Kept == \A c \in Clients : \A f \in DOMAIN subscriptions[c] :
           ~Removed(c, f) => Holds(inner, c, f)

\* ... and with unchanged options nothing else is.
Exact == \A c \in Clients, f \in Filters, q \in Qos :
            [client |-> c, qos |-> q] \in ValuesAt(inner.root, f) <=>
               f \in DOMAIN subscriptions[c] /\ subscriptions[c][f] = q /\ ~Removed(c, f)

Serial == /\ panicked = {}
          /\ \A s \in Shards : Read(s)
          /\ Kept
          /\ ~changed => Exact

IInv == /\ Types
        /\ Versions
        /\ \A s \in Shards : Serving(s)
        /\ ~lost => Serial
-----------------------------------------------------------------------------
(* One call.                                                               *)

\* Filters are paths.
LEMMA FilterPaths == Filters \subseteq Paths
BY PathsNotEmpty DEF Paths

\* ValuesAt stays within the subscriptions.
LEMMA SoundValues ==
    ASSUME NEW i, Sound(i), NEW f
    PROVE  /\ ValuesAt(i.root, f) \subseteq Subscriptions
           /\ \A x, y \in ValuesAt(i.root, f) : SameKey(x, y) => x = y
           /\ ValuesAt(i.root, f) # {} => f \in Topics(i.root)
           /\ f \notin Topics(i.root) => ValuesAt(i.root, f) = {}
BY DEF Sound, ValuesAt, Topics, Trie, WellFormed

\* The version at the start is sound.
LEMMA InitialSound == Sound(Initial)
<1>1. Initial.count = 0 /\ Initial.root = Empty
  BY DEF Initial
<1>2. Topics(Empty) = {} /\ Trie(Empty) /\ DOMAIN Empty = {}
  BY EmptyTrie DEF Empty
<1> QED BY <1>1, <1>2, FS_EmptySet DEF Sound

\* sub installs a proper trie and counts a topic when it gets its first value.
LEMMA SubscribedSound ==
    ASSUME NEW i, Sound(i), NEW f \in Filters, NEW v \in Subscriptions
    PROVE  /\ Sound(Subscribed(i, f, v))
           /\ \A g : ValuesAt(Subscribed(i, f, v).root, g) =
                 IF g = f THEN insert_value(ValuesAt(i.root, f), v) ELSE ValuesAt(i.root, g)
<1> DEFINE T == i.root
           U == sub(i.root, f, v)
           j == Subscribed(i, f, v)
<1>1. /\ Trie(U) /\ Topics(U) = Topics(T) \cup {f}
      /\ \A g : ValuesAt(U, g) =
            IF g = f THEN insert_value(ValuesAt(T, f), v) ELSE ValuesAt(T, g)
  BY FilterPaths, SubTrie DEF Sound
<1>2. j.root = U /\ j.count = IF ValuesAt(T, f) = {} THEN i.count + 1 ELSE i.count
  BY DEF Subscribed
<1> HIDE DEF U, j
<1>3. Topics(U) \subseteq Filters
  BY <1>1 DEF Sound
<1>4. /\ IsFiniteSet(Topics(U))
      /\ Cardinality(Topics(U)) =
           IF f \in Topics(T) THEN Cardinality(Topics(T)) ELSE Cardinality(Topics(T)) + 1
  BY <1>1, FS_AddElement DEF Sound
<1>5. f \in Topics(T) <=> ValuesAt(T, f) # {}
  BY SoundValues DEF Topics, ValuesAt
<1>6. j.count = Cardinality(Topics(U))
  BY <1>2, <1>4, <1>5 DEF Sound
<1>7. ASSUME NEW g \in DOMAIN U PROVE U[g] \subseteq Subscriptions
  <2>1. ValuesAt(U, g) = U[g]
    BY DEF ValuesAt
  <2>2. ValuesAt(T, g) \subseteq Subscriptions /\ ValuesAt(T, f) \subseteq Subscriptions
    BY SoundValues
  <2> QED BY <1>1, <2>1, <2>2 DEF insert_value
<1>8. Sound(j)
  BY <1>1, <1>2, <1>3, <1>4, <1>6, <1>7 DEF Sound
<1> QED BY <1>1, <1>2, <1>8 DEF j

\* unsub does, unless it panics, and discounts a topic that loses its last value.
LEMMA UnsubscribedSound ==
    ASSUME NEW i, Sound(i), NEW f \in Filters, NEW v \in Subscriptions, ~unsub_panics(i.root, f)
    PROVE  /\ Sound(Unsubscribed(i, f, v))
           /\ \A g : ValuesAt(Unsubscribed(i, f, v).root, g) =
                 IF g = f /\ f \in DOMAIN i.root THEN remove_value(i.root[f], v)
                 ELSE ValuesAt(i.root, g)
<1> DEFINE T == i.root
           U == unsub(i.root, f, v)
           j == Unsubscribed(i, f, v)
<1>1. /\ Trie(U)
      /\ Topics(U) = IF ValuesAt(T, f) = {v} THEN Topics(T) \ {f} ELSE Topics(T)
      /\ \A g : ValuesAt(U, g) =
            IF g = f /\ f \in DOMAIN T THEN remove_value(T[f], v) ELSE ValuesAt(T, g)
  BY UnsubTrie DEF Sound
<1>2. /\ j.root = U
      /\ j.count = IF ValuesAt(T, f) = {v} /\ i.count > 0 THEN i.count - 1 ELSE i.count
  BY DEF Unsubscribed
<1> HIDE DEF U, j
<1>3. Topics(U) \subseteq Filters
  BY <1>1 DEF Sound
<1>4. /\ IsFiniteSet(Topics(T) \ {f})
      /\ f \in Topics(T) => Cardinality(Topics(T) \ {f}) = Cardinality(Topics(T)) - 1
  BY FS_RemoveElement DEF Sound
<1>5. ValuesAt(T, f) = {v} => f \in Topics(T)
  BY SoundValues
<1>6. /\ Cardinality(Topics(T)) \in Nat
      /\ f \in Topics(T) => Cardinality(Topics(T)) # 0
  BY FS_CardinalityType, FS_EmptySet DEF Sound
<1>7. IsFiniteSet(Topics(U)) /\ j.count = Cardinality(Topics(U))
  <2>1. CASE ValuesAt(T, f) = {v}
    BY <2>1, <1>1, <1>2, <1>4, <1>5, <1>6 DEF Sound
  <2>2. CASE ValuesAt(T, f) # {v}
    BY <2>2, <1>1, <1>2 DEF Sound
  <2> QED BY <2>1, <2>2
<1>8. ASSUME NEW g \in DOMAIN U PROVE U[g] \subseteq Subscriptions
  <2>1. ValuesAt(U, g) = U[g]
    BY DEF ValuesAt
  <2>2. ValuesAt(T, g) \subseteq Subscriptions
    BY SoundValues
  <2>3. f \in DOMAIN T => remove_value(T[f], v) \subseteq Subscriptions
    BY DEF remove_value, Sound
  <2> QED BY <1>1, <2>1, <2>2, <2>3
<1>9. Sound(j)
  BY <1>1, <1>2, <1>3, <1>7, <1>8 DEF Sound
<1> QED BY <1>1, <1>2, <1>9 DEF j
-----------------------------------------------------------------------------
(* The steps.                                                              *)

\* What a call carries.
LEMMA CallFields ==
    ASSUME NEW c \in Calls
    PROVE  /\ c # Idle
           /\ c.op \in {"subscribe", "unsubscribe", "match"}
           /\ c.op # "match" => /\ c.client \in Clients /\ c.filter \in Filters /\ c.qos \in Qos
                                /\ [client |-> c.client, qos |-> c.qos] \in Subscriptions
BY Markers DEF Calls, Subscriptions

\* At the start the trie and the lists are empty.
LEMMA InitInv == Init => IInv
<1> SUFFICES ASSUME Init PROVE IInv
  OBVIOUS
<1>1. Types
  BY Zenon DEF Init, Types, None
<1>2. Versions
  BY InitialSound DEF Init, Versions
<1>3. \A s \in Shards : Serving(s)
  BY DEF Init, Serving, Calling
<1>4. \A f : ValuesAt(inner.root, f) = {}
  BY DEF Init, Initial, ValuesAt, Empty
<1>5. \A c \in Clients : DOMAIN subscriptions[c] = {}
  BY DEF Init, None
<1>6. \A s \in Shards : Read(s)
  BY DEF Init, Read, Calling
<1>7. Kept /\ Exact
  BY <1>4, <1>5 DEF Kept, Exact
<1>8. panicked = {}
  BY DEF Init
<1> QED BY <1>1, <1>2, <1>3, <1>6, <1>7, <1>8 DEF IInv, Serial

\* The first half of a call leaves the trie and the lists alone, and the version it
\* has read is the current one.
LEMMA ReadStep ==
    ASSUME IInv, NEW s \in Shards, NEW c \in Calls, ReadInner(s, c),
           UNCHANGED <<inner, ending, todo, subscriptions, panicked, lost, changed>>,
           Serving(s)',
           ~lost /\ c.op = "unsubscribe" => Holds(inner, c.client, c.filter)
    PROVE  IInv'
<1> USE DEF IInv
<1>1. /\ call' = [call EXCEPT ![s] = c] /\ call'[s] = c
      /\ \A x \in Shards : x # s => call'[x] = call[x]
  BY DEF ReadInner, Types
<1>2. /\ DOMAIN snap' = Shards /\ snap'[s] = inner
      /\ \A x \in Shards : x # s => snap'[x] = snap[x]
  BY DEF ReadInner, Types
<1>3. /\ overwritten' \in [Shards -> BOOLEAN]
      /\ \A x \in Shards : x # s => overwritten'[x] = overwritten[x]
  BY DEF ReadInner, Types
<1>4. Types'
  BY <1>1, <1>2, <1>3, Zenon DEF Types
<1>5. Versions'
  BY <1>2 DEF Versions
<1>6. \A x \in Shards : Serving(x)'
  BY <1>1 DEF Serving, Calling
<1>7. ASSUME ~lost' PROVE Serial'
  <2>1. ~lost /\ Serial
    BY <1>7
  <2>2. Kept' /\ (~changed => Exact)'
    BY <2>1 DEF Serial, Kept, Exact, Removed, Holds
  <2>3. \A x \in Shards : Read(x)'
    BY <2>1, <1>1, <1>2, <1>3 DEF Serial, Read, Calling, Holds
  <2> QED BY <2>1, <2>2, <2>3 DEF Serial
<1> QED BY <1>4, <1>5, <1>6, <1>7

\* do_subscribe begins.
LEMMA SubscribeStep ==
    ASSUME IInv, NEW s \in Shards, NEW c \in Clients, NEW r \in Requests, Subscribe(s, c, r)
    PROVE  IInv'
<1> DEFINE k == [op |-> "subscribe", client |-> c, filter |-> r.filter, qos |-> r.qos]
<1>1. k \in Calls /\ k.op = "subscribe" /\ k.client = c
  BY DEF Calls, Filters, Qos
<1>2. /\ Free(s) /\ shard_id(c) = s /\ ReadInner(s, k)
      /\ UNCHANGED <<inner, ending, todo, subscriptions, panicked, lost, changed>>
  BY DEF Subscribe
<1> HIDE DEF k
<1>3. call'[s] = k
  BY <1>2 DEF ReadInner, IInv, Types
<1>4. Serving(s) /\ ending[s] = NoClient
  BY <1>2 DEF IInv, Free
<1>5. Serving(s)'
  BY <1>1, <1>2, <1>3, <1>4 DEF Serving, Calling
<1> QED BY <1>1, <1>2, <1>5, ReadStep

\* A topic-name is looked up.
LEMMA MatchTopicNameStep ==
    ASSUME IInv, NEW s \in Shards, NEW n \in Names, MatchTopicName(s, n)
    PROVE  IInv'
<1> DEFINE k == [op |-> "match", name |-> n]
<1>1. k \in Calls /\ k.op = "match"
  BY DEF Calls
<1>2. /\ Free(s) /\ ReadInner(s, k)
      /\ UNCHANGED <<inner, ending, todo, subscriptions, panicked, lost, changed>>
  BY DEF MatchTopicName
<1> HIDE DEF k
<1>3. call'[s] = k
  BY <1>2 DEF ReadInner, IInv, Types
<1>4. Serving(s) /\ ending[s] = NoClient
  BY <1>2 DEF IInv, Free
<1>5. Serving(s)'
  BY <1>1, <1>2, <1>3, <1>4 DEF Serving, Calling
<1> QED BY <1>1, <1>2, <1>5, ReadStep

\* One filter of remove_topic_filters.  It is still in the trie: it is on the list, and
\* only this shard removes it.
LEMMA UnsubscribeStep ==
    ASSUME IInv, NEW s \in Shards, NEW f \in Filters, Unsubscribe(s, f)
    PROVE  IInv'
<1> DEFINE c == ending[s]
           k == [op |-> "unsubscribe", client |-> c, filter |-> f, qos |-> subscriptions[c][f]]
<1>1. /\ f \in todo[s] /\ ReadInner(s, k)
      /\ UNCHANGED <<inner, ending, todo, subscriptions, panicked, lost, changed>>
  BY DEF Unsubscribe
<1>2. /\ ending[s] # NoClient /\ c \in Clients /\ shard_id(c) = s
      /\ todo[s] \subseteq DOMAIN subscriptions[c]
  BY <1>1 DEF IInv, Serving, Types
<1>3. k \in Calls /\ k.op = "unsubscribe" /\ k.client = c /\ k.filter = f /\ k.qos = subscriptions[c][f]
  BY <1>1, <1>2 DEF Calls, IInv, Types
<1> HIDE DEF k
<1>4. call'[s] = k
  BY <1>1 DEF ReadInner, IInv, Types
<1>5. Serving(s)'
  BY <1>1, <1>2, <1>3, <1>4 DEF Serving, Calling
<1>6. ~lost => Holds(inner, k.client, k.filter)
  BY <1>1, <1>2, <1>3 DEF IInv, Serial, Kept, Removed
<1> QED BY <1>1, <1>3, <1>5, <1>6, ReadStep

\* The removal of a session begins with its whole list to do.
LEMMA RemoveTopicFiltersStep ==
    ASSUME IInv, NEW s \in Shards, NEW c \in Clients, RemoveTopicFilters(s, c)
    PROVE  IInv'
<1> USE DEF IInv
<1>1. /\ call[s] = Idle /\ ending[s] = NoClient /\ shard_id(c) = s
      /\ UNCHANGED <<inner, call, snap, subscriptions, panicked, overwritten, lost, changed>>
  BY DEF RemoveTopicFilters, Free
<1>2. /\ ending' \in [Shards -> Clients \cup {NoClient}] /\ ending'[s] = c
      /\ \A x \in Shards : x # s => ending'[x] = ending[x]
  BY DEF RemoveTopicFilters, Types
<1>3. /\ todo' \in [Shards -> SUBSET Filters] /\ todo'[s] = DOMAIN subscriptions[c]
      /\ \A x \in Shards : x # s => todo'[x] = todo[x]
  BY DEF RemoveTopicFilters, Types
<1>4. Types'
  BY <1>1, <1>2, <1>3 DEF Types
<1>5. Versions'
  BY <1>1 DEF Versions
<1>6. \A x \in Shards : Serving(x)'
  BY <1>1, <1>2, <1>3, Markers DEF Serving, Calling
<1>7. ASSUME NEW d \in Clients, NEW f \in DOMAIN subscriptions[d]
      PROVE  Removed(d, f)' <=> Removed(d, f)
  BY <1>1, <1>2, <1>3, Hosted, Markers DEF Removed
<1>8. ASSUME ~lost' PROVE Serial'
  <2>1. ~lost /\ Serial
    BY <1>1, <1>8
  <2>2. Kept'
    BY <2>1, <1>1, <1>7 DEF Serial, Kept, Holds
  <2>3. (~changed => Exact)'
    BY <2>1, <1>1, <1>7, Zenon DEF Serial, Exact
  <2>4. \A x \in Shards : Read(x)'
    BY <2>1, <1>1 DEF Serial, Read, Calling, Holds
  <2> QED BY <1>1, <2>1, <2>2, <2>3, <2>4 DEF Serial
<1> QED BY <1>4, <1>5, <1>6, <1>8

\* The session goes when none of its filters is left to remove, so that nothing of it
\* is in the trie.
LEMMA CloseSessionStep ==
    ASSUME IInv, NEW s \in Shards, CloseSession(s)
    PROVE  IInv'
<1> USE DEF IInv
<1> DEFINE c == ending[s]
<1>1. /\ call[s] = Idle /\ ending[s] # NoClient /\ todo[s] = {}
      /\ UNCHANGED <<inner, call, snap, todo, panicked, overwritten, lost, changed>>
  BY DEF CloseSession
<1>2. c \in Clients /\ shard_id(c) = s
  BY <1>1 DEF Types, Serving
<1>3. /\ ending' \in [Shards -> Clients \cup {NoClient}] /\ ending'[s] = NoClient
      /\ \A x \in Shards : x # s => ending'[x] = ending[x]
  BY DEF CloseSession, Types
<1>4. /\ DOMAIN subscriptions' = Clients /\ DOMAIN subscriptions'[c] = {}
      /\ \A d \in Clients : d # c => subscriptions'[d] = subscriptions[d]
  BY <1>2 DEF CloseSession, Types, None
<1>5. Types'
  BY <1>1, <1>3, <1>4 DEF Types
<1>6. Versions'
  BY <1>1 DEF Versions
<1>7. ASSUME NEW x \in Shards PROVE Serving(x)'
  <2>1. CASE x = s
    BY <2>1, <1>1, <1>3 DEF Serving, Calling
  <2>2. CASE x # s
    <3>1. ending[x] # NoClient => ending[x] # c /\ ending[x] \in Clients
      BY <2>2, <1>2 DEF Serving, Types
    <3> QED BY <2>2, <3>1, <1>1, <1>3, <1>4 DEF Serving, Calling
  <2> QED BY <2>1, <2>2
<1>8. ASSUME NEW d \in Clients, d # c, NEW f
      PROVE  Removed(d, f)' <=> Removed(d, f)
  BY <1>1, <1>3, <1>8, Hosted, Markers DEF Removed
<1>9. ASSUME ~lost' PROVE Serial'
  <2>1. ~lost /\ Serial
    BY <1>1, <1>9
  <2>2. Kept'
    BY <2>1, <1>1, <1>4, <1>8 DEF Serial, Kept, Holds
  <2>3. ASSUME ~changed' PROVE Exact'
    <3>1. Exact
      BY <2>1, <2>3, <1>1 DEF Serial
    <3>2. SUFFICES ASSUME NEW d \in Clients, NEW f \in Filters, NEW q \in Qos
                   PROVE  [client |-> d, qos |-> q] \in ValuesAt(inner.root, f) <=>
                            /\ f \in DOMAIN subscriptions'[d] /\ subscriptions'[d][f] = q
                            /\ ~Removed(d, f)'
      BY <1>1, Zenon DEF Exact
    <3>3. CASE d = c
      <4>1. Removed(c, f)
        BY <1>1, <1>2 DEF Removed
      <4> QED BY <3>1, <3>3, <4>1, <1>2, <1>4 DEF Exact
    <3>4. CASE d # c
      BY <3>1, <3>4, <1>4, <1>8 DEF Exact
    <3> QED BY <3>3, <3>4
  <2>4. \A x \in Shards : Read(x)'
    BY <2>1, <1>1 DEF Serial, Read, Calling, Holds
  <2> QED BY <1>1, <2>1, <2>2, <2>3, <2>4 DEF Serial
<1> QED BY <1>5, <1>6, <1>7, <1>9

\* The second half of a call.  If no update is lost by it, it was computed from the
\* current version, and every other call under way has been overtaken.
LEMMA WriteStep ==
    ASSUME IInv, NEW s \in Shards, NEW new, Sound(new), call[s] # Idle, WriteInner(s, new)
    PROVE  /\ Versions' /\ inner' = new
           /\ DOMAIN snap' = Shards /\ overwritten' \in [Shards -> BOOLEAN] /\ lost' \in BOOLEAN
           /\ call' \in [Shards -> Calls \cup {Idle}] /\ call'[s] = Idle
           /\ \A x \in Shards : x # s => call'[x] = call[x]
           /\ ~lost' => ~lost /\ Serial /\ snap[s] = inner /\ \A x \in Shards : Read(x)'
<1> USE DEF IInv
<1>1. /\ call' \in [Shards -> Calls \cup {Idle}] /\ call'[s] = Idle
      /\ \A x \in Shards : x # s => call'[x] = call[x]
  BY DEF WriteInner, Types
<1>2. /\ DOMAIN snap' = Shards /\ snap'[s] = Initial
      /\ \A x \in Shards : x # s => snap'[x] = snap[x]
  BY DEF WriteInner, Types
<1>3. /\ overwritten' \in [Shards -> BOOLEAN]
      /\ \A x \in Shards : overwritten'[x] <=> x # s /\ call[x] # Idle
  BY Zenon DEF WriteInner
<1>4. inner' = new /\ lost' \in BOOLEAN /\ (lost' <=> lost \/ overwritten[s])
  BY DEF WriteInner, Types
<1>5. Versions'
  BY <1>2, <1>4, InitialSound DEF Versions
<1>6. ASSUME ~lost' PROVE ~lost /\ Serial /\ snap[s] = inner /\ \A x \in Shards : Read(x)'
  <2>1. ~lost /\ Serial /\ snap[s] = inner
    BY <1>4, <1>6 DEF Serial, Read
  <2>2. ASSUME NEW x \in Shards PROVE Read(x)'
    BY <2>1, <1>1, <1>2, <1>3 DEF Serial, Read, Calling, Holds
  <2> QED BY <2>1, <2>2
<1> QED BY <1>1, <1>2, <1>3, <1>4, <1>5, <1>6

\* A lookup writes back what it has read.
LEMMA CommitMatchStep ==
    ASSUME IInv, NEW s \in Shards, CommitMatch(s)
    PROVE  IInv'
<1> USE DEF IInv
<1>1. call[s] # Idle /\ WriteInner(s, snap[s]) /\ UNCHANGED <<ending, todo, subscriptions, panicked, changed>>
  BY DEF CommitMatch
<1>2. /\ Versions' /\ inner' = snap[s]
      /\ DOMAIN snap' = Shards /\ overwritten' \in [Shards -> BOOLEAN] /\ lost' \in BOOLEAN
      /\ call' \in [Shards -> Calls \cup {Idle}] /\ call'[s] = Idle
      /\ \A x \in Shards : x # s => call'[x] = call[x]
      /\ ~lost' => ~lost /\ Serial /\ snap[s] = inner /\ \A x \in Shards : Read(x)'
  BY <1>1, WriteStep DEF Versions
<1>3. Types'
  BY <1>1, <1>2 DEF Types
<1>4. \A x \in Shards : Serving(x)'
  BY <1>1, <1>2 DEF Serving, Calling
<1>5. ASSUME ~lost' PROVE Serial'
  <2>1. inner' = inner /\ ~lost /\ Serial
    BY <1>2, <1>5
  <2>2. panicked' = {} /\ \A x \in Shards : Read(x)'
    BY <1>1, <1>2, <1>5, <2>1 DEF Serial
  <2>3. Kept' /\ (~changed' => Exact')
    BY <1>1, <2>1, Zenon DEF Serial, Kept, Exact, Removed, Holds
  <2> QED BY <2>2, <2>3 DEF Serial
<1> QED BY <1>2, <1>3, <1>4, <1>5

\* insert_value: what was there stays, the client has a value now, and that is the new
\* one if it had none.
LEMMA InsertedValues ==
    ASSUME NEW vs, NEW v
    PROVE  /\ vs \subseteq insert_value(vs, v)
           /\ \E w \in insert_value(vs, v) : w.client = v.client
           /\ \A w \in insert_value(vs, v) : w \in vs \/ w = v
           /\ (\A w \in vs : w.client # v.client) => v \in insert_value(vs, v)
           /\ (\E w \in vs : w.client = v.client) => insert_value(vs, v) = vs
BY DEF insert_value, SameKey

\* remove_value: values of other clients stay, and an equal value goes.
LEMMA RemovedValues ==
    ASSUME NEW vs, NEW v
    PROVE  /\ \A w \in vs : w.client # v.client => w \in remove_value(vs, v)
           /\ remove_value(vs, v) \subseteq vs
           /\ v \notin remove_value(vs, v)
BY DEF remove_value, SameKey

\* do_subscribe ends: the subscription goes into the trie and on the list.
LEMMA CommitSubscribeStep ==
    ASSUME IInv, NEW s \in Shards, CommitSubscribe(s)
    PROVE  IInv'
<1> USE DEF IInv
<1> DEFINE c == call[s].client
           f == call[s].filter
           b == call[s].qos
           v == [client |-> c, qos |-> b]
           new == Subscribed(snap[s], f, v)
<1>1. /\ call[s] # Idle /\ call[s].op = "subscribe" /\ WriteInner(s, new)
      /\ UNCHANGED <<ending, todo, panicked>>
  BY DEF CommitSubscribe
<1>2. call[s] \in Calls
  BY <1>1 DEF Types
<1>3. c \in Clients /\ f \in Filters /\ b \in Qos /\ v \in Subscriptions
  BY <1>1, <1>2, CallFields
<1>4. ending[s] = NoClient /\ shard_id(c) = s
  BY <1>1 DEF Serving, Calling
<1>5. /\ DOMAIN subscriptions' = Clients
      /\ \A d \in Clients : d # c => subscriptions'[d] = subscriptions[d]
      /\ subscriptions'[c] = [g \in DOMAIN subscriptions[c] \cup {f} |->
                                IF g = f THEN b ELSE subscriptions[c][g]]
  BY <1>3 DEF CommitSubscribe, Types
<1>6. DOMAIN subscriptions'[c] = DOMAIN subscriptions[c] \cup {f} /\ subscriptions'[c][f] = b
  BY <1>5
<1>7. \A g \in DOMAIN subscriptions[c] : g # f => subscriptions'[c][g] = subscriptions[c][g]
  BY <1>5
<1>8. /\ changed' \in BOOLEAN
      /\ ~changed' => ~changed /\ (f \in DOMAIN subscriptions[c] => subscriptions[c][f] = b)
  BY DEF CommitSubscribe, Types
<1>9. v.client = c /\ v.qos = b
  OBVIOUS
<1>10. /\ Sound(snap[s]) /\ Sound(new)
       /\ \A g : ValuesAt(new.root, g) =
             IF g = f THEN insert_value(ValuesAt(snap[s].root, f), v) ELSE ValuesAt(snap[s].root, g)
  BY <1>3, SubscribedSound, Zenon DEF Versions
<1> HIDE DEF c, f, b, v, new
<1>11. /\ Versions' /\ inner' = new
       /\ DOMAIN snap' = Shards /\ overwritten' \in [Shards -> BOOLEAN] /\ lost' \in BOOLEAN
       /\ call' \in [Shards -> Calls \cup {Idle}] /\ call'[s] = Idle
       /\ \A x \in Shards : x # s => call'[x] = call[x]
       /\ ~lost' => ~lost /\ Serial /\ snap[s] = inner /\ \A x \in Shards : Read(x)'
  BY <1>1, <1>10, WriteStep
<1>12. \A d \in Clients : \A g \in DOMAIN subscriptions'[d] : g \in Filters /\ subscriptions'[d][g] \in Qos
  BY <1>3, <1>5, <1>6, <1>7 DEF Types
<1>13. Types'
  BY <1>1, <1>5, <1>8, <1>11, <1>12 DEF Types
<1>14. ASSUME NEW x \in Shards PROVE Serving(x)'
  <2>1. ending[x] # NoClient => x # s /\ ending[x] # c /\ ending[x] \in Clients
    BY <1>4 DEF Serving, Types
  <2>2. ending[x] # NoClient => subscriptions'[ending[x]] = subscriptions[ending[x]]
    BY <2>1, <1>5
  <2> QED BY <2>1, <2>2, <1>1, <1>4, <1>11 DEF Serving, Calling
<1>15. \A d, g : Removed(d, g)' <=> Removed(d, g)
  BY <1>1 DEF Removed
<1>16. \A g : ~Removed(c, g)
  BY <1>3, <1>4, Markers DEF Removed
<1>17. ASSUME ~lost' PROVE Serial'
  <2> DEFINE vs == ValuesAt(inner.root, f)
             ws == insert_value(vs, v)
  <2>1. Serial /\ snap[s] = inner /\ \A x \in Shards : Read(x)'
    BY <1>11, <1>17
  <2>2. \A g : ValuesAt(inner'.root, g) = IF g = f THEN ws ELSE ValuesAt(inner.root, g)
    BY <1>10, <1>11, <2>1
  <2>3. /\ vs \subseteq ws /\ \E w \in ws : w.client = c
        /\ \A w \in ws : w \in vs \/ w = v
        /\ (\A w \in vs : w.client # c) => v \in ws
        /\ (\E w \in vs : w.client = c) => ws = vs
    BY <1>9, InsertedValues
  <2>4. vs \subseteq Subscriptions
    BY <1>10, <2>1, SoundValues
  <2> HIDE DEF vs, ws
  <2>5. ASSUME NEW d \in Clients, NEW g \in DOMAIN subscriptions'[d], ~Removed(d, g)'
        PROVE  Holds(inner, d, g)'
    <3>1. CASE d = c /\ g = f
      BY <3>1, <2>2, <2>3 DEF Holds
    <3>2. CASE ~(d = c /\ g = f)
      <4>1. g \in DOMAIN subscriptions[d]
        BY <3>2, <1>5, <1>6
      <4>2. Holds(inner, d, g)
        BY <4>1, <2>1, <2>5, <1>15 DEF Serial, Kept
      <4> QED BY <4>2, <2>2, <2>3 DEF Holds, vs
    <3> QED BY <3>1, <3>2
  <2>6. Kept'
    BY <2>5 DEF Kept
  <2>7. ASSUME ~changed', NEW d \in Clients, NEW g \in Filters, NEW q \in Qos
        PROVE  [client |-> d, qos |-> q] \in ValuesAt(inner'.root, g) <=>
                 g \in DOMAIN subscriptions'[d] /\ subscriptions'[d][g] = q /\ ~Removed(d, g)'
    <3>1. [client |-> d, qos |-> q] \in ValuesAt(inner.root, g) <=>
            g \in DOMAIN subscriptions[d] /\ subscriptions[d][g] = q /\ ~Removed(d, g)
      BY <2>1, <2>7, <1>8 DEF Serial, Exact
    <3>2. CASE g # f
      BY <3>1, <3>2, <2>2, <1>5, <1>6, <1>7, <1>15
    <3>3. CASE g = f /\ d # c
      <4>1. [client |-> d, qos |-> q] # v
        BY <3>3, <1>9
      <4>2. [client |-> d, qos |-> q] \in ws <=> [client |-> d, qos |-> q] \in vs
        BY <4>1, <2>3
      <4> QED BY <3>1, <3>3, <4>2, <2>2, <1>5, <1>15 DEF vs
    <3>4. CASE g = f /\ d = c /\ f \in DOMAIN subscriptions[c]
      <4>1. subscriptions[c][f] = b
        BY <3>4, <2>7, <1>8
      <4>2. v \in vs
        BY <3>4, <4>1, <2>1, <2>7, <1>3, <1>8, <1>16 DEF Serial, Exact, v, vs
      <4>3. ws = vs
        BY <4>2, <2>3, <1>9
      <4> QED BY <3>1, <3>4, <4>1, <4>3, <2>2, <1>6, <1>15, <1>16 DEF vs
    <3>5. CASE g = f /\ d = c /\ f \notin DOMAIN subscriptions[c]
      <4>1. ASSUME NEW w \in vs PROVE w.client # c
        <5>1. w \in [client : Clients, qos : Qos]
          BY <2>4 DEF Subscriptions
        <5>2. w.qos \in Qos /\ w = [client |-> w.client, qos |-> w.qos]
          BY <5>1
        <5> QED BY <3>5, <5>2, <2>1, <2>7, <1>3, <1>8 DEF Serial, Exact, vs
      <4>2. \A w \in ws : w.client = c => w = v
        BY <4>1, <2>3
      <4>3. v \in ws
        BY <4>1, <2>3
      <4>4. [client |-> c, qos |-> q] \in ws <=> q = b
        BY <4>2, <4>3 DEF v
      <4> QED BY <3>5, <4>4, <2>2, <1>6, <1>15, <1>16
    <3> QED BY <3>2, <3>3, <3>4, <3>5
  <2>8. (~changed => Exact)'
    BY <2>7, Zenon DEF Exact
  <2> QED BY <2>1, <2>6, <2>8, <1>1 DEF Serial
<1> QED BY <1>11, <1>13, <1>14, <1>17

\* An unsubscribe that reaches the unreachable!() does so only after an update was lost:
\* otherwise the version it has read holds a value at the filter.
LEMMA UnsubscribePanicsStep ==
    ASSUME IInv, NEW s \in Shards, CommitUnsubscribe(s), unsub_panics(snap[s].root, call[s].filter)
    PROVE  IInv'
<1> USE DEF IInv
<1>1. /\ Calling(s, "unsubscribe")
      /\ panicked' = panicked \cup {s}
      /\ UNCHANGED <<inner, ending, todo, subscriptions, overwritten, lost, changed>>
  BY DEF CommitUnsubscribe, Calling
<1>2. /\ call' \in [Shards -> Calls \cup {Idle}] /\ call'[s] = Idle
      /\ \A x \in Shards : x # s => call'[x] = call[x]
  BY DEF CommitUnsubscribe, Types
<1>3. /\ DOMAIN snap' = Shards /\ snap'[s] = Initial
      /\ \A x \in Shards : x # s => snap'[x] = snap[x]
  BY DEF CommitUnsubscribe, Types
<1>4. lost
  <2>1. ValuesAt(snap[s].root, call[s].filter) = {}
    BY DEF unsub_panics, ValuesAt
  <2> QED BY <1>1, <2>1 DEF Serial, Read, Holds
<1>5. Types'
  BY <1>1, <1>2, <1>3 DEF Types
<1>6. Versions'
  BY <1>1, <1>3, InitialSound DEF Versions
<1>7. \A x \in Shards : Serving(x)'
  BY <1>1, <1>2 DEF Serving, Calling
<1> QED BY <1>1, <1>4, <1>5, <1>6, <1>7

\* Otherwise the filter is removed from the trie, and one less is to do.
LEMMA CommitUnsubscribeStep ==
    ASSUME IInv, NEW s \in Shards, CommitUnsubscribe(s), ~unsub_panics(snap[s].root, call[s].filter)
    PROVE  IInv'
<1> USE DEF IInv
<1> DEFINE c == call[s].client
           f == call[s].filter
           b == call[s].qos
           v == [client |-> c, qos |-> b]
           new == Unsubscribed(snap[s], f, v)
<1>1. /\ call[s] # Idle /\ call[s].op = "unsubscribe" /\ WriteInner(s, new)
      /\ UNCHANGED <<ending, panicked, subscriptions, changed>>
  BY Zenon DEF CommitUnsubscribe
<1>2. call[s] \in Calls
  BY <1>1 DEF Types
<1>3. c \in Clients /\ f \in Filters /\ b \in Qos /\ v \in Subscriptions
  BY <1>1, <1>2, CallFields
<1>4. /\ ending[s] = c /\ shard_id(c) = s /\ f \in todo[s]
      /\ f \in DOMAIN subscriptions[c] /\ subscriptions[c][f] = b
  BY <1>1, Zenon DEF Serving, Calling
<1>5. /\ todo' \in [Shards -> SUBSET Filters] /\ todo'[s] = todo[s] \ {f}
      /\ \A x \in Shards : x # s => todo'[x] = todo[x]
  BY DEF CommitUnsubscribe, Types
<1>6. v.client = c /\ v.qos = b
  OBVIOUS
<1>7. /\ Sound(snap[s]) /\ Sound(new)
      /\ \A g : ValuesAt(new.root, g) =
            IF g = f /\ f \in DOMAIN snap[s].root THEN remove_value(snap[s].root[f], v)
            ELSE ValuesAt(snap[s].root, g)
  BY <1>3, UnsubscribedSound, Zenon DEF Versions
<1> HIDE DEF c, f, b, v, new
<1>8. /\ Versions' /\ inner' = new
      /\ DOMAIN snap' = Shards /\ overwritten' \in [Shards -> BOOLEAN] /\ lost' \in BOOLEAN
      /\ call' \in [Shards -> Calls \cup {Idle}] /\ call'[s] = Idle
      /\ \A x \in Shards : x # s => call'[x] = call[x]
      /\ ~lost' => ~lost /\ Serial /\ snap[s] = inner /\ \A x \in Shards : Read(x)'
  BY <1>1, <1>7, WriteStep
<1>9. Types'
  BY <1>1, <1>5, <1>8 DEF Types
<1>10. ASSUME NEW x \in Shards PROVE Serving(x)'
  <2>1. Serving(x) /\ UNCHANGED <<ending, subscriptions>>
    BY <1>1
  <2>2. CASE x = s
    <3>1. ~Calling(x, "match")' /\ ~Calling(x, "subscribe")' /\ ~Calling(x, "unsubscribe")'
      BY <1>8, <2>2 DEF Calling
    <3>2. todo'[x] \subseteq todo[x]
      BY <1>5, <2>2
    <3> QED BY <2>1, <3>1, <3>2 DEF Serving
  <2>3. CASE x # s
    <3>1. call'[x] = call[x] /\ todo'[x] = todo[x]
      BY <1>5, <1>8, <2>3
    <3> QED BY <2>1, <3>1, Zenon DEF Serving, Calling
  <2> QED BY <2>2, <2>3
<1>11. ASSUME NEW d \in Clients, NEW g
       PROVE  Removed(d, g)' <=> Removed(d, g) \/ (d = c /\ g = f)
  BY <1>1, <1>4, <1>5, Hosted, Zenon DEF Removed
<1>12. ASSUME ~lost' PROVE Serial'
  <2> DEFINE vs == ValuesAt(inner.root, f)
             ws == remove_value(vs, v)
  <2>1. Serial /\ snap[s] = inner /\ \A x \in Shards : Read(x)'
    BY <1>8, <1>12
  <2>2. Holds(inner, c, f)
    BY <1>1, <2>1 DEF Serial, Read, Calling, c, f
  <2>3. f \in DOMAIN inner.root /\ inner.root[f] = vs
    BY <2>2 DEF Holds, ValuesAt
  <2>4. \A g : ValuesAt(inner'.root, g) = IF g = f THEN ws ELSE ValuesAt(inner.root, g)
    BY <1>7, <1>8, <2>1, <2>3
  <2>5. /\ \A w \in vs : w.client # c => w \in ws
        /\ ws \subseteq vs /\ v \notin ws
    BY <1>6, RemovedValues
  <2> HIDE DEF vs, ws
  <2>6. ASSUME NEW d \in Clients, NEW g \in DOMAIN subscriptions[d], ~Removed(d, g)'
        PROVE  Holds(inner, d, g)'
    <3>1. Holds(inner, d, g) /\ ~(d = c /\ g = f)
      BY <2>1, <2>6, <1>11 DEF Serial, Kept
    <3> QED BY <3>1, <2>4, <2>5 DEF Holds, vs
  <2>7. Kept'
    BY <2>6, <1>1 DEF Kept
  <2>8. ASSUME ~changed', NEW d \in Clients, NEW g \in Filters, NEW q \in Qos
        PROVE  [client |-> d, qos |-> q] \in ValuesAt(inner'.root, g) <=>
                 g \in DOMAIN subscriptions[d] /\ subscriptions[d][g] = q /\ ~Removed(d, g)'
    <3>1. [client |-> d, qos |-> q] \in ValuesAt(inner.root, g) <=>
            g \in DOMAIN subscriptions[d] /\ subscriptions[d][g] = q /\ ~Removed(d, g)
      BY <2>1, <2>8, <1>1 DEF Serial, Exact
    <3>2. CASE g # f
      BY <3>1, <3>2, <2>4, <1>11
    <3>3. CASE g = f /\ d # c
      <4>1. [client |-> d, qos |-> q] \in ws <=> [client |-> d, qos |-> q] \in vs
        BY <3>3, <2>5
      <4> QED BY <3>1, <3>3, <4>1, <2>4, <1>11 DEF vs
    <3>4. CASE g = f /\ d = c
      <4>1. [client |-> c, qos |-> q] \in vs => q = b
        BY <3>1, <3>4, <1>4 DEF vs
      <4>2. [client |-> c, qos |-> q] \notin ws
        BY <4>1, <2>5 DEF v
      <4> QED BY <3>4, <4>2, <2>4, <1>11
    <3> QED BY <3>2, <3>3, <3>4
  <2>9. (~changed => Exact)'
    BY <2>8, <1>1, Zenon DEF Exact
  <2> QED BY <2>1, <2>7, <2>9, <1>1, Zenon DEF Serial
<1> QED BY <1>8, <1>9, <1>10, <1>12
-----------------------------------------------------------------------------
(* The theorems.                                                           *)

\* Every step keeps the invariant.
LEMMA NextInv == IInv /\ [Next]_vars => IInv'
<1> SUFFICES ASSUME IInv, [Next]_vars PROVE IInv'
  OBVIOUS
<1>1. ASSUME NEW s \in Shards, NEW c \in Clients, NEW r \in Requests, Subscribe(s, c, r) PROVE IInv'
  BY <1>1, SubscribeStep
<1>2. ASSUME NEW s \in Shards, NEW c \in Clients, RemoveTopicFilters(s, c) PROVE IInv'
  BY <1>2, RemoveTopicFiltersStep
<1>3. ASSUME NEW s \in Shards, NEW f \in Filters, Unsubscribe(s, f) PROVE IInv'
  BY <1>3, UnsubscribeStep
<1>4. ASSUME NEW s \in Shards, NEW n \in Names, MatchTopicName(s, n) PROVE IInv'
  BY <1>4, MatchTopicNameStep
<1>5. ASSUME NEW s \in Shards, CommitSubscribe(s) PROVE IInv'
  BY <1>5, CommitSubscribeStep
<1>6. ASSUME NEW s \in Shards, CommitUnsubscribe(s) PROVE IInv'
  BY <1>6, UnsubscribePanicsStep, CommitUnsubscribeStep
<1>7. ASSUME NEW s \in Shards, CloseSession(s) PROVE IInv'
  BY <1>7, CloseSessionStep
<1>8. ASSUME NEW s \in Shards, CommitMatch(s) PROVE IInv'
  BY <1>8, CommitMatchStep
<1>9. ASSUME UNCHANGED vars PROVE IInv'
  <2>1. Types' /\ Versions' /\ \A s \in Shards : Serving(s)'
    BY <1>9 DEF vars, IInv, Types, Versions, Serving, Calling
  <2>2. (~lost => Serial)'
    BY <1>9 DEF vars, IInv, Serial, Read, Calling, Holds, Kept, Exact, Removed
  <2> QED BY <2>1, <2>2 DEF IInv
<1> QED BY <1>1, <1>2, <1>3, <1>4, <1>5, <1>6, <1>7, <1>8, <1>9 DEF Next

\* The inductive invariant holds however the calls of the shards interleave.
THEOREM Invariance == Spec => []IInv
BY InitInv, NextInv, PTL DEF Spec

\* ttrie.rs computes with values of the declared types, whatever is lost.
THEOREM TypeCorrect == Spec => []TypeOK
<1>1. ASSUME NEW i, Sound(i) PROVE Version(i)
  BY <1>1, FS_CardinalityType DEF Sound, Version
<1>2. IInv => TypeOK
  BY <1>1 DEF IInv, Types, Versions, TypeOK
<1> QED BY <1>2, Invariance, PTL

\* Every version that a shard reads or that the Spinlock holds is a proper trie.
THEOREM ProperVersions == Spec => []VersionsWellFormed
<1>1. IInv => VersionsWellFormed
  BY DEF IInv, Versions, Sound, Trie, VersionsWellFormed
<1> QED BY <1>1, Invariance, PTL

\* Stats::count is the number of topics in every version.
THEOREM CountsTopics == Spec => []CountIsTopics
<1>1. IInv => CountIsTopics
  BY DEF IInv, Versions, Sound, CountIsTopics
<1> QED BY <1>1, Invariance, PTL

\* Between calls, with unchanged options, the trie holds the lists exactly.
LEMMA ExactCommitted ==
    ASSUME IInv, Quiet, Exact
    PROVE  InTrie = OnLists
<1>1. \A c \in Clients : \A f : ~Removed(c, f)
  BY Hosted, Markers DEF Quiet, Free, Removed
<1>2. Sound(inner) /\ Types
  BY DEF IInv, Versions
<1>3. ASSUME NEW x \in InTrie PROVE x \in OnLists
  <2>1. PICK p \in DOMAIN inner.root : \E v \in inner.root[p] : x = <<v.client, p, v.qos>>
    BY <1>3, Zenon DEF InTrie
  <2>2. PICK v \in inner.root[p] : x = <<v.client, p, v.qos>>
    BY <2>1
  <2>3. v \in [client : Clients, qos : Qos]
    BY <1>2 DEF Sound, Subscriptions
  <2>4. v.client \in Clients /\ v.qos \in Qos /\ v = [client |-> v.client, qos |-> v.qos]
    BY <2>3
  <2>5. p \in Filters /\ v \in ValuesAt(inner.root, p)
    BY <1>2 DEF Sound, Topics, ValuesAt
  <2>6. p \in DOMAIN subscriptions[v.client] /\ subscriptions[v.client][p] = v.qos
    BY <2>4, <2>5 DEF Exact
  <2>7. x = <<v.client, p, subscriptions[v.client][p]>>
    BY <2>2, <2>6
  <2>8. x \in {<<v.client, f, subscriptions[v.client][f]>> : f \in DOMAIN subscriptions[v.client]}
    BY <2>6, <2>7, Zenon
  <2> QED BY <2>4, <2>8 DEF OnLists
<1>4. ASSUME NEW x \in OnLists PROVE x \in InTrie
  <2>1. PICK c \in Clients : \E f \in DOMAIN subscriptions[c] : x = <<c, f, subscriptions[c][f]>>
    BY <1>4, Zenon DEF OnLists
  <2>2. PICK f \in DOMAIN subscriptions[c] : x = <<c, f, subscriptions[c][f]>>
    BY <2>1
  <2> DEFINE v == [client |-> c, qos |-> subscriptions[c][f]]
  <2>3. f \in Filters /\ subscriptions[c][f] \in Qos
    BY <1>2 DEF Types
  <2>4. v \in ValuesAt(inner.root, f)
    BY <1>1, <2>3 DEF Exact
  <2>5. f \in DOMAIN inner.root /\ v \in inner.root[f]
    BY <2>4 DEF ValuesAt
  <2>6. x = <<v.client, f, v.qos>>
    BY <2>2
  <2> HIDE DEF v
  <2>7. x \in {<<w.client, f, w.qos>> : w \in inner.root[f]}
    BY <2>5, <2>6, Zenon
  <2> QED BY <2>5, <2>7 DEF InTrie
<1> QED BY <1>3, <1>4

\* As long as no call has overwritten another one, no shard panics and the trie agrees
\* with the sessions' lists, as do_subscribe and remove_topic_filters mean it to.
THEOREM CommitsUntilLost == Spec => []SerialCallsCommit
<1>1. ASSUME IInv PROVE SerialCallsCommit
  <2> SUFFICES ASSUME ~lost
               PROVE  /\ panicked = {}
                      /\ Quiet => \A c \in Clients : \A f \in DOMAIN subscriptions[c] :
                                     \E v \in ValuesAt(inner.root, f) : v.client = c
                      /\ ~changed => FiltersCommitted
    BY DEF SerialCallsCommit
  <2>1. Serial
    BY <1>1 DEF IInv
  <2>2. Quiet => \A c \in Clients : \A f : ~Removed(c, f)
    BY Hosted, Markers DEF Quiet, Free, Removed
  <2>3. Quiet => \A c \in Clients : \A f \in DOMAIN subscriptions[c] :
                    \E v \in ValuesAt(inner.root, f) : v.client = c
    BY <2>1, <2>2 DEF Serial, Kept, Holds
  <2>4. ~changed => FiltersCommitted
    BY <1>1, <2>1, ExactCommitted DEF Serial, FiltersCommitted
  <2> QED BY <2>1, <2>3, <2>4 DEF Serial
<1> QED BY <1>1, Invariance, PTL
=============================================================================
