--------------------------- MODULE SubscribedTrie ---------------------------
(***************************************************************************)
(* The one SubscribedTrie that all shards share (ttrie.rs), and the        *)
(* sessions' own lists of subscriptions (session.rs) it has to agree with. *)
(*                                                                         *)
(* Every call clones the current version out of a Spinlock, computes a new *)
(* version from that clone, and installs it under a second, separate lock. *)
(* A Spinlock is an atomic cell (Spinlock!ImplementsAtomicCell), so a call *)
(* is two steps: one that reads and one that writes back.  A lookup writes *)
(* back too, to count itself.  The calls of one shard come one after the   *)
(* other, the calls of several shards interleave.                          *)
(***************************************************************************)
EXTENDS TopicIndex

CONSTANTS Shards,
          Clients,
          shard_id(_), \* shard_id(c): the shard that hosts client c's session
          Requests,    \* what SUBSCRIBEs ask for: a topic-filter, as a sequence of
                       \* levels, and options, which Eq looks at and Ord does not
          Names,       \* topic-names, as sequences of levels
          Idle,        \* no call in progress
          NoClient     \* no session is being removed

Filters == {r.filter : r \in Requests}
Qos == {r.qos : r \in Requests}

ASSUME Hosted == \A c \in Clients : shard_id(c) \in Shards
ASSUME PathsNotEmpty == Filters \cup Names \subseteq Seq(STRING) \ {<<>>}

VARIABLES inner,         \* the version in the Spinlock: stats.count and root
          call,          \* call[s]: the trie call shard s is in
          snap,          \* snap[s]: the version that call has read, empty without a call
          ending,        \* ending[s]: the session shard s is removing
          todo,          \* todo[s]: its filters not yet unsubscribed
          subscriptions, \* subscriptions[c]: the session's own list
          panicked,      \* shards that reached an unreachable!()
          overwritten,   \* history: another shard wrote since shard s read
          lost,          \* history: such a write was then overwritten
          changed        \* history: a SUBSCRIBE changed the options of a filter

vars == <<inner, call, snap, ending, todo, subscriptions, panicked, overwritten, lost, changed>>

Initial == [count |-> 0, root |-> Empty]

None == [f \in {} |-> {}]

Init == /\ inner = Initial
        /\ call = [s \in Shards |-> Idle]
        /\ snap = [s \in Shards |-> Initial]
        /\ ending = [s \in Shards |-> NoClient]
        /\ todo = [s \in Shards |-> {}]
        /\ subscriptions = [c \in Clients |-> None]
        /\ panicked = {}
        /\ overwritten = [s \in Shards |-> FALSE]
        /\ lost = FALSE
        /\ changed = FALSE

Free(s) == call[s] = Idle /\ ending[s] = NoClient /\ s \notin panicked

\* `Arc::clone(&self.inner.read())`, the first half of every call.
ReadInner(s, c) == /\ call' = [call EXCEPT ![s] = c]
                   /\ snap' = [snap EXCEPT ![s] = inner]
                   /\ overwritten' = [overwritten EXCEPT ![s] = FALSE]

\* `*self.inner.write() = ..`, the second half.
WriteInner(s, new) ==
    /\ inner' = new
    /\ call' = [call EXCEPT ![s] = Idle]
    /\ snap' = [snap EXCEPT ![s] = Initial]
    /\ overwritten' = [x \in Shards |-> x # s /\ call[x] # Idle]
    /\ lost' = (lost \/ overwritten[s])

\* stats.count goes up when a topic gets its first value, down with its last.
Subscribed(i, f, v) ==
    [count |-> IF ValuesAt(i.root, f) = {} THEN i.count + 1 ELSE i.count,
     root |-> sub(i.root, f, v)]

\* Mutant of Unsubscribed: the topic is counted out with any of its values.
UnsubscribedCountsAll(i, f, v) ==
    [count |-> IF v \in ValuesAt(i.root, f) THEN i.count - 1 ELSE i.count,
     root |-> unsub(i.root, f, v)]

\* Mutant of Unsubscribed: a topic that is not there is counted out.
UnsubscribedUnguarded(i, f, v) == [count |-> i.count - 1, root |-> unsub(i.root, f, v)]

Unsubscribed(i, f, v) ==
    [count |-> IF ValuesAt(i.root, f) = {v} /\ i.count > 0 THEN i.count - 1 ELSE i.count,
     root |-> unsub(i.root, f, v)]
-----------------------------------------------------------------------------
\* Session::do_subscribe, for one filter of a SUBSCRIBE.
Subscribe(s, c, r) ==
    /\ Free(s) /\ shard_id(c) = s
    /\ ReadInner(s, [op |-> "subscribe", client |-> c, filter |-> r.filter, qos |-> r.qos])
    /\ UNCHANGED <<inner, ending, todo, subscriptions, panicked, lost, changed>>

CommitSubscribe(s) ==
    /\ call[s] # Idle /\ call[s].op = "subscribe"
    /\ LET c == call[s].client
           f == call[s].filter
           v == [client |-> c, qos |-> call[s].qos]
       IN  /\ WriteInner(s, Subscribed(snap[s], f, v))
           /\ subscriptions' = [subscriptions EXCEPT ![c] =
                [g \in DOMAIN @ \cup {f} |-> IF g = f THEN v.qos ELSE @[g]]]
           /\ changed' = \/ changed
                         \/ /\ f \in DOMAIN subscriptions[c]
                            /\ subscriptions[c][f] # v.qos
    /\ UNCHANGED <<ending, todo, panicked>>

\* Session::remove_topic_filters: unsubscribe every filter of the list, ...
RemoveTopicFilters(s, c) ==
    /\ Free(s) /\ shard_id(c) = s
    /\ ending' = [ending EXCEPT ![s] = c]
    /\ todo' = [todo EXCEPT ![s] = DOMAIN subscriptions[c]]
    /\ UNCHANGED <<inner, call, snap, subscriptions, panicked, overwritten, lost, changed>>

Unsubscribe(s, f) ==
    /\ call[s] = Idle /\ s \notin panicked
    /\ f \in todo[s]
    /\ LET c == ending[s] IN
       ReadInner(s, [op |-> "unsubscribe", client |-> c, filter |-> f,
                     qos |-> subscriptions[c][f]])
    /\ UNCHANGED <<inner, ending, todo, subscriptions, panicked, lost, changed>>

CommitUnsubscribe(s) ==
    /\ call[s] # Idle /\ call[s].op = "unsubscribe"
    /\ LET f == call[s].filter
           v == [client |-> call[s].client, qos |-> call[s].qos]
       IN  IF unsub_panics(snap[s].root, f)
           THEN /\ panicked' = panicked \cup {s}
                /\ call' = [call EXCEPT ![s] = Idle]
                /\ snap' = [snap EXCEPT ![s] = Initial]
                /\ UNCHANGED <<inner, todo, overwritten, lost>>
           ELSE /\ WriteInner(s, Unsubscribed(snap[s], f, v))
                /\ todo' = [todo EXCEPT ![s] = @ \ {f}]
                /\ UNCHANGED panicked
    /\ UNCHANGED <<ending, subscriptions, changed>>

\* Mutant of CloseSession: the list survives the session.
CloseSessionKeepsList(s) ==
    /\ call[s] = Idle /\ ending[s] # NoClient /\ todo[s] = {} /\ s \notin panicked
    /\ ending' = [ending EXCEPT ![s] = NoClient]
    /\ UNCHANGED <<inner, call, snap, todo, subscriptions, panicked, overwritten, lost, changed>>

\* ... then Session::close drops the session with its list.
CloseSession(s) ==
    /\ call[s] = Idle /\ ending[s] # NoClient /\ todo[s] = {} /\ s \notin panicked
    /\ subscriptions' = [subscriptions EXCEPT ![ending[s]] = None]
    /\ ending' = [ending EXCEPT ![s] = NoClient]
    /\ UNCHANGED <<inner, call, snap, todo, panicked, overwritten, lost, changed>>

\* Shard::match_subscribers looks a topic-name up for a PUBLISH.
MatchTopicName(s, n) ==
    /\ Free(s)
    /\ ReadInner(s, [op |-> "match", name |-> n])
    /\ UNCHANGED <<inner, ending, todo, subscriptions, panicked, lost, changed>>

CommitMatch(s) ==
    /\ call[s] # Idle /\ call[s].op = "match"
    /\ WriteInner(s, snap[s])
    /\ UNCHANGED <<ending, todo, subscriptions, panicked, changed>>

Next == \E s \in Shards :
    \/ \E c \in Clients :
          \/ \E r \in Requests : Subscribe(s, c, r)
          \/ RemoveTopicFilters(s, c)
    \/ \E f \in Filters : Unsubscribe(s, f)
    \/ \E n \in Names : MatchTopicName(s, n)
    \/ CommitSubscribe(s)
    \/ CommitUnsubscribe(s)
    \/ CloseSession(s)
    \/ CommitMatch(s)

Spec == Init /\ [][Next]_vars
-----------------------------------------------------------------------------
Subscriptions == [client : Clients, qos : Qos]

Version(i) == /\ i.count \in Nat
              /\ \A p \in DOMAIN i.root : i.root[p] \subseteq Subscriptions

Calls == [op : {"subscribe", "unsubscribe"}, client : Clients, filter : Filters, qos : Qos]
         \cup [op : {"match"}, name : Names]

ASSUME Markers == Idle \notin Calls /\ NoClient \notin Clients

TypeOK == /\ Version(inner)
          /\ \A s \in Shards : Version(snap[s])
          /\ call \in [Shards -> Calls \cup {Idle}]
          /\ ending \in [Shards -> Clients \cup {NoClient}]
          /\ todo \in [Shards -> SUBSET Filters]
          /\ \A c \in Clients : \A f \in DOMAIN subscriptions[c] :
                f \in Filters /\ subscriptions[c][f] \in Qos
          /\ panicked \subseteq Shards

\* Lost updates or not, every version that is ever installed or worked on is a
\* proper trie: each call computes from one version, never from a mixture.
VersionsWellFormed == /\ WellFormed(inner.root)
                      /\ \A s \in Shards : WellFormed(snap[s].root)

\* Stats::count, "number of topics in the trie", is that number in every
\* version: it travels with the root it counts, through lost updates as well.
CountIsTopics == /\ inner.count = Cardinality(Topics(inner.root))
                 /\ \A s \in Shards : snap[s].count = Cardinality(Topics(snap[s].root))

\* The subscriptions the trie holds, and those the sessions have on their lists.
InTrie == UNION {{<<v.client, p, v.qos>> : v \in inner.root[p]} : p \in DOMAIN inner.root}
OnLists == UNION {{<<c, f, subscriptions[c][f]>> : f \in DOMAIN subscriptions[c]} :
                    c \in Clients}

Quiet == \A s \in Shards : Free(s)

\* session.rs, on Session::subscriptions: "when ever SUBSCRIBE/UNSUBSCRIBE
\* messages are committed here, [Cluster::topic_filter] will also be updated."
\* Between calls, the trie holds the sessions' subscriptions and nothing else.
FiltersCommitted == Quiet => InTrie = OnLists

\* What the code keeps of that.  Until a call overwrites the outcome of another
\* one, no call reaches an unreachable!() and every filter on a list is in the
\* trie; and until a client subscribes to a filter once more with other options,
\* which insert_value ignores, the trie holds the lists exactly.
SerialCallsCommit ==
    ~lost => /\ panicked = {}
             /\ Quiet => \A c \in Clients : \A f \in DOMAIN subscriptions[c] :
                            \E v \in ValuesAt(inner.root, f) : v.client = c
             /\ ~changed => FiltersCommitted
=============================================================================
