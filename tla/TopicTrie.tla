----------------------------- MODULE TopicTrie ------------------------------
(***************************************************************************)
(* The recursive, copy-on-write operations of Node<V> in ttrie.rs, driven  *)
(* by one caller, beside the flat index of TopicIndex that they implement. *)
(*                                                                         *)
(* A node is [children, values]: the sorted children list as a function    *)
(* from level names to nodes, the sorted values list as a set.  The root   *)
(* is a node that never has values.                                        *)
(***************************************************************************)
EXTENDS TopicIndex

CONSTANTS Filters,  \* topic-filters, as sequences of levels
          Names,    \* topic-names, as sequences of levels
          Lookups,  \* topic-filters that retained messages are looked up with
          Clients,  \* subscribers
          Qos,      \* the subscription options, which Eq looks at and Ord does not
          Payloads  \* retained messages

ASSUME PathsNotEmpty == \A p \in Filters \cup Names \cup Lookups : Len(p) > 0

VARIABLES subscribed, \* SubscribedTrie: the root node
          retained,   \* RetainedTrie: the root node
          topics,     \* the flat index that subscribed stands for
          messages,   \* the flat index that retained stands for
          panicked    \* an unreachable!() of ttrie.rs was reached

vars == <<subscribed, retained, topics, messages, panicked>>

new_node == [children |-> [l \in {} |-> {}], values |-> {}]

is_empty(n) == n.children = new_node.children /\ n.values = {}

child(n, l) == IF l \in DOMAIN n.children THEN n.children[l] ELSE new_node

with_child(n, l, c) ==
    [n EXCEPT !.children = [k \in DOMAIN @ \cup {l} |-> IF k = l THEN c ELSE @[k]]]

without_child(n, l) == [n EXCEPT !.children = [k \in DOMAIN @ \ {l} |-> @[k]]]

\* Mutant of replace_child: an empty child stays in the list.
replace_child_no_prune(n, l, c) == with_child(n, l, c)

\* What becomes of n once the child at level l has become c: an empty child
\* is dropped, which may leave n itself empty.
replace_child(n, l, c) == IF is_empty(c) THEN without_child(n, l) ELSE with_child(n, l, c)

\* The node at the end of a path, or new_node.
RECURSIVE node_at(_, _)
node_at(n, levels) ==
    IF levels = <<>> THEN n ELSE node_at(child(n, Head(levels)), Tail(levels))

\* sub, set: recreate the nodes on the path, with new values at its end.
RECURSIVE store(_, _, _)
store(n, levels, vs) ==
    IF levels = <<>>
    THEN [n EXCEPT !.values = vs]
    ELSE with_child(n, Head(levels), store(child(n, Head(levels)), Tail(levels), vs))

node_sub(n, levels, v) == store(n, levels, insert_value(node_at(n, levels).values, v))

node_set(n, levels, v) == store(n, levels, {v})

\* unsub, remove: the same, then drop what has become empty on the way back.
\* A path that leaves the trie changes nothing.
RECURSIVE erase(_, _, _)
erase(n, levels, vs) ==
    IF levels = <<>>
    THEN [n EXCEPT !.values = vs]
    ELSE IF Head(levels) \in DOMAIN n.children
         THEN replace_child(n, Head(levels),
                            erase(n.children[Head(levels)], Tail(levels), vs))
         ELSE n

node_unsub(n, levels, v) == erase(n, levels, remove_value(node_at(n, levels).values, v))

node_remove(n, levels) == erase(n, levels, {})

\* remove_value and remove_topic call unreachable!() on a node without values.
node_panics(n, levels) == LET end == node_at(n, levels)
                          IN  ~is_empty(end) /\ end.values = {}

\* Mutant of collect: "#" is followed further down, like any other level.
RECURSIVE collect_below(_, _, _)
collect_below(n, levels, names) ==
    IF levels = <<>>
    THEN n.values
    ELSE UNION {collect_below(n.children[l], Tail(levels), DOMAIN n.children[l].children) :
                  l \in {l \in names : match_level(Head(levels), l).one}}

\* match_topic below the children called names of n.
RECURSIVE collect(_, _, _)
collect(n, levels, names) ==
    IF levels = <<>>
    THEN n.values
    ELSE UNION {LET c == n.children[l]
                    m == match_level(Head(levels), l)
                IN  CASE m.many -> c.values
                      [] m.one /\ ~m.many -> collect(c, Tail(levels), DOMAIN c.children)
                      [] OTHER -> {} : l \in names}

\* The root leaves its wildcard children out when dollar is set.
node_match(root, levels, dollar) ==
    collect(root, levels,
            DOMAIN root.children \ (IF dollar THEN {"#", "+"} ELSE {}))

\* dollar is set for every topic-name, not only for those that begin with "$".
match_topic_name(root, name) == node_match(root, name, TRUE)

\* The message found, or the failure of assert!(vals.len() == 1).
match_topic_filter(root, filter) ==
    LET vals == node_match(root, filter, FALSE)
    IN  [panics |-> Cardinality(vals) # 1,
         found |-> IF Cardinality(vals) = 1 THEN vals ELSE {}]
-----------------------------------------------------------------------------
Init == /\ subscribed = new_node /\ retained = new_node
        /\ topics = Empty /\ messages = Empty
        /\ panicked = FALSE

\* A value carries its path, so that equal values found on two paths are two.
Subscriptions(f) == [filter : {f}, client : Clients, qos : Qos]
Messages(n) == [topic : {n}, payload : Payloads]

Subscribe(f, v) == /\ ~panicked
                   /\ subscribed' = node_sub(subscribed, f, v)
                   /\ topics' = sub(topics, f, v)
                   /\ UNCHANGED <<retained, messages, panicked>>

Unsubscribe(f, v) ==
    /\ ~panicked
    /\ IF node_panics(subscribed, f)
       THEN panicked' = TRUE /\ UNCHANGED <<subscribed, topics>>
       ELSE /\ subscribed' = node_unsub(subscribed, f, v)
            /\ topics' = unsub(topics, f, v)
            /\ UNCHANGED panicked
    /\ UNCHANGED <<retained, messages>>

Set(n, m) == /\ ~panicked
             /\ retained' = node_set(retained, n, m)
             /\ messages' = set(messages, n, m)
             /\ UNCHANGED <<subscribed, topics, panicked>>

Remove(n) ==
    /\ ~panicked
    /\ IF node_panics(retained, n)
       THEN panicked' = TRUE /\ UNCHANGED <<retained, messages>>
       ELSE /\ retained' = node_remove(retained, n)
            /\ messages' = remove(messages, n)
            /\ UNCHANGED panicked
    /\ UNCHANGED <<subscribed, topics>>

Next == \/ \E f \in Filters : \E v \in Subscriptions(f) : Subscribe(f, v) \/ Unsubscribe(f, v)
        \/ \E n \in Names : Remove(n) \/ \E m \in Messages(n) : Set(n, m)

Spec == Init /\ [][Next]_vars
-----------------------------------------------------------------------------
\* The flat index a tree stands for.
RECURSIVE Flat(_, _)
Flat(n, at) ==
    LET below == {Flat(n.children[l], Append(at, l)) : l \in DOMAIN n.children}
        paths == UNION {DOMAIN T : T \in below}
    IN  [p \in paths \cup (IF at = <<>> THEN {} ELSE {at}) |->
            IF p = at THEN n.values ELSE (CHOOSE T \in below : p \in DOMAIN T)[p]]

\* The indexes keep their shape: parents present, no dead branches (what the
\* is_empty() checks of unsub and remove are for), one value per client.
TypeOK == /\ WellFormed(topics)
          /\ \A p \in DOMAIN topics : topics[p] \subseteq Subscriptions(p)
          /\ \A p \in DOMAIN messages : messages[p] \subseteq Messages(p)
          /\ subscribed.values = {} /\ retained.values = {}
          /\ panicked \in BOOLEAN

\* The recursive tries implement the flat indexes: same nodes, same values,
\* whatever the history of subscribe, unsubscribe, set and remove, and the
\* same calls that reach an unreachable!().
ImplementsIndex ==
    /\ Flat(subscribed, <<>>) = topics
    /\ Flat(retained, <<>>) = messages
    /\ \A f \in Filters : node_panics(subscribed, f) <=> unsub_panics(topics, f)
    /\ \A n \in Names : node_panics(retained, n) <=> remove_panics(messages, n)

\* match_topic_name, which walks the tree level by level, returns the
\* subscriptions of exactly the filters that match the name and do not begin
\* with a wildcard.  match_topic_filter returns the message of the one topic
\* that the filter matches, and panics when there is none or more than one.
MatchesAgree ==
    /\ \A n \in Names : match_topic_name(subscribed, n) = match_topic(topics, n, TRUE)
    /\ \A f \in Lookups :
           LET matched == {q \in Topics(messages) : Collects(q, f, FALSE)}
           IN  match_topic_filter(retained, f) =
                   [panics |-> \A q \in matched : matched # {q},
                    found |-> UNION {messages[q] : q \in {q \in matched : matched = {q}}}]
=============================================================================
