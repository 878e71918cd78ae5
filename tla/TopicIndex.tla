----------------------------- MODULE TopicIndex -----------------------------
(***************************************************************************)
(* What the tries of ttrie.rs compute, as operators on a flat index.       *)
(*                                                                         *)
(* A trie is a tree whose edges carry level names.  Its children lists are *)
(* sorted and free of duplicates, so a node is given by its path from the  *)
(* root, and a whole trie by a function that maps the path of every node   *)
(* (the root, which has no values, left out) to the set of values there.   *)
(* TopicTrie.tla relates these operators to the recursive ones.            *)
(***************************************************************************)
EXTENDS Naturals, Sequences, FiniteSets

\* The nodes on the way from the root to path p, p included.
NodesTo(p) == {SubSeq(p, 1, i) : i \in 1..Len(p)}

Empty == [p \in {} |-> {}]

ValuesAt(T, p) == IF p \in DOMAIN T THEN T[p] ELSE {}

\* Paths that hold something: the topics of the trie.
Topics(T) == {p \in DOMAIN T : T[p] # {}}

\* Ord for Subscription looks at the client and the filter only, Eq at all.
SameKey(v, w) == v.client = w.client

\* insert_value: a value whose key is present already is dropped.
insert_value(vs, v) == IF \E w \in vs : SameKey(v, w) THEN vs ELSE vs \cup {v}

\* remove_value: a lone value is compared with Eq, several are searched by Ord.
remove_value(vs, v) == IF Cardinality(vs) = 1
                       THEN vs \ {v}
                       ELSE {w \in vs : ~SameKey(v, w)}

\* Install vs at p, with the nodes that lead there.
Put(T, p, vs) == [q \in DOMAIN T \cup NodesTo(p) |-> IF q = p THEN vs ELSE ValuesAt(T, q)]

\* Nodes on the way to p that lead to no value any more.
Dead(T, p) == {q \in NodesTo(p) :
                 \A r \in DOMAIN T : q \in NodesTo(r) => r \in NodesTo(p) /\ T[r] = {}}

\* Mutant of Prune: nodes that lead nowhere stay.
PruneNothing(T, p) == T

Prune(T, p) == [q \in DOMAIN T \ Dead(T, p) |-> T[q]]

sub(T, p, v) == Put(T, p, insert_value(ValuesAt(T, p), v))

unsub(T, p, v) == IF p \in DOMAIN T
                  THEN Prune(Put(T, p, remove_value(T[p], v)), p)
                  ELSE T

\* remove_value on a node that is only a stop on the way to others.
unsub_panics(T, p) == p \in DOMAIN T /\ T[p] = {}

set(T, p, v) == Put(T, p, {v})

remove(T, p) == IF p \in DOMAIN T THEN Prune(Put(T, p, {}), p) ELSE T

remove_panics(T, p) == unsub_panics(T, p)
-----------------------------------------------------------------------------
\* match_level: (one level matches, everything from here on matches).
match_level(in_lvl, trie_level) ==
    [one |-> in_lvl \in {"#", "+", trie_level} \/ trie_level \in {"#", "+"},
     many |-> in_lvl = "#" \/ trie_level = "#"]

\* Whether match_topic collects the values of the node at path q: the levels
\* match one by one, and q ends where the input does or at the first "#".
Collects(q, in_levels, dollar) ==
    /\ Len(q) <= Len(in_levels)
    /\ dollar => q[1] \notin {"#", "+"}
    /\ \A i \in 1..Len(q) : match_level(in_levels[i], q[i]).one
    /\ \A i \in 1..Len(q) - 1 : ~match_level(in_levels[i], q[i]).many
    /\ Len(q) = Len(in_levels) \/ match_level(in_levels[Len(q)], q[Len(q)]).many

match_topic(T, in_levels, dollar) ==
    UNION {T[q] : q \in {q \in DOMAIN T : Collects(q, in_levels, dollar)}}
-----------------------------------------------------------------------------
\* A well-formed index: no node without its parents, no node that leads
\* nowhere, and at most one value per client and path.
WellFormed(T) ==
    /\ \A p \in DOMAIN T : NodesTo(p) \subseteq DOMAIN T
    /\ \A p \in DOMAIN T : \E r \in Topics(T) : p \in NodesTo(r)
    /\ \A p \in DOMAIN T : \A v, w \in T[p] : SameKey(v, w) => v = w
=============================================================================
