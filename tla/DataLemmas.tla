----------------------------- MODULE DataLemmas -----------------------------
(***************************************************************************)
(* What the trie index, the timer list and the codecs of the fields        *)
(* compute, for every trie, path, list, number of seconds and field.  The  *)
(* proofs of the components cite the lemmas on the trie index and the      *)
(* timer list.                                                             *)
(***************************************************************************)
EXTENDS TimerList, TopicIndex, Fields, FiniteSetTheorems, SequenceTheorems, WellFoundedInduction, TLAPS

\* A set of naturals has a least one.  This is what stands in for induction: a
\* statement about n holds for every n if there is no least n for which it fails.
LEMMA Least ==
    ASSUME NEW S \in SUBSET Nat, S # {}
    PROVE  \E n \in S : \A m \in S : n <= m
<1>1. PICK n \in S : \A m \in S : ~(<<m, n>> \in OpToRel(<, Nat))
  BY NatLessThanWellFounded, WFMin, Zenon
<1>2. \A m \in S : ~(m < n)
  BY <1>1, Zenon DEF OpToRel
<1> QED BY <1>2
-----------------------------------------------------------------------------
(* Paths.                                                                  *)

Paths == Seq(STRING) \ {<<>>}

\* The nodes to a path are its non-empty prefixes: itself, and the nodes to them.
LEMMA NodesToPath ==
    ASSUME NEW p \in Paths
    PROVE  /\ p \in NodesTo(p)
           /\ NodesTo(p) \subseteq Paths
           /\ \A q \in NodesTo(p) : NodesTo(q) \subseteq NodesTo(p)
<1>1. Len(p) \in Nat /\ Len(p) > 0
  BY DEF Paths
<1>2. p = SubSeq(p, 1, Len(p))
  BY <1>1 DEF Paths
<1>3. p \in NodesTo(p)
  <2>1. Len(p) \in 1..Len(p)
    BY <1>1
  <2> QED BY <1>2, <2>1, Zenon DEF NodesTo
<1>4. ASSUME NEW i \in 1..Len(p)
      PROVE  SubSeq(p, 1, i) \in Paths /\ Len(SubSeq(p, 1, i)) = i
  BY <1>1, <1>4 DEF Paths
<1>5. ASSUME NEW i \in 1..Len(p), NEW j \in 1..i
      PROVE  SubSeq(SubSeq(p, 1, i), 1, j) = SubSeq(p, 1, j)
  BY <1>1, <1>4, <1>5 DEF Paths
<1>6. ASSUME NEW q \in NodesTo(p), NEW r \in NodesTo(q)
      PROVE  r \in NodesTo(p)
  <2>1. PICK i \in 1..Len(p) : q = SubSeq(p, 1, i)
    BY DEF NodesTo
  <2>2. PICK j \in 1..i : r = SubSeq(q, 1, j)
    BY <2>1, <1>4 DEF NodesTo
  <2>3. j \in 1..Len(p) /\ r = SubSeq(p, 1, j)
    BY <1>1, <2>1, <2>2, <1>5
  <2> QED BY <2>3 DEF NodesTo
<1>7. NodesTo(p) \subseteq Paths
  BY <1>4, Zenon DEF NodesTo
<1> QED BY <1>3, <1>6, <1>7
-----------------------------------------------------------------------------
(* The trie index.                                                         *)

\* What the lemmas ask of a trie: WellFormed, its nodes are at paths.
Trie(T) == WellFormed(T) /\ DOMAIN T \subseteq Paths

\* A trie without nodes is one.
LEMMA EmptyTrie == Trie(Empty) /\ Topics(Empty) = {}
BY DEF Trie, WellFormed, Empty, Topics

\* Installing values at a path leaves all others as they were.
LEMMA PutValues ==
    ASSUME NEW T, NEW p \in Paths, NEW vs, NEW q
    PROVE  ValuesAt(Put(T, p, vs), q) = IF q = p THEN vs ELSE ValuesAt(T, q)
<1>1. p \in NodesTo(p)
  BY NodesToPath
<1>2. DOMAIN Put(T, p, vs) = DOMAIN T \cup NodesTo(p)
  BY DEF Put
<1> QED BY <1>1, <1>2 DEF Put, ValuesAt

\* Values go in: sub and set install a non-empty set with one value per client.
LEMMA PutTrie ==
    ASSUME NEW T, Trie(T), NEW p \in Paths, NEW vs, vs # {},
           \A v, w \in vs : SameKey(v, w) => v = w
    PROVE  /\ Trie(Put(T, p, vs))
           /\ Topics(Put(T, p, vs)) = Topics(T) \cup {p}
<1> DEFINE U == Put(T, p, vs)
<1>1. p \in NodesTo(p) /\ NodesTo(p) \subseteq Paths
  BY NodesToPath
<1>2. DOMAIN U = DOMAIN T \cup NodesTo(p)
  BY DEF Put
<1>3. \A q \in DOMAIN U : U[q] = IF q = p THEN vs ELSE ValuesAt(T, q)
  BY DEF Put
<1>4. p \in DOMAIN U /\ U[p] = vs
  BY <1>1, <1>2, <1>3
<1>5. \A q \in DOMAIN T : q # p => U[q] = T[q]
  BY <1>2, <1>3 DEF ValuesAt
<1>6. \A q \in DOMAIN U : q \notin DOMAIN T /\ q # p => U[q] = {}
  BY <1>2, <1>3 DEF ValuesAt
<1> HIDE DEF U
<1>7. Topics(U) = Topics(T) \cup {p}
  <2>1. \A q \in Topics(U) : q \in Topics(T) \cup {p}
    BY <1>5, <1>6 DEF Topics
  <2>2. \A q \in Topics(T) \cup {p} : q \in Topics(U)
    BY <1>2, <1>4, <1>5 DEF Topics
  <2> QED BY <2>1, <2>2
<1>8. \A q \in DOMAIN U : NodesTo(q) \subseteq DOMAIN U
  BY <1>2, NodesToPath DEF Trie, WellFormed
<1>9. \A q \in DOMAIN U : \E r \in Topics(U) : q \in NodesTo(r)
  BY <1>2, <1>7 DEF Trie, WellFormed
<1>10. \A q \in DOMAIN U : \A v, w \in U[q] : SameKey(v, w) => v = w
  BY <1>4, <1>5, <1>6 DEF Trie, WellFormed
<1>11. DOMAIN U \subseteq Paths
  BY <1>1, <1>2 DEF Trie
<1> QED BY <1>7, <1>8, <1>9, <1>10, <1>11 DEF Trie, WellFormed, U

\* Values go out: the path keeps a subset of its values, and the nodes that lead
\* nowhere are pruned.
LEMMA PruneTrie ==
    ASSUME NEW T, Trie(T), NEW p \in DOMAIN T, NEW vs \in SUBSET T[p]
    PROVE  /\ Trie(Prune(Put(T, p, vs), p))
           /\ Topics(Prune(Put(T, p, vs), p)) = IF vs = {} THEN Topics(T) \ {p} ELSE Topics(T) \cup {p}
           /\ \A q : ValuesAt(Prune(Put(T, p, vs), p), q) = IF q = p THEN vs ELSE ValuesAt(T, q)
<1> DEFINE U == Put(T, p, vs)
           D == Dead(U, p)
           V == Prune(U, p)
<1>0. p \in Paths /\ \A q \in DOMAIN T : q \in Paths
  BY DEF Trie
<1>1. p \in NodesTo(p) /\ NodesTo(p) \subseteq DOMAIN T
  BY <1>0, NodesToPath DEF Trie, WellFormed
<1>2. DOMAIN U = DOMAIN T
  BY <1>1 DEF Put
<1>3. \A q \in DOMAIN T : U[q] = IF q = p THEN vs ELSE T[q]
  BY <1>2 DEF Put, ValuesAt
<1>4. DOMAIN V = DOMAIN T \ D /\ \A q \in DOMAIN T \ D : V[q] = U[q]
  BY <1>2 DEF Prune
<1>5. D = {q \in NodesTo(p) : \A r \in DOMAIN T : q \in NodesTo(r) => r \in NodesTo(p) /\ U[r] = {}}
  BY <1>2 DEF Dead
<1> HIDE DEF U, D, V
<1>6. \A q \in DOMAIN T : U[q] # {} => q \notin D
  BY <1>0, <1>5, NodesToPath
<1>7. \A q \in D : q \in DOMAIN T /\ U[q] = {}
  BY <1>1, <1>5, <1>6
<1>8. Topics(V) = {q \in DOMAIN T : U[q] # {}}
  BY <1>4, <1>6 DEF Topics
<1>9. Topics(V) = IF vs = {} THEN Topics(T) \ {p} ELSE Topics(T) \cup {p}
  BY <1>8, <1>3 DEF Topics
<1>10. ASSUME NEW q PROVE ValuesAt(V, q) = IF q = p THEN vs ELSE ValuesAt(T, q)
  BY <1>3, <1>4, <1>7 DEF ValuesAt
<1>11. ASSUME NEW q \in DOMAIN V, NEW r \in NodesTo(q)
       PROVE  r \in DOMAIN V
  <2>1. q \in DOMAIN T /\ q \notin D /\ r \in DOMAIN T
    BY <1>4 DEF Trie, WellFormed
  <2>2. SUFFICES ASSUME r \in D PROVE FALSE
    BY <2>1, <1>4
  <2>3. q \in NodesTo(p) /\ U[q] = {}
    BY <2>1, <2>2, <1>5
  <2>4. PICK x \in DOMAIN T : q \in NodesTo(x) /\ ~(x \in NodesTo(p) /\ U[x] = {})
    BY <2>1, <2>3, <1>5
  <2>5. r \in NodesTo(x)
    BY <2>4, <1>0, NodesToPath
  <2> QED BY <2>2, <2>4, <2>5, <1>5
<1>12. ASSUME NEW q \in DOMAIN T, q \notin NodesTo(p)
       PROVE  \E r \in Topics(V) : q \in NodesTo(r)
  <2>1. PICK r \in Topics(T) : q \in NodesTo(r)
    BY DEF Trie, WellFormed
  <2>2. r # p /\ r \in DOMAIN T /\ U[r] # {}
    BY <1>12, <2>1, <1>3 DEF Topics
  <2> QED BY <2>1, <2>2, <1>8
<1>13. ASSUME NEW q \in DOMAIN V
       PROVE  \E r \in Topics(V) : q \in NodesTo(r)
  <2>1. CASE q \notin NodesTo(p)
    BY <2>1, <1>4, <1>12
  <2>2. CASE q \in NodesTo(p)
    <3>1. PICK r \in DOMAIN T : q \in NodesTo(r) /\ (r \notin NodesTo(p) \/ U[r] # {})
      BY <2>2, <1>4, <1>5
    <3>2. CASE U[r] # {}
      BY <3>1, <3>2, <1>8
    <3>3. CASE r \notin NodesTo(p)
      <4>1. PICK x \in Topics(V) : r \in NodesTo(x)
        BY <3>3, <1>12
      <4>2. x \in DOMAIN T
        BY <1>8
      <4>3. q \in NodesTo(x)
        BY <3>1, <4>1, <4>2, <1>0, NodesToPath
      <4> QED BY <4>3
    <3> QED BY <3>1, <3>2, <3>3
  <2> QED BY <2>1, <2>2
<1>14. \A q \in DOMAIN V : \A v, w \in V[q] : SameKey(v, w) => v = w
  BY <1>3, <1>4 DEF Trie, WellFormed
<1>15. DOMAIN V \subseteq Paths
  BY <1>0, <1>4
<1>16. Trie(V)
  BY <1>11, <1>13, <1>14, <1>15 DEF Trie, WellFormed
<1> QED BY <1>9, <1>10, <1>16 DEF V, U

\* sub: the value of a client that is there already stays, others are added.
LEMMA SubTrie ==
    ASSUME NEW T, Trie(T), NEW p \in Paths, NEW v
    PROVE  /\ Trie(sub(T, p, v))
           /\ Topics(sub(T, p, v)) = Topics(T) \cup {p}
           /\ \A q : ValuesAt(sub(T, p, v), q) =
                       IF q = p THEN insert_value(ValuesAt(T, p), v) ELSE ValuesAt(T, q)
<1> DEFINE vs == insert_value(ValuesAt(T, p), v)
<1>1. \A x, y \in ValuesAt(T, p) : SameKey(x, y) => x = y
  BY DEF Trie, WellFormed, ValuesAt
<1>2. vs # {}
  BY DEF insert_value
<1>3. \A x, y \in vs : SameKey(x, y) => x = y
  BY <1>1 DEF insert_value, SameKey
<1> HIDE DEF vs
<1>4. Trie(Put(T, p, vs)) /\ Topics(Put(T, p, vs)) = Topics(T) \cup {p}
  BY <1>2, <1>3, PutTrie
<1>5. ASSUME NEW q
      PROVE  ValuesAt(Put(T, p, vs), q) = IF q = p THEN vs ELSE ValuesAt(T, q)
  BY PutValues
<1> QED BY <1>4, <1>5 DEF sub, vs

\* remove_value leaves nothing exactly if the value is alone.
LEMMA RemovesLast ==
    ASSUME NEW vs, vs # {}, NEW v, \A x, y \in vs : SameKey(x, y) => x = y
    PROVE  /\ remove_value(vs, v) \subseteq vs
           /\ (remove_value(vs, v) = {}) <=> (vs = {v})
<1>1. remove_value(vs, v) \subseteq vs
  BY DEF remove_value
<1>2. ASSUME vs = {v} PROVE remove_value(vs, v) = {}
  BY <1>2, FS_Singleton, Zenon DEF remove_value
<1>3. ASSUME remove_value(vs, v) = {} PROVE vs = {v}
  <2>1. CASE Cardinality(vs) = 1
    BY <1>3, <2>1 DEF remove_value
  <2>2. CASE Cardinality(vs) # 1
    <3>1. \A w \in vs : SameKey(v, w)
      BY <1>3, <2>2 DEF remove_value
    <3>2. PICK w : w \in vs
      OBVIOUS
    <3>3. vs = {w}
      BY <3>1, <3>2 DEF SameKey
    <3> QED BY <3>3, <2>2, FS_Singleton
  <2> QED BY <2>1, <2>2
<1> QED BY <1>1, <1>2, <1>3

\* unsub of a path that is no topic changes nothing; a topic goes with its last value.
LEMMA UnsubTrie ==
    ASSUME NEW T, Trie(T), NEW p, NEW v, ~unsub_panics(T, p)
    PROVE  /\ Trie(unsub(T, p, v))
           /\ Topics(unsub(T, p, v)) =
                 IF ValuesAt(T, p) = {v} THEN Topics(T) \ {p} ELSE Topics(T)
           /\ \A q : ValuesAt(unsub(T, p, v), q) =
                 IF q = p /\ p \in DOMAIN T THEN remove_value(T[p], v) ELSE ValuesAt(T, q)
<1>1. CASE p \notin DOMAIN T
  BY <1>1 DEF unsub, ValuesAt
<1>2. CASE p \in DOMAIN T
  <2> DEFINE vs == remove_value(T[p], v)
  <2>1. T[p] # {} /\ \A x, y \in T[p] : SameKey(x, y) => x = y
    BY <1>2 DEF unsub_panics, Trie, WellFormed
  <2>2. vs \in SUBSET T[p] /\ ((vs = {}) <=> (T[p] = {v}))
    BY <2>1, RemovesLast
  <2>3. unsub(T, p, v) = Prune(Put(T, p, vs), p)
    BY <1>2 DEF unsub
  <2>4. ValuesAt(T, p) = T[p] /\ p \in Topics(T)
    BY <1>2, <2>1 DEF ValuesAt, Topics
  <2> HIDE DEF vs
  <2>5. /\ Trie(Prune(Put(T, p, vs), p))
        /\ Topics(Prune(Put(T, p, vs), p)) = IF vs = {} THEN Topics(T) \ {p} ELSE Topics(T) \cup {p}
        /\ \A q : ValuesAt(Prune(Put(T, p, vs), p), q) = IF q = p THEN vs ELSE ValuesAt(T, q)
    BY <1>2, <2>2, PruneTrie
  <2> QED BY <1>2, <2>2, <2>3, <2>4, <2>5 DEF vs
<1> QED BY <1>1, <1>2
-----------------------------------------------------------------------------
(* The timer list.                                                         *)

\* The lists of a timer over the values V.
Items(V) == [delta : Nat, value : V]
Lists(V) == Seq(Items(V))

\* A list has items with a delta and a value at its positions.
LEMMA ListItems ==
    ASSUME NEW V, NEW list \in Lists(V)
    PROVE  /\ Len(list) \in Nat /\ DOMAIN list = 1..Len(list)
           /\ \A i \in 1..Len(list) : /\ list[i] \in Items(V)
                                      /\ list[i].delta \in Nat /\ list[i].value \in V
<1>1. Len(list) \in Nat /\ DOMAIN list = 1..Len(list) /\ \A i \in 1..Len(list) : list[i] \in Items(V)
  BY DEF Lists
<1>2. \A x \in Items(V) : x.delta \in Nat /\ x.value \in V
  BY DEF Items
<1> QED BY <1>1, <1>2

IsSums(list, sum) == /\ sum \in [0..Len(list) -> Int] /\ sum[0] = 0
                     /\ \A n \in 1..Len(list) : sum[n] = sum[n - 1] + list[n].delta

\* There is a function that adds up the deltas: no least length is out of its reach.
LEMMA SumsExist ==
    ASSUME NEW V, NEW list \in Lists(V)
    PROVE  \E sum : IsSums(list, sum)
<1> DEFINE P(m) == \E sum \in [0..m -> Int] :
                     sum[0] = 0 /\ \A n \in 1..m : sum[n] = sum[n - 1] + list[n].delta
           bad == {m \in 0..Len(list) : ~P(m)}
<1>1. /\ Len(list) \in Nat
      /\ \A i \in 1..Len(list) : list[i].delta \in Nat
  BY ListItems
<1>2. P(0)
  <2> DEFINE sum == [n \in 0..0 |-> 0]
  <2>1. sum \in [0..0 -> Int] /\ sum[0] = 0 /\ \A n \in 1..0 : sum[n] = sum[n - 1] + list[n].delta
    OBVIOUS
  <2> QED BY <2>1, Zenon
<1>3. ASSUME NEW m \in 0..Len(list) - 1, P(m) PROVE P(m + 1)
  <2>1. PICK sum \in [0..m -> Int] : sum[0] = 0 /\ \A n \in 1..m : sum[n] = sum[n - 1] + list[n].delta
    BY <1>3, Zenon
  <2> DEFINE more == [n \in 0..m + 1 |-> IF n = m + 1 THEN sum[m] + list[m + 1].delta ELSE sum[n]]
  <2>2. m + 1 \in 1..Len(list) /\ m \in 0..m /\ m \in Nat
    BY <1>1
  <2>3. sum[m] + list[m + 1].delta \in Int
    BY <1>1, <2>2
  <2>4. more \in [0..m + 1 -> Int] /\ more[0] = 0
    BY <2>1, <2>2, <2>3
  <2>5. \A n \in 1..m + 1 : more[n] = more[n - 1] + list[n].delta
    BY <2>1, <2>2
  <2> HIDE DEF more
  <2> QED BY <2>4, <2>5, Zenon
<1> HIDE DEF P
<1>4. bad = {}
  <2>1. SUFFICES ASSUME bad # {} PROVE FALSE
    OBVIOUS
  <2>2. bad \in SUBSET Nat
    BY <1>1
  <2>3. PICK m \in bad : \A k \in bad : m <= k
    BY <2>1, <2>2, Least, Zenon
  <2>4. m # 0 /\ m \in 0..Len(list)
    BY <1>2, <2>3
  <2>5. m - 1 \in 0..Len(list) - 1 /\ m - 1 \notin bad /\ (m - 1) + 1 = m
    BY <1>1, <2>2, <2>3, <2>4
  <2>6. P(m - 1)
    BY <1>1, <2>5
  <2>7. P((m - 1) + 1)
    BY <1>3, <2>5, <2>6
  <2> QED BY <2>3, <2>5, <2>7
<1>5. P(Len(list))
  BY <1>1, <1>4
<1> QED BY <1>5 DEF P, IsSums

Summing(list, f) == [n \in 0..Len(list) |-> IF n = 0 THEN 0 ELSE f[n - 1] + list[n].delta]

\* There is only one.
LEMMA SumsUnique ==
    ASSUME NEW V, NEW list \in Lists(V), NEW f, NEW g, f = Summing(list, f), IsSums(list, g)
    PROVE  f = g
<1> DEFINE bad == {n \in 0..Len(list) : f[n] # g[n]}
<1>1. Len(list) \in Nat
  BY ListItems
<1>2. /\ DOMAIN f = 0..Len(list) /\ f[0] = 0
      /\ \A n \in 1..Len(list) : f[n] = f[n - 1] + list[n].delta
  BY <1>1 DEF Summing
<1>3. bad = {}
  <2>1. SUFFICES ASSUME bad # {} PROVE FALSE
    OBVIOUS
  <2>2. bad \in SUBSET Nat
    BY <1>1
  <2>3. PICK m \in bad : \A k \in bad : m <= k
    BY <2>1, <2>2, Least, Zenon
  <2>4. m \in 1..Len(list)
    BY <1>1, <1>2, <2>3 DEF IsSums
  <2>5. m - 1 \in 0..Len(list) /\ m - 1 \notin bad
    BY <1>1, <2>2, <2>3, <2>4
  <2>6. f[m - 1] = g[m - 1]
    BY <2>5
  <2>7. f[m] = g[m]
    BY <1>2, <2>4, <2>6 DEF IsSums
  <2> QED BY <2>3, <2>7
<1>4. \A n \in 0..Len(list) : f[n] = g[n]
  BY <1>3
<1>5. f = [n \in 0..Len(list) |-> f[n]]
  BY <1>2 DEF Summing
<1>6. g = [n \in 0..Len(list) |-> g[n]]
  BY DEF IsSums
<1> QED BY <1>4, <1>5, <1>6

\* Sums is that function.
LEMMA SumsDef ==
    ASSUME NEW V, NEW list \in Lists(V)
    PROVE  IsSums(list, Sums(list)) /\ \A g : IsSums(list, g) => g = Sums(list)
<1>1. PICK g : IsSums(list, g)
  BY SumsExist
<1>2. Len(list) \in Nat /\ \A i \in 1..Len(list) : list[i].delta \in Nat
  BY ListItems
<1>3. g = Summing(list, g)
  BY <1>1, <1>2 DEF IsSums, Summing
<1>4. Sums(list) = CHOOSE f : f = Summing(list, f)
  BY DEF Sums, Summing
<1>5. Sums(list) = Summing(list, Sums(list))
  BY <1>3, <1>4
<1>6. \A h : IsSums(list, h) => Sums(list) = h
  BY <1>5, SumsUnique
<1> QED BY <1>1, <1>6

\* The sums grow along the list.
LEMMA SumsGrow ==
    ASSUME NEW V, NEW list \in Lists(V), NEW i \in 0..Len(list), NEW j \in i..Len(list)
    PROVE  Sums(list)[i] <= Sums(list)[j]
<1> DEFINE sum == Sums(list)
           bad == {n \in i..Len(list) : ~(sum[i] <= sum[n])}
<1>1. Len(list) \in Nat /\ \A n \in 1..Len(list) : list[n].delta \in Nat
  BY ListItems
<1>2. /\ \A n \in 0..Len(list) : sum[n] \in Int
      /\ \A n \in 1..Len(list) : sum[n] = sum[n - 1] + list[n].delta
  BY SumsDef, Zenon DEF IsSums
<1> HIDE DEF sum
<1>3. bad = {}
  <2>1. SUFFICES ASSUME bad # {} PROVE FALSE
    OBVIOUS
  <2>2. bad \in SUBSET Nat
    BY <1>1
  <2>3. PICK m \in bad : \A k \in bad : m <= k
    BY <2>1, <2>2, Least, Zenon
  <2>4. m \in 1..Len(list) /\ m - 1 \in i..Len(list)
    BY <1>1, <1>2, <2>3
  <2>5. m - 1 \notin bad
    BY <1>1, <2>2, <2>3, <2>4
  <2>6. sum[i] <= sum[m - 1]
    BY <2>4, <2>5
  <2>7. sum[m] = sum[m - 1] + list[m].delta /\ list[m].delta \in Nat
    BY <1>1, <1>2, <2>4
  <2>8. sum[m - 1] \in Int /\ sum[i] \in Int
    BY <1>1, <1>2, <2>4
  <2>9. sum[i] <= sum[m]
    BY <2>6, <2>7, <2>8
  <2> QED BY <2>3, <2>9
<1> QED BY <1>3 DEF sum

\* Going over a list until something stops one always comes to an end.
LEMMA FirstStop ==
    ASSUME NEW n \in Nat, NEW S \in SUBSET (0..n), n \in S
    PROVE  \E k \in S : \A i \in 0..k - 1 : i \notin S
<1>1. S \in SUBSET Nat /\ S # {}
  OBVIOUS
<1>2. PICK k \in S : \A m \in S : k <= m
  BY <1>1, Least
<1> QED BY <1>1, <1>2

\* expired() takes what expires within secs, and stops at the first that does not.
LEMMA TakesDef ==
    ASSUME NEW V, NEW list \in Lists(V), NEW secs \in Nat
    PROVE  /\ Takes(list, secs) \in 0..Len(list)
           /\ \A i \in 1..Takes(list, secs) : list[i].delta <= secs
           /\ Takes(list, secs) < Len(list) => list[Takes(list, secs) + 1].delta > secs
<1> DEFINE S == {k \in 0..Len(list) : k < Len(list) => list[k + 1].delta > secs}
           Q(k) == /\ \A i \in 1..k : list[i].delta <= secs
                   /\ k < Len(list) => list[k + 1].delta > secs
<1>1. Len(list) \in Nat /\ \A i \in 1..Len(list) : list[i].delta \in Nat
  BY ListItems
<1>2. S \in SUBSET (0..Len(list)) /\ Len(list) \in S
  BY <1>1
<1>3. PICK k \in S : \A i \in 0..k - 1 : i \notin S
  BY <1>1, <1>2, FirstStop, Zenon
<1>4. k \in 0..Len(list) /\ (k < Len(list) => list[k + 1].delta > secs)
  BY <1>3
<1>5. ASSUME NEW i \in 1..k PROVE list[i].delta <= secs
  <2>1. i - 1 \in 0..k - 1 /\ i - 1 \in 0..Len(list) /\ i \in 1..Len(list) /\ (i - 1) + 1 = i
    BY <1>1, <1>4
  <2> i - 1 \notin S
    BY <2>1, <1>3, Zenon
  <2>2. ~(list[i].delta > secs)
    BY <2>1
  <2> QED BY <2>1, <2>2, <1>1
<1>6. k \in 0..Len(list) /\ Q(k)
  BY <1>4, <1>5
<1>7. Takes(list, secs) = CHOOSE x \in 0..Len(list) : Q(x)
  BY DEF Takes
<1> HIDE DEF Q
<1>8. Takes(list, secs) \in 0..Len(list) /\ Q(Takes(list, secs))
  BY <1>6, <1>7, Zenon
<1> QED BY <1>8 DEF Q

\* The values of the first items, and of all behind them.
LEMMA PartValues ==
    ASSUME NEW V, NEW list \in Lists(V), NEW k \in 0..Len(list)
    PROVE  /\ UpTo(list, k) \in Lists(V) /\ Behind(list, k) \in Lists(V)
           /\ Len(UpTo(list, k)) = k /\ Len(Behind(list, k)) = Len(list) - k
           /\ \A i \in 1..k : UpTo(list, k)[i] = list[i]
           /\ \A i \in 1..Len(list) - k : Behind(list, k)[i] = list[k + i]
           /\ ValuesOf(UpTo(list, k)) = {list[i].value : i \in 1..k}
           /\ ValuesOf(Behind(list, k)) = {list[i].value : i \in k + 1..Len(list)}
<1>1. Len(list) \in Nat
  BY ListItems
<1>2. /\ UpTo(list, k) \in Lists(V) /\ Len(UpTo(list, k)) = k
      /\ \A i \in 1..k : UpTo(list, k)[i] = list[i]
  BY <1>1 DEF UpTo, Lists
<1>3. /\ Behind(list, k) \in Lists(V) /\ Len(Behind(list, k)) = Len(list) - k
      /\ \A i \in 1..Len(list) - k : Behind(list, k)[i] = list[k + i]
  BY <1>1 DEF Behind, Lists
<1>4. DOMAIN UpTo(list, k) = 1..k /\ DOMAIN Behind(list, k) = 1..Len(list) - k
  BY <1>2, <1>3, ListItems
<1>5. ValuesOf(UpTo(list, k)) = {list[i].value : i \in 1..k}
  BY <1>2, <1>4 DEF ValuesOf
<1>6. ASSUME NEW x PROVE x \in ValuesOf(Behind(list, k)) <=> x \in {list[i].value : i \in k + 1..Len(list)}
  <2>1. \A i \in 1..Len(list) - k : k + i \in k + 1..Len(list)
    BY <1>1
  <2>2. \A i \in k + 1..Len(list) : i - k \in 1..Len(list) - k /\ k + (i - k) = i
    BY <1>1
  <2>3. ValuesOf(Behind(list, k)) = {Behind(list, k)[i].value : i \in 1..Len(list) - k}
    BY <1>4 DEF ValuesOf
  <2>4. ASSUME NEW i \in 1..Len(list) - k, x = Behind(list, k)[i].value
        PROVE  x \in {list[j].value : j \in k + 1..Len(list)}
    BY <2>1, <2>4, <1>3
  <2>5. ASSUME NEW i \in k + 1..Len(list), x = list[i].value
        PROVE  x = Behind(list, k)[i - k].value
    BY <2>2, <2>5, <1>3
  <2> QED BY <2>2, <2>3, <2>4, <2>5
<1> QED BY <1>2, <1>3, <1>5, <1>6

\* The values that expired takes off the list, alone.
LEMMA UpToValues ==
    ASSUME NEW V, NEW list \in Lists(V), NEW k \in 0..Len(list)
    PROVE  ValuesOf(UpTo(list, k)) = {list[i].value : i \in 1..k}
BY PartValues, SMTT(30)

\* gc goes over deleted items only, and stops at the first other one.
LEMMA GcDef ==
    ASSUME NEW V, NEW list \in Lists(V), NEW deleted
    PROVE  \E k \in 0..Len(list) :
              /\ gc(list, deleted) = Behind(list, k)
              /\ \A i \in 1..k : list[i].value \in deleted
              /\ k < Len(list) => list[k + 1].value \notin deleted
<1> DEFINE S == {k \in 0..Len(list) : k < Len(list) => list[k + 1].value \notin deleted}
           Q(k) == /\ ValuesOf(UpTo(list, k)) \subseteq deleted
                   /\ k < Len(list) => list[k + 1].value \notin deleted
<1>1. Len(list) \in Nat
  BY ListItems
<1>2. S \in SUBSET (0..Len(list)) /\ Len(list) \in S
  BY <1>1
<1>3. PICK k \in S : \A i \in 0..k - 1 : i \notin S
  BY <1>1, <1>2, FirstStop, Zenon
<1>4. k \in 0..Len(list) /\ (k < Len(list) => list[k + 1].value \notin deleted)
  BY <1>3
<1>5. ASSUME NEW i \in 1..k PROVE list[i].value \in deleted
  <2>1. i - 1 \in 0..k - 1 /\ i - 1 \in 0..Len(list) /\ i \in 1..Len(list) /\ (i - 1) + 1 = i
    BY <1>1, <1>4
  <2> i - 1 \notin S
    BY <2>1, <1>3, Zenon
  <2> QED BY <2>1
<1> HIDE DEF S
<1>6. k \in 0..Len(list) /\ Q(k)
  <2> k \in 0..Len(list)
    BY <1>4
  <2>1. ValuesOf(UpTo(list, k)) = {list[i].value : i \in 1..k}
    BY UpToValues
  <2> QED BY <2>1, <1>4, <1>5
<1> DEFINE n == CHOOSE x \in 0..Len(list) : Q(x)
<1>7. gc(list, deleted) = Behind(list, n)
  BY DEF gc
<1> HIDE DEF Q
<1>8. n \in 0..Len(list) /\ Q(n)
  BY <1>6, Zenon
<1> HIDE DEF n
<1>9. ValuesOf(UpTo(list, n)) = {list[i].value : i \in 1..n}
  BY <1>8, UpToValues
<1> QED BY <1>7, <1>8, <1>9 DEF Q

\* differential takes ndelta from the first item, if there is one.
LEMMA DifferentialDef ==
    ASSUME NEW V, NEW list \in Lists(V), NEW ndelta \in Nat,
           list # <<>> => ndelta <= list[1].delta
    PROVE  /\ differential(list, ndelta) \in Lists(V)
           /\ Len(differential(list, ndelta)) = Len(list)
           /\ \A i \in 1..Len(list) : /\ differential(list, ndelta)[i].value = list[i].value
                                      /\ i # 1 => differential(list, ndelta)[i] = list[i]
           /\ list # <<>> => differential(list, ndelta)[1].delta = list[1].delta - ndelta
<1>1. CASE list = <<>>
  <2>1. differential(list, ndelta) = list
    BY <1>1 DEF differential
  <2> QED BY <1>1, <2>1
<1>2. CASE list # <<>>
  <2>1. Len(list) \in Nat /\ DOMAIN list = 1..Len(list) /\ 1 \in 1..Len(list)
    BY <1>2, ListItems, EmptySeq DEF Lists
  <2> DEFINE item == [list[1] EXCEPT !.delta = @ - ndelta]
  <2>2. /\ item \in Items(V)
        /\ item.delta = list[1].delta - ndelta /\ item.value = list[1].value
    <3>1. list[1] \in Items(V) /\ list[1].delta \in Nat
      BY <2>1, ListItems
    <3> QED BY <1>2, <3>1 DEF Items
  <2>3. differential(list, ndelta) = [list EXCEPT ![1] = item]
    BY <1>2 DEF differential
  <2> HIDE DEF item
  <2>4. /\ [list EXCEPT ![1] = item] \in Lists(V)
        /\ Len([list EXCEPT ![1] = item]) = Len(list)
        /\ \A j \in 1..Len(list) : [list EXCEPT ![1] = item][j] = IF j = 1 THEN item ELSE list[j]
    BY <2>1, <2>2 DEF Lists
  <2> QED BY <2>1, <2>2, <2>3, <2>4
<1> QED BY <1>1, <1>2

\* add_timeout goes over the items that expire no later than the new one.
LEMMA PositionDef ==
    ASSUME NEW V, NEW list \in Lists(V), NEW ndelta \in Nat
    PROVE  LET i == Position(list, ndelta)
           IN /\ i \in 1..Len(list) + 1
              /\ Sums(list)[i - 1] \in 0..ndelta
              /\ i <= Len(list) => ndelta - Sums(list)[i - 1] < list[i].delta
<1> DEFINE sum == Sums(list)
           S == {k \in 0..Len(list) : k < Len(list) => ndelta - sum[k] < list[k + 1].delta}
           Q(i) == /\ \A j \in 1..i - 1 : ndelta - Before(list, j) >= list[j].delta
                   /\ i <= Len(list) => ndelta - Before(list, i) < list[i].delta
           p == Position(list, ndelta)
<1>1. Len(list) \in Nat /\ \A n \in 1..Len(list) : list[n].delta \in Nat
  BY ListItems
<1>2. /\ \A n \in 0..Len(list) : sum[n] \in Int
      /\ \A n \in 1..Len(list) : sum[n] = sum[n - 1] + list[n].delta
      /\ sum[0] = 0
  BY SumsDef DEF IsSums
<1>3. \A i : Before(list, i) = sum[i - 1]
  BY DEF Before
<1>4. p = CHOOSE i \in 1..Len(list) + 1 : Q(i)
  BY DEF Position
<1>5. \A n \in 0..Len(list) : sum[0] <= sum[n]
  BY <1>1, SumsGrow
<1> HIDE DEF sum, p
<1>6. S \in SUBSET (0..Len(list)) /\ Len(list) \in S
  BY <1>1
<1>7. PICK k \in S : \A i \in 0..k - 1 : i \notin S
  BY <1>1, <1>6, FirstStop, Zenon
<1>8. k \in 0..Len(list) /\ (k < Len(list) => ndelta - sum[k] < list[k + 1].delta)
  BY <1>7
<1>9. ASSUME NEW j \in 1..k PROVE ndelta - sum[j - 1] >= list[j].delta
  <2>1. j - 1 \in 0..k - 1 /\ j - 1 \in 0..Len(list) /\ j \in 1..Len(list) /\ (j - 1) + 1 = j
    BY <1>1, <1>8
  <2>2. j - 1 \notin S
    BY <2>1, <1>7
  <2>3. ~(ndelta - sum[j - 1] < list[j].delta)
    BY <2>1, <2>2
  <2>4. sum[j - 1] \in Int /\ list[j].delta \in Nat
    BY <2>1, <1>1, <1>2
  <2> QED BY <2>3, <2>4
<1>10. k + 1 \in 1..Len(list) + 1 /\ (k + 1) - 1 = k /\ (k + 1 <= Len(list) <=> k < Len(list))
  BY <1>1, <1>8
<1>11. Q(k + 1)
  <2>1. \A j \in 1..(k + 1) - 1 : ndelta - Before(list, j) >= list[j].delta
    BY <1>3, <1>9, <1>10
  <2>2. k + 1 <= Len(list) => ndelta - Before(list, k + 1) < list[k + 1].delta
    BY <1>3, <1>8, <1>10
  <2> QED BY <2>1, <2>2
<1> HIDE DEF Q
<1>12. p \in 1..Len(list) + 1 /\ Q(p)
  BY <1>4, <1>10, <1>11, Zenon
<1>13. p <= Len(list) => ndelta - sum[p - 1] < list[p].delta
  BY <1>3, <1>12 DEF Q
<1>14. sum[p - 1] <= ndelta
  <2>1. CASE p = 1
    BY <2>1, <1>2
  <2>2. CASE p # 1
    <3>1. p - 1 \in 1..p - 1 /\ p - 1 \in 1..Len(list) /\ (p - 1) - 1 \in 0..Len(list)
      BY <2>2, <1>1, <1>12
    <3>2. ndelta - sum[(p - 1) - 1] >= list[p - 1].delta
      BY <3>1, <1>3, <1>12 DEF Q
    <3>3. sum[p - 1] = sum[(p - 1) - 1] + list[p - 1].delta
      BY <3>1, <1>2
    <3>4. sum[(p - 1) - 1] \in Int /\ list[p - 1].delta \in Nat
      BY <3>1, <1>1, <1>2
    <3> QED BY <3>2, <3>3, <3>4
  <2> QED BY <2>1, <2>2
<1>15. p - 1 \in 0..Len(list)
  BY <1>1, <1>12
<1>16. sum[p - 1] \in 0..ndelta
  BY <1>2, <1>5, <1>14, <1>15
<1> QED BY <1>12, <1>13, <1>16 DEF sum, p

Around(a, x, b) == a \o <<x>> \o b

IsAround(q, a, x, b) == /\ Len(q) = Len(a) + 1 + Len(b)
                        /\ \A j \in 1..Len(a) : q[j] = a[j]
                        /\ q[Len(a) + 1] = x
                        /\ \A j \in 1..Len(b) : q[Len(a) + 1 + j] = b[j]

\* An element between two sequences.
LEMMA ThreeParts ==
    ASSUME NEW S, NEW a \in Seq(S), NEW x \in S, NEW b \in Seq(S)
    PROVE  Around(a, x, b) \in Seq(S) /\ IsAround(Around(a, x, b), a, x, b)
<1> DEFINE c == a \o <<x>>
<1>1. /\ c \in Seq(S) /\ Len(c) = Len(a) + 1 /\ c[Len(a) + 1] = x
      /\ \A j \in 1..Len(a) : c[j] = a[j]
  OBVIOUS
<1>2. Len(a) \in Nat /\ Len(b) \in Nat
  OBVIOUS
<1> HIDE DEF c
<1>3. /\ c \o b \in Seq(S) /\ Len(c \o b) = Len(c) + Len(b)
      /\ \A i \in 1..Len(c) + Len(b) : (c \o b)[i] = IF i <= Len(c) THEN c[i] ELSE b[i - Len(c)]
  BY <1>1, ConcatProperties, Zenon
<1>4. \A j \in 1..Len(a) : (c \o b)[j] = a[j]
  BY <1>1, <1>2, <1>3
<1>5. (c \o b)[Len(a) + 1] = x
  BY <1>1, <1>2, <1>3
<1>6. \A j \in 1..Len(b) : (c \o b)[Len(a) + 1 + j] = b[j]
  BY <1>1, <1>2, <1>3
<1> QED BY <1>1, <1>3, <1>4, <1>5, <1>6 DEF c, Around, IsAround

\* What add_timeout makes of a list: the items in front stay, the new item comes, the
\* next one is counted from it, and the rest stays.
Inserted(list, new, i, ndelta, value) ==
    /\ i \in 1..Len(list) + 1 /\ Len(new) = Len(list) + 1
    /\ \A j \in 1..i - 1 : new[j] = list[j]
    /\ new[i] = Item(ndelta - Sums(list)[i - 1], value)
    /\ \A j \in i..Len(list) : /\ new[j + 1].value = list[j].value
                               /\ j # i => new[j + 1] = list[j]
    /\ Sums(list)[i - 1] \in 0..ndelta
    /\ i <= Len(list) => new[i + 1].delta = list[i].delta - new[i].delta

\* What Timer::add_timeout makes of the list: one item more, at the position for ndelta.
LEMMA AddTimeoutDef ==
    ASSUME NEW V, NEW list \in Lists(V), NEW ndelta \in Nat, NEW value \in V
    PROVE  /\ add_timeout(list, ndelta, value) \in Lists(V)
           /\ Inserted(list, add_timeout(list, ndelta, value), Position(list, ndelta), ndelta, value)
<1> DEFINE i == Position(list, ndelta)
           delta == ndelta - Sums(list)[i - 1]
           front == UpTo(list, i - 1)
           item == Item(delta, value)
           rest == Behind(list, i - 1)
           back == differential(rest, delta)
           new == add_timeout(list, ndelta, value)
<1>1. Len(list) \in Nat
  BY ListItems
<1>2. /\ i \in 1..Len(list) + 1
      /\ Sums(list)[i - 1] \in 0..ndelta
      /\ i <= Len(list) => ndelta - Sums(list)[i - 1] < list[i].delta
  BY PositionDef
<1>3. new = Around(front, item, back)
  BY DEF add_timeout, Before, Around
<1> HIDE DEF i, new
<1>4. delta \in Nat
  BY <1>2
<1>5. item \in Items(V) /\ item.delta = delta
  BY <1>4 DEF Item, Items
<1>6. i - 1 \in 0..Len(list)
  BY <1>1, <1>2
<1>7. /\ front \in Lists(V) /\ Len(front) = i - 1
      /\ \A j \in 1..i - 1 : front[j] = list[j]
  BY <1>6, PartValues, Zenon
<1>8. /\ rest \in Lists(V) /\ Len(rest) = Len(list) - (i - 1)
      /\ \A j \in 1..Len(list) - (i - 1) : rest[j] = list[(i - 1) + j]
  BY <1>6, PartValues, ZenonT(30)
<1>9. rest # <<>> => i <= Len(list) /\ rest[1] = list[i]
  <2>1. rest # <<>> => Len(rest) > 0
    BY <1>8 DEF Lists
  <2> QED BY <2>1, <1>1, <1>2, <1>8
<1> HIDE DEF front, rest, item
<1>10. i <= Len(list) => list[i].delta \in Nat
  BY <1>1, <1>2, ListItems
<1>11. rest # <<>> => delta <= rest[1].delta
  BY <1>2, <1>4, <1>9, <1>10, SMTT(30)
<1> HIDE DEF delta
<1>12. /\ back \in Lists(V) /\ Len(back) = Len(rest)
       /\ \A j \in 1..Len(rest) : back[j].value = rest[j].value /\ (j # 1 => back[j] = rest[j])
       /\ rest # <<>> => back[1].delta = rest[1].delta - delta
  BY <1>4, <1>8, <1>11, DifferentialDef
<1> HIDE DEF back
<1>13. /\ new \in Lists(V) /\ Len(new) = Len(front) + 1 + Len(back)
       /\ \A j \in 1..Len(front) : new[j] = front[j]
       /\ new[Len(front) + 1] = item
       /\ \A j \in 1..Len(back) : new[Len(front) + 1 + j] = back[j]
  <2>1. front \in Seq(Items(V)) /\ back \in Seq(Items(V))
    BY <1>7, <1>12 DEF Lists
  <2>2. new \in Seq(Items(V)) /\ IsAround(new, front, item, back)
    BY <1>3, <1>5, <2>1, ThreeParts
  <2> QED BY <2>2 DEF IsAround, Lists
<1>14. Len(new) = Len(list) + 1 /\ new[i] = item /\ \A j \in 1..i - 1 : new[j] = list[j]
  BY <1>1, <1>2, <1>7, <1>8, <1>12, <1>13
<1>15. ASSUME NEW j \in i..Len(list)
       PROVE  new[j + 1].value = list[j].value /\ (j # i => new[j + 1] = list[j])
  <2>1. /\ j - (i - 1) \in 1..Len(rest) /\ (i - 1) + (j - (i - 1)) = j
        /\ Len(front) + 1 + (j - (i - 1)) = j + 1 /\ (j # i => j - (i - 1) # 1)
    BY <1>1, <1>2, <1>7, <1>8, SMTT(30)
  <2>2. new[j + 1] = back[j - (i - 1)]
    BY <2>1, <1>12, <1>13
  <2>3. rest[j - (i - 1)] = list[j]
    BY <2>1, <1>8
  <2> QED BY <2>1, <2>2, <2>3, <1>12
<1>16. i <= Len(list) => new[i + 1].delta = list[i].delta - item.delta
  <2>1. i <= Len(list) => 1 \in 1..Len(back) /\ Len(front) + 1 + 1 = i + 1 /\ rest # <<>>
    BY <1>1, <1>2, <1>7, <1>8, <1>12 DEF Lists
  <2> QED BY <2>1, <1>5, <1>9, <1>12, <1>13
<1>17. Inserted(list, new, i, ndelta, value)
  BY <1>2, <1>14, <1>15, <1>16 DEF Inserted, item, delta
<1> QED BY <1>13, <1>17 DEF new, i

\* How the sums of new follow from those of list when an item was inserted at i.
ShiftedSums(list, new, i, ndelta) ==
    /\ \A j \in 1..i - 1 : Sums(new)[j] = Sums(list)[j]
    /\ Sums(new)[i] = ndelta
    /\ \A j \in i..Len(list) : Sums(new)[j + 1] = Sums(list)[j]

\* Inserting in a Timer: the other items expire when they would have, the new one when it
\* was asked to.
LEMMA InsertedSums ==
    ASSUME NEW V, NEW list \in Lists(V), NEW new \in Lists(V), NEW i, NEW ndelta \in Nat,
           NEW value \in V, Inserted(list, new, i, ndelta, value)
    PROVE  ShiftedSums(list, new, i, ndelta)
<1> DEFINE sum == Sums(list)
           N == Len(list)
           g == [n \in 0..N + 1 |-> IF n < i THEN sum[n] ELSE IF n = i THEN ndelta ELSE sum[n - 1]]
<1>1. N \in Nat /\ \A n \in 1..N : list[n].delta \in Nat
  BY ListItems
<1>2. /\ \A n \in 0..N : sum[n] \in Int
      /\ \A n \in 1..N : sum[n] = sum[n - 1] + list[n].delta
      /\ sum[0] = 0
  BY SumsDef DEF IsSums
<1>3. i \in 1..N + 1 /\ Len(new) = N + 1 /\ i - 1 \in 0..N
  BY <1>1 DEF Inserted
<1>4. new[i].delta = ndelta - sum[i - 1]
  BY DEF Inserted, Item
<1>5. \A j \in 1..i - 1 : new[j].delta = list[j].delta
  BY DEF Inserted
<1>6. \A j \in i..N : j # i => new[j + 1].delta = list[j].delta
  BY DEF Inserted
<1>7. i <= N => new[i + 1].delta = list[i].delta - new[i].delta
  BY DEF Inserted
<1> HIDE DEF sum, N
<1>8. \A n \in 0..N + 1 : g[n] = IF n < i THEN sum[n] ELSE IF n = i THEN ndelta ELSE sum[n - 1]
  OBVIOUS
<1>9. ASSUME NEW n \in 0..N + 1 PROVE g[n] \in Int
  BY <1>1, <1>2, <1>3, <1>8
<1>10. g \in [0..N + 1 -> Int] /\ g[0] = 0
  BY <1>1, <1>2, <1>3, <1>8, <1>9
<1> HIDE DEF g
<1>11. ASSUME NEW n \in 1..N + 1 PROVE g[n] = g[n - 1] + new[n].delta
  <2>1. n - 1 \in 0..N + 1 /\ n \in 0..N + 1
    BY <1>1
  <2>2. CASE n < i
    <3>1. n \in 1..N /\ n \in 1..i - 1 /\ n - 1 < i
      BY <2>2, <1>1, <1>3
    <3> QED BY <2>1, <2>2, <3>1, <1>2, <1>5, <1>8
  <2>3. CASE n = i
    <3>1. g[n - 1] = sum[i - 1] /\ g[n] = ndelta
      BY <2>1, <2>3, <1>3, <1>8
    <3> QED BY <2>3, <3>1, <1>2, <1>3, <1>4
  <2>4. CASE n = i + 1
    <3>1. i \in 1..N /\ i <= N
      BY <2>4, <1>1, <1>3
    <3>2. g[n - 1] = ndelta /\ g[n] = sum[i]
      BY <2>1, <2>4, <3>1, <1>8
    <3>3. sum[i] = sum[i - 1] + list[i].delta /\ list[i].delta \in Nat /\ sum[i - 1] \in Int
      BY <3>1, <1>1, <1>2, <1>3
    <3>4. new[n].delta = list[i].delta - (ndelta - sum[i - 1])
      BY <2>4, <3>1, <1>4, <1>7
    <3> QED BY <3>2, <3>3, <3>4
  <2>5. CASE n > i + 1
    <3>1. n - 1 \in 1..N /\ n - 1 \in i..N /\ n - 1 # i /\ n - 1 > i /\ n > i /\ (n - 1) + 1 = n
      BY <2>5, <1>1, <1>3
    <3>2. g[n - 1] = sum[(n - 1) - 1] /\ g[n] = sum[n - 1]
      BY <2>1, <3>1, <1>1, <1>3, <1>8
    <3>3. sum[n - 1] = sum[(n - 1) - 1] + list[n - 1].delta
      BY <3>1, <1>2
    <3>4. new[n].delta = list[n - 1].delta
      BY <3>1, <1>6
    <3> QED BY <3>2, <3>3, <3>4
  <2> QED BY <2>2, <2>3, <2>4, <2>5, <1>1, <1>3
<1>12. IsSums(new, g)
  BY <1>3, <1>10, <1>11 DEF IsSums
<1>13. Sums(new) = g
  BY <1>12, SumsDef
<1>14. \A j \in 1..i - 1 : g[j] = sum[j]
  BY <1>1, <1>3, <1>8
<1>15. g[i] = ndelta
  BY <1>1, <1>3, <1>8
<1>16. \A j \in i..N : g[j + 1] = sum[j]
  BY <1>1, <1>3, <1>8
<1> QED BY <1>13, <1>14, <1>15, <1>16 DEF ShiftedSums, sum, N

\* new is list without its first k items, the next one counted from d on.
Cut(list, new, k, d) ==
    /\ k \in 0..Len(list) /\ Len(new) = Len(list) - k
    /\ \A j \in 1..Len(new) : /\ new[j].value = list[k + j].value
                              /\ new[j].delta = list[k + j].delta - (IF j = 1 THEN d ELSE 0)

\* What expired() and gc leave in a Timer expires that much earlier.
LEMMA CutSums ==
    ASSUME NEW V, NEW list \in Lists(V), NEW new \in Lists(V), NEW k, NEW d \in Nat,
           Cut(list, new, k, d), NEW m \in 1..Len(new)
    PROVE  Sums(new)[m] = Sums(list)[k + m] - Sums(list)[k] - d
<1> DEFINE sum == Sums(list)
           N == Len(new)
           g == [n \in 0..N |-> IF n = 0 THEN 0 ELSE sum[k + n] - sum[k] - d]
<1>0. k \in 0..Len(list) /\ Len(new) = Len(list) - k
  BY DEF Cut
<1>1. Len(list) \in Nat /\ \A n \in 1..Len(list) : list[n].delta \in Nat
  BY ListItems
<1>2. /\ \A n \in 0..Len(list) : sum[n] \in Int
      /\ \A n \in 1..Len(list) : sum[n] = sum[n - 1] + list[n].delta
  BY SumsDef, Zenon DEF IsSums
<1>3. N \in Nat /\ N = Len(list) - k /\ k \in 0..Len(list)
  BY <1>0, <1>1
<1>4. \A n \in 1..N : new[n].delta = list[k + n].delta - (IF n = 1 THEN d ELSE 0)
  BY DEF Cut
<1> HIDE DEF sum, N
<1>5. g[0] = 0 /\ \A n \in 1..N : g[n] = sum[k + n] - sum[k] - d
  BY <1>3
<1>6. ASSUME NEW n \in 0..N PROVE g[n] \in Int
  <2>1. k + n \in 0..Len(list) /\ k \in 0..Len(list)
    BY <1>1, <1>3
  <2>2. sum[k + n] \in Int /\ sum[k] \in Int
    BY <2>1, <1>2
  <2> QED BY <2>2
<1>7. g \in [0..N -> Int]
  BY <1>6
<1> HIDE DEF g
<1>8. ASSUME NEW n \in 1..N PROVE g[n] = g[n - 1] + new[n].delta
  <2>1. k + n \in 1..Len(list) /\ k \in 0..Len(list) /\ k + n - 1 \in 0..Len(list)
    BY <1>1, <1>3
  <2>2. sum[k + n] = sum[k + n - 1] + list[k + n].delta
    BY <2>1, <1>2
  <2>3. sum[k + n - 1] \in Int /\ sum[k] \in Int /\ list[k + n].delta \in Nat
    BY <2>1, <1>1, <1>2
  <2>4. CASE n = 1
    <3>1. k + n - 1 = k /\ n - 1 = 0
      BY <2>4, <1>0, <1>1
    <3>2. new[n].delta = list[k + n].delta - d
      BY <2>4, <1>4
    <3>3. g[n] = sum[k + n] - sum[k] - d
      BY <1>5
    <3> QED BY <3>1, <3>2, <3>3, <2>2, <2>3, <1>5
  <2>5. CASE n # 1
    <3>1. n - 1 \in 1..N /\ k + (n - 1) = k + n - 1
      BY <2>5, <1>1, <1>3
    <3>2. g[n - 1] = sum[k + n - 1] - sum[k] - d /\ g[n] = sum[k + n] - sum[k] - d
      BY <3>1, <1>5
    <3>3. new[n].delta = list[k + n].delta
      BY <2>5, <2>3, <1>4
    <3> QED BY <3>2, <3>3, <2>2, <2>3
  <2> QED BY <2>4, <2>5
<1>9. IsSums(new, g)
  BY <1>5, <1>7, <1>8 DEF IsSums, N
<1>10. Sums(new) = g
  BY <1>9, SumsDef
<1> QED BY <1>5, <1>10 DEF sum, N

\* Each value is in the list once.
Once(list) == \A i, j \in 1..Len(list) : list[i].value = list[j].value => i = j

\* What add_timeout leaves in the list, and that each value is still in there once.
LEMMA AddTimeoutValues ==
    ASSUME NEW V, NEW list \in Lists(V), NEW ndelta \in Nat, NEW value \in V
    PROVE  /\ ValuesOf(add_timeout(list, ndelta, value)) = ValuesOf(list) \cup {value}
           /\ Once(list) /\ value \notin ValuesOf(list) => Once(add_timeout(list, ndelta, value))
<1> DEFINE new == add_timeout(list, ndelta, value)
           i == Position(list, ndelta)
           N == Len(list)
<1>1. new \in Lists(V) /\ Inserted(list, new, i, ndelta, value)
  BY AddTimeoutDef
<1>2. N \in Nat /\ DOMAIN list = 1..N
  BY ListItems
<1>3. Len(new) = N + 1 /\ DOMAIN new = 1..N + 1 /\ i \in 1..N + 1
  BY <1>1, <1>2, ListItems DEF Inserted
<1>4. /\ \A j \in 1..i - 1 : new[j].value = list[j].value
      /\ \A j \in i..N : new[j + 1].value = list[j].value
      /\ new[i].value = value
  BY <1>1 DEF Inserted, Item
<1>5. ValuesOf(list) = {list[j].value : j \in 1..N} /\ ValuesOf(new) = {new[j].value : j \in 1..N + 1}
  BY <1>2, <1>3 DEF ValuesOf
<1> HIDE DEF new, i, N
<1> DEFINE old(j) == IF j < i THEN j ELSE j - 1
<1>6. ASSUME NEW j \in 1..N + 1, j # i PROVE old(j) \in 1..N /\ new[j].value = list[old(j)].value
  <2>1. CASE j < i
    <3>1. j \in 1..i - 1 /\ j \in 1..N /\ old(j) = j
      BY <2>1, <1>2, <1>3
    <3> QED BY <3>1, <1>4
  <2>2. CASE j > i
    <3>1. j - 1 \in i..N /\ j - 1 \in 1..N /\ (j - 1) + 1 = j /\ old(j) = j - 1
      BY <2>2, <1>2, <1>3
    <3> QED BY <3>1, <1>4
  <2> QED BY <2>1, <2>2, <1>2, <1>3, <1>6
<1>7. ASSUME NEW j \in 1..N PROVE \E n \in 1..N + 1 : new[n].value = list[j].value
  <2>1. CASE j < i
    <3>1. j \in 1..i - 1 /\ j \in 1..N + 1
      BY <2>1, <1>2, <1>3
    <3> QED BY <3>1, <1>4
  <2>2. CASE j >= i
    <3>1. j \in i..N /\ j + 1 \in 1..N + 1
      BY <2>2, <1>2, <1>3
    <3> QED BY <3>1, <1>4
  <2> QED BY <2>1, <2>2, <1>2, <1>3
<1>8. ValuesOf(new) = ValuesOf(list) \cup {value}
  <2>1. ASSUME NEW j \in 1..N + 1 PROVE new[j].value \in ValuesOf(list) \cup {value}
    BY <1>4, <1>5, <1>6
  <2>2. ASSUME NEW x \in ValuesOf(list) \cup {value} PROVE x \in ValuesOf(new)
    BY <1>3, <1>4, <1>5, <1>7
  <2> QED BY <2>1, <2>2, <1>5, Zenon
<1>9. ASSUME Once(list), value \notin ValuesOf(list) PROVE Once(new)
  <2>1. SUFFICES ASSUME NEW a \in 1..N + 1, NEW b \in 1..N + 1, new[a].value = new[b].value
                 PROVE  a = b
    BY <1>3 DEF Once
  <2>2. CASE a = i \/ b = i
    BY <2>1, <2>2, <1>4, <1>5, <1>6, <1>9
  <2>3. CASE a # i /\ b # i
    <3>1. old(a) = old(b)
      BY <2>1, <2>3, <1>6, <1>9 DEF Once, N
    <3> QED BY <2>3, <3>1, <1>2, <1>3
  <2> QED BY <2>2, <2>3
<1> QED BY <1>8, <1>9 DEF new

\* The items that are cut off leave the list; the others stay, each once.
LEMMA CutValues ==
    ASSUME NEW V, NEW list \in Lists(V), NEW new \in Lists(V), NEW k, NEW d, Cut(list, new, k, d)
    PROVE  /\ ValuesOf(new) = {list[i].value : i \in k + 1..Len(list)}
           /\ Once(list) => Once(new)
<1>1. Len(list) \in Nat /\ k \in 0..Len(list) /\ Len(new) = Len(list) - k /\ DOMAIN new = 1..Len(new)
  BY ListItems DEF Cut
<1>2. \A j \in 1..Len(new) : new[j].value = list[k + j].value /\ k + j \in k + 1..Len(list) /\ k + j \in 1..Len(list)
  BY <1>1 DEF Cut
<1>3. ASSUME NEW i \in k + 1..Len(list) PROVE i - k \in 1..Len(new) /\ k + (i - k) = i
  BY <1>1
<1>4. ValuesOf(new) = {new[j].value : j \in 1..Len(new)}
  BY <1>1 DEF ValuesOf
<1>5. \A i \in k + 1..Len(list) : list[i].value = new[i - k].value
  BY <1>2, <1>3
<1>6. {new[j].value : j \in 1..Len(new)} = {list[i].value : i \in k + 1..Len(list)}
  BY <1>2, <1>3, <1>5
<1>7. ASSUME Once(list), NEW i \in 1..Len(new), NEW j \in 1..Len(new), new[i].value = new[j].value
      PROVE  i = j
  <2>1. k + i = k + j
    BY <1>2, <1>7, SMTT(30) DEF Once
  <2> QED BY <2>1, <1>1
<1> QED BY <1>4, <1>6, <1>7, Zenon DEF Once

\* What expired() leaves: the list behind what it takes, less the seconds that elapsed.
LEMMA RemainingCut ==
    ASSUME NEW V, NEW list \in Lists(V), NEW secs \in Nat
    PROVE  /\ Remaining(list, secs) \in Lists(V)
           /\ Cut(list, Remaining(list, secs), Takes(list, secs), secs)
<1> DEFINE k == Takes(list, secs)
           rest == Behind(list, k)
           new == Remaining(list, secs)
<1>1. k \in 0..Len(list) /\ (k < Len(list) => list[k + 1].delta > secs)
  BY TakesDef
<1>2. new = differential(rest, secs)
  BY DEF Remaining
<1>3. Len(list) \in Nat /\ \A i \in 1..Len(list) : list[i].delta \in Nat
  BY ListItems
<1> HIDE DEF k
<1>4. k \in 0..Len(list)
  BY <1>1
<1>5. rest \in Lists(V) /\ Len(rest) = Len(list) - k /\ \A i \in 1..Len(list) - k : rest[i] = list[k + i]
  BY <1>4, PartValues, Zenon
<1> HIDE DEF rest, new
<1>6. Len(rest) = 0 <=> rest = <<>>
  BY <1>5 DEF Lists
<1>7. rest # <<>> => k < Len(list) /\ k + 1 \in 1..Len(list) /\ 1 \in 1..Len(rest) /\ rest[1] = list[k + 1]
  BY <1>3, <1>4, <1>5, <1>6
<1>8. rest # <<>> => secs <= rest[1].delta
  BY <1>1, <1>3, <1>7
<1>9. /\ new \in Lists(V) /\ Len(new) = Len(rest)
      /\ \A i \in 1..Len(rest) : /\ new[i].value = rest[i].value
                                 /\ i # 1 => new[i] = rest[i]
      /\ rest # <<>> => new[1].delta = rest[1].delta - secs
  BY <1>2, <1>5, <1>8, DifferentialDef
<1>10. ASSUME NEW j \in 1..Len(new)
       PROVE  /\ new[j].value = list[k + j].value
              /\ new[j].delta = list[k + j].delta - (IF j = 1 THEN secs ELSE 0)
  <2>1. j \in 1..Len(rest) /\ j \in 1..Len(list) - k /\ k + j \in 1..Len(list)
    BY <1>3, <1>4, <1>5, <1>9
  <2>2. rest[j] = list[k + j] /\ list[k + j].delta \in Nat
    BY <2>1, <1>3, <1>5
  <2>3. rest # <<>>
    BY <2>1, <1>6
  <2>4. CASE j = 1
    BY <2>1, <2>2, <2>3, <2>4, <1>9
  <2>5. CASE j # 1
    BY <2>1, <2>2, <2>5, <1>9
  <2> QED BY <2>4, <2>5
<1>11. Cut(list, new, k, secs)
  BY <1>4, <1>5, <1>9, <1>10 DEF Cut
<1> QED BY <1>9, <1>11 DEF new, k

\* What gc leaves: the list behind the deleted items at its head.
LEMMA GcCut ==
    ASSUME NEW V, NEW list \in Lists(V), NEW deleted
    PROVE  /\ gc(list, deleted) \in Lists(V)
           /\ \E k \in 0..Len(list) : /\ Cut(list, gc(list, deleted), k, 0)
                                      /\ \A i \in 1..k : list[i].value \in deleted
<1>1. PICK k \in 0..Len(list) : /\ gc(list, deleted) = Behind(list, k)
                                /\ \A i \in 1..k : list[i].value \in deleted
  BY GcDef
<1> DEFINE new == gc(list, deleted)
<1>2. Len(list) \in Nat /\ \A i \in 1..Len(list) : list[i].delta \in Nat
  BY ListItems
<1>3. new \in Lists(V) /\ Len(new) = Len(list) - k /\ \A i \in 1..Len(list) - k : new[i] = list[k + i]
  <2>1. /\ Behind(list, k) \in Lists(V) /\ Len(Behind(list, k)) = Len(list) - k
        /\ \A i \in 1..Len(list) - k : Behind(list, k)[i] = list[k + i]
    BY PartValues, Zenon
  <2> QED BY <1>1, <2>1, Zenon
<1> HIDE DEF new
<1>4. ASSUME NEW j \in 1..Len(new)
      PROVE  /\ new[j].value = list[k + j].value
             /\ new[j].delta = list[k + j].delta - (IF j = 1 THEN 0 ELSE 0)
  <2>1. k + j \in 1..Len(list) /\ new[j] = list[k + j]
    BY <1>2, <1>3
  <2> QED BY <2>1, <1>2
<1>5. Cut(list, new, k, 0)
  BY <1>3, <1>4 DEF Cut
<1> QED BY <1>1, <1>3, <1>5 DEF new
-----------------------------------------------------------------------------
(* VarU32.                                                                 *)

\* Bytes of s behind the first n start with the bytes of t.
StandsAt(t, s, n) == n + Len(t) <= Len(s) /\ \A i \in 1..Len(t) : s[n + i] = t[i]

\* An encoded integer is one to four bytes.
LEMMA EncodedBytes == \A v \in 0..MAX : VarEncode(v) \in Seq(Byte) /\ Len(VarEncode(v)) \in 1..4
<1>0. MAX \in Int
  BY SMT DEF MAX
<1> SUFFICES ASSUME NEW v \in Nat, v <= MAX
             PROVE  VarEncode(v) \in Seq(Byte) /\ Len(VarEncode(v)) \in 1..4
  BY SMT, <1>0
<1>1. CASE v < 128
  BY SMT, <1>1 DEF VarEncode, Byte
<1>2. CASE v >= 128 /\ v < 16384
  <2>1. (v % 128) + 128 \in Byte /\ v \div 128 \in Byte
    BY SMT, <1>2 DEF Byte
  <2> QED BY SMT, <1>2, <2>1 DEF VarEncode
<1>3. CASE v >= 16384 /\ v < 2097152
  <2>1. (v % 128) + 128 \in Byte /\ ((v \div 128) % 128) + 128 \in Byte /\ v \div 16384 \in Byte
    BY SMT, <1>3 DEF Byte
  <2> QED BY SMT, <1>3, <2>1 DEF VarEncode
<1>4. CASE v >= 2097152
  <2> v \in Int /\ v < 128 * 2097152
    BY SMT DEF MAX
  <2>1. /\ (v % 128) + 128 \in Byte /\ ((v \div 128) % 128) + 128 \in Byte
        /\ ((v \div 16384) % 128) + 128 \in Byte /\ v \div 2097152 \in Byte
    BY SMT, <1>4 DEF Byte
  <2> QED BY SMT, <1>4, <2>1 DEF VarEncode
<1> QED BY SMT, <1>1, <1>2, <1>3, <1>4

\* Whatever stands around it, an encoded integer decodes to itself, and the decoder
\* stops right behind it.
THEOREM VarRoundTrip ==
  \A v \in 0..MAX, n \in Nat, s \in Seq(Byte) :
    StandsAt(VarEncode(v), s, n) => VarDecode(s, n) = Ok(v, n + Len(VarEncode(v)))
<1>0. MAX \in Int
  BY SMT DEF MAX
<1> SUFFICES ASSUME NEW v \in Nat, v <= MAX, NEW n \in Nat, NEW s \in Seq(Byte),
                    StandsAt(VarEncode(v), s, n)
             PROVE  VarDecode(s, n) = Ok(v, n + Len(VarEncode(v)))
  BY SMT, <1>0
<1>1. CASE v < 128
  <2>1. n + 1 <= Len(s) /\ s[n + 1] = v /\ Len(VarEncode(v)) = 1
    BY SMT, <1>1 DEF VarEncode, StandsAt
  <2>2. v % 128 = v
    BY SMT, <1>1
  <2> QED BY SMT, <1>1, <2>1, <2>2 DEF VarDecode, Ends, Digit
<1>2. CASE v >= 128 /\ v < 16384
  <2> DEFINE a == v % 128  b == v \div 128
  <2>1. /\ n + 2 <= Len(s) /\ Len(VarEncode(v)) = 2
        /\ s[n + 1] = a + 128 /\ s[n + 2] = b
    BY SMT, <1>2 DEF VarEncode, StandsAt
  <2>2. a \in 0..127 /\ b \in 0..127 /\ v = a + 128 * b
    BY SMT, <1>2
  <2> HIDE DEF a, b
  <2>3. (a + 128) % 128 = a /\ b % 128 = b
    BY SMT, <2>2
  <2> QED BY SMT, <2>1, <2>2, <2>3 DEF VarDecode, Ends, Digit
<1>3. CASE v >= 16384 /\ v < 2097152
  <2> DEFINE a == v % 128  b == (v \div 128) % 128  c == v \div 16384
  <2>1. /\ n + 3 <= Len(s) /\ Len(VarEncode(v)) = 3
        /\ s[n + 1] = a + 128 /\ s[n + 2] = b + 128 /\ s[n + 3] = c
    BY SMT, <1>3 DEF VarEncode, StandsAt
  <2>2. a \in 0..127 /\ b \in 0..127 /\ c \in 0..127 /\ v = a + 128 * b + 16384 * c
    BY SMT, <1>3
  <2> HIDE DEF a, b, c
  <2>3. (a + 128) % 128 = a /\ (b + 128) % 128 = b /\ c % 128 = c
    BY SMT, <2>2
  <2> QED BY SMT, <2>1, <2>2, <2>3 DEF VarDecode, Ends, Digit
<1>4. CASE v >= 2097152
  <2> DEFINE a == v % 128  b == (v \div 128) % 128  c == (v \div 16384) % 128  d == v \div 2097152
  <2>1. /\ n + 4 <= Len(s) /\ Len(VarEncode(v)) = 4
        /\ s[n + 1] = a + 128 /\ s[n + 2] = b + 128 /\ s[n + 3] = c + 128 /\ s[n + 4] = d
    BY SMT, <1>4 DEF VarEncode, StandsAt
  <2> v \in Int /\ v < 128 * 2097152
    BY SMT DEF MAX
  <2>2. /\ a \in 0..127 /\ b \in 0..127 /\ c \in 0..127 /\ d \in 0..127
        /\ v = a + 128 * b + 16384 * c + 2097152 * d
    <3>1. a \in 0..127 /\ v = a + 128 * (v \div 128)
      BY SMT, <1>4
    <3>2. b \in 0..127 /\ v \div 128 = b + 128 * (v \div 16384)
      BY SMT, <1>4
    <3>3. c \in 0..127 /\ d \in 0..127 /\ v \div 16384 = c + 128 * d
      BY SMT, <1>4
    <3> QED BY SMT, <3>1, <3>2, <3>3
  <2> HIDE DEF a, b, c, d
  <2>3. (a + 128) % 128 = a /\ (b + 128) % 128 = b /\ (c + 128) % 128 = c /\ d % 128 = d
    BY SMT, <2>2
  <2> QED BY SMT, <2>1, <2>2, <2>3 DEF VarDecode, Ends, Digit
<1> QED BY SMT, <1>1, <1>2, <1>3, <1>4
-----------------------------------------------------------------------------
(* The fields of packets.                                                  *)

Words == {n \in Nat : n <= 65535}

\* The kinds of fields, and the values of each kind.
Kinds == {"u8", "bool", "QoS", "MqttProtocol", "ConnectFlags", "ConnackFlags", "ConnackReasonCode",
          "SubAckReasonCode", "UnsubAckReasonCode", "DisconnReasonCode", "AuthReasonCode", "ReasonCode",
          "u16", "u32", "VarU32", "String", "Vec", "TopicName", "TopicFilter", "UserProperty",
          "SubscribeFilter"}

FieldValues(kind) ==
  CASE kind = "u16" -> Words
    [] kind = "u32" -> Words \X Words
    [] kind = "VarU32" -> Nat
    [] kind \in {"String", "Vec", "TopicName", "TopicFilter"} -> Seq(Byte)
    [] kind = "UserProperty" -> Seq(Byte) \X Seq(Byte)
    [] kind = "SubscribeFilter" -> Seq(Byte) \X Byte
    [] OTHER -> Numbers(kind)

\* What stands at a place in two parts stands there part by part.
LEMMA StandsInParts ==
    ASSUME NEW t \in Seq(Byte), NEW u \in Seq(Byte), NEW s \in Seq(Byte), NEW n \in Nat,
           StandsAt(t \o u, s, n)
    PROVE  StandsAt(t, s, n) /\ StandsAt(u, s, n + Len(t)) /\ Len(t \o u) = Len(t) + Len(u)
<1>1. /\ Len(t) \in Nat /\ Len(u) \in Nat /\ Len(s) \in Nat /\ Len(t \o u) = Len(t) + Len(u)
      /\ \A i \in 1..Len(t) : (t \o u)[i] = t[i]
      /\ \A i \in 1..Len(u) : (t \o u)[Len(t) + i] = u[i]
  OBVIOUS
<1>2. n + (Len(t) + Len(u)) <= Len(s) /\ \A i \in 1..Len(t) + Len(u) : s[n + i] = (t \o u)[i]
  BY <1>1 DEF StandsAt
<1>3. StandsAt(t, s, n)
  BY <1>1, <1>2 DEF StandsAt
<1>4. ASSUME NEW i \in 1..Len(u) PROVE s[(n + Len(t)) + i] = u[i]
  <2>1. Len(t) + i \in 1..Len(t) + Len(u) /\ n + (Len(t) + i) = (n + Len(t)) + i
    BY <1>1
  <2>2. s[n + (Len(t) + i)] = (t \o u)[Len(t) + i]
    BY <1>2, <2>1, SMTT(30)
  <2> QED BY <1>1, <2>1, <2>2
<1>5. (n + Len(t)) + Len(u) <= Len(s)
  BY <1>1, <1>2
<1> QED BY <1>1, <1>3, <1>4, <1>5 DEF StandsAt

\* u16, in two bytes, the high one first.
LEMMA U16RoundTrip ==
    ASSUME NEW v \in Words, NEW n \in Nat, NEW s \in Seq(Byte)
    PROVE  /\ u16_encode(v) \in Seq(Byte) /\ Len(u16_encode(v)) = 2
           /\ StandsAt(u16_encode(v), s, n) => u16_decode(s, n) = Ok(v, n + 2)
<1> DEFINE a == v \div 256  b == v % 256
<1>1. a \in Byte /\ b \in Byte /\ v = a * 256 + b
  BY DEF Words, Byte
<1>2. u16_encode(v) = <<a, b>>
  BY DEF u16_encode
<1> HIDE DEF a, b
<1>3. <<a, b>> \in Seq(Byte) /\ Len(<<a, b>>) = 2 /\ <<a, b>>[1] = a /\ <<a, b>>[2] = b
  BY <1>1
<1>4. ASSUME StandsAt(<<a, b>>, s, n) PROVE u16_decode(s, n) = Ok(v, n + 2)
  <2>1. n + 2 <= Len(s) /\ s[n + 1] = a /\ s[n + 2] = b
    BY <1>3, <1>4 DEF StandsAt
  <2> QED BY <1>1, <2>1 DEF u16_decode
<1> QED BY <1>2, <1>3, <1>4

\* u32, high half first.
LEMMA U32RoundTrip ==
    ASSUME NEW v \in Words \X Words, NEW n \in Nat, NEW s \in Seq(Byte), StandsAt(u32_encode(v), s, n)
    PROVE  u32_decode(s, n) = Ok(v, n + Len(u32_encode(v)))
<1>1. v[1] \in Words /\ v[2] \in Words /\ v = <<v[1], v[2]>>
  OBVIOUS
<1>2. /\ u16_encode(v[1]) \in Seq(Byte) /\ Len(u16_encode(v[1])) = 2
      /\ u16_encode(v[2]) \in Seq(Byte) /\ Len(u16_encode(v[2])) = 2
  BY <1>1, U16RoundTrip
<1>3. /\ StandsAt(u16_encode(v[1]), s, n) /\ StandsAt(u16_encode(v[2]), s, n + 2)
      /\ Len(u32_encode(v)) = 2 + 2
  BY <1>2, StandsInParts, Zenon DEF u32_encode
<1>4. u16_decode(s, n) = Ok(v[1], n + 2) /\ u16_decode(s, n + 2) = Ok(v[2], (n + 2) + 2)
  <2>1. n + 2 \in Nat
    OBVIOUS
  <2> QED BY <1>1, <1>3, <2>1, U16RoundTrip
<1>5. u32_decode(s, n) = Ok(<<v[1], v[2]>>, (n + 2) + 2)
  <2>1. u32_decode(s, n) =
          LET hi == u16_decode(s, n)
              lo == u16_decode(s, hi.n)
          IN  IF hi.ok THEN IF lo.ok THEN Ok(<<hi.val, lo.val>>, lo.n) ELSE lo ELSE hi
    BY Zenon DEF u32_decode, Then
  <2>2. u16_decode(s, n).ok /\ u16_decode(s, n).val = v[1] /\ u16_decode(s, n).n = n + 2
    BY <1>4 DEF Ok
  <2>3. /\ u16_decode(s, n + 2).ok /\ u16_decode(s, n + 2).val = v[2]
        /\ u16_decode(s, n + 2).n = (n + 2) + 2
    BY <1>4 DEF Ok
  <2> QED BY <2>1, <2>2, <2>3, Zenon
<1>6. (n + 2) + 2 = n + (2 + 2)
  OBVIOUS
<1> QED BY <1>1, <1>3, <1>5, <1>6, Zenon

\* Bytes behind their number, as many as the u16 can tell.
LEMMA VecRoundTrip ==
    ASSUME NEW v \in Seq(Byte), Vec_encodes(v), NEW n \in Nat, NEW s \in Seq(Byte)
    PROVE  /\ Vec_encode(v) \in Seq(Byte) /\ Len(Vec_encode(v)) = 2 + Len(v)
           /\ StandsAt(Vec_encode(v), s, n) => Vec_decode(s, n) = Ok(v, n + (2 + Len(v)))
<1>1. Len(v) \in Words /\ Len(v) \in Nat
  BY DEF Vec_encodes, Words
<1> DEFINE w == u16_encode(Len(v))
<1>2. w \in Seq(Byte) /\ Len(w) = 2
  BY <1>1, U16RoundTrip
<1>3. Vec_encode(v) = w \o v
  BY DEF Vec_encode
<1>4. ASSUME StandsAt(w \o v, s, n) PROVE Vec_decode(s, n) = Ok(v, n + (2 + Len(v)))
  <2>1. StandsAt(w, s, n) /\ StandsAt(v, s, n + 2)
    BY <1>2, <1>4, StandsInParts, Zenon
  <2>2. u16_decode(s, n) = Ok(Len(v), n + 2)
    BY <1>1, <2>1, U16RoundTrip
  <2> DEFINE m == n + 2
  <2>3. m \in Nat /\ m + Len(v) = n + (2 + Len(v))
    BY <1>1
  <2> HIDE DEF m
  <2>4. m + Len(v) <= Len(s) /\ \A i \in 1..Len(v) : s[m + i] = v[i]
    BY <2>1 DEF StandsAt, m
  <2>5. SubSeq(s, m + 1, m + Len(v)) = v
    <3> DEFINE p == SubSeq(s, m + 1, m + Len(v))
    <3>1. m + 1 \in 1..Len(s) + 1 /\ m + Len(v) \in m..Len(s)
      BY <1>1, <2>3, <2>4
    <3>2. /\ p \in Seq(Byte) /\ Len(p) = Len(v)
          /\ \A i \in 1..Len(v) : p[i] = s[m + i]
      BY <1>1, <2>3, <3>1
    <3> HIDE DEF p
    <3>3. \A i \in 1..Len(v) : p[i] = v[i]
      BY <2>4, <3>2
    <3>4. p = v
      BY <3>2, <3>3, SeqEqual
    <3> QED BY <3>4 DEF p
  <2>6. Vec_decode(s, n) = Ok(SubSeq(s, m + 1, m + Len(v)), m + Len(v))
    <3>1. Vec_decode(s, n) =
            LET len == u16_decode(s, n)
            IN  IF len.ok THEN IF len.n + len.val <= Len(s)
                               THEN Ok(SubSeq(s, len.n + 1, len.n + len.val), len.n + len.val)
                               ELSE Short
                ELSE len
      BY Zenon DEF Vec_decode, Then
    <3>2. u16_decode(s, n).ok /\ u16_decode(s, n).val = Len(v) /\ u16_decode(s, n).n = m
      BY <2>2 DEF Ok, m
    <3> QED BY <2>4, <3>1, <3>2, Zenon
  <2> QED BY <2>3, <2>5, <2>6, Zenon
<1> HIDE DEF w
<1>5. w \o v \in Seq(Byte) /\ Len(w \o v) = 2 + Len(v)
  <2>1. w \o v \in Seq(Byte) /\ Len(w \o v) = Len(w) + Len(v)
    BY <1>2, ConcatProperties, Zenon
  <2> QED BY <1>2, <2>1
<1> QED BY <1>3, <1>4, <1>5, Zenon

\* Strings whose characters `encode` accepts.
LEMMA StringRoundTrip ==
    ASSUME NEW v \in Seq(Byte), String_encodes(v), NEW n \in Nat, NEW s \in Seq(Byte),
           StandsAt(Vec_encode(v), s, n)
    PROVE  String_decode(s, n) = Ok(v, n + (2 + Len(v)))
<1>1. Vec_encodes(v) /\ valid_chars(v)
  BY DEF String_encodes
<1>2. Vec_decode(s, n) = Ok(v, n + (2 + Len(v)))
  BY <1>1, VecRoundTrip
<1>3. String_decode(s, n) =
        LET r == Vec_decode(s, n) IN IF ~r.ok \/ valid_chars(r.val) THEN r ELSE Fail
  BY Zenon DEF String_decode, Guard
<1>4. Vec_decode(s, n).val = v
  BY <1>2 DEF Ok
<1> QED BY <1>1, <1>2, <1>3, <1>4, Zenon

\* Two strings, one behind the other.
LEMMA UserPropertyRoundTrip ==
    ASSUME NEW v \in Seq(Byte) \X Seq(Byte), String_encodes(v[1]), String_encodes(v[2]),
           NEW n \in Nat, NEW s \in Seq(Byte), StandsAt(Vec_encode(v[1]) \o Vec_encode(v[2]), s, n)
    PROVE  UserProperty_decode(s, n) = Ok(v, n + Len(Vec_encode(v[1]) \o Vec_encode(v[2])))
<1>1. v[1] \in Seq(Byte) /\ v[2] \in Seq(Byte) /\ v = <<v[1], v[2]>>
  OBVIOUS
<1>2. Vec_encodes(v[1]) /\ Vec_encodes(v[2])
  BY DEF String_encodes
<1>3. /\ Vec_encode(v[1]) \in Seq(Byte) /\ Len(Vec_encode(v[1])) = 2 + Len(v[1])
      /\ Vec_encode(v[2]) \in Seq(Byte) /\ Len(Vec_encode(v[2])) = 2 + Len(v[2])
  BY <1>1, <1>2, VecRoundTrip
<1> DEFINE m == n + (2 + Len(v[1]))
<1>4. /\ StandsAt(Vec_encode(v[1]), s, n) /\ StandsAt(Vec_encode(v[2]), s, m)
      /\ Len(Vec_encode(v[1]) \o Vec_encode(v[2])) = (2 + Len(v[1])) + (2 + Len(v[2]))
  BY <1>3, StandsInParts, Zenon
<1>5. /\ Len(v[1]) \in Nat /\ Len(v[2]) \in Nat /\ m \in Nat
      /\ m + (2 + Len(v[2])) = n + ((2 + Len(v[1])) + (2 + Len(v[2])))
  BY <1>1
<1>6. String_decode(s, n) = Ok(v[1], m)
  BY <1>1, <1>4, StringRoundTrip
<1> HIDE DEF m
<1>7. String_decode(s, m) = Ok(v[2], m + (2 + Len(v[2])))
  BY <1>1, <1>4, <1>5, StringRoundTrip
<1>8. UserProperty_decode(s, n) = Ok(<<v[1], v[2]>>, m + (2 + Len(v[2])))
  <2>1. UserProperty_decode(s, n) =
          LET k == String_decode(s, n)
              w == String_decode(s, k.n)
          IN  IF k.ok THEN IF w.ok THEN Ok(<<k.val, w.val>>, w.n) ELSE w ELSE k
    BY Zenon DEF UserProperty_decode, Then
  <2>2. String_decode(s, n).ok /\ String_decode(s, n).val = v[1] /\ String_decode(s, n).n = m
    BY <1>6 DEF Ok
  <2>3. /\ String_decode(s, m).ok /\ String_decode(s, m).val = v[2]
        /\ String_decode(s, m).n = m + (2 + Len(v[2]))
    BY <1>7 DEF Ok
  <2> QED BY <2>1, <2>2, <2>3, Zenon
<1> QED BY <1>1, <1>4, <1>5, <1>8, Zenon

\* A filter and its options.
LEMMA SubscribeFilterRoundTrip ==
    ASSUME NEW v \in Seq(Byte) \X Byte, String_encodes(v[1]), TopicFilter_validate(v[1]),
           NEW n \in Nat, NEW s \in Seq(Byte), StandsAt(Vec_encode(v[1]) \o <<v[2]>>, s, n)
    PROVE  SubscribeFilter_decode(s, n) = Ok(v, n + Len(Vec_encode(v[1]) \o <<v[2]>>))
<1>1. v[1] \in Seq(Byte) /\ <<v[2]>> \in Seq(Byte) /\ Len(<<v[2]>>) = 1 /\ <<v[2]>>[1] = v[2] /\ v = <<v[1], v[2]>>
  OBVIOUS
<1>2. Vec_encodes(v[1])
  BY DEF String_encodes
<1>3. Vec_encode(v[1]) \in Seq(Byte) /\ Len(Vec_encode(v[1])) = 2 + Len(v[1])
  BY <1>1, <1>2, VecRoundTrip
<1> DEFINE m == n + (2 + Len(v[1]))
<1>4. /\ StandsAt(Vec_encode(v[1]), s, n) /\ StandsAt(<<v[2]>>, s, m)
      /\ Len(Vec_encode(v[1]) \o <<v[2]>>) = (2 + Len(v[1])) + 1
  BY <1>1, <1>3, StandsInParts, Zenon
<1>5. Len(v[1]) \in Nat /\ m \in Nat /\ m + 1 = n + ((2 + Len(v[1])) + 1)
  BY <1>1
<1>6. String_decode(s, n) = Ok(v[1], m)
  BY <1>1, <1>4, StringRoundTrip
<1> HIDE DEF m
<1>7. m + 1 <= Len(s) /\ s[m + 1] = v[2]
  BY <1>1, <1>4, <1>5 DEF StandsAt
<1>8. u8_decode(s, m) = Ok(v[2], m + 1)
  BY <1>7 DEF u8_decode
<1>9. SubscribeFilter_decode(s, n) = Ok(<<v[1], v[2]>>, m + 1)
  <2>1. SubscribeFilter_decode(s, n) =
          LET r == String_decode(s, n)
              f == IF ~r.ok \/ TopicFilter_validate(r.val) THEN r ELSE Fail
              o == u8_decode(s, f.n)
          IN  IF f.ok THEN IF o.ok THEN Ok(<<f.val, o.val>>, o.n) ELSE o ELSE f
    BY Zenon DEF SubscribeFilter_decode, Then, Guard
  <2>2. String_decode(s, n).ok /\ String_decode(s, n).val = v[1] /\ String_decode(s, n).n = m
    BY <1>6 DEF Ok
  <2>3. u8_decode(s, m).ok /\ u8_decode(s, m).val = v[2] /\ u8_decode(s, m).n = m + 1
    BY <1>8 DEF Ok
  <2> QED BY <2>1, <2>2, <2>3, Zenon
<1> QED BY <1>1, <1>4, <1>5, <1>9, Zenon

\* Every field that `encode` accepts is read back by `decode` (Packetize, types.rs),
\* wherever it stands in a stream and whatever follows it, and the decoder stops
\* right behind it: for strings of any length that `encode` accepts.
THEOREM FieldRoundTrip ==
    ASSUME NEW kind \in Kinds, NEW v \in FieldValues(kind), Encodes(kind, v),
           NEW n \in Nat, NEW s \in Seq(Byte), StandsAt(Encode(kind, v), s, n)
    PROVE  Decode(kind, s, n) = Ok(v, n + Len(Encode(kind, v)))
<1>1. CASE kind = "u16"
  <2>1. v \in Words /\ Encode(kind, v) = u16_encode(v) /\ Decode(kind, s, n) = u16_decode(s, n)
    BY <1>1, Zenon DEF FieldValues, Encode, Decode
  <2> QED BY <2>1, U16RoundTrip, Zenon
<1>2. CASE kind = "u32"
  <2>1. v \in Words \X Words /\ Encode(kind, v) = u32_encode(v) /\ Decode(kind, s, n) = u32_decode(s, n)
    BY <1>2, Zenon DEF FieldValues, Encode, Decode
  <2> QED BY <2>1, U32RoundTrip
<1>3. CASE kind = "VarU32"
  <2>1. v \in Nat /\ v <= MAX /\ Encode(kind, v) = VarEncode(v) /\ Decode(kind, s, n) = VarDecode(s, n)
    BY <1>3, Zenon DEF FieldValues, Encode, Decode, Encodes
  <2>2. MAX \in Int
    BY SMT DEF MAX
  <2>3. v \in 0..MAX
    BY <2>1, <2>2
  <2> QED BY <2>1, <2>3, VarRoundTrip, Zenon
<1>4. CASE kind \in {"String", "Vec", "TopicName", "TopicFilter"}
  <2>1. v \in Seq(Byte) /\ Encode(kind, v) = Vec_encode(v)
    BY <1>4, Zenon DEF FieldValues, Encode
  <2>2. Vec_encodes(v)
    BY <1>4, Zenon DEF Encodes, String_encodes
  <2>3. Len(Encode(kind, v)) = 2 + Len(v)
    BY <2>1, <2>2, VecRoundTrip
  <2>4. CASE kind = "Vec"
    <3>1. Decode(kind, s, n) = Vec_decode(s, n)
      BY <2>4, Zenon DEF Decode
    <3> QED BY <2>1, <2>2, <2>3, <3>1, VecRoundTrip
  <2>5. ASSUME String_encodes(v) PROVE String_decode(s, n) = Ok(v, n + Len(Encode(kind, v)))
    BY <2>1, <2>3, <2>5, StringRoundTrip
  <2>6. CASE kind = "String"
    <3>1. String_encodes(v) /\ Decode(kind, s, n) = String_decode(s, n)
      BY <2>6, Zenon DEF Encodes, Decode
    <3> QED BY <2>5, <3>1
  <2>7. CASE kind = "TopicName"
    <3>1. String_encodes(v) /\ TopicName_validate(v)
      BY <2>7, Zenon DEF Encodes
    <3>2. String_decode(s, n).val = v
      BY <2>5, <3>1 DEF Ok
    <3>3. Decode(kind, s, n) =
            LET r == String_decode(s, n) IN IF ~r.ok \/ TopicName_validate(r.val) THEN r ELSE Fail
      BY <2>7, Zenon DEF Decode, Guard
    <3> QED BY <2>5, <3>1, <3>2, <3>3, Zenon
  <2>8. CASE kind = "TopicFilter"
    <3>1. String_encodes(v) /\ TopicFilter_validate(v)
      BY <2>8, Zenon DEF Encodes
    <3>2. String_decode(s, n).val = v
      BY <2>5, <3>1 DEF Ok
    <3>3. Decode(kind, s, n) =
            LET r == String_decode(s, n) IN IF ~r.ok \/ TopicFilter_validate(r.val) THEN r ELSE Fail
      BY <2>8, Zenon DEF Decode, Guard
    <3> QED BY <2>5, <3>1, <3>2, <3>3, Zenon
  <2> QED BY <1>4, <2>4, <2>6, <2>7, <2>8
<1>5. CASE kind = "UserProperty"
  <2>1. /\ v \in Seq(Byte) \X Seq(Byte) /\ String_encodes(v[1]) /\ String_encodes(v[2])
        /\ Encode(kind, v) = Vec_encode(v[1]) \o Vec_encode(v[2])
        /\ Decode(kind, s, n) = UserProperty_decode(s, n)
    BY <1>5, Zenon DEF FieldValues, Encodes, Encode, Decode
  <2> QED BY <2>1, UserPropertyRoundTrip, Zenon
<1>6. CASE kind = "SubscribeFilter"
  <2>1. /\ v \in Seq(Byte) \X Byte /\ String_encodes(v[1]) /\ TopicFilter_validate(v[1])
        /\ Encode(kind, v) = Vec_encode(v[1]) \o <<v[2]>>
        /\ Decode(kind, s, n) = SubscribeFilter_decode(s, n)
    BY <1>6, Zenon DEF FieldValues, Encodes, Encode, Decode
  <2> QED BY <2>1, SubscribeFilterRoundTrip, Zenon
<1>7. CASE kind \notin {"u16", "u32", "VarU32", "String", "Vec", "TopicName", "TopicFilter",
                        "UserProperty", "SubscribeFilter"}
  <2>1. /\ v \in Numbers(kind) /\ Encode(kind, v) = <<v>>
        /\ Decode(kind, s, n) =
              LET r == u8_decode(s, n) IN IF ~r.ok \/ r.val \in Numbers(kind) THEN r ELSE Fail
    BY <1>7, Zenon DEF FieldValues, Encode, Decode, Guard
  <2>2. Len(<<v>>) = 1 /\ <<v>>[1] = v
    OBVIOUS
  <2>3. n + 1 <= Len(s) /\ s[n + 1] = v
    BY <2>1, <2>2 DEF StandsAt
  <2>4. u8_decode(s, n) = Ok(v, n + 1)
    BY <2>3 DEF u8_decode
  <2>5. u8_decode(s, n).val = v
    BY <2>4 DEF Ok
  <2> QED BY <2>1, <2>2, <2>4, <2>5, Zenon
<1> QED BY <1>1, <1>2, <1>3, <1>4, <1>5, <1>6, <1>7
=============================================================================
