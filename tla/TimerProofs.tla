---------------------------- MODULE TimerProofs -----------------------------
(***************************************************************************)
(* What a Timer promises, for any values, timeouts, length of a second and *)
(* duration of the run: expired() is never late and loses nothing.         *)
(*                                                                         *)
(* The invariant behind both is that an item is due no earlier than the    *)
(* sum of the deltas up to it says, counted from instant.  expired() and   *)
(* gc() only take away from the sums, so that items may expire early.      *)
(***************************************************************************)
EXTENDS Timer, DataLemmas

Bounded == /\ list \in Lists(Values) /\ Once(list)
           /\ \A i \in 1..Len(list) : list[i].delta <= MaxSecs

\* The sums are not behind what was asked for.
Early == \A i \in 1..Len(list) : instant + Sums(list)[i] * TicksPerSec <= due[list[i].value]

IInv == /\ now \in 0..MaxTime /\ instant \in 0..now
        /\ Bounded
        /\ deleted \subseteq Values /\ returned \subseteq Values
        /\ panicked \in BOOLEAN
        /\ due \in [Values -> Nat]
        /\ Early
-----------------------------------------------------------------------------
\* elapsed().as_secs() is the number of whole seconds since instant.
LEMMA ElapsedSecs ==
    ASSUME now \in Nat, instant \in 0..now
    PROVE  /\ Elapsed \in Nat
           /\ instant + Elapsed * TicksPerSec \in 0..now
           /\ \A n \in Nat : instant + n * TicksPerSec <= now => n <= Elapsed
<1> DEFINE a == now - instant
           T == TicksPerSec
           e == a \div T
<1>1. a \in Nat /\ T \in Nat /\ T > 0 /\ Elapsed = e
  BY TimerSizes DEF Elapsed
<1>2. now = instant + a
  OBVIOUS
<1> HIDE DEF a, T
<1>3. e \in Nat /\ e * T <= a /\ a < (e + 1) * T
  BY <1>1
<1> HIDE DEF e
<1>4. ASSUME NEW n \in Nat, n * T <= a PROVE n <= e
  <2>1. SUFFICES ASSUME n >= e + 1 PROVE FALSE
    BY <1>3
  <2>2. n * T >= (e + 1) * T
    BY <2>1, <1>1, <1>3
  <2>3. n * T \in Int /\ (e + 1) * T \in Int
    BY <1>1, <1>3
  <2> QED BY <2>2, <2>3, <1>1, <1>3, <1>4
<1>5. e * T \in Nat /\ \A n \in Nat : n * T \in Nat
  BY <1>1, <1>3
<1>6. instant + e * T \in 0..now
  BY <1>1, <1>2, <1>3, <1>5
<1>7. \A n \in Nat : instant + n * T <= now => n <= e
  BY <1>1, <1>2, <1>4, <1>5
<1> QED BY <1>1, <1>3, <1>6, <1>7 DEF T

\* What the invariant says of the type of the list.
LEMMA BoundedType ==
    ASSUME Bounded
    PROVE  /\ list \in Seq([delta : 0..MaxSecs, value : Values])
           /\ IsInjective([i \in DOMAIN list |-> list[i].value])
<1> DEFINE S == [delta : 0..MaxSecs, value : Values]
<1>1. Len(list) \in Nat /\ DOMAIN list = 1..Len(list)
  BY ListItems DEF Bounded
<1>2. ASSUME NEW i \in 1..Len(list) PROVE list[i] \in S
  <2>1. list[i] \in Items(Values) /\ list[i].delta \in Nat /\ list[i].delta <= MaxSecs
    BY ListItems DEF Bounded
  <2> QED BY <2>1, TimerSizes DEF Items
<1> HIDE DEF S
<1>3. list \in Seq(S)
  <2>1. list = [i \in 1..Len(list) |-> list[i]]
    BY DEF Bounded, Lists
  <2> QED BY <2>1, <1>1, <1>2
<1>4. IsInjective([i \in DOMAIN list |-> list[i].value])
  BY <1>1 DEF IsInjective, Bounded, Once
<1> QED BY <1>3, <1>4 DEF S

\* The invariant at the start.
LEMMA InitInv == Init => IInv
<1> SUFFICES ASSUME Init PROVE IInv
  OBVIOUS
<1>1. Len(<<>>) = 0 /\ <<>> \in Seq(Items(Values))
  BY EmptySeq
<1>2. list \in Lists(Values) /\ Len(list) = 0
  BY <1>1 DEF Init, Lists
<1>3. Bounded /\ Early
  BY <1>2 DEF Bounded, Early, Once
<1>4. now \in 0..MaxTime /\ instant \in 0..now /\ due \in [Values -> Nat]
  BY TimerSizes DEF Init
<1>5. deleted \subseteq Values /\ returned \subseteq Values /\ panicked \in BOOLEAN
  BY Zenon DEF Init
<1> QED BY <1>3, <1>4, <1>5 DEF IInv

\* What add_timeout does to the invariant: the new item is due when it was asked to
\* expire, the others as before.
LEMMA AddTimeoutStep ==
    ASSUME IInv, NEW v \in Values, NEW secs \in 0..MaxSecs, AddTimeout(v, secs)
    PROVE  IInv'
<1>0. list \in Lists(Values) /\ Once(list) /\ due \in [Values -> Nat]
  BY DEF IInv, Bounded
<1> DEFINE n == saturating_sub(secs, Elapsed)
           i == Position(list, n)
           N == Len(list)
           new == add_timeout(list, n, v)
<1>1. /\ v \notin ValuesOf(list) /\ list' = new
      /\ due' = [due EXCEPT ![v] = now + secs * TicksPerSec] /\ returned' = {}
      /\ UNCHANGED <<now, instant, deleted, panicked>>
  BY DEF AddTimeout
<1>2. now \in Nat /\ instant \in Nat /\ instant <= now /\ MaxSecs \in Nat /\ TicksPerSec \in Nat
  BY TimerSizes DEF IInv
<1>3. Elapsed \in Nat /\ instant + Elapsed * TicksPerSec \in 0..now
  BY <1>2, ElapsedSecs
<1>4. n \in Nat /\ n <= secs /\ secs <= n + Elapsed /\ secs \in Nat
  BY <1>2, <1>3 DEF saturating_sub
<1>5. instant + n * TicksPerSec <= now + secs * TicksPerSec /\ secs * TicksPerSec \in Nat
  BY <1>2, <1>4
<1> HIDE DEF n
<1>6. new \in Lists(Values) /\ Inserted(list, new, i, n, v)
  BY <1>0, <1>4, AddTimeoutDef
<1>7. ValuesOf(new) = ValuesOf(list) \cup {v} /\ Once(new)
  BY <1>1, <1>0, <1>4, AddTimeoutValues
<1> HIDE DEF i, new
<1>8. N \in Nat /\ DOMAIN list = 1..N /\ \A j \in 1..N : list[j].delta \in Nat /\ list[j].value \in Values
  BY <1>0, ListItems
<1>9. /\ i \in 1..N + 1 /\ Len(new) = N + 1
      /\ \A j \in 1..i - 1 : new[j] = list[j]
      /\ new[i].delta <= n /\ new[i].value = v /\ new[i].delta \in Nat
      /\ \A j \in i..N : /\ new[j + 1].value = list[j].value
                         /\ j # i => new[j + 1] = list[j]
      /\ i <= N => new[i + 1].delta = list[i].delta - new[i].delta
  <2>1. Sums(list)[i - 1] \in 0..n /\ new[i] = Item(n - Sums(list)[i - 1], v)
    BY <1>6 DEF Inserted
  <2>2. new[i].delta = n - Sums(list)[i - 1] /\ new[i].value = v
    BY <2>1 DEF Item
  <2>3. new[i].delta <= n /\ new[i].delta \in Nat
    BY <2>1, <2>2, <1>4
  <2> QED BY <2>2, <2>3, <1>6 DEF Inserted
<1>10. /\ \A j \in 1..i - 1 : Sums(new)[j] = Sums(list)[j]
       /\ Sums(new)[i] = n
       /\ \A j \in i..N : Sums(new)[j + 1] = Sums(list)[j]
  <2>1. ShiftedSums(list, new, i, n)
    BY <1>0, <1>4, <1>6, InsertedSums
  <2> QED BY <2>1 DEF ShiftedSums
<1>11. \A j \in 1..N : list[j].delta <= MaxSecs
  BY DEF IInv, Bounded
<1> HIDE DEF N
<1>12. ASSUME NEW j \in 1..N + 1
       PROVE  \/ j \in 1..i - 1 /\ j \in 1..N
              \/ j = i
              \/ j - 1 \in i..N /\ j - 1 \in 1..N /\ (j - 1) + 1 = j
  <2>1. N \in Nat /\ i \in 1..N + 1
    BY <1>8, <1>9
  <2> QED BY <2>1
<1>13. \A j \in 1..Len(new) : new[j].delta <= MaxSecs
  <2>1. SUFFICES ASSUME NEW j \in 1..N + 1 PROVE new[j].delta <= MaxSecs
    BY <1>9
  <2>2. CASE j \in 1..i - 1 /\ j \in 1..N
    BY <2>2, <1>9, <1>11
  <2>3. CASE j = i
    BY <2>3, <1>2, <1>4, <1>9
  <2>4. CASE j - 1 \in i..N /\ j - 1 \in 1..N /\ (j - 1) + 1 = j
    <3>1. CASE j - 1 # i
      BY <2>4, <3>1, <1>9, <1>11
    <3>2. CASE j - 1 = i
      <4>1. i <= N /\ i \in 1..N /\ j = i + 1
        BY <2>4, <3>2, <1>8
      <4>2. new[j].delta = list[i].delta - new[i].delta
        BY <4>1, <1>9
      <4>3. list[i].delta \in Nat /\ list[i].delta <= MaxSecs
        BY <4>1, <1>8, <1>11
      <4> QED BY <4>2, <4>3, <1>2, <1>9
    <3> QED BY <3>1, <3>2
  <2> QED BY <2>2, <2>3, <2>4, <1>12
<1>14. Bounded'
  BY <1>1, <1>6, <1>7, <1>13 DEF Bounded
<1>15. due' \in [Values -> Nat] /\ due'[v] = now + secs * TicksPerSec /\ \A w \in Values : w # v => due'[w] = due[w]
  BY <1>0, <1>1, <1>2, <1>5
<1>16. \A j \in 1..N : list[j].value # v
  BY <1>1, <1>8 DEF ValuesOf
<1>17. \A j \in 1..N : instant + Sums(list)[j] * TicksPerSec <= due'[list[j].value]
  BY <1>8, <1>15, <1>16 DEF IInv, Early, N
<1>18. ASSUME NEW j \in 1..N + 1
       PROVE  instant + Sums(new)[j] * TicksPerSec <= due'[new[j].value]
  <2>1. CASE j \in 1..i - 1 /\ j \in 1..N
    BY <2>1, <1>9, <1>10, <1>17
  <2>2. CASE j = i
    BY <2>2, <1>5, <1>9, <1>10, <1>15
  <2>3. CASE j - 1 \in i..N /\ j - 1 \in 1..N /\ (j - 1) + 1 = j
    <3>1. Sums(new)[j] = Sums(list)[j - 1] /\ new[j].value = list[j - 1].value
      BY <2>3, <1>9, <1>10
    <3> QED BY <2>3, <3>1, <1>17
  <2> QED BY <2>1, <2>2, <2>3, <1>12
<1>19. Early'
  BY <1>1, <1>9, <1>18 DEF Early
<1> QED BY <1>1, <1>14, <1>15, <1>19 DEF IInv

\* Counting e seconds on instant instead of on the first item changes no expiry for the
\* later.
LEMMA CountedOn ==
    ASSUME NEW x \in Int, NEW e \in Nat, NEW T \in Nat, NEW before \in Nat, NEW sum \in Int
    PROVE  x + e * T + (sum - before - e) * T <= x + sum * T
<1>1. (sum - before - e) * T = sum * T - before * T - e * T
  OBVIOUS
<1>2. before * T \in Nat /\ e * T \in Nat /\ sum * T \in Int
  OBVIOUS
<1> QED BY <1>1, <1>2

\* Dropping items from the head, with d seconds counted on instant instead, keeps the
\* others' expiry in time.
LEMMA CutStep ==
    ASSUME IInv, list' \in Lists(Values), NEW k, NEW d \in Nat, Cut(list, list', k, d),
           instant' = instant + d * TicksPerSec, instant' \in 0..now', now' \in 0..MaxTime,
           Forget, returned' \subseteq Values, panicked' \in BOOLEAN
    PROVE  IInv'
<1>1. /\ list \in Lists(Values) /\ Once(list) /\ due \in [Values -> Nat]
      /\ instant \in Nat /\ now \in Nat /\ MaxSecs \in Nat /\ TicksPerSec \in Nat /\ deleted \subseteq Values
  BY TimerSizes DEF IInv, Bounded
<1>2. Len(list) \in Nat /\ \A i \in 1..Len(list) : list[i].delta \in Nat /\ list[i].value \in Values
  BY <1>1, ListItems
<1>3. /\ k \in 0..Len(list) /\ Len(list') = Len(list) - k
      /\ \A j \in 1..Len(list') : /\ k + j \in 1..Len(list)
                                  /\ list'[j].value = list[k + j].value
                                  /\ list'[j].delta = list[k + j].delta - (IF j = 1 THEN d ELSE 0)
  BY <1>2 DEF Cut
<1>4. Once(list')
  BY <1>1, CutValues
<1>5. ASSUME NEW j \in 1..Len(list') PROVE list'[j].delta <= MaxSecs
  <2>1. k + j \in 1..Len(list) /\ list'[j].delta = list[k + j].delta - (IF j = 1 THEN d ELSE 0)
    BY <1>3
  <2>2. list[k + j].delta \in Nat /\ list[k + j].delta <= MaxSecs
    BY <2>1, <1>2 DEF IInv, Bounded
  <2> QED BY <2>1, <2>2, <1>1
<1>6. Bounded'
  BY <1>4, <1>5 DEF Bounded
<1>7. deleted' \subseteq Values /\ due' \in [Values -> Nat]
  BY <1>1 DEF Forget
<1>8. ASSUME NEW j \in 1..Len(list')
      PROVE  instant' + Sums(list')[j] * TicksPerSec <= due'[list'[j].value]
  <2>1. k + j \in 1..Len(list) /\ list'[j].value = list[k + j].value
    BY <1>3
  <2>2. Sums(list')[j] = Sums(list)[k + j] - Sums(list)[k] - d
    BY <1>1, CutSums
  <2>3. k \in 0..Len(list) /\ 0 \in 0..Len(list) /\ k + j \in 0..Len(list) /\ k \in 0..Len(list)
    BY <1>2, <1>3, <2>1
  <2>4. Sums(list)[k + j] \in Int /\ Sums(list)[k] \in Int /\ Sums(list)[0] = 0
    BY <2>3, <1>1, SumsDef, Zenon DEF IsSums
  <2>5. Sums(list)[0] <= Sums(list)[k]
    <3>1. k \in 0..Len(list)
      BY <2>3
    <3> QED BY <2>3, <3>1, <1>1, SumsGrow
  <2>6. Sums(list)[k] \in Nat
    BY <2>4, <2>5
  <2>7. instant' + Sums(list')[j] * TicksPerSec <= instant + Sums(list)[k + j] * TicksPerSec
    BY <2>2, <2>4, <2>6, <1>1, CountedOn
  <2>8. instant + Sums(list)[k + j] * TicksPerSec <= due[list[k + j].value]
    BY <2>1 DEF IInv, Early
  <2>9. due'[list'[j].value] = due[list[k + j].value]
    <3>1. DOMAIN list' = 1..Len(list')
      BY ListItems
    <3>2. list'[j].value \in ValuesOf(list')
      BY <3>1 DEF ValuesOf
    <3>3. list[k + j].value \in Values
      BY <2>1, <1>2
    <3> QED BY <2>1, <3>2, <3>3 DEF Forget
  <2>10. /\ instant' + Sums(list')[j] * TicksPerSec \in Int
         /\ instant + Sums(list)[k + j] * TicksPerSec \in Int
         /\ due[list[k + j].value] \in Int
    <3>1. Sums(list')[j] \in Int
      BY <2>2, <2>4
    <3>2. list[k + j].value \in Values
      BY <2>1, <1>2
    <3>3. \A x \in Int, y \in Nat : x * y \in Int
      OBVIOUS
    <3>4. Sums(list')[j] * TicksPerSec \in Int /\ Sums(list)[k + j] * TicksPerSec \in Int
      BY <3>1, <3>3, <2>4, <1>1, Zenon
    <3>5. due[list[k + j].value] \in Nat
      BY <3>2, <1>1, Zenon
    <3>6. instant' \in Int
      BY TimerSizes
    <3> QED BY <3>4, <3>5, <3>6, <1>1
  <2>11. \A x, y, z \in Int : x <= y /\ y <= z => x <= z
    OBVIOUS
  <2> QED BY <2>7, <2>8, <2>9, <2>10, <2>11, Zenon
<1>9. Early'
  BY <1>8 DEF Early
<1> QED BY <1>6, <1>7, <1>9 DEF IInv

\* expired() keeps the invariant.
LEMMA ExpiredStep == ASSUME IInv, Expired PROVE IInv'
<1>1. list \in Lists(Values) /\ now \in 0..MaxTime /\ now \in Nat /\ instant \in 0..now /\ panicked \in BOOLEAN
  BY TimerSizes DEF IInv, Bounded
<1>2. Elapsed \in Nat /\ instant + Elapsed * TicksPerSec \in 0..now
  BY <1>1, ElapsedSecs
<1>3. /\ returned' = Expires(list, deleted, Elapsed) /\ list' = Remaining(list, Elapsed)
      /\ instant' = instant + Elapsed * TicksPerSec /\ Forget /\ now' = now /\ panicked' = panicked
  BY DEF Expired
<1>4. list' \in Lists(Values) /\ Cut(list, list', Takes(list, Elapsed), Elapsed)
  BY <1>1, <1>2, <1>3, RemainingCut
<1>5. returned' \subseteq Values
  <2> DEFINE k == Takes(list, Elapsed)
  <2>1. k \in 0..Len(list)
    BY <1>1, <1>2, TakesDef
  <2> HIDE DEF k
  <2>2. ValuesOf(UpTo(list, k)) = {list[i].value : i \in 1..k}
    BY <1>1, <2>1, UpToValues
  <2>3. Len(list) \in Nat /\ \A i \in 1..Len(list) : list[i].value \in Values
    BY <1>1, ListItems
  <2>4. ValuesOf(UpTo(list, k)) \subseteq Values
    BY <2>1, <2>2, <2>3
  <2> QED BY <2>4, <1>3 DEF Expires, k
<1> QED BY <1>1, <1>2, <1>3, <1>4, <1>5, CutStep

\* gc keeps the invariant.
LEMMA GcStep == ASSUME IInv, Gc PROVE IInv'
<1>1. list \in Lists(Values) /\ now \in 0..MaxTime /\ instant \in 0..now /\ instant \in Nat /\ TicksPerSec \in Nat
  BY TimerSizes DEF IInv, Bounded
<1>2. /\ list' = gc(list, deleted) /\ panicked' = gc_panics(list, deleted)
      /\ returned' = {} /\ Forget /\ now' = now /\ instant' = instant
  BY DEF Gc
<1>3. list' \in Lists(Values)
  BY <1>1, <1>2, GcCut
<1>4. PICK k \in 0..Len(list) : Cut(list, list', k, 0)
  BY <1>1, <1>2, GcCut
<1>5. instant' = instant + 0 * TicksPerSec /\ instant' \in 0..now' /\ now' \in 0..MaxTime /\ 0 \in Nat
  BY <1>1, <1>2
<1>6. panicked' \in BOOLEAN /\ returned' \subseteq Values
  BY <1>2 DEF gc_panics
<1> QED BY <1>2, <1>3, <1>4, <1>5, <1>6, CutStep

\* Every step keeps the invariant.
LEMMA NextInv == IInv /\ [Next]_vars => IInv'
<1> SUFFICES ASSUME IInv, [Next]_vars PROVE IInv'
  OBVIOUS
<1>1. CASE UNCHANGED vars
  BY <1>1 DEF IInv, Bounded, Early, vars
<1>2. CASE Tick
  <2>1. now' \in 0..MaxTime /\ instant' \in 0..now'
    BY <1>2, TimerSizes DEF Tick, IInv
  <2>2. Bounded' /\ Early'
    BY <1>2 DEF Tick, IInv, Bounded, Early
  <2>3. returned' = {} /\ UNCHANGED <<deleted, panicked, due>>
    BY <1>2 DEF Tick
  <2> QED BY <2>1, <2>2, <2>3 DEF IInv
<1>3. CASE \E v \in Values, secs \in 0..MaxSecs : AddTimeout(v, secs)
  BY <1>3, AddTimeoutStep
<1>4. CASE \E v \in Values : Delete(v)
  <2>1. PICK v \in Values : Delete(v)
    BY <1>4
  <2>2. Bounded' /\ Early'
    BY <2>1 DEF Delete, IInv, Bounded, Early
  <2>3. deleted' = deleted \cup {v} /\ returned' = {} /\ UNCHANGED <<now, instant, panicked, due>>
    BY <2>1 DEF Delete
  <2> QED BY <2>2, <2>3 DEF IInv
<1>5. CASE Expired
  BY <1>5, ExpiredStep
<1>6. CASE Gc
  BY <1>6, GcStep
<1> QED BY <1>1, <1>2, <1>3, <1>4, <1>5, <1>6 DEF Next
-----------------------------------------------------------------------------
\* However a Timer is used, the deltas of its list never add up to more than the time that
\* is left of any value.
THEOREM Invariance == Spec => []IInv
BY InitInv, NextInv, PTL DEF Spec

\* Every value is in the list once, and add_timeout, expired and gc never make a delta
\* negative, which a u32 could not hold.
THEOREM TypeCorrect == Spec => []TypeOK
<1>1. IInv => TypeOK
  BY BoundedType DEF IInv, TypeOK
<1> QED BY <1>1, Invariance, PTL

\* Once expired() has been called, nothing that was due is left in the list: what stays
\* behind the first item it does not take is due later than now.
THEOREM NeverLate == Spec => ExpiredNotLate
<1> DEFINE A == Expired => /\ \A v \in Live' : due[v] > now
                           /\ returned' \cap deleted = {}
<1>1. ASSUME IInv, Expired, NEW v \in Live' PROVE due[v] > now
  <2> DEFINE e == Elapsed
             k == Takes(list, e)
             sum == Sums(list)
  <2>1. list \in Lists(Values) /\ now \in Nat /\ instant \in 0..now /\ due \in [Values -> Nat]
    BY <1>1, TimerSizes DEF IInv, Bounded
  <2>2. e \in Nat /\ \A n \in Nat : instant + n * TicksPerSec <= now => n <= e
    BY <2>1, ElapsedSecs
  <2>3. list' = Remaining(list, e)
    BY <1>1 DEF Expired
  <2> HIDE DEF e
  <2>4. list' \in Lists(Values) /\ Cut(list, list', k, e)
    BY <2>1, <2>2, <2>3, RemainingCut
  <2>5. k \in 0..Len(list) /\ (k < Len(list) => list[k + 1].delta > e)
    BY <2>1, <2>2, TakesDef
  <2> HIDE DEF k
  <2>6. ValuesOf(list') = {list[i].value : i \in k + 1..Len(list)}
    BY <2>1, <2>4, CutValues
  <2>7. PICK i \in k + 1..Len(list) : v = list[i].value
    BY <1>1, <2>6 DEF Live
  <2>8. Len(list) \in Nat /\ \A j \in 1..Len(list) : list[j].delta \in Nat /\ list[j].value \in Values
    BY <2>1, ListItems
  <2>9. /\ k < Len(list) /\ i \in 1..Len(list) /\ k + 1 \in 1..Len(list)
        /\ (k + 1) - 1 = k /\ i \in 0..Len(list)
    BY <2>5, <2>7, <2>8
  <2>10. /\ \A n \in 0..Len(list) : sum[n] \in Int
         /\ sum[0] = 0 /\ \A n \in 1..Len(list) : sum[n] = sum[n - 1] + list[n].delta
    BY <2>1, SumsDef DEF IsSums
  <2>11. sum[0] <= sum[k]
    <3>1. k \in 0..Len(list) /\ 0 \in 0..Len(list)
      BY <2>5, <2>8
    <3> QED BY <3>1, <2>1, SumsGrow
  <2>12. sum[k + 1] <= sum[i]
    <3>1. k + 1 \in 0..Len(list)
      BY <2>8, <2>9
    <3> QED BY <3>1, <2>1, <2>7, SumsGrow
  <2>13. instant + sum[i] * TicksPerSec <= due[v]
    BY <1>1, <2>7, <2>9 DEF IInv, Early
  <2> HIDE DEF sum
  <2>14. sum[k + 1] = sum[k] + list[k + 1].delta /\ sum[k] \in Int /\ list[k + 1].delta \in Nat /\ sum[i] \in Int
    BY <2>5, <2>8, <2>9, <2>10
  <2>15. list[k + 1].delta > e
    BY <2>5, <2>9
  <2>16. sum[i] \in Nat /\ ~(sum[i] <= e)
    BY <2>2, <2>10, <2>11, <2>12, <2>14, <2>15
  <2>17. ~(instant + sum[i] * TicksPerSec <= now)
    BY <2>2, <2>16
  <2>18. instant + sum[i] * TicksPerSec \in Int /\ due[v] \in Int
    BY <2>1, <2>7, <2>8, <2>9, <2>16, TimerSizes
  <2> QED BY <2>1, <2>13, <2>17, <2>18
<1>2. ASSUME Expired PROVE returned' \cap deleted = {}
  BY <1>2 DEF Expired, Expires
<1>3. IInv /\ [Next]_vars => [A]_vars
  BY <1>1, <1>2
<1> QED BY <1>3, Invariance, PTL DEF Spec, ExpiredNotLate

\* Neither add_timeout, nor expired, nor gc drops a value that is not deleted: it leaves the
\* list only by being returned.
THEOREM NothingLost == Spec => LiveStayUntilReturned
<1> DEFINE A == \A v \in Live : v \in Live' \cup deleted' \cup returned'
<1>1. ASSUME IInv, Next, NEW v \in Live PROVE v \in Live' \cup deleted' \cup returned'
  <2>1. list \in Lists(Values) /\ now \in Nat /\ instant \in 0..now
    BY <1>1, TimerSizes DEF IInv, Bounded
  <2>2. Elapsed \in Nat
    BY <2>1, ElapsedSecs
  <2>3. v \in ValuesOf(list) /\ v \notin deleted
    BY <1>1 DEF Live
  <2>4. SUFFICES v \in ValuesOf(list') \/ v \in deleted' \/ v \in returned'
    BY DEF Live
  <2>5. CASE Tick \/ \E w \in Values : Delete(w)
    BY <2>3, <2>5 DEF Tick, Delete
  <2>6. CASE \E w \in Values, secs \in 0..MaxSecs : AddTimeout(w, secs)
    <3>1. PICK w \in Values, secs \in 0..MaxSecs : AddTimeout(w, secs)
      BY <2>6
    <3>2. saturating_sub(secs, Elapsed) \in Nat
      BY <2>2, TimerSizes DEF saturating_sub
    <3>3. ValuesOf(list') = ValuesOf(list) \cup {w}
      BY <3>1, <3>2, <2>1, AddTimeoutValues DEF AddTimeout
    <3> QED BY <3>3, <2>3
  <2>7. PICK i \in 1..Len(list) : v = list[i].value
    BY <2>1, <2>3, ListItems DEF ValuesOf
  <2>8. Len(list) \in Nat
    BY <2>1, ListItems
  <2>9. CASE Expired
    <3> DEFINE k == Takes(list, Elapsed)
    <3>1. list' = Remaining(list, Elapsed) /\ returned' = ValuesOf(UpTo(list, k)) \ deleted
      BY <2>9 DEF Expired, Expires
    <3>2. list' \in Lists(Values) /\ Cut(list, list', k, Elapsed) /\ k \in 0..Len(list)
      BY <3>1, <2>1, <2>2, RemainingCut, TakesDef
    <3> HIDE DEF k
    <3>3. ValuesOf(list') = {list[j].value : j \in k + 1..Len(list)}
      BY <3>2, <2>1, CutValues
    <3>4. ValuesOf(UpTo(list, k)) = {list[j].value : j \in 1..k}
      BY <3>2, <2>1, UpToValues
    <3>5. i \in 1..k \/ i \in k + 1..Len(list)
      BY <3>2, <2>8
    <3> QED BY <3>1, <3>3, <3>4, <3>5, <2>3, <2>7
  <2>10. CASE Gc
    <3>1. PICK k \in 0..Len(list) : /\ Cut(list, gc(list, deleted), k, 0)
                                    /\ \A j \in 1..k : list[j].value \in deleted
      BY <2>1, GcCut
    <3>2. list' = gc(list, deleted) /\ list' \in Lists(Values)
      BY <2>1, <2>10, GcCut DEF Gc
    <3>3. ValuesOf(list') = {list[j].value : j \in k + 1..Len(list)}
      BY <3>1, <3>2, <2>1, CutValues
    <3>4. i \notin 1..k
      BY <3>1, <2>3, <2>7
    <3>5. i \in k + 1..Len(list)
      BY <3>4, <2>8
    <3> QED BY <3>3, <3>5, <2>7
  <2> QED BY <1>1, <2>5, <2>6, <2>9, <2>10 DEF Next
<1>2. IInv /\ [Next]_vars => [A]_vars
  BY <1>1
<1> QED BY <1>2, Invariance, PTL DEF Spec, LiveStayUntilReturned
=============================================================================
