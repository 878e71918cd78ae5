----------------------------- MODULE TimerList ------------------------------
(***************************************************************************)
(* The differential list of timer.rs, as operators on the sequence of its  *)
(* Titem::Timeout items, from the head to the sentinel.  An item is a      *)
(* record [delta, value]; its delta is relative to the item before it.     *)
(* Which values are marked as deleted is a set beside the list, as the     *)
(* flag is in the value.                                                   *)
(***************************************************************************)
EXTENDS Integers, Sequences

Item(delta, value) == [delta |-> delta, value |-> value]

ValuesOf(list) == {list[i].value : i \in DOMAIN list}

\* The deltas of the first n items, added up, for every n.
Sums(list) == LET sum[n \in 0..Len(list)] == IF n = 0 THEN 0 ELSE sum[n - 1] + list[n].delta
              IN sum

\* What has been counted down before position i.
Before(list, i) == Sums(list)[i - 1]

\* differential: the first item is now counted from ndelta on.
differential(list, ndelta) ==
    IF list = <<>> THEN <<>> ELSE [list EXCEPT ![1].delta = @ - ndelta]

\* The items up to position k, and those behind it.
UpTo(list, k) == SubSeq(list, 1, k)
Behind(list, k) == SubSeq(list, k + 1, Len(list))
-----------------------------------------------------------------------------
\* How many items expired() takes from the head: all up to the first whose
\* delta exceeds secs.  secs is not reduced by the deltas it passes.
Takes(list, secs) ==
    CHOOSE k \in 0..Len(list) :
        /\ \A i \in 1..k : list[i].delta <= secs
        /\ k < Len(list) => list[k + 1].delta > secs

\* Mutant of Remaining: the first item that stays keeps its delta.
RemainingUnreduced(list, secs) == Behind(list, Takes(list, secs))

\* The list that expired() leaves.
Remaining(list, secs) == differential(Behind(list, Takes(list, secs)), secs)

\* The values that expired() returns.
Expires(list, deleted, secs) == ValuesOf(UpTo(list, Takes(list, secs))) \ deleted

\* u32::saturating_sub
saturating_sub(a, b) == IF a > b THEN a - b ELSE 0

\* Mutant of Position: an item always goes to the head.
PositionFirst(list, ndelta) == 1

\* Where add_timeout puts an item: in front of the first one whose delta exceeds
\* what is left of ndelta by then.
Position(list, ndelta) ==
    CHOOSE i \in 1..Len(list) + 1 :
        /\ \A j \in 1..i - 1 : ndelta - Before(list, j) >= list[j].delta
        /\ i <= Len(list) => ndelta - Before(list, i) < list[i].delta

add_timeout(list, ndelta, value) ==
    LET i == Position(list, ndelta)
        delta == ndelta - Before(list, i)
    IN UpTo(list, i - 1) \o <<Item(delta, value)>> \o differential(Behind(list, i - 1), delta)

\* Mutant of gc: the item behind a deleted one goes with it.
gc_skips(list, deleted) ==
    IF list # <<>> /\ list[1].value \in deleted THEN Behind(list, 2) ELSE list

\* gc goes from the head over deleted items, dropping them and their deltas.
\* The first other item makes it take the Head for a Timeout: unreachable!().
gc(list, deleted) ==
    LET k == CHOOSE k \in 0..Len(list) :
                 /\ ValuesOf(UpTo(list, k)) \subseteq deleted
                 /\ k < Len(list) => list[k + 1].value \notin deleted
    IN Behind(list, k)

gc_panics(list, deleted) == gc(list, deleted) # <<>>
=============================================================================
