------------------------------- MODULE Timer --------------------------------
(***************************************************************************)
(* A Timer (timer.rs) under any use of its public methods: add_timeout,    *)
(* expired and gc, the delete of values that are in it, and time.          *)
(*                                                                         *)
(* Time is counted in ticks, TicksPerSec to the second, so that elapsed(). *)
(* as_secs() truncates; instant goes on by whole seconds only.             *)
(***************************************************************************)
EXTENDS TimerList, Functions

CONSTANTS Values,       \* what the timer holds
          TicksPerSec,
          MaxSecs,      \* bound: longest timeout
          MaxTime       \* bound: last tick

ASSUME TimerSizes == /\ TicksPerSec \in Nat \ {0}
                     /\ MaxSecs \in Nat /\ MaxTime \in Nat

VARIABLES now,
          instant, list,  \* the Timer
          deleted,        \* values marked by TimeoutValue::delete
          returned,       \* what the last expired() returned
          panicked,       \* a panic has ended the thread
          due             \* history: when each value was asked to expire

vars == <<now, instant, list, deleted, returned, panicked, due>>

Live == ValuesOf(list) \ deleted

Elapsed == (now - instant) \div TicksPerSec

Init == /\ now = 0 /\ instant = 0
        /\ list = <<>>
        /\ deleted = {} /\ returned = {}
        /\ panicked = FALSE
        /\ due = [v \in Values |-> 0]

Tick == /\ now < MaxTime
        /\ now' = now + 1
        /\ returned' = {}
        /\ UNCHANGED <<instant, list, deleted, panicked, due>>

\* A value that is in the list is not added again: each is a new Arc.
AddTimeout(v, secs) ==
    /\ ~panicked
    /\ v \notin ValuesOf(list)
    /\ list' = add_timeout(list, saturating_sub(secs, Elapsed), v)
    /\ due' = [due EXCEPT ![v] = now + secs * TicksPerSec]
    /\ returned' = {}
    /\ UNCHANGED <<now, instant, deleted, panicked>>

Delete(v) == /\ ~panicked
             /\ v \in Live
             /\ deleted' = deleted \cup {v}
             /\ returned' = {}
             /\ UNCHANGED <<now, instant, list, panicked, due>>

\* What has left the list is gone, with its flag.
Forget == /\ deleted' = deleted \cap ValuesOf(list')
          /\ due' = [v \in Values |-> IF v \in ValuesOf(list') THEN due[v] ELSE 0]

Expired == /\ ~panicked
           /\ returned' = Expires(list, deleted, Elapsed)
           /\ list' = Remaining(list, Elapsed)
           /\ instant' = instant + Elapsed * TicksPerSec
           /\ Forget
           /\ UNCHANGED <<now, panicked>>

Gc == /\ ~panicked
      /\ list' = gc(list, deleted)
      /\ panicked' = gc_panics(list, deleted)
      /\ returned' = {}
      /\ Forget
      /\ UNCHANGED <<now, instant>>

Next == \/ Tick
        \/ \E v \in Values, secs \in 0..MaxSecs : AddTimeout(v, secs)
        \/ \E v \in Values : Delete(v)
        \/ Expired
        \/ Gc

Spec == Init /\ [][Next]_vars
-----------------------------------------------------------------------------
\* Every value of the list is there once, no delta is negative (a u32 would
\* have wrapped around) or above the longest timeout, and instant follows now.
TypeOK == /\ now \in 0..MaxTime /\ instant \in 0..now
          /\ list \in Seq([delta : 0..MaxSecs, value : Values])
          /\ IsInjective([i \in DOMAIN list |-> list[i].value])
          /\ deleted \subseteq Values /\ returned \subseteq Values
          /\ panicked \in BOOLEAN
          /\ due \in [Values -> Nat]

\* expired() is never late: whatever was added, deleted, collected and returned
\* before, once it has been called no value that is due is left in the list,
\* and no deleted one was returned.
ExpiredNotLate == [][Expired => /\ \A v \in Live' : due[v] > now
                                /\ returned' \cap deleted = {}]_vars

\* A value that is not deleted leaves the list only by being returned: neither
\* the insertion of others, nor the expiry of others, nor gc drops it.
LiveStayUntilReturned ==
    [][\A v \in Live : v \in Live' \cup deleted' \cup returned']_vars
=============================================================================
