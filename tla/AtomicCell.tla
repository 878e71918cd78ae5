----------------------------- MODULE AtomicCell -----------------------------
(***************************************************************************)
(* What a Spinlock<T> promises its users (spinlock.rs): a cell that every  *)
(* thread reads and overwrites in one indivisible step.  ttrie.rs is       *)
(* written against exactly this: `Arc::clone(&self.inner.read())` fetches  *)
(* a whole value and `*self.inner.write() = v` installs one.               *)
(***************************************************************************)
CONSTANTS Threads, \* the threads that share the cell
          Values,  \* what the cell can hold
          NoValue  \* "this thread has read nothing so far"

VARIABLES cell, \* the value the cell holds
          got   \* got[t]: the value thread t's latest read returned

vars == <<cell, got>>

Init == /\ cell \in Values
        /\ got = [t \in Threads |-> NoValue]

Read(t) == /\ got' = [got EXCEPT ![t] = cell]
           /\ UNCHANGED cell

Write(v) == /\ cell' = v
            /\ UNCHANGED got

Next == \/ \E t \in Threads : Read(t)
        \/ \E v \in Values : Write(v)

Spec == Init /\ [][Next]_vars
=============================================================================
