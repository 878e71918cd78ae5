----------------------------- MODULE MCSpinlock -----------------------------
(* Spinlock for TLC: three threads, so that a writer can meet a reader and  *)
(* another writer at once, and a reader count that is just wide enough.     *)
EXTENDS Spinlock

CONSTANTS t1, t2, t3, a

ThreeThreads == {t1, t2, t3}
OneValue == {a}
=============================================================================
