------------------------------ MODULE Spinlock ------------------------------
(***************************************************************************)
(* The latch-and-lock read-write spinlock of spinlock.rs, one action per   *)
(* atomic instruction.                                                     *)
(*                                                                         *)
(* A thread is idle, in a read() call, holding a ReadGuard, in a write()   *)
(* call, holding a WriteGuard, or dropping that guard.  The two uses of a  *)
(* guard are those of ttrie.rs: clone the value out of a ReadGuard, assign *)
(* through a WriteGuard.  The assignment is not one instruction (it drops  *)
(* the old Arc and then stores the new one), so the value is Torn while it *)
(* runs: a reader in the room at that moment would clone freed memory.     *)
(***************************************************************************)
EXTENDS Naturals, FiniteSets

CONSTANTS Threads,      \* threads that share the lock
          Values,       \* contents of the protected cell
          READERS_FLAG, \* largest reader count the low bits of the word hold
          Torn,         \* the cell while an assignment is half done
          NoValue       \* a thread's local before its first read

\* A thread holds at most one guard at a time (every use in ttrie.rs is a
\* temporary of one statement), so the count fits when the threads do.
ASSUME ReadersFit == /\ READERS_FLAG \in Nat
                     /\ IsFiniteSet(Threads)
                     /\ Cardinality(Threads) <= READERS_FLAG

ASSUME NotValues == Torn \notin Values /\ NoValue \notin Values /\ Torn # NoValue

VARIABLES latchlock, \* the AtomicU32: latch bit, lock bit, reader count
          pc,        \* pc[t]: the next instruction of thread t
          old,       \* old[t]: `old`, the word thread t loaded last
          arg,       \* arg[t]: the value thread t is about to assign
          value,     \* the protected value
          got        \* got[t]: what thread t's latest read returned

vars == <<latchlock, pc, old, arg, value, got>>

Word == [latch : BOOLEAN, lock : BOOLEAN, readers : 0..READERS_FLAG]

Unlatched == [latch |-> FALSE, lock |-> FALSE, readers |-> 0]

\* Mutant of IncReaders: every reader counts twice.
IncReadersTwice(w) == [w EXCEPT !.readers = @ + 2]

\* `old + 1` on the whole word: a full reader count carries into the latch bit.
IncReaders(w) ==
    IF w.readers < READERS_FLAG
    THEN [w EXCEPT !.readers = @ + 1]
    ELSE [latch |-> ~w.latch, lock |-> (w.lock # w.latch), readers |-> 0]

\* `fetch_sub(1)` on the whole word: an empty reader count borrows from it.
DecReaders(w) ==
    IF w.readers > 0
    THEN [w EXCEPT !.readers = @ - 1]
    ELSE [latch |-> ~w.latch, lock |-> (w.lock = w.latch), readers |-> READERS_FLAG]

Goto(t, from, to) == /\ pc[t] = from
                     /\ pc' = [pc EXCEPT ![t] = to]

Init == /\ latchlock = Unlatched
        /\ pc = [t \in Threads |-> "idle"]
        /\ old = [t \in Threads |-> Unlatched]
        /\ arg \in [Threads -> Values]
        /\ value \in Values
        /\ got = [t \in Threads |-> NoValue]
-----------------------------------------------------------------------------
(* read(): load, then compare-and-exchange, in a loop.                     *)

CallRead(t) == /\ Goto(t, "idle", "r_load")
               /\ UNCHANGED <<latchlock, old, arg, value, got>>

\* Mutant of ReadLoad: a latched door does not stop a reader.
ReadLoadIgnoresLatch(t) ==
    /\ old' = [old EXCEPT ![t] = latchlock]
    /\ Goto(t, "r_load", IF latchlock.lock THEN "r_load" ELSE "r_cas")
    /\ UNCHANGED <<latchlock, arg, value, got>>

ReadLoad(t) ==
    /\ old' = [old EXCEPT ![t] = latchlock]
    /\ Goto(t, "r_load", IF latchlock.latch \/ latchlock.lock THEN "r_load" ELSE "r_cas")
    /\ UNCHANGED <<latchlock, arg, value, got>>

ReadCas(t) ==
    /\ \/ /\ latchlock = old[t]
          /\ latchlock' = IncReaders(old[t])
          /\ Goto(t, "r_cas", "r_room")
       \/ /\ latchlock # old[t]
          /\ UNCHANGED latchlock
          /\ Goto(t, "r_cas", "r_load")
    /\ UNCHANGED <<old, arg, value, got>>

\* ReadGuard::deref and the Arc::clone of what it points to.
ReadValue(t) == /\ Goto(t, "r_room", "r_drop")
                /\ got' = [got EXCEPT ![t] = value]
                /\ UNCHANGED <<latchlock, old, arg, value>>

\* Mutant of DropReadGuard: the fetch_sub is forgotten.
DropReadGuardKeepsCount(t) == /\ Goto(t, "r_drop", "idle")
                              /\ UNCHANGED <<latchlock, old, arg, value, got>>

DropReadGuard(t) == /\ Goto(t, "r_drop", "idle")
                    /\ latchlock' = DecReaders(latchlock)
                    /\ UNCHANGED <<old, arg, value, got>>
-----------------------------------------------------------------------------
(* write(): latch the door, wait for the readers to leave, lock it.        *)

CallWrite(t, v) == /\ Goto(t, "idle", "w_latch")
                   /\ arg' = [arg EXCEPT ![t] = v]
                   /\ UNCHANGED <<latchlock, old, value, got>>

LatchLoad(t) ==
    /\ old' = [old EXCEPT ![t] = latchlock]
    /\ Goto(t, "w_latch", IF latchlock.latch THEN "w_latch"
                          ELSE IF latchlock.lock THEN "panic" ELSE "w_latch_cas")
    /\ UNCHANGED <<latchlock, arg, value, got>>

LatchCas(t) ==
    /\ \/ /\ latchlock = old[t]
          /\ latchlock' = [old[t] EXCEPT !.latch = TRUE]
          /\ Goto(t, "w_latch_cas", "w_lock")
       \/ /\ latchlock # old[t]
          /\ UNCHANGED latchlock
          /\ Goto(t, "w_latch_cas", "w_latch")
    /\ UNCHANGED <<old, arg, value, got>>

\* Mutant of LockLoad: the writer does not wait for the readers to leave.
LockLoadNoWait(t) == /\ old' = [old EXCEPT ![t] = latchlock]
                     /\ Goto(t, "w_lock", "w_lock_cas")
                     /\ UNCHANGED <<latchlock, arg, value, got>>

LockLoad(t) ==
    /\ old' = [old EXCEPT ![t] = latchlock]
    /\ Goto(t, "w_lock", IF latchlock.readers = 0 THEN "w_lock_cas" ELSE "w_lock")
    /\ UNCHANGED <<latchlock, arg, value, got>>

LockCas(t) ==
    /\ \/ /\ latchlock = old[t]
          /\ latchlock' = [old[t] EXCEPT !.lock = TRUE]
          /\ Goto(t, "w_lock_cas", "w_room")
       \/ /\ latchlock # old[t]
          /\ UNCHANGED latchlock
          /\ Goto(t, "w_lock_cas", "panic")
    /\ UNCHANGED <<old, arg, value, got>>

\* WriteGuard::deref_mut and the assignment through it, in two steps.
BeginStore(t) == /\ Goto(t, "w_room", "w_store")
                 /\ value' = Torn
                 /\ UNCHANGED <<latchlock, old, arg, got>>

EndStore(t) == /\ Goto(t, "w_store", "w_drop")
               /\ value' = arg[t]
               /\ UNCHANGED <<latchlock, old, arg, got>>

\* WriteGuard::drop: load, check, compare-and-exchange with zero.
DropLoad(t) ==
    /\ old' = [old EXCEPT ![t] = latchlock]
    /\ Goto(t, "w_drop", IF latchlock.readers > 0 THEN "panic" ELSE "w_drop_cas")
    /\ UNCHANGED <<latchlock, arg, value, got>>

\* Mutant of DropCas: only the lock bit is cleared.
DropCasKeepsLatch(t) ==
    /\ latchlock = old[t]
    /\ latchlock' = [old[t] EXCEPT !.lock = FALSE]
    /\ Goto(t, "w_drop_cas", "idle")
    /\ UNCHANGED <<old, arg, value, got>>

DropCas(t) ==
    /\ \/ /\ latchlock = old[t]
          /\ latchlock' = Unlatched
          /\ Goto(t, "w_drop_cas", "idle")
       \/ /\ latchlock # old[t]
          /\ UNCHANGED latchlock
          /\ Goto(t, "w_drop_cas", "panic")
    /\ UNCHANGED <<old, arg, value, got>>
-----------------------------------------------------------------------------
\* What thread t does once it has made a call, up to its return.
Step(t) == \/ ReadLoad(t)
           \/ ReadCas(t)
           \/ ReadValue(t)
           \/ DropReadGuard(t)
           \/ LatchLoad(t)
           \/ LatchCas(t)
           \/ LockLoad(t)
           \/ LockCas(t)
           \/ BeginStore(t)
           \/ EndStore(t)
           \/ DropLoad(t)
           \/ DropCas(t)

Next == \E t \in Threads :
            \/ CallRead(t)
            \/ \E v \in Values : CallWrite(t, v)
            \/ Step(t)

Spec == Init /\ [][Next]_vars

\* The scheduler runs every thread that is inside a call; nobody has to call.
FairSpec == Spec /\ \A t \in Threads : WF_vars(Step(t))
-----------------------------------------------------------------------------
Pcs == {"idle", "r_load", "r_cas", "r_room", "r_drop", "w_latch", "w_latch_cas",
        "w_lock", "w_lock_cas", "w_room", "w_store", "w_drop", "w_drop_cas", "panic"}

\* A ReadGuard, the latch, a WriteGuard is in the hands of a thread at ...
ReaderPcs == {"r_room", "r_drop"}
LatchPcs == {"w_lock", "w_lock_cas", "w_room", "w_store", "w_drop", "w_drop_cas"}
WriterPcs == {"w_room", "w_store", "w_drop", "w_drop_cas"}
SpinPcs == {"r_load", "r_cas", "w_latch", "w_latch_cas", "w_lock", "w_lock_cas"}

InRoom == {t \in Threads : pc[t] \in ReaderPcs}

\* The word, the locals and the protected value stay within their types; the
\* value is what some write() assigned or, during an assignment, Torn.
TypeOK == /\ latchlock \in Word
          /\ pc \in [Threads -> Pcs]
          /\ old \in [Threads -> Word]
          /\ arg \in [Threads -> Values]
          /\ value \in Values \cup {Torn}
          /\ got \in [Threads -> Values \cup {Torn, NoValue}]

\* Rules 4 and 7 of the module's documentation: while a thread holds a
\* WriteGuard no other thread holds a guard of either kind.
MutualExclusion ==
    \A t, u \in Threads :
        pc[t] \in WriterPcs /\ pc[u] \in WriterPcs \cup ReaderPcs => t = u

\* None of the four "call the programmer" panics of write() and of
\* WriteGuard::drop is reachable, whatever the interleaving of the threads.
NoPanic == \A t \in Threads : pc[t] # "panic"

\* The reader count of the word is the number of ReadGuards alive, so no
\* fetch_sub ever borrows and no increment ever carries into the latch bit.
ReadersCounted == latchlock.readers = Cardinality(InRoom)

\* What read() hands out is a value some write() installed as a whole: a
\* reader never clones the Arc while a writer is replacing it.
NoTornRead == \A t \in Threads : got[t] # Torn

\* A writer that has latched the door gets in: the readers inside leave and
\* nobody else can enter before it (rules 6 and 7).
LatchedWriterEnters ==
    \A t \in Threads : pc[t] = "w_lock" ~> pc[t] = "w_room"

\* The lock as a whole never gets stuck: while some thread spins in read()
\* or write(), a guard is handed out to somebody.  (To whom is not promised:
\* one thread can lose every race, the code has no queue.)
SomebodyEnters ==
    (\E t \in Threads : pc[t] \in SpinPcs) ~>
        (\E t \in Threads : pc[t] \in {"r_room", "w_room"})

\* The lock and its cell implement an atomic cell.  A read takes effect when
\* it clones the value, a write when its assignment begins.
Cell == INSTANCE AtomicCell WITH
            cell <- IF value = Torn
                    THEN arg[CHOOSE t \in Threads : pc[t] = "w_store"]
                    ELSE value

ImplementsAtomicCell == Cell!Spec
=============================================================================
