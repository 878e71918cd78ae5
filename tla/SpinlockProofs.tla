--------------------------- MODULE SpinlockProofs ---------------------------
(***************************************************************************)
(* Safety of the spinlock for every number of threads and every width of   *)
(* the reader count that the threads fit in.                               *)
(*                                                                         *)
(* MutualExclusion and NoPanic are not inductive: they rest on what the    *)
(* word says about the threads' positions and on what a thread's stale     *)
(* copy `old` still guarantees when it reaches its compare-and-exchange.   *)
(***************************************************************************)
EXTENDS Spinlock, FiniteSetTheorems, TLAPS

\* The latch bit is up exactly while one thread owns it, the lock bit exactly
\* while that thread holds a WriteGuard, and then nobody else is inside.
WordTellsPcs ==
    /\ latchlock.latch <=> \E t \in Threads : pc[t] \in LatchPcs
    /\ latchlock.lock <=> \E t \in Threads : pc[t] \in WriterPcs
    /\ \A t, u \in Threads : pc[t] \in LatchPcs /\ pc[u] \in LatchPcs => t = u
    /\ latchlock.lock => latchlock.readers = 0

\* What a thread may rely on in its copy of the word when it reaches a CAS.
\* Past the latch the copy cannot be stale: the owner of the latch is alone.
OldTellsWord ==
    \A t \in Threads :
        /\ pc[t] \in {"r_cas", "w_latch_cas"} => ~old[t].latch /\ ~old[t].lock
        /\ pc[t] = "w_lock_cas" => old[t] = latchlock /\ latchlock.readers = 0
        /\ pc[t] = "w_drop_cas" => old[t] = latchlock

TornTellsPcs == value = Torn <=> \E t \in Threads : pc[t] = "w_store"

IInv == /\ TypeOK
        /\ NoPanic
        /\ ReadersCounted
        /\ WordTellsPcs
        /\ OldTellsWord
        /\ TornTellsPcs
        /\ NoTornRead
-----------------------------------------------------------------------------
\* Counting the readers: the set of threads in the room is finite, and it is
\* smaller than Threads as long as some thread is outside.
LEMMA RoomCount ==
    ASSUME TypeOK
    PROVE  /\ IsFiniteSet(InRoom)
           /\ Cardinality(InRoom) \in Nat
           /\ \A t \in Threads : pc[t] \notin ReaderPcs => Cardinality(InRoom) < READERS_FLAG
           /\ Cardinality(InRoom) = 0 <=> InRoom = {}
<1>1. InRoom \subseteq Threads
  BY DEF InRoom
<1>2. IsFiniteSet(InRoom) /\ Cardinality(InRoom) \in Nat /\ Cardinality(Threads) \in Nat
  BY <1>1, ReadersFit, FS_Subset, FS_CardinalityType
<1>3. ASSUME NEW t \in Threads, pc[t] \notin ReaderPcs
      PROVE  Cardinality(InRoom) < READERS_FLAG
  <2>1. InRoom # Threads
    BY <1>3 DEF InRoom
  <2>2. Cardinality(InRoom) <= Cardinality(Threads) /\ Cardinality(InRoom) # Cardinality(Threads)
    BY <1>1, <2>1, ReadersFit, FS_Subset
  <2> QED
    BY <1>2, <2>2, ReadersFit
<1>4. Cardinality(InRoom) = 0 <=> InRoom = {}
  BY <1>2, FS_EmptySet
<1> QED
  BY <1>2, <1>3, <1>4

\* A step that moves no thread into or out of the room keeps the count.
LEMMA RoomUnchanged ==
    ASSUME \A t \in Threads : pc'[t] \in ReaderPcs <=> pc[t] \in ReaderPcs
    PROVE  InRoom' = InRoom
BY DEF InRoom

\* Spinlock::new establishes the invariant.
LEMMA InitIInv == Init => IInv
<1> SUFFICES ASSUME Init PROVE IInv
  OBVIOUS
<1>1. TypeOK
  BY ReadersFit DEF Init, TypeOK, Word, Unlatched, Pcs
<1>2. ReadersCounted
  <2>1. InRoom = {}
    BY DEF Init, InRoom, ReaderPcs
  <2> QED
    BY <2>1, FS_EmptySet DEF ReadersCounted, Init, Unlatched
<1>3. NoPanic /\ WordTellsPcs /\ OldTellsWord
  BY DEF Init, Unlatched, NoPanic, WordTellsPcs, OldTellsWord, LatchPcs, WriterPcs
<1>4. TornTellsPcs /\ NoTornRead
  BY NotValues DEF Init, TornTellsPcs, NoTornRead
<1> QED
  BY <1>1, <1>2, <1>3, <1>4 DEF IInv

-----------------------------------------------------------------------------
(* One lemma per group of actions, under a common set of hypotheses.       *)

\* Instructions that leave the word and the protected value alone: calls,
\* loads, and the clone a reader makes inside the room.
LEMMA LoadsKeepIInv ==
    ASSUME IInv, NEW t \in Threads,
           \/ CallRead(t)
           \/ \E v \in Values : CallWrite(t, v)
           \/ ReadLoad(t)
           \/ ReadValue(t)
           \/ LatchLoad(t)
           \/ LockLoad(t)
           \/ DropLoad(t)
    PROVE  IInv'
<1> USE DEF IInv, Goto, CallRead, CallWrite, ReadLoad, ReadValue, LatchLoad, LockLoad, DropLoad
<1>1. TypeOK'
  BY DEF TypeOK, Pcs
<1>2. ReadersCounted'
  <2>1. InRoom' = InRoom
    BY RoomUnchanged DEF TypeOK, ReaderPcs
  <2> QED
    BY <2>1 DEF ReadersCounted
<1>3. NoPanic'
  BY DEF TypeOK, NoPanic, WordTellsPcs, LatchPcs, WriterPcs
<1>4. WordTellsPcs'
  BY DEF TypeOK, WordTellsPcs, LatchPcs, WriterPcs
<1>5. OldTellsWord'
  BY DEF TypeOK, OldTellsWord, WordTellsPcs, LatchPcs, WriterPcs
<1>6. TornTellsPcs'
  BY DEF TypeOK, TornTellsPcs
<1>7. NoTornRead'
  <2>1. CASE ReadValue(t)
    <3>1. t \in InRoom /\ Cardinality(InRoom) # 0
      BY <2>1, RoomCount DEF InRoom, ReaderPcs
    <3>2. value # Torn
      BY <3>1 DEF TypeOK, ReadersCounted, WordTellsPcs, TornTellsPcs, WriterPcs
    <3> QED
      BY <2>1, <3>2 DEF TypeOK, NoTornRead
  <2>2. CASE ~ReadValue(t)
    BY <2>2 DEF NoTornRead
  <2> QED
    BY <2>1, <2>2
<1> QED
  BY <1>1, <1>2, <1>3, <1>4, <1>5, <1>6, <1>7

\* The two instructions that let a reader in and out.
LEMMA ReadersKeepIInv ==
    ASSUME IInv, NEW t \in Threads, ReadCas(t) \/ DropReadGuard(t)
    PROVE  IInv'
<1> USE DEF IInv, Goto
<1>1. CASE ReadCas(t) /\ latchlock # old[t]
  <2>1. InRoom' = InRoom
    BY <1>1, RoomUnchanged DEF ReadCas, TypeOK, ReaderPcs
  <2> QED
    BY <1>1, <2>1 DEF ReadCas, TypeOK, Pcs, NoPanic, ReadersCounted, WordTellsPcs,
                      OldTellsWord, TornTellsPcs, NoTornRead, LatchPcs, WriterPcs
<1>2. CASE ReadCas(t) /\ latchlock = old[t]
  <2> USE <1>2 DEF ReadCas
  <2>1. ~latchlock.latch /\ ~latchlock.lock
    BY DEF OldTellsWord
  <2>2. InRoom' = InRoom \cup {t} /\ t \notin InRoom
    BY DEF InRoom, ReaderPcs, TypeOK
  <2>3. Cardinality(InRoom') = Cardinality(InRoom) + 1
    BY <2>2, RoomCount, FS_AddElement
  <2>4. latchlock.readers < READERS_FLAG /\ latchlock.readers \in Nat
    BY RoomCount DEF ReadersCounted, ReaderPcs
  <2>5. latchlock' = [latchlock EXCEPT !.readers = @ + 1]
    BY <2>4 DEF IncReaders
  <2>6. /\ latchlock' \in Word
        /\ latchlock'.readers = latchlock.readers + 1
        /\ ~latchlock'.latch /\ ~latchlock'.lock
    BY <2>1, <2>4, <2>5, ReadersFit DEF TypeOK, Word
  <2>7. TypeOK'
    BY <2>6 DEF TypeOK, Pcs
  <2>8. ReadersCounted'
    BY <2>3, <2>6 DEF ReadersCounted
  <2>9. WordTellsPcs' /\ OldTellsWord' /\ NoPanic'
    BY <2>1, <2>6 DEF TypeOK, WordTellsPcs, OldTellsWord, NoPanic, LatchPcs, WriterPcs
  <2>10. TornTellsPcs' /\ NoTornRead'
    BY DEF TypeOK, TornTellsPcs, NoTornRead
  <2> QED
    BY <2>7, <2>8, <2>9, <2>10
<1>3. CASE DropReadGuard(t)
  <2> USE <1>3 DEF DropReadGuard
  <2>1. InRoom' = InRoom \ {t} /\ t \in InRoom
    BY DEF InRoom, ReaderPcs, TypeOK
  <2>2. Cardinality(InRoom') = Cardinality(InRoom) - 1 /\ Cardinality(InRoom) > 0
    <3>1. IsFiniteSet(InRoom) /\ Cardinality(InRoom) \in Nat /\ Cardinality(InRoom) # 0
      BY <2>1, RoomCount
    <3>2. Cardinality(InRoom \ {t}) = Cardinality(InRoom) - 1
      BY <2>1, <3>1, FS_RemoveElement
    <3> QED
      BY <2>1, <3>1, <3>2
  <2>3. latchlock.readers > 0
    BY <2>2 DEF ReadersCounted
  <2>4. latchlock' = [latchlock EXCEPT !.readers = @ - 1]
    BY <2>3 DEF DecReaders
  <2>5. /\ latchlock' \in Word
        /\ latchlock'.readers = latchlock.readers - 1
        /\ latchlock'.latch = latchlock.latch
        /\ latchlock'.lock = latchlock.lock
    BY <2>3, <2>4, ReadersFit DEF TypeOK, Word
  <2>6. TypeOK'
    BY <2>5 DEF TypeOK, Pcs
  <2>7. ReadersCounted'
    BY <2>2, <2>5 DEF ReadersCounted
  <2>8. WordTellsPcs' /\ NoPanic'
    BY <2>3, <2>5 DEF TypeOK, WordTellsPcs, NoPanic, LatchPcs, WriterPcs
  <2>9. ~latchlock.lock /\ \A u \in Threads : pc[u] \notin {"w_lock_cas", "w_drop_cas"}
    BY <2>3 DEF TypeOK, Word, WordTellsPcs, OldTellsWord, WriterPcs
  <2>10. OldTellsWord'
    BY <2>9 DEF TypeOK, OldTellsWord
  <2>11. TornTellsPcs' /\ NoTornRead'
    BY DEF TypeOK, TornTellsPcs, NoTornRead
  <2> QED
    BY <2>6, <2>7, <2>8, <2>10, <2>11
<1> QED
  BY <1>1, <1>2, <1>3

\* The owner of the latch: taking it, locking, storing, releasing both bits.
LEMMA WriterKeepsIInv ==
    ASSUME IInv, NEW t \in Threads,
           \/ LatchCas(t)
           \/ LockCas(t)
           \/ BeginStore(t)
           \/ EndStore(t)
           \/ DropCas(t)
    PROVE  IInv'
<1> USE DEF IInv, Goto
<1>1. InRoom' = InRoom
  BY RoomUnchanged DEF LatchCas, LockCas, BeginStore, EndStore, DropCas, TypeOK, ReaderPcs
<1>2. CASE LatchCas(t)
  <2>1. TypeOK'
    BY <1>2 DEF LatchCas, TypeOK, Pcs, Word
  <2>2. ReadersCounted' /\ NoPanic' /\ TornTellsPcs' /\ NoTornRead'
    BY <1>1, <1>2 DEF LatchCas, TypeOK, Word, ReadersCounted, NoPanic, TornTellsPcs, NoTornRead
  <2>3. WordTellsPcs'
    BY <1>2 DEF LatchCas, TypeOK, Word, WordTellsPcs, OldTellsWord, LatchPcs, WriterPcs
  <2>4. OldTellsWord'
    BY <1>2 DEF LatchCas, TypeOK, Word, WordTellsPcs, OldTellsWord, LatchPcs, WriterPcs
  <2> QED
    BY <2>1, <2>2, <2>3, <2>4
<1>3. CASE LockCas(t)
  <2>1. latchlock = old[t] /\ latchlock.readers = 0
    BY <1>3 DEF LockCas, OldTellsWord
  <2>2. TypeOK'
    BY <1>3, <2>1 DEF LockCas, TypeOK, Pcs, Word
  <2>3. ReadersCounted' /\ NoPanic' /\ TornTellsPcs' /\ NoTornRead'
    BY <1>1, <1>3, <2>1 DEF LockCas, TypeOK, Word, ReadersCounted, NoPanic, TornTellsPcs, NoTornRead
  <2>4. WordTellsPcs'
    BY <1>3, <2>1 DEF LockCas, TypeOK, Word, WordTellsPcs, LatchPcs, WriterPcs
  <2>5. OldTellsWord'
    BY <1>3, <2>1 DEF LockCas, TypeOK, Word, WordTellsPcs, OldTellsWord, LatchPcs, WriterPcs
  <2> QED
    BY <2>2, <2>3, <2>4, <2>5
<1>4. CASE BeginStore(t) \/ EndStore(t)
  <2>1. TypeOK'
    BY <1>4 DEF BeginStore, EndStore, TypeOK, Pcs
  <2>2. ReadersCounted' /\ NoPanic' /\ NoTornRead'
    BY <1>1, <1>4 DEF BeginStore, EndStore, TypeOK, ReadersCounted, NoPanic, NoTornRead
  <2>3. WordTellsPcs' /\ OldTellsWord'
    BY <1>4 DEF BeginStore, EndStore, TypeOK, WordTellsPcs, OldTellsWord, LatchPcs, WriterPcs
  <2>4. TornTellsPcs'
    BY <1>4, NotValues
       DEF BeginStore, EndStore, TypeOK, WordTellsPcs, TornTellsPcs, LatchPcs, WriterPcs
  <2> QED
    BY <2>1, <2>2, <2>3, <2>4
<1>5. CASE DropCas(t)
  <2>1. latchlock = old[t] /\ latchlock.readers = 0
    BY <1>5 DEF DropCas, TypeOK, OldTellsWord, WordTellsPcs, WriterPcs
  <2>2. TypeOK'
    <3>1. Unlatched \in Word
      BY ReadersFit DEF Unlatched, Word
    <3> QED
      BY <1>5, <2>1, <3>1 DEF DropCas, TypeOK, Pcs
  <2>3. ReadersCounted' /\ NoPanic' /\ TornTellsPcs' /\ NoTornRead'
    BY <1>1, <1>5, <2>1
       DEF DropCas, TypeOK, Unlatched, ReadersCounted, NoPanic, TornTellsPcs, NoTornRead
  <2>4. WordTellsPcs'
    BY <1>5, <2>1 DEF DropCas, TypeOK, Unlatched, WordTellsPcs, LatchPcs, WriterPcs
  <2>5. OldTellsWord'
    BY <1>5, <2>1 DEF DropCas, TypeOK, WordTellsPcs, OldTellsWord, LatchPcs, WriterPcs
  <2> QED
    BY <2>2, <2>3, <2>4, <2>5
<1> QED
  BY <1>2, <1>3, <1>4, <1>5

\* Every instruction of every thread keeps the invariant.
LEMMA NextKeepsIInv == IInv /\ [Next]_vars => IInv'
<1> SUFFICES ASSUME IInv, [Next]_vars PROVE IInv'
  OBVIOUS
<1>1. CASE UNCHANGED vars
  BY <1>1 DEF vars, IInv, TypeOK, NoPanic, ReadersCounted, InRoom, WordTellsPcs,
              OldTellsWord, TornTellsPcs, NoTornRead
<1>2. ASSUME NEW t \in Threads,
             \/ CallRead(t)
             \/ \E v \in Values : CallWrite(t, v)
             \/ Step(t)
      PROVE  IInv'
  BY <1>2, LoadsKeepIInv, ReadersKeepIInv, WriterKeepsIInv DEF Step
<1> QED
  BY <1>1, <1>2 DEF Next

\* IInv is an invariant of the spinlock.
THEOREM Invariance == Spec => []IInv
BY InitIInv, NextKeepsIInv, PTL DEF Spec

\* Type correctness: in particular the reader count never leaves its bits.
THEOREM TypeCorrect == Spec => []TypeOK
<1>1. IInv => TypeOK
  BY DEF IInv
<1> QED
  BY <1>1, Invariance, PTL

\* Rules 4 and 7 of spinlock.rs: a WriteGuard excludes every other guard.
THEOREM Exclusion == Spec => []MutualExclusion
<1>1. ASSUME IInv PROVE MutualExclusion
  <2> SUFFICES ASSUME NEW t \in Threads, NEW u \in Threads, pc[t] \in WriterPcs,
                      pc[u] \in WriterPcs \cup ReaderPcs
               PROVE  t = u
    BY DEF MutualExclusion
  <2>1. CASE pc[u] \in WriterPcs
    BY <1>1, <2>1 DEF IInv, WordTellsPcs, WriterPcs, LatchPcs
  <2>2. CASE pc[u] \in ReaderPcs
    <3>1. latchlock.readers = 0
      BY <1>1 DEF IInv, TypeOK, Word, WordTellsPcs
    <3>2. InRoom = {}
      BY <1>1, <3>1, RoomCount DEF IInv, ReadersCounted
    <3> QED
      BY <2>2, <3>2 DEF InRoom
  <2> QED
    BY <2>1, <2>2
<1> QED
  BY <1>1, Invariance, PTL

\* The panics of write() and of WriteGuard::drop are unreachable.
THEOREM PanicFree == Spec => []NoPanic
<1>1. IInv => NoPanic
  BY DEF IInv
<1> QED
  BY <1>1, Invariance, PTL

\* fetch_sub never borrows and the increment never carries: the reader count of
\* the word is the number of ReadGuards.
THEOREM Counted == Spec => []ReadersCounted
<1>1. IInv => ReadersCounted
  BY DEF IInv
<1> QED
  BY <1>1, Invariance, PTL

\* read() never returns a half-assigned value.
THEOREM WholeReads == Spec => []NoTornRead
<1>1. IInv => NoTornRead
  BY DEF IInv
<1> QED
  BY <1>1, Invariance, PTL
-----------------------------------------------------------------------------
(* Refinement: the lock with its cell is an atomic cell.                   *)

\* The abstract cell: the value being assigned counts as assigned.
AbsCell == IF value = Torn
           THEN arg[CHOOSE t \in Threads : pc[t] = "w_store"]
           ELSE value

\* Every step of the lock is a read of the abstract cell (ReadValue), a write
\* of it (BeginStore), or leaves it and what the threads have read alone.
LEMMA StepSimulates ==
    ASSUME IInv, IInv', [Next]_vars
    PROVE  [Cell!Next]_(Cell!vars)
<1> USE DEF IInv, Goto
<1>1. \A t, u \in Threads : pc[t] = "w_store" /\ pc[u] = "w_store" => t = u
  BY DEF WordTellsPcs, LatchPcs
<1>2. \A t, u \in Threads : pc'[t] = "w_store" /\ pc'[u] = "w_store" => t = u
  BY DEF WordTellsPcs, LatchPcs
<1>3. \A t \in Threads : pc[t] = "w_store" => AbsCell = arg[t]
  BY <1>1 DEF AbsCell, TornTellsPcs
<1>4. \A t \in Threads : pc'[t] = "w_store" => AbsCell' = arg'[t]
  BY <1>2 DEF AbsCell, TornTellsPcs
<1>5. (\A t \in Threads : pc[t] # "w_store") => AbsCell = value
  BY DEF AbsCell, TornTellsPcs
<1>6. (\A t \in Threads : pc'[t] # "w_store") => AbsCell' = value'
  BY DEF AbsCell, TornTellsPcs
<1>7. CASE UNCHANGED vars
  BY <1>7 DEF vars, Cell!vars
<1>8. ASSUME NEW t \in Threads, ReadValue(t)
      PROVE  Cell!Read(t)
  <2>1. value # Torn /\ AbsCell = value
    <3>1. t \in InRoom /\ Cardinality(InRoom) # 0
      BY <1>8, RoomCount DEF ReadValue, InRoom, ReaderPcs
    <3> QED
      BY <3>1 DEF TypeOK, ReadersCounted, WordTellsPcs, TornTellsPcs, WriterPcs, AbsCell
  <2> QED
    BY <1>8, <2>1 DEF ReadValue, Cell!Read, AbsCell
<1>9. ASSUME NEW t \in Threads, BeginStore(t)
      PROVE  Cell!Write(arg[t]) /\ arg[t] \in Values
  <2>1. AbsCell' = arg[t]
    BY <1>9, <1>4 DEF BeginStore, TypeOK
  <2> QED
    BY <1>9, <2>1 DEF BeginStore, Cell!Write, AbsCell, TypeOK
<1>10. ASSUME NEW t \in Threads, EndStore(t)
       PROVE  UNCHANGED Cell!vars
  <2>1. AbsCell = arg[t]
    BY <1>10, <1>3 DEF EndStore
  <2>2. \A u \in Threads : pc'[u] # "w_store"
    BY <1>1, <1>10 DEF EndStore, TypeOK
  <2>3. AbsCell' = arg[t]
    BY <1>6, <1>10, <2>2 DEF EndStore
  <2> QED
    BY <1>10, <2>1, <2>3 DEF EndStore, AbsCell, Cell!vars
<1>11. ASSUME NEW t \in Threads,
              \/ CallRead(t)
              \/ \E v \in Values : CallWrite(t, v)
              \/ Step(t) /\ ~ReadValue(t) /\ ~BeginStore(t) /\ ~EndStore(t)
       PROVE  UNCHANGED Cell!vars
  <2>1. UNCHANGED <<value, got>>
    BY <1>11 DEF CallRead, CallWrite, Step, ReadLoad, ReadCas, DropReadGuard, LatchLoad,
                 LatchCas, LockLoad, LockCas, DropLoad, DropCas
  <2>2. \A u \in Threads : pc'[u] = "w_store" <=> pc[u] = "w_store"
    BY <1>11 DEF CallRead, CallWrite, Step, ReadLoad, ReadCas, DropReadGuard, LatchLoad,
                 LatchCas, LockLoad, LockCas, DropLoad, DropCas, TypeOK
  <2>3. \A u \in Threads : pc[u] = "w_store" => arg'[u] = arg[u]
    BY <1>11 DEF CallRead, CallWrite, Step, ReadLoad, ReadCas, DropReadGuard, LatchLoad,
                 LatchCas, LockLoad, LockCas, DropLoad, DropCas, TypeOK
  <2>4. AbsCell' = AbsCell
    BY <1>3, <1>4, <1>5, <1>6, <2>1, <2>2, <2>3
  <2> QED
    BY <2>1, <2>4 DEF AbsCell, Cell!vars
<1>12. ASSUME NEW t \in Threads,
              \/ CallRead(t)
              \/ \E v \in Values : CallWrite(t, v)
              \/ Step(t)
       PROVE  [Cell!Next]_(Cell!vars)
  <2>1. CASE ReadValue(t)
    BY <1>8, <2>1 DEF Cell!Next
  <2>2. CASE BeginStore(t)
    BY <1>9, <2>2 DEF Cell!Next, Cell!Write
  <2>3. CASE EndStore(t)
    BY <1>10, <2>3
  <2> QED
    <3>1. CASE Step(t) /\ ~ReadValue(t) /\ ~BeginStore(t) /\ ~EndStore(t)
      BY <1>11, <3>1
    <3>2. CASE CallRead(t) \/ \E v \in Values : CallWrite(t, v)
      BY <1>11, <3>2
    <3> QED
      BY <1>12, <2>1, <2>2, <2>3, <3>1, <3>2
<1> QED
  BY <1>7, <1>12 DEF Next

\* ttrie.rs may treat `inner` as a cell that is read and written atomically.
THEOREM Refinement == Spec => ImplementsAtomicCell
<1>1. Init => Cell!Init
  BY NotValues DEF Init, Cell!Init
<1>2. IInv /\ IInv' /\ [Next]_vars => [Cell!Next]_(Cell!vars)
  BY StepSimulates
<1> QED
  BY <1>1, <1>2, Invariance, PTL DEF Spec, ImplementsAtomicCell, Cell!Spec
=============================================================================
