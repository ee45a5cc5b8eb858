-------------------------- MODULE RingBufferProofs --------------------------
(* The ring is correct for every size, batch size and set of items.        *)
EXTENDS RingBuffer, SequenceTheorems, TLAPS

\* A ring just constructed satisfies the inductive invariant.
LEMMA RingInvInit == ZeroRingBuffer => RingInv
<1> SUFFICES ASSUME ZeroRingBuffer PROVE RingInv
  OBVIOUS
<1> USE RingAssumption DEF ZeroRingBuffer, Index
<1>0. regressed \in BOOLEAN
  BY Zenon
<1>1. TypeOK
  BY <1>0 DEF TypeOK
<1>2. CursorOrder /\ WriterKnows /\ ReaderKnows
  BY DEF CursorOrder, WriterKnows, ReaderKnows, Ahead
<1>3. BatchLag
  BY DEF BatchLag, Ahead
<1> QED
  BY <1>1, <1>2, <1>3 DEF RingInv

\* How the distance between two cursors changes when one of them advances.
LEMMA AheadFacts ==
  ASSUME NEW a \in Index, NEW b \in Index
  PROVE  /\ nextVal(a) \in Index
         /\ Ahead(a, b) \in 0 .. RB_SIZE - 1
         /\ Ahead(a, b) = 0 <=> a = b
         /\ nextVal(b) # a => Ahead(a, nextVal(b)) = Ahead(a, b) + 1
         /\ nextVal(b) = a => Ahead(a, b) = RB_SIZE - 1
         /\ a # b => Ahead(nextVal(a), b) = Ahead(a, b) - 1
  BY RingAssumption DEF Ahead, nextVal, Index

\* Every step of either thread preserves the invariant: one step per action, one
\* per conjunct.
LEMMA RingInvStep == RingInv /\ [Next]_vars => RingInv'
<1> SUFFICES ASSUME RingInv, [Next]_vars PROVE RingInv'
  OBVIOUS
<1> USE RingAssumption DEF RingInv, Index
<1>1. ASSUME NEW d \in Items, GetSlot(d) PROVE RingInv'
  <2> USE <1>1 DEF GetSlot, shared, readerVars
  <2>1. TypeOK'
    BY DEF TypeOK, nextVal
  <2>2. CursorOrder'
    BY DEF TypeOK, CursorOrder, WriterKnows, ReaderKnows, Ahead, nextVal
  <2>3. WriterKnows'
    BY DEF TypeOK, CursorOrder, WriterKnows, ReaderKnows, Ahead, nextVal
  <2>4. ReaderKnows'
    BY DEF TypeOK, CursorOrder, WriterKnows, ReaderKnows, Ahead, nextVal
  <2>5. BatchLag'
    BY DEF TypeOK, CursorOrder, WriterKnows, ReaderKnows, BatchLag, Ahead, nextVal
  <2> QED
    BY <2>1, <2>2, <2>3, <2>4, <2>5
<1>2. CASE SpinFull
  <2> USE <1>2 DEF SpinFull, shared, readerVars
  <2>1. TypeOK'
    BY DEF TypeOK, nextVal
  <2>2. CursorOrder'
    BY DEF TypeOK, CursorOrder, WriterKnows, ReaderKnows, Ahead, nextVal
  <2>3. WriterKnows'
    BY DEF TypeOK, CursorOrder, WriterKnows, ReaderKnows, Ahead, nextVal
  <2>4. ReaderKnows'
    BY DEF TypeOK, CursorOrder, WriterKnows, ReaderKnows, Ahead, nextVal
  <2>5. BatchLag'
    BY DEF TypeOK, CursorOrder, WriterKnows, ReaderKnows, BatchLag, Ahead, nextVal
  <2> QED
    BY <2>1, <2>2, <2>3, <2>4, <2>5
<1>3. CASE ReloadRead
  <2> USE <1>3 DEF ReloadRead, shared, readerVars
  <2>1. TypeOK'
    BY DEF TypeOK, nextVal
  <2>2. CursorOrder'
    BY DEF TypeOK, CursorOrder, WriterKnows, ReaderKnows, Ahead, nextVal
  <2>3. WriterKnows'
    BY DEF TypeOK, CursorOrder, WriterKnows, ReaderKnows, Ahead, nextVal
  <2>4. ReaderKnows'
    BY DEF TypeOK, CursorOrder, WriterKnows, ReaderKnows, Ahead, nextVal
  <2>5. BatchLag'
    BY DEF TypeOK, CursorOrder, WriterKnows, ReaderKnows, BatchLag, Ahead, nextVal
  <2> QED
    BY <2>1, <2>2, <2>3, <2>4, <2>5
<1>4. CASE Store
  <2> USE <1>4 DEF Store, shared, readerVars
  <2>1. TypeOK'
    BY DEF TypeOK, nextVal
  <2>2. CursorOrder'
    BY DEF TypeOK, CursorOrder, WriterKnows, ReaderKnows, Ahead, nextVal
  <2>3. WriterKnows'
    BY DEF TypeOK, CursorOrder, WriterKnows, ReaderKnows, Ahead, nextVal
  <2>4. ReaderKnows'
    BY DEF TypeOK, CursorOrder, WriterKnows, ReaderKnows, Ahead, nextVal
  <2>5. BatchLag'
    BY DEF TypeOK, CursorOrder, WriterKnows, ReaderKnows, BatchLag, Ahead, nextVal
  <2> QED
    BY <2>1, <2>2, <2>3, <2>4, <2>5
<1>5. CASE CompleteWrite
  <2> USE <1>5 DEF CompleteWrite, shared, readerVars
  <2>1. TypeOK'
    BY DEF TypeOK, nextVal
  <2>2. CursorOrder'
    BY SMTT(60) DEF TypeOK, CursorOrder, WriterKnows, ReaderKnows, Ahead, nextVal
  <2>3. WriterKnows'
    BY DEF TypeOK, CursorOrder, WriterKnows, ReaderKnows, Ahead, nextVal
  <2>4. ReaderKnows'
    BY DEF TypeOK, CursorOrder, WriterKnows, ReaderKnows, Ahead, nextVal
  <2>5. BatchLag'
    BY DEF TypeOK, CursorOrder, WriterKnows, ReaderKnows, BatchLag, Ahead, nextVal
  <2> QED
    BY <2>1, <2>2, <2>3, <2>4, <2>5
<1>6. CASE Flush
  <2> USE <1>6 DEF Flush, shared, readerVars
  <2>1. TypeOK'
    BY DEF TypeOK, nextVal
  <2>2. CursorOrder'
    BY DEF TypeOK, CursorOrder, WriterKnows, ReaderKnows, Ahead, nextVal
  <2>3. WriterKnows'
    BY DEF TypeOK, CursorOrder, WriterKnows, ReaderKnows, Ahead, nextVal
  <2>4. ReaderKnows'
    BY DEF TypeOK, CursorOrder, WriterKnows, ReaderKnows, Ahead, nextVal
  <2>5. BatchLag'
    BY DEF TypeOK, CursorOrder, WriterKnows, ReaderKnows, BatchLag, Ahead, nextVal
  <2> QED
    BY <2>1, <2>2, <2>3, <2>4, <2>5
<1>7. CASE FlushLoad
  <2> USE <1>7 DEF FlushLoad, shared, readerVars
  <2>1. TypeOK'
    BY DEF TypeOK, nextVal
  <2>2. CursorOrder'
    BY DEF TypeOK, CursorOrder, WriterKnows, ReaderKnows, Ahead, nextVal
  <2>3. WriterKnows'
    BY DEF TypeOK, CursorOrder, WriterKnows, ReaderKnows, Ahead, nextVal
  <2>4. ReaderKnows'
    BY DEF TypeOK, CursorOrder, WriterKnows, ReaderKnows, Ahead, nextVal
  <2>5. BatchLag'
    BY DEF TypeOK, CursorOrder, WriterKnows, ReaderKnows, BatchLag, Ahead, nextVal
  <2> QED
    BY <2>1, <2>2, <2>3, <2>4, <2>5
<1>8. CASE FlushStore
  <2> USE <1>8 DEF FlushStore, shared, readerVars
  <2>1. TypeOK'
    BY DEF TypeOK, nextVal
  <2>2. CursorOrder'
    BY DEF TypeOK, CursorOrder, WriterKnows, ReaderKnows, Ahead, nextVal
  <2>3. WriterKnows'
    BY DEF TypeOK, CursorOrder, WriterKnows, ReaderKnows, Ahead, nextVal
  <2>4. ReaderKnows'
    BY DEF TypeOK, CursorOrder, WriterKnows, ReaderKnows, Ahead, nextVal
  <2>5. BatchLag'
    <3>1. ~regressed' => ~regressed /\ ~(Ahead(readIndex, nextReadIndex)
                                            < Ahead(flushed, nextReadIndex))
      BY Zenon
    <3>2. Ahead(readIndex, nextReadIndex) \in Int /\ Ahead(flushed, nextReadIndex) \in Int
      BY DEF TypeOK, Ahead
    <3>3. rBatchCount \in Int /\ (~regressed => Ahead(readIndex, nextReadIndex) <= rBatchCount)
      BY DEF TypeOK, BatchLag
    <3>4. ~regressed' => Ahead(flushed, nextReadIndex) <= rBatchCount
      BY <3>1, <3>2, <3>3
    <3>5. (Ahead(writeIndex, nextWriteIndex) <= wBatchCount)'
      BY DEF BatchLag, Ahead
    <3>6. Ahead(readIndex, nextReadIndex)' = Ahead(flushed, nextReadIndex)
      BY DEF Ahead
    <3> QED
      BY <3>4, <3>5, <3>6 DEF BatchLag
  <2> QED
    BY <2>1, <2>2, <2>3, <2>4, <2>5
<1>9. CASE Extract
  <2> USE <1>9 DEF Extract, shared, writerVars
  <2>1. TypeOK'
    BY DEF TypeOK, nextVal
  <2>2. CursorOrder'
    BY DEF TypeOK, CursorOrder, WriterKnows, ReaderKnows, Ahead, nextVal
  <2>3. WriterKnows'
    BY DEF TypeOK, CursorOrder, WriterKnows, ReaderKnows, Ahead, nextVal
  <2>4. ReaderKnows'
    BY DEF TypeOK, CursorOrder, WriterKnows, ReaderKnows, Ahead, nextVal
  <2>5. BatchLag'
    BY DEF TypeOK, CursorOrder, WriterKnows, ReaderKnows, BatchLag, Ahead, nextVal
  <2> QED
    BY <2>1, <2>2, <2>3, <2>4, <2>5
<1>10. CASE ReloadWrite
  <2> USE <1>10 DEF ReloadWrite, shared, writerVars
  <2>1. TypeOK'
    BY DEF TypeOK, nextVal
  <2>2. CursorOrder'
    BY DEF TypeOK, CursorOrder, WriterKnows, ReaderKnows, Ahead, nextVal
  <2>3. WriterKnows'
    BY DEF TypeOK, CursorOrder, WriterKnows, ReaderKnows, Ahead, nextVal
  <2>4. ReaderKnows'
    BY DEF TypeOK, CursorOrder, WriterKnows, ReaderKnows, Ahead, nextVal
  <2>5. BatchLag'
    BY DEF TypeOK, CursorOrder, WriterKnows, ReaderKnows, BatchLag, Ahead, nextVal
  <2> QED
    BY <2>1, <2>2, <2>3, <2>4, <2>5
<1>11. CASE Copy
  <2> USE <1>11 DEF Copy, shared, writerVars
  <2>1. TypeOK'
    BY DEF TypeOK, nextVal
  <2>2. CursorOrder'
    BY DEF TypeOK, CursorOrder, WriterKnows, ReaderKnows, Ahead, nextVal
  <2>3. WriterKnows'
    BY DEF TypeOK, CursorOrder, WriterKnows, ReaderKnows, Ahead, nextVal
  <2>4. ReaderKnows'
    BY DEF TypeOK, CursorOrder, WriterKnows, ReaderKnows, Ahead, nextVal
  <2>5. BatchLag'
    BY DEF TypeOK, CursorOrder, WriterKnows, ReaderKnows, BatchLag, Ahead, nextVal
  <2> QED
    BY <2>1, <2>2, <2>3, <2>4, <2>5
<1>12. CASE Ack
  <2> USE <1>12 DEF Ack, shared, writerVars
  <2>0. regressed' \in BOOLEAN
    BY Zenon DEF TypeOK
  <2>1. TypeOK'
    BY <2>0 DEF TypeOK, nextVal
  <2>2. CursorOrder'
    <3>1. nextReadIndex # localWriteIndex
      BY DEF ReaderKnows
    <3>2. Ahead(nextReadIndex, localWriteIndex)' = Ahead(nextReadIndex, localWriteIndex) - 1
      BY <3>1 DEF TypeOK, Ahead, nextVal
    <3>3. CASE readIndex' = readIndex
      BY <3>2, <3>3 DEF TypeOK, CursorOrder, Ahead, nextVal
    <3>4. CASE readIndex' = nextVal(nextReadIndex)
      BY <3>1, <3>2, <3>4 DEF TypeOK, CursorOrder, Ahead, nextVal
    <3> QED
      BY <3>3, <3>4
  <2>3. WriterKnows'
    BY DEF TypeOK, CursorOrder, WriterKnows, ReaderKnows, Ahead, nextVal
  <2>4. ReaderKnows'
    BY DEF TypeOK, CursorOrder, WriterKnows, ReaderKnows, Ahead, nextVal
  <2>5. BatchLag'
    BY DEF TypeOK, CursorOrder, WriterKnows, ReaderKnows, BatchLag, Ahead, nextVal
  <2> QED
    BY <2>1, <2>2, <2>3, <2>4, <2>5
<1>13. CASE UNCHANGED vars
  BY <1>13 DEF TypeOK, CursorOrder, WriterKnows, ReaderKnows, BatchLag,
     Ahead, nextVal, vars, shared, writerVars, readerVars
<1> QED
  BY <1>1, <1>2, <1>3, <1>4, <1>5, <1>6, <1>7, <1>8, <1>9, <1>10, <1>11, <1>12, <1>13
     DEF Next, Insert, WriterStep, ReaderStep

\* Every reachable state of the ring satisfies the inductive invariant.
THEOREM RingCorrect == Spec => []RingInv
<1> QED
  BY RingInvInit, RingInvStep, PTL DEF Spec

\* The cursors index the buffer and the batch counts stay below RB_BATCH.
THEOREM RingTypeOK == Spec => []TypeOK
<1>1. RingInv => TypeOK
  BY DEF RingInv
<1> QED
  BY <1>1, RingCorrect, PTL

\* Stale copies of a cursor only lag: the six cursors keep their order round
\* the ring (Insert, Ack, Flush).
THEOREM RingCursorOrder == Spec => []CursorOrder
<1>1. RingInv => CursorOrder
  BY DEF RingInv
<1> QED
  BY <1>1, RingCorrect, PTL

\* The writer never stores into the slot that Extract has returned and Ack has
\* not given back.
THEOREM RingNoSlotConflict == Spec => []NoSlotConflict
<1>1. RingInv => NoSlotConflict
  BY RingAssumption DEF RingInv, TypeOK, CursorOrder, WriterKnows, ReaderKnows,
     NoSlotConflict, Ahead, nextVal, Index
<1> QED
  BY <1>1, RingCorrect, PTL

\* The slot that Ack has just given back is not overwritten before the next one
\* has been given back too: the free slot of the ring protects it.
THEOREM RingAckedSlotIntact == Spec => []AckedSlotIntact
<1>1. RingInv => AckedSlotIntact
  BY RingAssumption DEF RingInv, TypeOK, CursorOrder, WriterKnows, AckedSlotIntact,
     Ahead, nextVal, Index
<1> QED
  BY <1>1, RingCorrect, PTL

\* A ring with room for two batches never has its writer wait on a reader that
\* sees nothing to read, while no Flush has moved readIndex backwards.
THEOREM RingNoMutualBlock == Spec => []NoMutualBlock
<1>1. RingInv => NoMutualBlock
  BY RingAssumption DEF RingInv, TypeOK, CursorOrder, WriterKnows, BatchLag,
     NoMutualBlock, WriterBlocked, ReaderStarved, Ahead, nextVal, Index
<1> QED
  BY <1>1, RingCorrect, PTL
-----------------------------------------------------------------------------
(* The ring implements the bounded FIFO queue.                             *)

\* Where Slot lands, and that a slot inside the window is not the writer's.
LEMMA SlotFacts ==
  ASSUME NEW a \in Index, NEW b \in Index
  PROVE  /\ \A k \in 0 .. RB_SIZE - 1 : Slot(a, k) \in Index
         /\ Slot(a, 0) = a
         /\ Slot(a, Ahead(a, b)) = b
         /\ \A k \in 0 .. RB_SIZE - 1 : k < Ahead(a, b) => Slot(a, k) # b
         /\ \A k \in 0 .. RB_SIZE - 2 : Slot(nextVal(a), k) = Slot(a, k + 1)
  BY RingAssumption DEF Ahead, Slot, nextVal, Index

\* The window is a sequence of items, an item the reader has copied lies before
\* it, and the writer's private copy of the read cursor is no further back than
\* the ring is long.
Window ==
  /\ ReadFrom \in Index
  /\ Ahead(ReadFrom, nextWriteIndex) \in 0 .. RB_SIZE - 1
  /\ Contents \in Seq(Items \cup {NoItem})
  /\ Len(Contents) = Ahead(ReadFrom, nextWriteIndex)
  /\ \A k \in 1 .. Ahead(ReadFrom, nextWriteIndex) :
        Contents[k] = buffer[Slot(ReadFrom, k - 1)]
  /\ Ahead(localReadIndex, ReadFrom) + Ahead(ReadFrom, nextWriteIndex) <= RB_SIZE - 1

\* The invariant keeps the window well formed.
LEMMA WindowFacts == RingInv => Window
<1> SUFFICES ASSUME RingInv PROVE Window
  OBVIOUS
<1> USE RingAssumption
<1>1. ReadFrom \in Index
  BY AheadFacts DEF RingInv, TypeOK, ReadFrom
<1>2. Ahead(ReadFrom, nextWriteIndex) \in 0 .. RB_SIZE - 1
  BY <1>1, AheadFacts DEF RingInv, TypeOK
<1>3. \A k \in 1 .. Ahead(ReadFrom, nextWriteIndex) :
         buffer[Slot(ReadFrom, k - 1)] \in Items \cup {NoItem}
  BY <1>1, <1>2, SlotFacts DEF RingInv, TypeOK
<1>4. Contents \in Seq(Items \cup {NoItem}) /\ Len(Contents) = Ahead(ReadFrom, nextWriteIndex)
  BY SMTT(60), <1>2, <1>3, IsASeq, LenProperties DEF Contents
<1>5. Ahead(localReadIndex, ReadFrom) + Ahead(ReadFrom, nextWriteIndex) <= RB_SIZE - 1
  BY DEF RingInv, TypeOK, CursorOrder, ReaderKnows, ReadFrom, Ahead, nextVal, Index
<1> QED
  BY <1>1, <1>2, <1>4, <1>5 DEF Contents, Window

\* What the invariant says of the two private cursors: the reader that has an
\* item is behind the writer, and the writer that has a slot leaves one free.
LEMMA CursorFacts ==
  RingInv => /\ nextReadIndex \in Index /\ nextWriteIndex \in Index
             /\ rpc = "have" => nextReadIndex # nextWriteIndex
             /\ wpc = "complete" => nextVal(nextWriteIndex) # ReadFrom
  BY RingAssumption DEF RingInv, TypeOK, CursorOrder, WriterKnows, ReaderKnows,
     ReadFrom, Ahead, nextVal, Index

\* Every step of the ring is a step of the queue or leaves it as it was: Copy
\* takes the head, CompleteWrite appends, nothing else shows.
LEMMA FIFOStep == RingInv /\ RingInv' /\ [Next]_vars => [FIFO!Next]_(FIFO!vars)
<1> SUFFICES ASSUME RingInv, RingInv', [Next]_vars PROVE [FIFO!Next]_(FIFO!vars)
  OBVIOUS
<1> USE RingAssumption
<1>w. Window
  BY WindowFacts
<1>p. Window'
  BY WindowFacts, PTL
<1>same. ASSUME UNCHANGED <<buffer, nextWriteIndex, got, ReadFrom>>
         PROVE  UNCHANGED FIFO!vars
  BY <1>same DEF FIFO!vars, Contents, Ahead, Slot
<1>1. CASE Insert \/ SpinFull \/ ReloadRead \/ Flush \/ FlushLoad \/ FlushStore
  <2>1. UNCHANGED <<buffer, nextWriteIndex, nextReadIndex, rpc, got>>
    BY <1>1 DEF Insert, GetSlot, SpinFull, ReloadRead, Flush, FlushLoad, FlushStore, readerVars
  <2> QED
    BY <1>same, <2>1 DEF ReadFrom, nextVal
<1>2. CASE Extract \/ ReloadWrite \/ Ack
  <2>1. UNCHANGED <<buffer, nextWriteIndex, got>> /\ ReadFrom' = ReadFrom
    BY <1>2 DEF Extract, ReloadWrite, Ack, writerVars, ReadFrom
  <2> QED
    BY <1>same, <2>1
<1>3. CASE Store
  <2>1. UNCHANGED <<nextWriteIndex, got>> /\ ReadFrom' = ReadFrom
    BY <1>3 DEF Store, readerVars, ReadFrom, nextVal
  <2>2. \A k \in 1 .. Ahead(ReadFrom, nextWriteIndex) :
           /\ Slot(ReadFrom, k - 1) \in Index
           /\ Slot(ReadFrom, k - 1) # nextWriteIndex
    <3> SUFFICES ASSUME NEW k \in 1 .. Ahead(ReadFrom, nextWriteIndex)
                 PROVE  /\ Slot(ReadFrom, k - 1) \in Index
                        /\ Slot(ReadFrom, k - 1) # nextWriteIndex
      OBVIOUS
    <3>1. k - 1 \in 0 .. RB_SIZE - 1 /\ k - 1 < Ahead(ReadFrom, nextWriteIndex)
      BY <1>w DEF Window
    <3> QED
      BY <1>w, <3>1, CursorFacts, SlotFacts DEF Window
  <2>3. \A k \in 1 .. Ahead(ReadFrom, nextWriteIndex) :
           buffer'[Slot(ReadFrom, k - 1)] = buffer[Slot(ReadFrom, k - 1)]
    BY <1>3, <2>2 DEF Store, RingInv, TypeOK
  <2>4. Contents' = Contents
    BY <2>1, <2>3 DEF Contents, Ahead, Slot
  <2> QED
    BY <2>1, <2>4 DEF FIFO!vars
<1>4. CASE CompleteWrite
  <2> DEFINE n == Ahead(ReadFrom, nextWriteIndex)
  <2>1. UNCHANGED <<buffer, got>> /\ ReadFrom' = ReadFrom /\ item \in Items
    BY <1>4 DEF CompleteWrite, readerVars, ReadFrom, nextVal, RingInv, WriterKnows
  <2>2. nextWriteIndex' = nextVal(nextWriteIndex) /\ buffer[nextWriteIndex] = item
    BY <1>4 DEF CompleteWrite, RingInv, WriterKnows
  <2>3. nextVal(nextWriteIndex) # ReadFrom /\ n < RB_SIZE - 1
    BY <1>w, <1>4, CursorFacts DEF CompleteWrite, Window, Ahead, nextVal, Index
  <2>4. Ahead(ReadFrom, nextWriteIndex)' = n + 1
    <3>1. Ahead(ReadFrom, nextWriteIndex)' = Ahead(ReadFrom, nextVal(nextWriteIndex))
      BY <2>1, <2>2 DEF Ahead
    <3> QED
      BY <1>w, <2>3, <3>1, CursorFacts, AheadFacts DEF Window
  <2>5. \A k \in 1 .. n : Contents'[k] = Contents[k]
    BY SMTT(60), <1>w, <1>p, <2>1, <2>4 DEF Window, Slot
  <2>6. Contents'[n + 1] = item
    <3>1. Slot(ReadFrom, n) = nextWriteIndex
      BY <1>w, SlotFacts DEF Window, RingInv, TypeOK
    <3> QED
      BY <1>w, <1>p, <2>1, <2>2, <2>4, <3>1 DEF Window, Slot
  <2> HIDE DEF n
  <2>7. Contents' = Append(Contents, item)
    <3>1. Len(Contents) = n /\ Contents \in Seq(Items \cup {NoItem}) /\ n \in Nat
      BY <1>w DEF Window, n
    <3>2. Len(Contents') = n + 1 /\ Contents' \in Seq(Items \cup {NoItem})
      BY <1>p, <2>4 DEF Window
    <3>3. /\ Append(Contents, item) \in Seq(Items \cup {NoItem})
          /\ Len(Append(Contents, item)) = n + 1
          /\ Append(Contents, item)[n + 1] = item
          /\ \A k \in 1 .. n : Append(Contents, item)[k] = Contents[k]
      BY <3>1, <2>1, AppendProperties
    <3>4. \A k \in 1 .. n + 1 : Contents'[k] = Append(Contents, item)[k]
      BY <3>1, <3>3, <2>5, <2>6
    <3> QED
      BY <3>2, <3>3, <3>4, SeqEqual
  <2>8. Len(Contents) < RB_SIZE - 1
    BY <1>w, <2>3 DEF Window, n
  <2> QED
    BY <2>1, <2>7, <2>8 DEF FIFO!Next, FIFO!Put
<1>5. CASE Copy
  <2> DEFINE n == Ahead(ReadFrom, nextWriteIndex)
  <2>1. UNCHANGED <<buffer, nextWriteIndex>> /\ ReadFrom = nextReadIndex
        /\ ReadFrom' = nextVal(nextReadIndex) /\ got' = buffer[nextReadIndex]
    BY <1>5 DEF Copy, writerVars, ReadFrom, nextVal
  <2>2. nextReadIndex # nextWriteIndex
    BY <1>5, CursorFacts DEF Copy
  <2>3. n >= 1 /\ n <= RB_SIZE - 1 /\ Ahead(ReadFrom, nextWriteIndex)' = n - 1
    <3>1. Ahead(ReadFrom, nextWriteIndex)' = Ahead(nextVal(nextReadIndex), nextWriteIndex)
      BY <2>1 DEF Ahead
    <3>2. n \in 0 .. RB_SIZE - 1 /\ n # 0
      BY <2>1, <2>2, CursorFacts, AheadFacts
    <3>3. Ahead(nextVal(nextReadIndex), nextWriteIndex) = n - 1
      BY <2>1, <2>2, CursorFacts, AheadFacts
    <3> QED
      BY <3>1, <3>2, <3>3
  <2>4. \A k \in 1 .. n - 1 : Slot(nextVal(nextReadIndex), k - 1) = Slot(nextReadIndex, k)
    <3>1. \A k \in 1 .. n - 1 : k - 1 \in 0 .. RB_SIZE - 2 /\ (k - 1) + 1 = k
      <4> HIDE DEF n
      <4>1. n \in Int
        BY <1>w DEF Window, n
      <4> QED
        BY <2>3, <4>1
    <3> QED
      BY <3>1, CursorFacts, SlotFacts
  <2>5. \A k \in 1 .. n - 1 : Contents'[k] = buffer[Slot(nextReadIndex, k)]
    BY <1>p, <2>1, <2>3, <2>4 DEF Window, Slot
  <2>6. \A k \in 1 .. n - 1 : Contents[k + 1] = buffer[Slot(nextReadIndex, k)]
    BY SMTT(60), <1>w, <2>1, <2>3 DEF Window
  <2>7. Contents[1] = got'
    <3>1. Contents[1] = buffer[Slot(nextReadIndex, 0)]
      BY <1>w, <2>1, <2>3 DEF Window
    <3> QED
      BY <2>1, <3>1, CursorFacts, SlotFacts
  <2> HIDE DEF n
  <2>8. Contents # <<>> /\ Contents' = Tail(Contents) /\ got' = Head(Contents)
    <3>1. Len(Contents) = n /\ Contents \in Seq(Items \cup {NoItem}) /\ n \in Nat /\ n >= 1
      BY <1>w, <2>3 DEF Window, n
    <3>2. Len(Contents') = n - 1 /\ Contents' \in Seq(Items \cup {NoItem})
      BY <1>p, <2>3 DEF Window
    <3>3. Contents # <<>>
      BY <3>1, EmptySeq
    <3>4. Contents' = Tail(Contents)
      BY <3>1, <3>2, <3>3, <2>5, <2>6, HeadTailProperties, SeqEqual
    <3> QED
      BY <3>1, <3>3, <3>4, <2>7
  <2> QED
    BY <2>8 DEF FIFO!Next, FIFO!Get
<1>6. CASE UNCHANGED vars
  <2>1. UNCHANGED <<buffer, nextWriteIndex, nextReadIndex, rpc, got>>
    BY <1>6 DEF vars, readerVars, writerVars
  <2> QED
    BY <1>same, <2>1 DEF ReadFrom, nextVal
<1> QED
  BY <1>1, <1>2, <1>3, <1>4, <1>5, <1>6 DEF Next, WriterStep, ReaderStep

\* Insert, Extract and Ack implement a FIFO queue of RB_SIZE - 1 items, for
\* every size and batch size and with Flush at any point between two inserts.
THEOREM RingImplementsFIFO == Spec => ImplementsFIFO
<1>1. ZeroRingBuffer => FIFO!Init
  BY RingAssumption DEF ZeroRingBuffer, FIFO!Init, Contents, ReadFrom, Ahead
<1> QED
  BY <1>1, FIFOStep, RingCorrect, PTL DEF Spec, ImplementsFIFO, FIFO!Spec
=============================================================================
