----------------------------- MODULE RingBuffer -----------------------------
(***************************************************************************)
(* ZeroRingBuffer (src/queues/zerocopy_ringbuffer.hpp): the single-reader, *)
(* single-writer ring that joins the up thread to a compute thread         *)
(* (in_queue_) and the down thread to a compute thread (r_in_queue_).      *)
(*                                                                         *)
(* Both threads keep private cursors and publish them in batches: the      *)
(* writer stores writeIndex, the reader stores readIndex, every RB_BATCH   *)
(* operations.  Each thread works on a stale copy of the other's cursor    *)
(* (localReadIndex, localWriteIndex) and reloads it only when the copy     *)
(* says "full" or "empty".  Flush, called by the writer, publishes BOTH    *)
(* cursors, the reader's included.                                         *)
(*                                                                         *)
(* A step of the model makes at most one access to a variable that the     *)
(* other thread writes; wpc and rpc say where in the code a thread is.     *)
(* Stores become visible in program order (x86).                           *)
(***************************************************************************)
EXTENDS Integers, Sequences

CONSTANTS RB_SIZE,   \* slots of the buffer (`max'); one is always left free
          RB_BATCH,  \* operations between two publications of a cursor
          Items,     \* what the writer inserts
          NoItem     \* the zeroed slot

ASSUME RingAssumption ==
  /\ RB_SIZE \in Nat /\ RB_SIZE >= 2
  /\ RB_BATCH \in Nat /\ RB_BATCH >= 1
  /\ NoItem \notin Items

VARIABLES
  readIndex, writeIndex,                            \* shared
  localWriteIndex, nextReadIndex, rBatchCount,      \* the reader's
  localReadIndex, nextWriteIndex, afterNextWriteIndex, wBatchCount, \* the writer's
  buffer,
  wpc, item, flushed,   \* writer: position, argument of Insert, Flush's load
  rpc, got,             \* reader: position, item copied last
  regressed             \* history: a Flush has moved readIndex backwards and
                        \* the reader has not published since

shared == <<readIndex, writeIndex>>
readerVars == <<localWriteIndex, nextReadIndex, rBatchCount, rpc, got>>
writerVars == <<localReadIndex, nextWriteIndex, afterNextWriteIndex,
                wBatchCount, wpc, item, flushed>>
vars == <<shared, readerVars, writerVars, buffer, regressed>>

Index == 0 .. RB_SIZE - 1

\* Mutant: compares with > where the code has >=.
nextVal_OffByOne(x) == IF x + 1 > RB_SIZE THEN 0 ELSE x + 1

nextVal(x) == IF x + 1 >= RB_SIZE THEN 0 ELSE x + 1

\* Slots from cursor a forward to cursor b.
Ahead(a, b) == IF b >= a THEN b - a ELSE b - a + RB_SIZE

\* The slot k places forward of a.
Slot(a, k) == IF a + k >= RB_SIZE THEN a + k - RB_SIZE ELSE a + k

ZeroRingBuffer ==
  /\ readIndex = 0 /\ writeIndex = 0
  /\ localWriteIndex = 0 /\ nextReadIndex = 0 /\ rBatchCount = 0
  /\ localReadIndex = 0 /\ nextWriteIndex = 0 /\ wBatchCount = 0
  /\ afterNextWriteIndex \in Index        \* not initialised by the constructor
  /\ buffer = [i \in Index |-> NoItem]
  /\ wpc = "idle" /\ item = NoItem /\ flushed = 0
  /\ rpc = "idle" /\ got = NoItem
  /\ regressed = FALSE
-----------------------------------------------------------------------------
(* The writer.  Insert is GetSlot, a store into the slot, CompleteWrite.   *)

\* Compute the cursor after the write; look at the private copy first.
GetSlot(d) ==
  /\ wpc = "idle"
  /\ item' = d
  /\ afterNextWriteIndex' = nextVal(nextWriteIndex)
  /\ wpc' = IF nextVal(nextWriteIndex) = localReadIndex THEN "full" ELSE "store"
  /\ UNCHANGED <<shared, readerVars, localReadIndex, nextWriteIndex,
                 wBatchCount, flushed, buffer, regressed>>

\* while (afterNextWriteIndex == readIndex) {}
SpinFull ==
  /\ wpc = "full"
  /\ afterNextWriteIndex # readIndex
  /\ wpc' = "reload"
  /\ UNCHANGED <<shared, readerVars, localReadIndex, nextWriteIndex,
                 afterNextWriteIndex, wBatchCount, item, flushed, buffer, regressed>>

\* localReadIndex = readIndex: a second load, after the loop.
ReloadRead ==
  /\ wpc = "reload"
  /\ localReadIndex' = readIndex
  /\ wpc' = "store"
  /\ UNCHANGED <<shared, readerVars, nextWriteIndex, afterNextWriteIndex,
                 wBatchCount, item, flushed, buffer, regressed>>

Store ==
  /\ wpc = "store"
  /\ buffer' = [buffer EXCEPT ![nextWriteIndex] = item]
  /\ wpc' = "complete"
  /\ UNCHANGED <<shared, readerVars, localReadIndex, nextWriteIndex,
                 afterNextWriteIndex, wBatchCount, item, flushed, regressed>>

\* Mutant: the batch is published one slot too far.
CompleteWrite_PublishAhead ==
  /\ wpc = "complete"
  /\ nextWriteIndex' = afterNextWriteIndex
  /\ IF wBatchCount + 1 >= RB_BATCH
       THEN writeIndex' = nextVal(afterNextWriteIndex) /\ wBatchCount' = 0
       ELSE wBatchCount' = wBatchCount + 1 /\ UNCHANGED writeIndex
  /\ wpc' = "idle"
  /\ UNCHANGED <<readIndex, readerVars, localReadIndex, afterNextWriteIndex,
                 item, flushed, buffer, regressed>>

CompleteWrite ==
  /\ wpc = "complete"
  /\ nextWriteIndex' = afterNextWriteIndex
  /\ IF wBatchCount + 1 >= RB_BATCH
       THEN writeIndex' = afterNextWriteIndex /\ wBatchCount' = 0
       ELSE wBatchCount' = wBatchCount + 1 /\ UNCHANGED writeIndex
  /\ wpc' = "idle"
  /\ UNCHANGED <<readIndex, readerVars, localReadIndex, afterNextWriteIndex,
                 item, flushed, buffer, regressed>>

\* Mutant: Flush forgets the writer's own cursor.
Flush_NoPublish ==
  /\ wpc = "idle"
  /\ wpc' = "flushLoad"
  /\ UNCHANGED <<shared, readerVars, localReadIndex, nextWriteIndex,
                 afterNextWriteIndex, wBatchCount, item, flushed, buffer, regressed>>

\* Flush by the writer: publish its own cursor, then load the reader's private
\* cursor and publish that too.  Neither batch count is reset.
Flush ==
  /\ wpc = "idle"
  /\ writeIndex' = nextWriteIndex
  /\ wpc' = "flushLoad"
  /\ UNCHANGED <<readIndex, readerVars, localReadIndex, nextWriteIndex,
                 afterNextWriteIndex, wBatchCount, item, flushed, buffer, regressed>>

FlushLoad ==
  /\ wpc = "flushLoad"
  /\ flushed' = nextReadIndex
  /\ wpc' = "flushStore"
  /\ UNCHANGED <<shared, readerVars, localReadIndex, nextWriteIndex,
                 afterNextWriteIndex, wBatchCount, item, buffer, regressed>>

FlushStore ==
  /\ wpc = "flushStore"
  /\ readIndex' = flushed
  /\ regressed' = (regressed \/ Ahead(readIndex, nextReadIndex)
                                  < Ahead(flushed, nextReadIndex))
  /\ wpc' = "idle"
  /\ UNCHANGED <<writeIndex, readerVars, localReadIndex, nextWriteIndex,
                 afterNextWriteIndex, wBatchCount, item, flushed, buffer>>
-----------------------------------------------------------------------------
(* The reader.                                                             *)

\* Extract; returning NULL changes nothing and is a stuttering step.
Extract ==
  /\ rpc = "idle"
  /\ \/ nextReadIndex # localWriteIndex /\ rpc' = "have"
     \/ nextReadIndex = localWriteIndex /\ nextReadIndex # writeIndex /\ rpc' = "reload"
  /\ UNCHANGED <<shared, localWriteIndex, nextReadIndex, rBatchCount, got,
                 writerVars, buffer, regressed>>

\* localWriteIndex = writeIndex: a second load, after the test.
ReloadWrite ==
  /\ rpc = "reload"
  /\ localWriteIndex' = writeIndex
  /\ rpc' = "have"
  /\ UNCHANGED <<shared, nextReadIndex, rBatchCount, got, writerVars, buffer, regressed>>

\* The thread uses the slot Extract returned.
Copy ==
  /\ rpc = "have"
  /\ got' = buffer[nextReadIndex]
  /\ rpc' = "copied"
  /\ UNCHANGED <<shared, localWriteIndex, nextReadIndex, rBatchCount,
                 writerVars, buffer, regressed>>

\* Mutant: the reader publishes one operation late.
Ack_LatePublish ==
  /\ rpc = "copied"
  /\ nextReadIndex' = nextVal(nextReadIndex)
  /\ IF rBatchCount + 1 > RB_BATCH
       THEN /\ readIndex' = nextVal(nextReadIndex)
            /\ rBatchCount' = 0
            /\ regressed' = FALSE
       ELSE rBatchCount' = rBatchCount + 1 /\ UNCHANGED <<readIndex, regressed>>
  /\ rpc' = "idle"
  /\ UNCHANGED <<writeIndex, localWriteIndex, got, writerVars, buffer>>

Ack ==
  /\ rpc = "copied"
  /\ nextReadIndex' = nextVal(nextReadIndex)
  /\ IF rBatchCount + 1 >= RB_BATCH
       THEN /\ readIndex' = nextVal(nextReadIndex)
            /\ rBatchCount' = 0
            /\ regressed' = FALSE
       ELSE rBatchCount' = rBatchCount + 1 /\ UNCHANGED <<readIndex, regressed>>
  /\ rpc' = "idle"
  /\ UNCHANGED <<writeIndex, localWriteIndex, got, writerVars, buffer>>
-----------------------------------------------------------------------------
Insert == \E d \in Items : GetSlot(d)

WriterStep == SpinFull \/ ReloadRead \/ Store \/ CompleteWrite \/ FlushLoad \/ FlushStore

ReaderStep == Extract \/ ReloadWrite \/ Copy \/ Ack

Next == Insert \/ Flush \/ WriterStep \/ ReaderStep

Spec == ZeroRingBuffer /\ [][Next]_vars

\* Both threads keep running; the reader polls the ring for ever.  Nothing
\* obliges the writer to insert or to flush.
FairSpec == Spec /\ WF_vars(WriterStep) /\ WF_vars(ReaderStep)
-----------------------------------------------------------------------------
(* Properties.                                                             *)

\* Every cursor indexes the buffer and the batch counts stay below RB_BATCH
\* (nextVal wraps, Insert and Ack reset the counts).
TypeOK ==
  /\ readIndex \in Index /\ writeIndex \in Index
  /\ localWriteIndex \in Index /\ nextReadIndex \in Index
  /\ localReadIndex \in Index /\ nextWriteIndex \in Index
  /\ afterNextWriteIndex \in Index /\ flushed \in Index
  /\ rBatchCount \in 0 .. RB_BATCH - 1 /\ wBatchCount \in 0 .. RB_BATCH - 1
  /\ buffer \in [Index -> Items \cup {NoItem}]
  /\ item \in Items \cup {NoItem} /\ got \in Items \cup {NoItem}
  /\ wpc \in {"idle", "full", "reload", "store", "complete", "flushLoad", "flushStore"}
  /\ rpc \in {"idle", "reload", "have", "copied"}
  /\ regressed \in BOOLEAN

\* Stale copies only lag: going once round the ring the cursors come in the
\* order localReadIndex, readIndex, nextReadIndex, localWriteIndex, writeIndex,
\* nextWriteIndex, whatever batches are unpublished and even when a Flush has
\* stored an out-of-date readIndex.
CursorOrder ==
  Ahead(localReadIndex, readIndex) + Ahead(readIndex, nextReadIndex)
    + Ahead(nextReadIndex, localWriteIndex) + Ahead(localWriteIndex, writeIndex)
    + Ahead(writeIndex, nextWriteIndex) <= RB_SIZE - 1

\* While the reader may still use the slot Extract returned (until its Ack),
\* the writer never stores into that slot.
NoSlotConflict ==
  (rpc \in {"have", "copied"} /\ wpc \in {"store", "complete"})
     => nextReadIndex # nextWriteIndex

\* Nor does it store into the slot given back last: the thread still reads that
\* slot's seq when it sends a backup (compute_thread.hpp:350, after the Ack).
AckedSlotIntact ==
  wpc \in {"store", "complete"} => nextVal(nextWriteIndex) # nextReadIndex

\* The writer spins on a full ring.
WriterBlocked == wpc = "full" /\ afterNextWriteIndex = readIndex

\* Extract returns NULL.
ReaderStarved ==
  rpc = "idle" /\ nextReadIndex = localWriteIndex /\ nextReadIndex = writeIndex

\* With room for two batches, unpublished inserts and unpublished acks never
\* make the writer wait on a reader that sees nothing to read, unless a Flush
\* has moved readIndex backwards and the reader has not published since.
NoMutualBlock ==
  (RB_SIZE >= 2 * RB_BATCH /\ ~regressed) => ~(WriterBlocked /\ ReaderStarved)

\* What the writer knows at each point of Insert and Flush.
WriterKnows ==
  /\ wpc \in {"full", "reload", "store", "complete"} =>
       item \in Items /\ afterNextWriteIndex = nextVal(nextWriteIndex)
  /\ wpc = "reload" => afterNextWriteIndex # readIndex
  /\ wpc \in {"store", "complete"} => afterNextWriteIndex # localReadIndex
  /\ wpc = "complete" => buffer[nextWriteIndex] = item
  /\ wpc = "flushStore" =>
       Ahead(localReadIndex, flushed) + Ahead(flushed, nextReadIndex)
         + Ahead(nextReadIndex, nextWriteIndex) <= RB_SIZE - 1

\* What the reader knows at each point of Extract and Ack.
ReaderKnows ==
  /\ rpc = "reload" => nextReadIndex # writeIndex
  /\ rpc \in {"have", "copied"} => nextReadIndex # localWriteIndex

\* A cursor runs ahead of its published value by no more than its batch count.
BatchLag ==
  /\ Ahead(writeIndex, nextWriteIndex) <= wBatchCount
  /\ ~regressed => Ahead(readIndex, nextReadIndex) <= rBatchCount

\* The inductive invariant of the ring: the order of the cursors, with what
\* each thread has established from its stale copies at each point of Insert,
\* Flush, Extract and Ack.
RingInv == TypeOK /\ CursorOrder /\ WriterKnows /\ ReaderKnows /\ BatchLag

\* The ring, seen from outside, is a FIFO queue of RB_SIZE - 1 items: the slots
\* from the reader's cursor (past the item it has copied) to the writer's.
ReadFrom == IF rpc = "copied" THEN nextVal(nextReadIndex) ELSE nextReadIndex

Contents == [k \in 1 .. Ahead(ReadFrom, nextWriteIndex) |-> buffer[Slot(ReadFrom, k - 1)]]

FIFO == INSTANCE BoundedFIFO
          WITH Capacity <- RB_SIZE - 1, queue <- Contents, delivered <- got

\* Insert, Extract and Ack implement that queue: nothing is lost, duplicated,
\* reordered or read before it was written.
ImplementsFIFO == FIFO!Spec

\* A writer that spins on a full ring gets a slot in the end, unless a Flush
\* has moved readIndex backwards.
WriterUnblocks == wpc = "full" ~> (wpc # "full" \/ regressed)

\* Everything inserted before a Flush reaches the reader, with no further
\* insert to complete the batch.
FlushDelivers ==
  \A i \in Index : (wpc = "flushLoad" /\ nextWriteIndex = i) ~> (nextReadIndex = i)
=============================================================================
