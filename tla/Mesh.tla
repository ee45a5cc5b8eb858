-------------------------------- MODULE Mesh --------------------------------
(***************************************************************************)
(* The slot mesh between the compute threads and a network thread          *)
(* (src/queues/mpsc_*_mesh*.hpp, mpsc_channel.hpp), on the reverse path:   *)
(* the compute threads write to one OutCallback of the up thread.          *)
(*                                                                         *)
(* Each side owns a LockFreeQueue, one ring per peer.  A writer pops free  *)
(* slots from its own queue (free[w]) and pushes filled ones into its ring *)
(* of the reader's queue (full[w]); the reader pops those and pushes the   *)
(* slot back.  A Flush publishes BOTH cursors of EVERY ring of the queue   *)
(* it is aimed at: the rings of the other writers too.                     *)
(*                                                                         *)
(* One Insert and one Extract with its Ack are one step here (RingBuffer   *)
(* takes them apart); the loads and stores of a Flush, which touch cursors *)
(* another thread owns, are steps of their own.                            *)
(***************************************************************************)
EXTENDS Integers, FiniteSets

CONSTANTS MaxWriters,   \* compute threads
          RB_SIZE, RB_BATCH,
          MaxEmits,     \* bound: data items of a writer before its FINISH, per
                        \* number of writers
          Garbage       \* what clean_cnt may hold before Init, which adds one to
                        \* it: no one sets it; per number of writers

\* With fewer slots the batches not yet published, the writer's and the
\* reader's, can hold all of them.
ASSUME MeshAssumption ==
  /\ MaxWriters \in Nat \ {0} /\ RB_BATCH \in Nat \ {0}
  /\ RB_SIZE \in Nat /\ RB_SIZE - 1 > 2 * (RB_BATCH - 1)

VARIABLES
  num_in_,      \* compute threads of this worker
  full, free,   \* per writer: its ring at the reader, its own ring
  type,         \* per writer and slot: ITEM_TYPE of the record in it
  wpc, hand, emits, clean_cnt, cleaned,   \* per writer
  rpc, cur, source, taken, num_stop_,     \* the reader
  flushing,     \* per thread: the ring, the step and the cursor of its Flush
  setBack,      \* history: a Flush stored a cursor older than the published one
  misled        \* the reader took a slot that nobody had written

writerVars == <<wpc, hand, emits, clean_cnt, cleaned>>
readerVars == <<rpc, cur, source, taken, num_stop_>>
meshVars == <<num_in_, full, free, type, writerVars, readerVars, flushing, setBack, misled>>

Writers == 1 .. num_in_
Slots == 1 .. RB_SIZE - 1
NULL == 0
Reader == 0
-----------------------------------------------------------------------------
(* A ring.  rb and wb are the batch counts.                                *)

ZeroRingBuffer ==
  [readIndex |-> 0, writeIndex |-> 0, localWriteIndex |-> 0, nextReadIndex |-> 0,
   rb |-> 0, localReadIndex |-> 0, nextWriteIndex |-> 0, wb |-> 0,
   buffer |-> [i \in 0 .. RB_SIZE - 1 |-> NULL]]

nextVal(x) == (x + 1) % RB_SIZE

\* Slots from cursor a forward to cursor b.
Ahead(a, b) == (b - a + RB_SIZE) % RB_SIZE

HasRoom(q) == nextVal(q.nextWriteIndex) \notin {q.localReadIndex} \cap {q.readIndex}

Insert(q, slot) ==
  LET after == nextVal(q.nextWriteIndex) IN
  [q EXCEPT !.buffer[q.nextWriteIndex] = slot, !.nextWriteIndex = after,
            !.localReadIndex = IF after = q.localReadIndex THEN q.readIndex ELSE @,
            !.writeIndex = IF q.wb + 1 >= RB_BATCH THEN after ELSE @,
            !.wb = IF q.wb + 1 >= RB_BATCH THEN 0 ELSE q.wb + 1]

HasItem(q) == q.nextReadIndex \notin {q.localWriteIndex} \cap {q.writeIndex}

\* The slot Extract returns, and the ring after Extract and Ack.
Extracted(q) == q.buffer[q.nextReadIndex]

ExtractAck(q) ==
  LET after == nextVal(q.nextReadIndex) IN
  [q EXCEPT !.localWriteIndex = IF q.nextReadIndex = @ THEN q.writeIndex ELSE @,
            !.nextReadIndex = after,
            !.readIndex = IF q.rb + 1 >= RB_BATCH THEN after ELSE @,
            !.rb = IF q.rb + 1 >= RB_BATCH THEN 0 ELSE q.rb + 1]

\* The slots written to a ring and not read yet.
Held(q) == {q.buffer[(q.nextReadIndex + k) % RB_SIZE] :
              k \in 0 .. Ahead(q.nextReadIndex, q.nextWriteIndex) - 1}
-----------------------------------------------------------------------------
\* Init pushes every slot into ring 0 of the writer's own queue; the last ones
\* are not published unless the batch is full.
Init ==
  LET pushed[k \in 0 .. RB_SIZE - 1] ==
        IF k = 0 THEN ZeroRingBuffer ELSE Insert(pushed[k - 1], k)
  IN pushed[RB_SIZE - 1]

\* The worker starts no thread before every thread's ThreadInitHandler, and with
\* it Init, has returned (module Worker).
MeshStart ==
  /\ num_in_ \in 1 .. MaxWriters
  /\ full = [w \in 1 .. MaxWriters |-> ZeroRingBuffer]
  /\ free = [w \in 1 .. MaxWriters |-> Init]
  /\ type = [w \in 1 .. MaxWriters |-> [d \in Slots |-> "none"]]
  /\ wpc = [w \in 1 .. MaxWriters |-> "run"]
  /\ hand = [w \in 1 .. MaxWriters |-> NULL]
  /\ emits = [w \in 1 .. MaxWriters |-> 0]
  /\ \E g \in Garbage[num_in_] : clean_cnt = [w \in 1 .. MaxWriters |-> g + 1]
  /\ cleaned = [w \in 1 .. MaxWriters |-> 0]
  /\ rpc = "read" /\ cur = 1 /\ source = 1 /\ taken = NULL /\ num_stop_ = 0
  /\ flushing = [t \in 0 .. MaxWriters |-> [ring |-> 0, step |-> "off", cursor |-> 0]]
  /\ setBack = FALSE /\ misled = FALSE
-----------------------------------------------------------------------------
(* A Flush of thread t: of the rings full of the reader's queue when t is  *)
(* a writer, of the queue of each writer when t is the reader.             *)

StartFlush(t) == flushing' = [flushing EXCEPT ![t] = [ring |-> 1, step |-> "load", cursor |-> 0]]

Flushed(t) == IF t = Reader THEN free ELSE full

SetFlushed(t, i, q) ==
  IF t = Reader THEN free' = [free EXCEPT ![i] = q] /\ UNCHANGED full
                ELSE full' = [full EXCEPT ![i] = q] /\ UNCHANGED free

\* The thread whose cursor nextWriteIndex is: its load cannot be stale.
Owns(t, i) == t \in {Reader, i}

\* The owner published a cursor after the Flush had loaded the one it stores.
Overtaken(stored, published, next) ==
  stored # published /\ Ahead(stored, published) <= Ahead(stored, next)

\* Mutant: the write cursor is not published.
FlushStep_NoWriteIndex(t) ==
  LET f == flushing[t]
      q == Flushed(t)[f.ring] IN
  /\ f.step # "off"
  /\ \/ f.step = "load" /\ UNCHANGED <<full, free>>
        /\ flushing' = [flushing EXCEPT ![t].step = "store"]
     \/ f.step = "store" /\ UNCHANGED <<full, free>>
        /\ flushing' = [flushing EXCEPT ![t].step = "loadRead"]
     \/ f.step = "loadRead" /\ UNCHANGED <<full, free>>
        /\ flushing' = [flushing EXCEPT ![t] = [@ EXCEPT !.step = "storeRead", !.cursor = q.nextReadIndex]]
     \/ /\ f.step = "storeRead"
        /\ SetFlushed(t, f.ring, [q EXCEPT !.readIndex = f.cursor])
        /\ flushing' = [flushing EXCEPT ![t] =
             IF f.ring = num_in_ THEN [ring |-> 0, step |-> "off", cursor |-> 0]
                                 ELSE [ring |-> f.ring + 1, step |-> "load", cursor |-> 0]]
  /\ UNCHANGED <<num_in_, type, writerVars, readerVars, setBack, misled>>

\* writeIndex = nextWriteIndex; readIndex = nextReadIndex; for each ring in turn.
FlushStep(t) ==
  LET f == flushing[t]
      q == Flushed(t)[f.ring] IN
  /\ f.step # "off"
  /\ \/ f.step = "load" /\ ~Owns(t, f.ring) /\ UNCHANGED <<full, free>>
        /\ flushing' = [flushing EXCEPT ![t] = [@ EXCEPT !.step = "store", !.cursor = q.nextWriteIndex]]
     \/ /\ f.step = "load" /\ Owns(t, f.ring)
        /\ SetFlushed(t, f.ring, [q EXCEPT !.writeIndex = q.nextWriteIndex])
        /\ flushing' = [flushing EXCEPT ![t].step = "loadRead"]
     \/ /\ f.step = "store"
        /\ SetFlushed(t, f.ring, [q EXCEPT !.writeIndex = f.cursor])
        /\ flushing' = [flushing EXCEPT ![t] = [@ EXCEPT !.step = "loadRead", !.cursor = 0]]
     \/ f.step = "loadRead" /\ UNCHANGED <<full, free>>
        /\ flushing' = [flushing EXCEPT ![t] = [@ EXCEPT !.step = "storeRead", !.cursor = q.nextReadIndex]]
     \/ /\ f.step = "storeRead"
        /\ SetFlushed(t, f.ring, [q EXCEPT !.readIndex = f.cursor])
        /\ flushing' = [flushing EXCEPT ![t] =
             IF f.ring = num_in_ THEN [ring |-> 0, step |-> "off", cursor |-> 0]
                                 ELSE [ring |-> f.ring + 1, step |-> "load", cursor |-> 0]]
  /\ setBack' = \/ setBack
                \/ f.step = "store" /\ Overtaken(f.cursor, q.writeIndex, q.nextWriteIndex)
                \/ f.step = "storeRead" /\ Overtaken(f.cursor, q.readIndex, q.nextReadIndex)
  /\ UNCHANGED <<num_in_, type, writerVars, readerVars, misled>>

Off(t) == flushing[t].step = "off"
-----------------------------------------------------------------------------
(* A writer: the compute thread.                                           *)

\* EmitReverseData and EmitReverseWrapData: wait for a slot, then fill it.
\* The loop of GetSlot is the guard HasItem.
GetSlot(w, t) ==
  /\ wpc[w] = "run"
  /\ t = "reverse" => emits[w] < MaxEmits[num_in_]
  /\ HasItem(free[w])
  /\ hand' = [hand EXCEPT ![w] = Extracted(free[w])]
  /\ type' = [type EXCEPT ![w][Extracted(free[w])] = t]
  /\ free' = [free EXCEPT ![w] = ExtractAck(@)]
  /\ wpc' = [wpc EXCEPT ![w] = "write"]
  /\ UNCHANGED <<num_in_, full, emits, clean_cnt, cleaned, readerVars, flushing, setBack, misled>>

\* After the FINISH EmitReverseFinish calls Flush.
Write(w) ==
  /\ wpc[w] = "write"
  /\ HasRoom(full[w])
  /\ full' = [full EXCEPT ![w] = Insert(@, hand[w])]
  /\ hand' = [hand EXCEPT ![w] = NULL]
  /\ IF type[w][hand[w]] = "finish"
       THEN /\ wpc' = [wpc EXCEPT ![w] = "clean"]
            /\ StartFlush(w)
            /\ UNCHANGED emits
       ELSE /\ wpc' = [wpc EXCEPT ![w] = "run"]
            /\ emits' = [emits EXCEPT ![w] = @ + 1]
            /\ UNCHANGED flushing
  /\ UNCHANGED <<num_in_, free, type, clean_cnt, cleaned, readerVars, setBack, misled>>

\* Clean pops RB_SIZE - 1 - clean_cnt slots and waits for each of them.
Clean(w) ==
  /\ wpc[w] = "clean" /\ Off(w)
  /\ IF cleaned[w] >= RB_SIZE - 1 - clean_cnt[w]
       THEN wpc' = [wpc EXCEPT ![w] = "done"] /\ UNCHANGED <<free, cleaned>>
       ELSE /\ HasItem(free[w])
            /\ free' = [free EXCEPT ![w] = ExtractAck(@)]
            /\ cleaned' = [cleaned EXCEPT ![w] = @ + 1]
            /\ UNCHANGED wpc
  /\ UNCHANGED <<num_in_, full, type, hand, emits, clean_cnt, readerVars, flushing, setBack, misled>>
-----------------------------------------------------------------------------
(* The reader: PullRecord of the OutCallback, then the encoder's Ack.      *)

\* One turn of the loop of pop.  What Extract returns past the writer's cursor
\* is a slot nobody wrote; the model stops there.
Read ==
  LET q == full[cur]
      slot == Extracted(q)
      last == num_stop_ + 1 = num_in_ IN
  /\ rpc = "read"
  /\ cur' = (cur % num_in_) + 1
  /\ IF ~HasItem(q)
       THEN UNCHANGED <<full, rpc, source, taken, num_stop_, flushing, misled>>
       ELSE /\ full' = [full EXCEPT ![cur] = ExtractAck(q)]
            /\ source' = cur
            /\ misled' = (q.nextReadIndex = q.nextWriteIndex)
            /\ IF misled' THEN UNCHANGED <<rpc, taken, num_stop_, flushing>>
               ELSE /\ taken' = slot
                    /\ IF type[cur][slot] = "finish"
                         THEN /\ num_stop_' = num_stop_ + 1
                              /\ rpc' = IF last THEN "last" ELSE "ack"
                              /\ StartFlush(Reader)
                         ELSE rpc' = "ack" /\ UNCHANGED <<num_stop_, flushing>>
  /\ UNCHANGED <<num_in_, free, type, writerVars, setBack>>

\* Mutant: the slot goes back to the next writer's queue.
Ack_NextWriter ==
  LET to == (source % num_in_) + 1 IN
  /\ rpc \in {"ack", "last"} /\ Off(Reader)
  /\ HasRoom(free[to])
  /\ free' = [free EXCEPT ![to] = Insert(@, taken)]
  /\ taken' = NULL /\ source' = 1
  /\ rpc' = IF rpc = "last" THEN "done" ELSE "read"
  /\ UNCHANGED <<num_in_, full, type, writerVars, cur, num_stop_, flushing, setBack, misled>>

\* The slot of the last FINISH goes back after the last Flush: it may stay
\* unpublished, and the slot that Init counts in clean_cnt stands for it.
Ack ==
  /\ rpc \in {"ack", "last"} /\ Off(Reader)
  /\ HasRoom(free[source])
  /\ free' = [free EXCEPT ![source] = Insert(@, taken)]
  /\ taken' = NULL /\ source' = 1
  /\ rpc' = IF rpc = "last" THEN "done" ELSE "read"
  /\ UNCHANGED <<num_in_, full, type, writerVars, cur, num_stop_, flushing, setBack, misled>>
-----------------------------------------------------------------------------
WriterStep(w) ==
  \/ Write(w) \/ Clean(w) \/ FlushStep(w)
  \/ \E t \in {"reverse", "finish"} : GetSlot(w, t)

ReaderStep == Read \/ Ack \/ FlushStep(Reader)

\* w waits for a slot, for room, or has ended.
Waits(w) ==
  /\ Off(w)
  /\ CASE wpc[w] = "run"   -> ~HasItem(free[w])
       [] wpc[w] = "write" -> ~HasRoom(full[w])
       [] wpc[w] = "clean" -> cleaned[w] < RB_SIZE - 1 - clean_cnt[w] /\ ~HasItem(free[w])
       [] OTHER            -> TRUE

ReaderWaits ==
  /\ Off(Reader)
  /\ CASE rpc = "read" -> \A w \in Writers : ~HasItem(full[w])
       [] rpc = "done" -> TRUE
       [] OTHER        -> ~HasRoom(free[source])

\* The threads have ended, or spin.
Rest ==
  /\ \/ misled
     \/ ReaderWaits /\ \A w \in Writers : Waits(w)
  /\ UNCHANGED meshVars

MeshNext ==
  \/ ~misled /\ (ReaderStep \/ \E w \in Writers : WriterStep(w))
  \/ Rest

MeshSpec == MeshStart /\ [][MeshNext]_meshVars
-----------------------------------------------------------------------------
\* Where a slot of writer w may be.
Places(w, d) ==
  {p \in {"free", "full", "hand", "taken"} :
     \/ p = "free" /\ d \in Held(free[w])
     \/ p = "full" /\ d \in Held(full[w])
     \/ p = "hand" /\ hand[w] = d
     \/ p = "taken" /\ source = w /\ taken = d}

\* No slot of a writer is ever in two places, and none is lost before Clean: it
\* waits in the free ring, is being filled, waits in the full ring or is held
\* by the reader, whoever publishes whose cursors meanwhile.  What breaks this is
\* a Flush that sets back a cursor of another thread, and a compute thread that
\* is alone never meets it: the reader is then never misled.
SlotsConserved ==
  /\ misled => setBack /\ num_in_ > 1
  /\ ~misled => \A w \in Writers :
       /\ \A d \in Slots : Cardinality(Places(w, d)) <= 1
       /\ wpc[w] # "clean" /\ wpc[w] # "done" =>
            \A d \in Slots : Cardinality(Places(w, d)) = 1

\* The threads never wait for each other: when all of them wait, every FINISH has
\* been read and every Clean has ended, so no slot and no item sits for ever in a
\* batch that nobody will publish.  Two things break this in the code: with
\* several writers, a Flush that sets back a cursor of another thread; and a
\* clean_cnt, never initialised, that makes Clean wait for too many slots.
NoMutualWait ==
  ReaderWaits /\ (\A w \in Writers : Waits(w)) =>
    \/ setBack /\ num_in_ > 1
    \/ /\ rpc = "done"
       /\ \A w \in Writers : wpc[w] = "done" \/ clean_cnt[w] < 1
=============================================================================
