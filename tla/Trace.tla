------------------------------- MODULE Trace --------------------------------
(***************************************************************************)
(* The source of a topology: an up thread reads records from an adapter    *)
(* and deals them to the compute threads (src/thread/up_thread_trace*.hpp, *)
(* adapter_ram.hpp, adapter_disk.hpp, router_rr.hpp, src/raw_item.hpp,     *)
(* src/wrap_item.hpp).                                                     *)
(*                                                                         *)
(* A line of the trace file is a key, the digits of a value and, but for   *)
(* the last line of some files, a newline.  A ring to a compute thread is  *)
(* a bounded FIFO (module RingBuffer) whose slots keep their bytes from    *)
(* one use to the next.                                                    *)
(***************************************************************************)
EXTENDS Integers, Sequences, FiniteSets

CONSTANTS Files,           \* trace files
          Setups,          \* up thread, adapter and configuration of a run
          NumThreads,      \* compute threads of the worker
          RB_SIZE,
          MAX_RECORD_LENGTH,
          MaxEvents        \* bound: the disk adapter may never end

VARIABLES
  setup, file,
  cur_cnt_, cnt, buf,      \* records read from memory; from disk, and the line
  event_, cur_lost_, cur_, \* the up thread and its router
  queues_, slots, next,    \* per compute thread: items, bytes of the slots, slot to fill
  upc, at,                 \* its position; the queue a loop has come to
  routed                   \* history: per event, the compute thread it went to

sourceVars == <<setup, file, cur_cnt_, cnt, buf, event_, cur_lost_, cur_, slots, next, upc, at, routed>>
traceVars == <<sourceVars, queues_>>

Threads == 0 .. NumThreads - 1
NL == 10
NUL == 0
Digit(d) == 48 + d
IsDigit(c) == c \in 48 .. 57
-----------------------------------------------------------------------------
(* Adapters.  A line is [key, digits, nl]; in memory it is text.           *)

text(line) == <<Digit(line.key)>> \o [i \in DOMAIN line.digits |-> Digit(line.digits[i])]
                \o (IF line.nl THEN <<NL>> ELSE <<>>)

\* AdapterRAM::Init: each record takes its length, which is one unit here, and
\* its text; loading stops at the first that does not fit, or after max records.
tot_cnt_(lines, max, buf_size) ==
  LET bytes[i \in 0 .. Len(lines)] ==
        IF i = 0 THEN 0 ELSE bytes[i - 1] + 1 + Len(text(lines[i]))
      fits == {i \in 0 .. Len(lines) : bytes[i] <= buf_size /\ (max > 0 => i <= max)}
  IN CHOOSE i \in fits : \A j \in fits : j <= i

\* What strlen finds at the i-th record in memory: the text has no terminator,
\* the length of the next record follows it, and zeros the last one.
RAMRecord(lines, i, tot) ==
  text(lines[i]) \o (IF i < tot THEN <<Len(text(lines[i + 1]))>> ELSE <<>>)

Record(found, data) == [found |-> found, data |-> data]

AdapterRAM_ReadRecord ==
  LET tot == tot_cnt_(file, setup.max, setup.buf_size) IN
  IF cur_cnt_ = tot THEN Record(FALSE, <<>>)
                    ELSE Record(TRUE, RAMRecord(file, cur_cnt_ + 1, tot))

\* fgets fails at the end of the file and the NULL it sets is overwritten below:
\* only the count of records ends the trace, and the last line is read again.
AdapterDisk_ReadRecord ==
  LET line == IF cnt < Len(file) THEN text(file[cnt + 1]) ELSE buf IN
  IF setup.max > 0 /\ cnt = setup.max THEN Record(FALSE, line) ELSE Record(TRUE, line)

ReadRecord == IF setup.adapter = "ram" THEN AdapterRAM_ReadRecord ELSE AdapterDisk_ReadRecord

\* The number of the line ReadRecord reads.
ReadLine == IF setup.adapter = "ram" THEN cur_cnt_ + 1
            ELSE IF cnt < Len(file) THEN cnt + 1 ELSE Len(file)

\* The cursors of the adapter after ReadRecord.
Advance ==
  IF setup.adapter = "ram"
    THEN /\ cur_cnt_' = IF ReadRecord.found THEN cur_cnt_ + 1 ELSE cur_cnt_
         /\ UNCHANGED <<cnt, buf>>
    ELSE /\ cnt' = IF ReadRecord.found THEN cnt + 1 ELSE cnt
         /\ buf' = ReadRecord.data
         /\ UNCHANGED cur_cnt_
-----------------------------------------------------------------------------
(* The up threads, items and slots.                                        *)

\* The classes have the same members, written out in each; where they differ the
\* actions below ask for one of these.
UpThreadTrace == [recovers |-> FALSE, numbers |-> FALSE, fails |-> FALSE]
UpThreadTraceAFS == [recovers |-> TRUE, numbers |-> FALSE, fails |-> FALSE]
UpThreadTraceError == [recovers |-> FALSE, numbers |-> TRUE, fails |-> TRUE]

\* A WrapItem; line is history: the line of the file the record comes from.
Item(type, seq, data, line) == [type |-> type, seq |-> seq, data |-> data, line |-> line]


\* RawItem::operator= copies strlen bytes: no terminator, and what an earlier
\* record left in the slot stays behind.
Copied(old, data) ==
  [i \in 1 .. MAX_RECORD_LENGTH |-> IF i <= Len(data) THEN data[i] ELSE old[i]]

\* The router: round robin, from -1.
GetDestination == (cur_ + 1) % NumThreads

HasSlot(t) == Len(queues_[t]) < RB_SIZE - 1

\* An item goes into the next slot of queue t, and the slot keeps it.
Put(t, item) ==
  /\ queues_' = [queues_ EXCEPT ![t] = Append(@, item)]
  /\ slots' = [slots EXCEPT ![t][next[t]] = [seq |-> item.seq, data |-> item.data]]
  /\ next' = [next EXCEPT ![t] = (@ + 1) % RB_SIZE]

\* Emit of the three up threads; only UpThreadTraceError sets the sequence number.
Emit(data) ==
  LET t == GetDestination
      slot == slots[t][next[t]] IN
  /\ HasSlot(t)
  /\ cur_' = t
  /\ Put(t, Item("normal", IF setup.up.numbers THEN event_ + 1 ELSE slot.seq,
                 Copied(slot.data, data), ReadLine))

\* EmitTimeout marks a slot of every queue in turn; its sequence number and data
\* are what an earlier item left there.
EmitTimeout ==
  LET slot == slots[at][next[at]] IN
  /\ upc = "timeout"
  /\ HasSlot(at)
  /\ Put(at, Item("timeout", slot.seq, slot.data, 0))
  /\ IF at + 1 = NumThreads
       THEN at' = 0 /\ upc' = "failed" /\ cur_lost_' = setup.max_data_lost
       ELSE at' = at + 1 /\ UNCHANGED <<upc, cur_lost_>>
  /\ UNCHANGED <<setup, file, cur_cnt_, cnt, buf, event_, cur_, routed>>
-----------------------------------------------------------------------------
EmptySlot == [seq |-> 0, data |-> [i \in 1 .. MAX_RECORD_LENGTH |-> NUL]]

\* A worker restarted with an UpThreadTraceAFS replays through an adapter that is
\* NULL: DoRecovery crashes before the first record.
TraceStart ==
  /\ setup \in Setups /\ file \in Files
  /\ cur_cnt_ = 0 /\ cnt = 0 /\ buf = <<>>
  /\ event_ = 0 /\ cur_lost_ = 0 /\ cur_ = -1
  /\ queues_ = [t \in Threads |-> <<>>]
  /\ slots = [t \in Threads |-> [i \in 0 .. RB_SIZE - 1 |-> EmptySlot]]
  /\ next = [t \in Threads |-> 0]
  /\ upc = IF setup.up.recovers /\ setup.is_recovery THEN "crashed" ELSE "read"
  /\ at = 0 /\ routed = <<>>

\* The event at which UpThreadTraceError announces a failure.
IsFailure(e) == setup.up.fails /\ (e % setup.error_freq) = setup.error_freq \div 2

\* A record has been read and it is time for a failure.
Fail ==
  /\ upc = "read" /\ ReadRecord.found /\ event_ < MaxEvents
  /\ IsFailure(event_ + 1)
  /\ upc' = "timeout"
  /\ UNCHANGED <<setup, file, cur_cnt_, cnt, buf, event_, cur_lost_, cur_, queues_, slots, next, at, routed>>

\* Mutant: the record at which the failure happens is not counted as lost.
Main_LoseOneMore ==
  /\ upc \in {"read", "failed"} /\ ReadRecord.found /\ event_ < MaxEvents
  /\ upc = "read" => ~IsFailure(event_ + 1)
  /\ Advance
  /\ event_' = event_ + 1
  /\ IF cur_lost_ = 0
       THEN /\ Emit(ReadRecord.data)
            /\ routed' = Append(routed, cur_')
            /\ UNCHANGED cur_lost_
       ELSE /\ cur_lost_' = IF upc = "failed" THEN cur_lost_ ELSE cur_lost_ - 1
            /\ routed' = Append(routed, -1)
            /\ UNCHANGED <<queues_, slots, next, cur_>>
  /\ upc' = "read"
  /\ UNCHANGED <<setup, file, at>>

\* One turn of the loop of ThreadMainHandler: read a record, emit or lose it.
Main ==
  /\ upc \in {"read", "failed"} /\ ReadRecord.found /\ event_ < MaxEvents
  /\ upc = "read" => ~IsFailure(event_ + 1)
  /\ Advance
  /\ event_' = event_ + 1
  /\ IF cur_lost_ = 0
       THEN /\ Emit(ReadRecord.data)
            /\ routed' = Append(routed, cur_')
            /\ UNCHANGED cur_lost_
       ELSE /\ cur_lost_' = cur_lost_ - 1
            /\ routed' = Append(routed, -1)
            /\ UNCHANGED <<queues_, slots, next, cur_>>
  /\ upc' = "read"
  /\ UNCHANGED <<setup, file, at>>

\* After the last record every queue in turn gets a FINISH.  The item's data is
\* not initialised and no one reads it: the slot's bytes stand for it.
Finish ==
  /\ upc = "end" \/ (upc = "read" /\ ~ReadRecord.found)
  /\ HasSlot(at)
  /\ Put(at, Item("finish", 0, slots[at][next[at]].data, 0))
  /\ IF at + 1 = NumThreads THEN at' = 0 /\ upc' = "done"
                            ELSE at' = at + 1 /\ upc' = "end"
  /\ UNCHANGED <<setup, file, cur_cnt_, cnt, buf, event_, cur_lost_, cur_, routed>>

UpThread == Fail \/ EmitTimeout \/ Main \/ Finish
-----------------------------------------------------------------------------
\* A record is lost exactly when it follows a failure at a distance below
\* max_data_lost, failures that come before the last loss is over included; and
\* the records that are not lost go round the compute threads in turn.
LossExact ==
  LET lost(e) == \E f \in 1 .. e : IsFailure(f) /\ e - f < setup.max_data_lost
      kept(e) == {g \in 1 .. e : ~lost(g)}
  IN \A e \in DOMAIN routed :
       routed[e] = IF lost(e) THEN -1 ELSE (Cardinality(kept(e)) - 1) % NumThreads
=============================================================================
