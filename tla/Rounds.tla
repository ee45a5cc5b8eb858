------------------------------- MODULE Rounds -------------------------------
(***************************************************************************)
(* Upstream backup and mini-batches: the up threads that save every record *)
(* of the trace before the compute threads can see it, stop at the end of  *)
(* a round until every compute thread has answered, and replay what was    *)
(* saved when the worker is started again (src/thread/                     *)
(* up_thread_trace_upbackup.hpp, up_thread_trace_minibatch.hpp,            *)
(* src/fault_tolerance/adapter_recovery.hpp).                              *)
(*                                                                         *)
(* Two parts are not in the repository and are modelled from their use:    *)
(* DataManager, whose files outlive the process, and an application whose  *)
(* ProcessPunc answers a TIMEOUT with EmitReverseTimeout and               *)
(* FlushReverseWriter.  The rings are bounded FIFOs (module RingBuffer),   *)
(* the reverse path is a FIFO per compute thread (module Mesh).            *)
(***************************************************************************)
EXTENDS Integers, Sequences, FiniteSets

CONSTANTS NumThreads,     \* compute threads of the worker
          BackupSizes,    \* upbackup_size, mini_batch_size
          QueueSize,      \* items a ring holds
          MaxRecords,     \* bound: records of a trace
          MaxProcesses    \* bound: processes one after the other

\* ThreadInitHandler asserts that the size is positive.
ASSUME RoundsAssumption ==
  /\ NumThreads \in Nat \ {0} /\ QueueSize \in Nat \ {0}
  /\ BackupSizes \subseteq Nat \ {0} /\ MaxRecords \in Nat /\ MaxProcesses \in Nat \ {0}

VARIABLES
  up, backup_size, num_records,    \* class of the up thread, configuration, trace
  saved,                           \* the files of DataManager
  process,                         \* which process this is; records name theirs
  ptr_,                            \* the next saved record AdapterRecovery reads
  upc, at, record, event_, batch_data_, cur_,   \* the up thread and its router
  queues_, work, answers,          \* per compute thread: its ring, the item it is
                                   \* at, its ring of the reverse path
  emitted,                         \* history: records emitted by this process
  processed                        \* history: records some process has processed

inputs == <<up, backup_size, num_records, process>>
computeVars == <<work, answers, processed>>
roundsVars == <<inputs, saved, ptr_, upc, at, record, event_, batch_data_, cur_,
                queues_, computeVars, emitted>>

Threads == 0 .. NumThreads - 1
NoRecord == [process |-> 0, n |-> 0]

\* The classes have the same members, written out in each; they differ in when a
\* record is emitted: at once, or with its batch before the next round.
UpThreadTraceUpbackup == [batches |-> FALSE]
UpThreadTraceMinibatch == [batches |-> TRUE]
-----------------------------------------------------------------------------
(* DataManager and AdapterRecovery.                                        *)

SaveData(seq, data) == saved' = Append(saved, [seq |-> seq, data |-> data])

\* Mutant: a gap is where the run before it ends.
start_BeforeGap(file) ==
  LET gaps == {i \in 2 .. Len(file) : file[i].seq - file[i - 1].seq # 1} IN
  IF gaps = {} THEN 1 ELSE (CHOOSE i \in gaps : \A j \in gaps : j <= i) - 1

\* AdapterRecovery::Init goes to the last run of consecutive sequence numbers.
start(file) ==
  LET gaps == {i \in 2 .. Len(file) : file[i].seq - file[i - 1].seq # 1} IN
  IF gaps = {} THEN 1 ELSE CHOOSE i \in gaps : \A j \in gaps : j <= i

\* AdapterRecovery::ReadRecord: whether ptr_ is at the end of the file.
AtEnd == ptr_ > Len(saved)
-----------------------------------------------------------------------------
\* ThreadInitHandler, and the constructors of the process: nothing but the files
\* is left of an earlier one.  The first process does not recover.
ProcessStart(p, file) ==
  [upc |-> IF p > 1 THEN "recover" ELSE "read", ptr_ |-> start(file),
   batch_data_ |-> [i \in 0 .. backup_size - 1 |-> NoRecord],
   queues_ |-> [t \in Threads |-> <<>>],
   work |-> [t \in Threads |-> "none"],
   answers |-> [t \in Threads |-> <<>>]]

RoundsStart ==
  /\ up \in {UpThreadTraceUpbackup, UpThreadTraceMinibatch}
  /\ backup_size \in BackupSizes /\ num_records \in 0 .. MaxRecords
  /\ process = 1 /\ saved = <<>> /\ processed = {}
  /\ LET st == ProcessStart(1, <<>>) IN
     /\ upc = st.upc /\ ptr_ = st.ptr_ /\ batch_data_ = st.batch_data_
     /\ queues_ = st.queues_ /\ work = st.work /\ answers = st.answers
  /\ at = 0 /\ record = 0 /\ event_ = 0 /\ cur_ = -1 /\ emitted = <<>>

\* The worker dies and is started again, with is_recovery.
Crash ==
  /\ process < MaxProcesses /\ upc # "done"
  /\ process' = process + 1
  /\ LET st == ProcessStart(process + 1, saved) IN
     /\ upc' = st.upc /\ ptr_' = st.ptr_ /\ batch_data_' = st.batch_data_
     /\ queues_' = st.queues_ /\ work' = st.work /\ answers' = st.answers
  /\ at' = 0 /\ record' = 0 /\ event_' = 0 /\ cur_' = -1 /\ emitted' = <<>>
  /\ UNCHANGED <<up, backup_size, num_records, saved, processed>>
-----------------------------------------------------------------------------
(* The up thread.                                                          *)

HasSlot(t) == Len(queues_[t]) < QueueSize

Put(t, item) == queues_' = [queues_ EXCEPT ![t] = Append(@, item)]

GetDestination == (cur_ + 1) % NumThreads

Emit(data) ==
  /\ HasSlot(GetDestination)
  /\ cur_' = GetDestination
  /\ Put(GetDestination, [type |-> "normal", data |-> data])
  /\ emitted' = Append(emitted, data)

DoRecovery ==
  /\ upc = "recover"
  /\ IF AtEnd
       THEN upc' = "read" /\ UNCHANGED <<ptr_, cur_, queues_, emitted>>
       ELSE Emit(saved[ptr_].data) /\ ptr_' = ptr_ + 1 /\ UNCHANGED upc
  /\ UNCHANGED <<inputs, saved, at, record, event_, batch_data_, computeVars>>

EndsRound == event_ > 0 /\ event_ % backup_size = 0

ReadRecord ==
  /\ upc = "read"
  /\ IF record = num_records
       THEN upc' = "finish" /\ UNCHANGED record
       ELSE /\ record' = record + 1
            /\ upc' = IF ~EndsRound THEN "save" ELSE IF up.batches THEN "batch" ELSE "timeout"
  /\ UNCHANGED <<inputs, saved, ptr_, at, event_, batch_data_, cur_, queues_, computeVars, emitted>>

EmitBatch ==
  /\ upc = "batch"
  /\ Emit(batch_data_[at])
  /\ IF at + 1 = backup_size THEN at' = 0 /\ upc' = "timeout"
                             ELSE at' = at + 1 /\ UNCHANGED upc
  /\ UNCHANGED <<inputs, saved, ptr_, record, event_, batch_data_, computeVars>>

\* EmitTimeout, and the FINISH items at the end of the trace.
EmitToAll(here, type, there) ==
  /\ upc = here
  /\ HasSlot(at)
  /\ Put(at, [type |-> type, data |-> NoRecord])
  /\ IF at + 1 = NumThreads THEN at' = 0 /\ upc' = there
                            ELSE at' = at + 1 /\ UNCHANGED upc
  /\ UNCHANGED <<inputs, saved, ptr_, record, event_, batch_data_, cur_, computeVars, emitted>>

EmitTimeout == EmitToAll("timeout", "timeout", "wait")
EmitFinish == EmitToAll("finish", "finish", "waitFinish")


\* One answer per compute thread, of whatever type: another one is only logged.
\* The Flush after the last gives the writers their slots back, for which each
\* of them waits in FlushReverseWriter.
TakeAnswer(here, there) ==
  /\ upc = here
  /\ \E t \in Threads :
       /\ answers[t] # <<>>
       /\ answers' = [answers EXCEPT ![t] = Tail(@)]
  /\ IF at + 1 = NumThreads
       THEN /\ at' = 0 /\ upc' = there
            /\ work' = [t \in Threads |-> IF work[t] = "answered" THEN "none" ELSE work[t]]
       ELSE at' = at + 1 /\ UNCHANGED <<upc, work>>
  /\ UNCHANGED <<inputs, saved, ptr_, record, event_, batch_data_, cur_, queues_, processed, emitted>>

WaitAnswers == TakeAnswer("wait", "save")
WaitFinish == TakeAnswer("waitFinish", "done")

Current == [process |-> process, n |-> record]

\* The record is stored and saved; a mini-batch goes on to the next one.
Store ==
  /\ upc = "save"
  /\ batch_data_' = [batch_data_ EXCEPT ![event_ % backup_size] = Current]
  /\ SaveData(event_, Current)
  /\ IF up.batches THEN upc' = "read" /\ event_' = event_ + 1
                   ELSE upc' = "emit" /\ UNCHANGED event_
  /\ UNCHANGED <<inputs, ptr_, at, record, cur_, queues_, computeVars, emitted>>

EmitRecord ==
  /\ upc = "emit"
  /\ Emit(Current)
  /\ event_' = event_ + 1
  /\ upc' = "read"
  /\ UNCHANGED <<inputs, saved, ptr_, at, record, batch_data_, computeVars>>
-----------------------------------------------------------------------------
(* A compute thread.                                                       *)

\* Extract, and Ack before the item is processed.
Extract(t) ==
  /\ work[t] = "none" /\ queues_[t] # <<>>
  /\ work' = [work EXCEPT ![t] = Head(queues_[t]).type]
  /\ queues_' = [queues_ EXCEPT ![t] = Tail(@)]
  /\ processed' = processed \cup ({Head(queues_[t]).data} \ {NoRecord})
  /\ UNCHANGED <<inputs, saved, ptr_, upc, at, record, event_, batch_data_, cur_, answers, emitted>>

ProcessData(t) ==
  /\ work[t] = "normal"
  /\ work' = [work EXCEPT ![t] = "none"]
  /\ UNCHANGED answers

ProcessPunc(t) ==
  /\ work[t] = "timeout"
  /\ work' = [work EXCEPT ![t] = "answered"]
  /\ answers' = [answers EXCEPT ![t] = Append(@, "reverse")]

EmitReverseFinish(t) ==
  /\ work[t] = "finish"
  /\ work' = [work EXCEPT ![t] = "ended"]
  /\ answers' = [answers EXCEPT ![t] = Append(@, "finish")]

ProcessItem(t) ==
  /\ ProcessData(t) \/ ProcessPunc(t) \/ EmitReverseFinish(t)
  /\ UNCHANGED <<inputs, saved, ptr_, upc, at, record, event_, batch_data_, cur_, queues_,
                 processed, emitted>>
-----------------------------------------------------------------------------
UpStep ==
  \/ DoRecovery \/ ReadRecord \/ EmitBatch \/ EmitTimeout \/ WaitAnswers
  \/ Store \/ EmitRecord \/ EmitFinish \/ WaitFinish

\* The threads have ended.
RoundsEnd == upc = "done" /\ UNCHANGED roundsVars

RoundsNext ==
  \/ UpStep \/ Crash \/ RoundsEnd
  \/ \E t \in Threads : Extract(t) \/ ProcessItem(t)

RoundsSpec == RoundsStart /\ [][RoundsNext]_roundsVars
-----------------------------------------------------------------------------
SavedBy(p) == SelectSeq(saved, LAMBDA s : s.data.process = p)
Own == SelectSeq(emitted, LAMBDA d : d.process = process)
Replayed == SelectSeq(emitted, LAMBDA d : d.process # process)


\* A restarted process emits, before anything new, exactly the records of the last
\* process that saved any, once each and in their order, though processes may have
\* died in the middle of a replay since.  None that a compute thread had seen since
\* then is missing: SaveData comes before Emit.  A process that gets to the end of
\* its trace has emitted all of it, but for the last batch of a mini-batch thread,
\* which goes out only when a record after it is read.
RecordsAccounted ==
  LET savers == {p \in 1 .. process - 1 : SavedBy(p) # <<>>}
      last == CHOOSE p \in savers \cup {0} : \A q \in savers : q <= p
      run == SavedBy(last) IN
  /\ upc # "recover" =>
       /\ Replayed = [i \in DOMAIN run |-> run[i].data]
       /\ \A d \in processed : d.process >= last /\ d.process < process =>
            \E i \in DOMAIN Replayed : Replayed[i] = d
  /\ \A i \in DOMAIN Replayed : emitted[i] = Replayed[i]
  /\ upc = "done" =>
       Own = [n \in 1 .. (IF up.batches /\ num_records > 0
                            THEN ((num_records - 1) \div backup_size) * backup_size
                            ELSE num_records) |-> [process |-> process, n |-> n]]
=============================================================================
