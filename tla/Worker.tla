------------------------------- MODULE Worker -------------------------------
(***************************************************************************)
(* One worker process (src/thread): the main thread in Worker::Start and   *)
(* the threads it creates, each running ThreadBase::thread_fun.  The main  *)
(* thread and a thread exchange commands on two mailboxes (module          *)
(* Mailbox: FIFO queues).                                                  *)
(*                                                                         *)
(* The worker modelled reads a trace: UpThreadTrace feeds the compute      *)
(* threads through rings (module RingBuffer: FIFO queues), the compute     *)
(* threads feed the DownThreadNet through the slot mesh, the down thread   *)
(* returns the feedback of the downstream workers through rings.  Threads  *)
(* have the identifiers that Start gives them: the compute threads 0 ..    *)
(* N - 1, the up thread N and the down thread N + 1.                       *)
(***************************************************************************)
EXTENDS Integers, Sequences, FiniteSets

CONSTANTS num_compute_thread_, num_downstream_,
          backup_client,        \* whether there is a backup server
          MaxRecords,           \* records of the trace
          MaxFeedback,          \* feedback items a downstream worker sends
          FirstId,              \* worker_id of the first downstream worker
          RB_SIZE,              \* slots of a ring, one of them always free
          Slots                 \* slots of a compute thread's writer

ASSUME WorkerAssumption ==
  /\ num_compute_thread_ \in Nat \ {0} /\ num_downstream_ \in Nat
  /\ backup_client \in BOOLEAN
  /\ MaxRecords \in Nat /\ MaxFeedback \in Nat /\ FirstId \in Nat
  /\ RB_SIZE \in Nat /\ RB_SIZE >= 2 /\ Slots \in Nat \ {0}

compute_threads_ == 0 .. num_compute_thread_ - 1
up_thread_ == num_compute_thread_
down_thread_ == num_compute_thread_ + 1
Downstream == 0 .. num_downstream_ - 1

\* The down thread exists when the worker has downstream workers.
HasDown == num_downstream_ > 0
Threads == compute_threads_ \cup {up_thread_}
             \cup (IF HasDown THEN {down_thread_} ELSE {})

\* The order in which Start deals with its threads.
StartOrder == <<up_thread_>> \o [i \in 1 .. num_compute_thread_ |-> i - 1]
                \o (IF HasDown THEN <<down_thread_>> ELSE <<>>)

VARIABLES
  phase, at, stop, failed,        \* main thread: place in Start; an assert failed
  main_to_thread_, thread_to_main_,
  tpc,                            \* place in thread_fun
  records, finished,              \* up thread: records emitted, FINISHes inserted
  in_queue_, r_in_queue_,
  cpc, up_stop, down_stop,        \* compute threads: place in ThreadMainHandler
  emit,                           \* destinations GetSlot and Write are still due
  version,                        \* data items processed: stands for the state
  slots, peers,                   \* mesh: free slots, items written per reader
  num_stop_, output_stopped,      \* down thread: OutCallback, engines
  stopped_, in_stop_, push,       \* down thread: InCallback (bits, num_stop_),
                                  \* inserts still due
  input_stopped,
  feedback,                       \* what each downstream worker has sent
  saved                           \* backup server: version held per thread

mainVars == <<phase, at, stop, saved>>
boxes == <<main_to_thread_, thread_to_main_, failed>>
upVars == <<records, finished>>
computeVars == <<cpc, up_stop, down_stop, emit, version>>
downVars == <<num_stop_, output_stopped, stopped_, in_stop_, input_stopped, push, feedback>>
vars == <<mainVars, boxes, tpc, upVars, in_queue_, r_in_queue_, computeVars,
          slots, peers, downVars>>

Init ==
  /\ phase = "create" /\ at = 1 /\ stop = 0 /\ failed = FALSE
  /\ main_to_thread_ = [t \in Threads |-> <<>>]
  /\ thread_to_main_ = [t \in Threads |-> <<>>]
  /\ tpc = [t \in Threads |-> "none"]
  /\ records = 0 /\ finished = 0
  /\ in_queue_ = [k \in compute_threads_ |-> <<>>]
  /\ r_in_queue_ = [k \in compute_threads_ |-> <<>>]
  /\ cpc = [k \in compute_threads_ |-> "loop"]
  /\ up_stop = [k \in compute_threads_ |-> 0]
  /\ down_stop = [k \in compute_threads_ |-> 0]
  /\ emit = [k \in compute_threads_ |-> <<>>]
  /\ version = [k \in compute_threads_ |-> 0]
  /\ slots = [k \in compute_threads_ |-> Slots]
  /\ peers = [k \in compute_threads_ |-> [d \in Downstream |-> <<>>]]
  /\ num_stop_ = [d \in Downstream |-> 0]
  /\ output_stopped = {} /\ input_stopped = {} /\ in_stop_ = 0
  \* AddOutQueue makes a bit per compute thread; a worker_id beyond them finds
  \* an uninitialised bit of the same word.
  /\ stopped_ \in SUBSET {d \in Downstream : FirstId + d >= num_compute_thread_}
  /\ push = <<>>
  /\ feedback = [d \in Downstream |-> 0]
  /\ saved = [k \in compute_threads_ |-> 0]
-----------------------------------------------------------------------------
(* The command channels.                                                   *)

NotifyThread(t, type) ==
  main_to_thread_' = [main_to_thread_ EXCEPT ![t] = Append(@, type)]

NotifyWorker(t, type, item) ==
  thread_to_main_' = [thread_to_main_ EXCEPT ![t] = Append(@, [type |-> type, item |-> item])]

\* recv blocks until there is a command; its type is asserted.
WaitThread(t, type) ==
  /\ thread_to_main_[t] # <<>>
  /\ thread_to_main_' = [thread_to_main_ EXCEPT ![t] = Tail(@)]
  /\ failed' = (failed \/ Head(thread_to_main_[t]).type # type)

WaitWorker(t, type) ==
  /\ main_to_thread_[t] # <<>>
  /\ main_to_thread_' = [main_to_thread_ EXCEPT ![t] = Tail(@)]
  /\ failed' = (failed \/ Head(main_to_thread_[t]) # type)
-----------------------------------------------------------------------------
(* Worker::Start.                                                          *)

threadVars == <<upVars, in_queue_, r_in_queue_, computeVars, slots, peers, downVars>>

\* On to the next thread, or to the next phase after the last one.
Advance(here, after) ==
  IF at < Len(StartOrder) THEN phase' = here /\ at' = at + 1
                          ELSE phase' = after /\ at' = 1

Create ==
  /\ phase = "create"
  /\ tpc' = [tpc EXCEPT ![StartOrder[at]] = "init"]
  /\ phase' = "ready"
  /\ UNCHANGED <<at, stop, saved, boxes, threadVars>>

WaitReady ==
  /\ phase = "ready"
  /\ WaitThread(StartOrder[at], "ready")
  /\ Advance("create", "recovery")
  /\ UNCHANGED <<stop, saved, main_to_thread_, tpc, threadVars>>

\* RecoverOps writes the operators' states (module Backup says what).
RecoverOps ==
  /\ phase = "recovery"
  /\ phase' = "start"
  /\ UNCHANGED <<at, stop, saved, boxes, tpc, threadVars>>

\* Mutant: the loop ends one thread early.
NotifyReady_OneShort ==
  /\ phase = "start"
  /\ NotifyThread(StartOrder[at], "ready")
  /\ IF at + 1 < Len(StartOrder) THEN at' = at + 1 /\ UNCHANGED phase
                                 ELSE at' = 1 /\ phase' = "poll"
  /\ UNCHANGED <<stop, saved, thread_to_main_, failed, tpc, threadVars>>

NotifyReady ==
  /\ phase = "start"
  /\ NotifyThread(StartOrder[at], "ready")
  /\ Advance("start", "poll")
  /\ UNCHANGED <<stop, saved, thread_to_main_, failed, tpc, threadVars>>

\* Mutant: the request is not carried out.
MakeBackup_Skipped(t, item) == UNCHANGED saved

\* backup_client->MakeBackup returns when the server has the item (module Backup).
MakeBackup(t, item) == saved' = IF backup_client THEN [saved EXCEPT ![t] = item] ELSE saved

max_stop == num_compute_thread_ + 1

\* One turn of the polling loop for one thread, up and compute threads in turn;
\* stop is compared at the end of a round.  A backup request is forwarded to the
\* server and answered (the up thread's is not answered).
PollThread ==
  /\ phase = "poll"
  /\ LET t == StartOrder[at]
         cmd == Head(thread_to_main_[t])
     IN IF thread_to_main_[t] = <<>>
          THEN UNCHANGED <<stop, saved, boxes>>
          ELSE /\ thread_to_main_' = [thread_to_main_ EXCEPT ![t] = Tail(@)]
               /\ stop' = IF cmd.type = "finish" THEN stop + 1 ELSE stop
               /\ IF cmd.type = "backup" /\ t # up_thread_
                    THEN MakeBackup(t, cmd.item) /\ NotifyThread(t, "backup")
                    ELSE UNCHANGED <<main_to_thread_, saved>>
               /\ failed' = (failed \/ cmd.type \notin {"finish", "backup"})
  /\ IF at <= num_compute_thread_
       THEN at' = at + 1 /\ UNCHANGED phase
       ELSE at' = 1 /\ phase' = IF stop' = max_stop THEN "down" ELSE "poll"
  /\ UNCHANGED <<tpc, threadVars>>

\* Mutant: the down thread is not waited for.
WaitDown_NoWait ==
  /\ phase = "down"
  /\ phase' = "clean"
  /\ UNCHANGED <<at, stop, saved, boxes, tpc, threadVars>>

\* The down thread's finish is awaited last.
WaitDown ==
  /\ phase = "down"
  /\ IF HasDown THEN WaitThread(down_thread_, "finish")
                ELSE UNCHANGED <<thread_to_main_, failed>>
  /\ phase' = "clean"
  /\ UNCHANGED <<at, stop, saved, main_to_thread_, tpc, threadVars>>

NotifyClean ==
  /\ phase = "clean"
  /\ NotifyThread(StartOrder[at], "clean")
  /\ phase' = "cleaned"
  /\ UNCHANGED <<at, stop, saved, thread_to_main_, failed, tpc, threadVars>>

WaitClean ==
  /\ phase = "cleaned"
  /\ WaitThread(StartOrder[at], "finish")
  /\ Advance("clean", "join")
  /\ UNCHANGED <<stop, saved, main_to_thread_, tpc, threadVars>>

\* Destroy joins the thread.
Destroy ==
  /\ phase = "join"
  /\ tpc[StartOrder[at]] = "exited"
  /\ Advance("join", "finish")
  /\ UNCHANGED <<stop, saved, boxes, tpc, threadVars>>

\* zk_client->finish (module Controller), then the empty item that tells the
\* backup server of this worker's end; Start returns.
Finish ==
  /\ phase = "finish"
  /\ phase' = "done"
  /\ UNCHANGED <<at, stop, saved, boxes, tpc, threadVars>>

Start == Create \/ WaitReady \/ RecoverOps \/ NotifyReady \/ PollThread
           \/ WaitDown \/ NotifyClean \/ WaitClean \/ Destroy \/ Finish
-----------------------------------------------------------------------------
(* ThreadBase::thread_fun around the handlers.                             *)

Goto(t, from, to) == tpc[t] = from /\ tpc' = [tpc EXCEPT ![t] = to]

ThreadInit(t) ==
  /\ Goto(t, "init", "waitReady")
  /\ NotifyWorker(t, "ready", 0)
  /\ UNCHANGED <<mainVars, main_to_thread_, failed, threadVars>>

ThreadMain(t) ==
  /\ Goto(t, "waitReady", "main")
  /\ WaitWorker(t, "ready")
  /\ UNCHANGED <<mainVars, thread_to_main_, threadVars>>

\* ThreadMainHandler returns.
MainReturns(t) ==
  /\ Goto(t, "main", "waitClean")
  /\ NotifyWorker(t, "finish", 0)
  /\ UNCHANGED <<mainVars, main_to_thread_, failed, threadVars>>

ThreadClean(t) ==
  /\ Goto(t, "waitClean", "finish")
  /\ WaitWorker(t, "clean")
  /\ UNCHANGED <<mainVars, thread_to_main_, threadVars>>

ThreadFinish(t) ==
  /\ Goto(t, "finish", "exited")
  /\ NotifyWorker(t, "finish", 0)
  /\ UNCHANGED <<mainVars, main_to_thread_, failed, threadVars>>

thread_fun(t) == ThreadInit(t) \/ ThreadMain(t) \/ ThreadClean(t) \/ ThreadFinish(t)
-----------------------------------------------------------------------------
(* UpThreadTrace::ThreadMainHandler.                                       *)

\* Emit: GetSlot spins while the ring is full; the router picks the ring.
Emit(k) ==
  /\ tpc[up_thread_] = "main" /\ finished = 0
  /\ records < MaxRecords
  /\ Len(in_queue_[k]) < RB_SIZE - 1
  /\ in_queue_' = [in_queue_ EXCEPT ![k] = Append(@, "data")]
  /\ records' = records + 1
  /\ UNCHANGED <<mainVars, boxes, tpc, finished, r_in_queue_, computeVars,
                 slots, peers, downVars>>

\* The trace has ended (wherever that is): FINISH into every ring in turn.
InsertFinish ==
  /\ tpc[up_thread_] = "main"
  /\ finished < num_compute_thread_
  /\ Len(in_queue_[finished]) < RB_SIZE - 1
  /\ in_queue_' = [in_queue_ EXCEPT ![finished] = Append(@, "finish")]
  /\ finished' = finished + 1
  /\ UNCHANGED <<mainVars, boxes, tpc, records, r_in_queue_, computeVars,
                 slots, peers, downVars>>

UpReturns == finished = num_compute_thread_ /\ MainReturns(up_thread_)
-----------------------------------------------------------------------------
(* ComputeThread::ThreadMainHandler; num_upstream_ is 1 (external source). *)

otherVars == <<mainVars, tpc, upVars, downVars>>

At(k, from, to) ==
  tpc[k] = "main" /\ cpc[k] = from /\ cpc' = [cpc EXCEPT ![k] = to]

\* Mutant: the loop ends when either side has finished.
Stopped_Either(k) == up_stop[k] = 1 \/ down_stop[k] = num_downstream_

Stopped(k) == up_stop[k] = 1 /\ down_stop[k] = num_downstream_

\* Extract may return NULL though the ring holds items of an unpublished batch;
\* FINISH is flushed, and a full ring shows some (RingBuffer's NoMutualBlock).
ShowsNothing(queue) ==
  \/ queue = <<>>
  \/ Len(queue) < RB_SIZE - 1 /\ \A i \in 1 .. Len(queue) : queue[i] # "finish"

LoopTest(k) ==
  /\ At(k, "loop", "reverse")
  /\ ~Stopped(k)
  /\ UNCHANGED <<otherVars, boxes, in_queue_, r_in_queue_, up_stop, down_stop,
                 emit, version, slots, peers>>

\* One item of the reverse ring; ProcessFeedback is the application's.
ReverseItem(k) ==
  /\ At(k, "reverse", "reverse")
  /\ down_stop[k] < num_downstream_
  /\ r_in_queue_[k] # <<>>
  /\ r_in_queue_' = [r_in_queue_ EXCEPT ![k] = Tail(@)]
  /\ down_stop' = IF Head(r_in_queue_[k]) = "finish"
                    THEN [down_stop EXCEPT ![k] = @ + 1] ELSE down_stop
  /\ UNCHANGED <<otherVars, boxes, in_queue_, up_stop, emit, version, slots, peers>>

ReverseEmpty(k) ==
  /\ At(k, "reverse", "forward")
  /\ down_stop[k] = num_downstream_ \/ ShowsNothing(r_in_queue_[k])
  /\ UNCHANGED <<otherVars, boxes, in_queue_, r_in_queue_, up_stop, down_stop,
                 emit, version, slots, peers>>

\* Nothing to do: every upstream has finished, or the ring is empty.  In the
\* first case AttemptClean pops the slots that are back; no one takes a slot any
\* more, and `slots' counts those not under way, popped or not.
ForwardIdle(k) ==
  /\ At(k, "forward", "loop")
  /\ up_stop[k] = 1 \/ ShowsNothing(in_queue_[k])
  /\ UNCHANGED <<otherVars, boxes, in_queue_, r_in_queue_, up_stop, down_stop,
                 emit, version, slots, peers>>

\* ProcessData updates the state and may emit.
ForwardData(k) ==
  /\ At(k, "forward", "emit")
  /\ up_stop[k] < 1
  /\ in_queue_[k] # <<>> /\ Head(in_queue_[k]) = "data"
  /\ in_queue_' = [in_queue_ EXCEPT ![k] = Tail(@)]
  /\ version' = [version EXCEPT ![k] = @ + 1]
  /\ \E dests \in {<<>>} \cup {<<d>> : d \in Downstream} :
       emit' = [emit EXCEPT ![k] = dests]
  /\ UNCHANGED <<otherVars, boxes, r_in_queue_, up_stop, down_stop, slots, peers>>

\* The destinations of FINISH, in order.
EmitFinish == [i \in 1 .. num_downstream_ |-> i - 1]

\* FINISH: EmitFinish to every downstream worker, and go on looping.
ForwardFinish(k) ==
  /\ At(k, "forward", "emit")
  /\ up_stop[k] < 1
  /\ in_queue_[k] # <<>> /\ Head(in_queue_[k]) = "finish"
  /\ in_queue_' = [in_queue_ EXCEPT ![k] = Tail(@)]
  /\ up_stop' = [up_stop EXCEPT ![k] = @ + 1]
  /\ emit' = [emit EXCEPT ![k] = EmitFinish]
  /\ UNCHANGED <<otherVars, boxes, r_in_queue_, down_stop, version, slots, peers>>

\* EmitData and EmitWrapData: GetSlot spins until a slot is free.
EmitData(k) ==
  /\ At(k, "emit", "emit")
  /\ emit[k] # <<>>
  /\ slots[k] > 0
  /\ slots' = [slots EXCEPT ![k] = @ - 1]
  /\ peers' = [peers EXCEPT ![k][Head(emit[k])] =
                 Append(@, IF up_stop[k] = 1 THEN "finish" ELSE "data")]
  /\ emit' = [emit EXCEPT ![k] = Tail(@)]
  /\ UNCHANGED <<otherVars, boxes, in_queue_, r_in_queue_, up_stop, down_stop, version>>

\* No operator's divergence exceeds its threshold.
NoDivergence(k) ==
  /\ At(k, "emit", "loop")
  /\ emit[k] = <<>>
  /\ UNCHANGED <<otherVars, boxes, in_queue_, r_in_queue_, up_stop, down_stop,
                 emit, version, slots, peers>>

\* An operator diverged after a data item: send its state, wait for the answer.
NotifyBackup(k) ==
  /\ At(k, "emit", "backup")
  /\ emit[k] = <<>> /\ up_stop[k] = 0
  /\ NotifyWorker(k, "backup", version[k])
  /\ UNCHANGED <<otherVars, main_to_thread_, failed, in_queue_, r_in_queue_,
                 up_stop, down_stop, emit, version, slots, peers>>

WaitBackup(k) ==
  /\ At(k, "backup", "loop")
  /\ WaitWorker(k, "backup")
  /\ UNCHANGED <<otherVars, thread_to_main_, in_queue_, r_in_queue_, up_stop,
                 down_stop, emit, version, slots, peers>>

\* AttemptClean once more; the reverse writer's FINISH and Clean are in module
\* Mesh.
ComputeReturns(k) == cpc[k] = "loop" /\ Stopped(k) /\ MainReturns(k)

ComputeThread(k) ==
  \/ LoopTest(k) \/ ReverseItem(k) \/ ReverseEmpty(k)
  \/ ForwardIdle(k) \/ ForwardData(k) \/ ForwardFinish(k)
  \/ EmitData(k) \/ NoDivergence(k) \/ NotifyBackup(k) \/ WaitBackup(k)
  \/ ComputeReturns(k)
-----------------------------------------------------------------------------
(* DownThreadNet: the poller's loop with one engine per downstream worker. *)
(* Module Stream models engines and poller; a downstream worker answers    *)
(* our FINISH with its own, after feedback.                                *)

DownRuns == HasDown /\ tpc[down_thread_] = "main" /\ push = <<>>

\* PullRecord and the encoder's Ack: the last of the compute threads' FINISHes
\* is sent on and stops the output, the others are dropped.
PullRecord(k, d) ==
  /\ DownRuns
  /\ d \notin output_stopped
  /\ peers[k][d] # <<>>
  /\ peers' = [peers EXCEPT ![k][d] = Tail(@)]
  /\ slots' = [slots EXCEPT ![k] = @ + 1]
  /\ IF Head(peers[k][d]) = "finish"
       THEN /\ num_stop_' = [num_stop_ EXCEPT ![d] = @ + 1]
            /\ output_stopped' = IF num_stop_[d] + 1 = num_compute_thread_
                                   THEN output_stopped \cup {d} ELSE output_stopped
       ELSE UNCHANGED <<num_stop_, output_stopped>>
  /\ UNCHANGED <<mainVars, boxes, tpc, upVars, in_queue_, r_in_queue_, computeVars,
                 stopped_, in_stop_, input_stopped, push, feedback>>

\* PushRecord of a feedback item: GetDestination is always 0.
PushFeedback(d) ==
  /\ DownRuns
  /\ feedback[d] < MaxFeedback
  /\ feedback' = [feedback EXCEPT ![d] = @ + 1]
  /\ push' = <<[queue |-> 0, item |-> "reverse"]>>
  /\ UNCHANGED <<mainVars, boxes, tpc, upVars, in_queue_, r_in_queue_, computeVars,
                 slots, peers, num_stop_, output_stopped, stopped_, in_stop_, input_stopped>>

\* PushRecord of a FINISH: into every ring, unless its bit is set; the last one
\* stops this engine's input.
PushFinish(d) ==
  /\ DownRuns
  /\ d \in output_stopped /\ feedback[d] <= MaxFeedback
  /\ feedback' = [feedback EXCEPT ![d] = MaxFeedback + 1]
  /\ IF d \in stopped_
       THEN UNCHANGED <<stopped_, in_stop_, push, input_stopped>>
       ELSE /\ stopped_' = stopped_ \cup {d}
            /\ in_stop_' = in_stop_ + 1
            /\ push' = [i \in 1 .. num_compute_thread_ |-> [queue |-> i - 1, item |-> "finish"]]
            /\ input_stopped' = IF in_stop_ + 1 = num_downstream_
                                  THEN input_stopped \cup {d} ELSE input_stopped
  /\ UNCHANGED <<mainVars, boxes, tpc, upVars, in_queue_, r_in_queue_, computeVars,
                 slots, peers, num_stop_, output_stopped>>

\* Insert into a reverse ring spins while the ring is full.
InsertReverse ==
  /\ push # <<>>
  /\ LET q == Head(push).queue IN
       /\ Len(r_in_queue_[q]) < RB_SIZE - 1
       /\ r_in_queue_' = [r_in_queue_ EXCEPT ![q] = Append(@, Head(push).item)]
  /\ push' = Tail(push)
  /\ UNCHANGED <<mainVars, boxes, tpc, upVars, in_queue_, computeVars, slots, peers,
                 num_stop_, output_stopped, stopped_, in_stop_, input_stopped, feedback>>

\* An engine whose input and output have stopped ends the poller's loop.
DownReturns ==
  DownRuns /\ input_stopped \cap output_stopped # {} /\ MainReturns(down_thread_)

UpThread == InsertFinish \/ UpReturns \/ \E k \in compute_threads_ : Emit(k)

DownThread ==
  \/ InsertReverse \/ DownReturns
  \/ \E d \in Downstream :
       PushFeedback(d) \/ PushFinish(d) \/ \E k \in compute_threads_ : PullRecord(k, d)
-----------------------------------------------------------------------------
Terminated == phase = "done" /\ UNCHANGED vars

Next ==
  \/ Start \/ UpThread \/ DownThread \/ Terminated
  \/ \E t \in Threads : thread_fun(t)
  \/ \E k \in compute_threads_ : ComputeThread(k)

Spec == Init /\ [][Next]_vars

\* Threads are scheduled fairly.  The poller serves every engine that is ready
\* (epoll reports all of them), so each engine's steps are fair; a downstream
\* worker answers FINISH; the trace is finite.
FairSpec ==
  /\ Spec
  /\ WF_vars(Start)
  /\ \A t \in Threads : WF_vars(thread_fun(t))
  /\ \A k \in compute_threads_ : WF_vars(ComputeThread(k))
  /\ WF_vars(UpThread) /\ WF_vars(InsertReverse) /\ WF_vars(DownReturns)
  /\ \A d \in Downstream :
       WF_vars(PushFinish(d)) /\ WF_vars(\E k \in compute_threads_ : PullRecord(k, d))
-----------------------------------------------------------------------------
(* Properties.                                                             *)

AfterMain == {"waitClean", "finish", "exited"}

\* Every variable holds a value of its kind and every queue respects its bound.
TypeOK ==
  /\ phase \in {"create", "ready", "recovery", "start", "poll", "down", "clean",
                "cleaned", "join", "finish", "done"}
  /\ at \in 1 .. Len(StartOrder) /\ stop \in 0 .. num_compute_thread_ + 1
  /\ failed \in BOOLEAN
  /\ tpc \in [Threads -> {"none", "init", "waitReady", "main"} \cup AfterMain]
  /\ \A t \in Threads : Len(main_to_thread_[t]) <= 1 /\ Len(thread_to_main_[t]) <= 1
  /\ records \in 0 .. MaxRecords /\ finished \in 0 .. num_compute_thread_
  /\ \A k \in compute_threads_ :
       /\ Len(in_queue_[k]) < RB_SIZE /\ Len(r_in_queue_[k]) < RB_SIZE
       /\ slots[k] \in 0 .. Slots
       /\ up_stop[k] \in 0 .. 1 /\ down_stop[k] \in 0 .. num_downstream_
       /\ cpc[k] \in {"loop", "reverse", "forward", "emit", "backup"}
  /\ output_stopped \subseteq Downstream /\ stopped_ \subseteq Downstream
  /\ input_stopped \subseteq Downstream

\* No afs_assert on a command's type fails (WaitThread, WaitWorker, the polling
\* loop): a finish is never taken for a backup, a ready for a clean, whatever
\* the interleaving of the threads' and the main thread's sends.
AssertsHold == ~failed

\* RecoverOps writes the operators while no thread runs its main handler, and
\* after every thread has registered its operators.
RecoveryExclusive ==
  /\ phase \in {"create", "ready", "recovery"} => \A t \in Threads : tpc[t] # "main"
  /\ phase = "recovery" => \A t \in Threads : tpc[t] = "waitReady"

\* A compute thread goes on after a backup only when the server holds the state
\* it serialised.
BackupDurable ==
  [][\A k \in compute_threads_ :
       (cpc[k] = "backup" /\ cpc'[k] = "loop" /\ backup_client) => saved[k] = version[k]]_vars

\* Finish handlers run one at a time and only after every main handler returned.
CleanExclusive ==
  \A t, u \in Threads :
    tpc[t] = "finish" => tpc[u] \in AfterMain /\ (tpc[u] = "finish" => u = t)

\* No handler works on what another thread may use: initialisation and recovery
\* come before every main handler, finish handlers after the last one (Start,
\* thread_fun); and no receive takes a command of the wrong type.
WorkerInv == TypeOK /\ AssertsHold /\ RecoveryExclusive /\ CleanExclusive

\* A compute thread returns only when it has processed everything that reached
\* it and the down thread has sent everything it emitted: FINISH overtakes
\* nothing in either direction.
Drained ==
  \A k \in compute_threads_ : tpc[k] \in AfterMain =>
    /\ in_queue_[k] = <<>> /\ r_in_queue_[k] = <<>>
    /\ \A d \in Downstream : peers[k][d] = <<>>

\* A compute thread that has sent FINISH gets the FINISH of every downstream
\* worker, as the comment at compute_thread.hpp:318 expects.
FinishFromDownstream ==
  \A k \in compute_threads_ : up_stop[k] = 1 ~> down_stop[k] = num_downstream_

\* Start returns, having joined every thread: no thread waits for ever on a
\* command, a ring or a slot, when the reverse rings can hold the feedback.
Terminates == <>(phase = "done")
=============================================================================
