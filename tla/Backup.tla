------------------------------- MODULE Backup -------------------------------
(***************************************************************************)
(* Approximate fault tolerance of a worker: the operators of its compute   *)
(* threads (NumericArray_MAX, src/operator/array_max.hpp), the divergence  *)
(* test at the end of each turn of the compute loop, the backup requests   *)
(* that the main thread carries to the backup server                       *)
(* (src/fault_tolerance), a crash of the worker at any point and its       *)
(* restart in recovery mode.                                               *)
(*                                                                         *)
(* An operator is a pair of a thread and its index among the thread's      *)
(* operators (MAKE_OP_KEY).  The thread hands its request to the main      *)
(* thread and waits (module Worker); the main thread has one request out   *)
(* at a time (a REQ socket).  A crash leaves a request that was sent and   *)
(* not yet served to reach the server later, or never.                     *)
(***************************************************************************)
EXTENDS Integers, Sequences, FiniteSets

CONSTANTS Threads, NumOps,     \* compute threads, operators of each
          Index,               \* indices of an array
          theta_,              \* divergence threshold
          Values,              \* what an update may add to an element
          Updates,             \* updates of one operator that an item may cause
          LateDelivery,        \* may the server see a dead worker's request
                               \* after the worker has been restarted
          MaxValue, MaxCrashes, MaxWindows   \* bounds

ASSUME BackupAssumption ==
  /\ NumOps \in Nat \ {0} /\ Updates \in Nat \ {0}
  /\ 0 \in Index
  /\ theta_ \in Nat /\ Values \subseteq Nat
  /\ LateDelivery \in BOOLEAN
  /\ MaxValue \in Nat /\ MaxCrashes \in Nat /\ MaxWindows \in Nat

Operators == Threads \X (0 .. NumOps - 1)

VARIABLES
  array, backup_array, max_diff, max_diff_index,  \* the operators
  pc, op, tuple, updates,  \* compute threads: place in the loop, operator looked
                           \* at, is tuple non-NULL, updates made for this item
  null_read,               \* get_seq was called through a NULL tuple
  command,                 \* backup command sent to the main thread, per thread
  request,                 \* what the main thread has out: nothing or an item
  late,                    \* requests of crashed workers, sent and not served
  content,                 \* server: value saved per operator and key, or None
  worker, count,           \* place in Start; answer to the first recovery query
  overrun,                 \* the recovery data did not fit the buffer
  ideal, crashes, windows  \* history: what was added, crashes, Clears

ops == <<array, backup_array, max_diff, max_diff_index>>
threadVars == <<pc, op, tuple, updates, null_read>>
serverVars == <<late, content>>
workerVars == <<worker, count, overrun, crashes>>
vars == <<ops, threadVars, command, request, serverVars, workerVars, ideal, windows>>

None == -1
Zero == [o \in Operators |-> [x \in Index |-> 0]]

\* An item on its way to the server; NoItem is no item.
Item(o, key, value) == [op |-> o, key |-> key, value |-> value]
Items == [op : Operators, key : Index, value : 0 .. MaxValue]
NoItem == [op |-> <<>>, key |-> None, value |-> None]

\* The constructors: what a process starts with.
Fresh ==
  /\ array' = Zero /\ backup_array' = Zero
  /\ max_diff' = [o \in Operators |-> 0] /\ max_diff_index' = [o \in Operators |-> 0]
  /\ pc' = [t \in Threads |-> "loop"] /\ op' = [t \in Threads |-> 0]
  /\ tuple' = [t \in Threads |-> FALSE]
  /\ updates' = [o \in Operators |-> 0]
  /\ command' = [t \in Threads |-> NoItem] /\ request' = NoItem

Init ==
  /\ array = Zero /\ backup_array = Zero
  /\ max_diff = [o \in Operators |-> 0] /\ max_diff_index = [o \in Operators |-> 0]
  /\ pc = [t \in Threads |-> "loop"] /\ op = [t \in Threads |-> 0]
  /\ tuple = [t \in Threads |-> FALSE]
  /\ updates = [o \in Operators |-> 0]
  /\ null_read = FALSE
  /\ command = [t \in Threads |-> NoItem] /\ request = NoItem
  /\ late = {} /\ content = [o \in Operators |-> [x \in Index |-> None]]
  /\ worker = "run" /\ count = 0 /\ overrun = FALSE
  /\ ideal = Zero /\ crashes = 0 /\ windows = 0
-----------------------------------------------------------------------------
(* The compute loop.                                                       *)

Runs(t, place) == worker = "run" /\ pc[t] = place

\* Extract returned NULL: the divergence test follows all the same.
NoTuple(t) ==
  /\ Runs(t, "loop")
  /\ pc' = [pc EXCEPT ![t] = "check"] /\ op' = [op EXCEPT ![t] = 0]
  /\ tuple' = [tuple EXCEPT ![t] = FALSE]
  /\ UNCHANGED <<ops, updates, null_read, command, request, serverVars, workerVars,
                 ideal, windows>>

\* An item: ProcessData begins.
ProcessData(t) ==
  /\ Runs(t, "loop")
  /\ pc' = [pc EXCEPT ![t] = "process"]
  /\ tuple' = [tuple EXCEPT ![t] = TRUE]
  /\ updates' = [o \in Operators |-> IF o[1] = t THEN 0 ELSE updates[o]]
  /\ UNCHANGED <<ops, op, null_read, command, request, serverVars, workerVars,
                 ideal, windows>>

\* Mutant: max_diff is kept though the larger difference is found.
UpdateValue_NoIndex(o, x, value) ==
  /\ array' = [array EXCEPT ![o][x] = value]
  /\ max_diff' = [max_diff EXCEPT ![o] =
       IF value - backup_array[o][x] > max_diff[o] THEN value - backup_array[o][x] ELSE @]
  /\ UNCHANGED <<backup_array, max_diff_index>>

UpdateValue(o, x, value) ==
  /\ array' = [array EXCEPT ![o][x] = value]
  /\ IF value - backup_array[o][x] > max_diff[o]
       THEN /\ max_diff' = [max_diff EXCEPT ![o] = value - backup_array[o][x]]
            /\ max_diff_index' = [max_diff_index EXCEPT ![o] = x]
       ELSE UNCHANGED <<max_diff, max_diff_index>>
  /\ UNCHANGED backup_array

\* UpdateSketch (or the merger's SetValue): the new value is the old plus v.
UpdateSketch(t, o, x, v) ==
  /\ Runs(t, "process")
  /\ o[1] = t
  /\ updates[o] < Updates
  /\ array[o][x] + v <= MaxValue
  /\ UpdateValue(o, x, array[o][x] + v)
  /\ updates' = [updates EXCEPT ![o] = @ + 1]
  /\ ideal' = [ideal EXCEPT ![o][x] = @ + v]
  /\ UNCHANGED <<pc, op, tuple, null_read, command, request, serverVars, workerVars,
                 windows>>

\* ProcessData returns.
Processed(t) ==
  /\ Runs(t, "process")
  /\ pc' = [pc EXCEPT ![t] = "check"] /\ op' = [op EXCEPT ![t] = 0]
  /\ UNCHANGED <<ops, tuple, updates, null_read, command, request, serverVars,
                 workerVars, ideal, windows>>

\* Clear of each operator of thread t; max_diff_index keeps its value.
Clear(t) ==
  /\ array' = [o \in Operators |-> IF o[1] = t THEN Zero[o] ELSE array[o]]
  /\ backup_array' = [o \in Operators |-> IF o[1] = t THEN Zero[o] ELSE backup_array[o]]
  /\ max_diff' = [o \in Operators |-> IF o[1] = t THEN 0 ELSE max_diff[o]]

\* The end of a window.
TerminateWindow(t) ==
  /\ Runs(t, "process")
  /\ windows < MaxWindows
  /\ windows' = windows + 1
  /\ Clear(t)
  /\ pc' = [pc EXCEPT ![t] = "check"] /\ op' = [op EXCEPT ![t] = 0]
  /\ UNCHANGED <<max_diff_index, tuple, updates, null_read, command, request,
                 serverVars, workerVars, ideal>>

SerializeState(o) ==
  /\ backup_array' = [backup_array EXCEPT ![o][max_diff_index[o]] = array[o][max_diff_index[o]]]
  /\ max_diff_index' = [max_diff_index EXCEPT ![o] = 0]
  /\ max_diff' = [max_diff EXCEPT ![o] = 0]
  /\ UNCHANGED array

\* The next operator, or the top of the loop after the last.
NextOperator(t) ==
  IF op[t] + 1 < NumOps
    THEN op' = [op EXCEPT ![t] = @ + 1] /\ pc' = [pc EXCEPT ![t] = "check"]
    ELSE pc' = [pc EXCEPT ![t] = "loop"] /\ UNCHANGED op

\* CalculateDivergence () > GetDivergenceThresh () fails for this operator.
WithinThresh(t) ==
  /\ Runs(t, "check")
  /\ ~(max_diff[<<t, op[t]>>] > theta_)
  /\ NextOperator(t)
  /\ UNCHANGED <<ops, tuple, updates, null_read, command, request, serverVars,
                 workerVars, ideal, windows>>

\* It holds: serialise, read the tuple's seq, notify the main thread and wait.
Diverged(t) ==
  LET o == <<t, op[t]>> IN
  /\ Runs(t, "check")
  /\ max_diff[o] > theta_
  /\ command' = [command EXCEPT ![t] =
                   Item(o, max_diff_index[o], array[o][max_diff_index[o]])]
  /\ SerializeState(o)
  /\ null_read' = (null_read \/ ~tuple[t])
  /\ pc' = [pc EXCEPT ![t] = "wait"]
  /\ UNCHANGED <<op, tuple, updates, request, serverVars, workerVars, ideal, windows>>
-----------------------------------------------------------------------------
(* The main thread and the server.                                         *)

\* MakeBackup sends the item of one of the threads; the REP answer comes first.
MakeBackup(t) ==
  /\ worker = "run"
  /\ request = NoItem /\ command[t] # NoItem
  /\ request' = command[t]
  /\ command' = [command EXCEPT ![t] = NoItem]
  /\ UNCHANGED <<ops, threadVars, serverVars, workerVars, ideal, windows>>

\* Mutant: a key that is present keeps its first value.
SaveBackup_KeepsFirst(item) ==
  content' = [content EXCEPT ![item.op][item.key] = IF @ = None THEN item.value ELSE @]

\* Mutant: the item is acknowledged and not copied.
SaveBackup_Skipped(item) == UNCHANGED content

\* SelectSlot finds the key's slot or takes a new one; the item is copied there.
SaveBackup(item) == content' = [content EXCEPT ![item.op][item.key] = item.value]

\* The server saves and answers; the main thread notifies the thread.
Serve ==
  /\ request # NoItem
  /\ SaveBackup(request)
  /\ request' = NoItem
  /\ NextOperator(request.op[1])
  /\ UNCHANGED <<ops, tuple, updates, null_read, command, late, workerVars, ideal, windows>>

\* The server serves what a crashed worker had sent; nobody waits for the answer.
ServeLate(item) ==
  /\ item \in late
  /\ LateDelivery \/ worker = "dead"
  /\ SaveBackup(item)
  /\ late' = late \ {item}
  /\ UNCHANGED <<ops, threadVars, command, request, workerVars, ideal, windows>>
-----------------------------------------------------------------------------
(* Crash and recovery.                                                     *)

Crash ==
  /\ worker # "dead" /\ crashes < MaxCrashes
  /\ worker' = "dead" /\ crashes' = crashes + 1
  /\ late' = IF request = NoItem THEN late ELSE late \cup {request}
  /\ Fresh
  /\ UNCHANGED <<null_read, content, count, overrun, ideal, windows>>

\* Restarted with recovery > 0; what is late now may also be lost.
Restart ==
  /\ worker = "dead"
  /\ worker' = "count"
  /\ late' = IF LateDelivery THEN late ELSE {}
  /\ UNCHANGED <<ops, threadVars, command, request, content, count, overrun, crashes,
                 ideal, windows>>

Saved == {p \in Operators \X Index : content[p[1]][p[2]] # None}

\* What the server counts for either query.
tot_count == Cardinality(Saved)

\* RetriveBackups, first query: how many items there are.
ReadLen ==
  /\ worker = "count"
  /\ count' = tot_count
  /\ worker' = "data"
  /\ UNCHANGED <<ops, threadVars, command, request, serverVars, overrun, crashes,
                 ideal, windows>>

\* The elements of a, array or backup_array, that the server has an item for
\* become what was saved.
RecoveryState(a) ==
  [o \in Operators |-> [x \in Index |-> IF content[o][x] = None THEN a[o][x] ELSE content[o][x]]]

\* Second query, into a buffer for `count' items, and RecoverOps.
ReadData ==
  /\ worker = "data"
  /\ overrun' = (overrun \/ tot_count > count)
  /\ array' = RecoveryState(array)
  /\ backup_array' = RecoveryState(backup_array)
  /\ worker' = "run"
  /\ UNCHANGED <<max_diff, max_diff_index, threadVars, command, request, serverVars,
                 count, crashes, ideal, windows>>
-----------------------------------------------------------------------------
ComputeLoop(t) ==
  \/ NoTuple(t) \/ ProcessData(t) \/ Processed(t) \/ TerminateWindow(t)
  \/ WithinThresh(t) \/ Diverged(t) \/ MakeBackup(t)
  \/ \E o \in Operators, x \in Index, v \in Values : UpdateSketch(t, o, x, v)

Next ==
  \/ Serve \/ Crash \/ Restart \/ ReadLen \/ ReadData
  \/ \E item \in late : ServeLate(item)
  \/ \E t \in Threads : ComputeLoop(t)

Spec == Init /\ [][Next]_vars
-----------------------------------------------------------------------------
(* Properties.                                                             *)

\* Every variable holds a value of its kind; values stay within the bound.
TypeOK ==
  /\ array \in [Operators -> [Index -> 0 .. MaxValue]]
  /\ backup_array \in [Operators -> [Index -> 0 .. MaxValue]]
  /\ max_diff \in [Operators -> 0 .. MaxValue] /\ max_diff_index \in [Operators -> Index]
  /\ pc \in [Threads -> {"loop", "process", "check", "wait"}]
  /\ op \in [Threads -> 0 .. NumOps - 1]
  /\ tuple \in [Threads -> BOOLEAN] /\ updates \in [Operators -> 0 .. Updates]
  /\ null_read \in BOOLEAN
  /\ command \in [Threads -> Items \cup {NoItem}] /\ request \in Items \cup {NoItem}
  /\ late \subseteq Items
  /\ content \in [Operators -> [Index -> 0 .. MaxValue \cup {None}]]
  /\ worker \in {"run", "dead", "count", "data"}
  /\ overrun \in BOOLEAN
  /\ ideal \in [Operators -> [Index -> Nat]]
  /\ crashes \in 0 .. MaxCrashes /\ windows \in 0 .. MaxWindows

\* What a recovery would give the element.
Recovered(o, x) == IF content[o][x] = None THEN 0 ELSE content[o][x]

\* The item of a waiting thread: still with the main thread, or sent.
Waiting(t) == IF command[t] # NoItem THEN command[t] ELSE request

\* A thread waits exactly when its one item is under way; outside of "run"
\* there are neither items nor threads.
HandshakeInv ==
  /\ \A t \in Threads :
       /\ pc[t] = "wait" =>
            /\ command[t] # NoItem => command[t] \in Items
            /\ command[t] = NoItem => request \in Items
            /\ Waiting(t).op = <<t, op[t]>>
       /\ pc[t] # "wait" => command[t] = NoItem
  /\ request # NoItem =>
       request.op[1] \in Threads /\ pc[request.op[1]] = "wait"
         /\ command[request.op[1]] = NoItem
  /\ worker # "run" =>
       /\ \A t \in Threads : pc[t] = "loop"
       /\ array = Zero /\ backup_array = Zero /\ request = NoItem

\* max_diff exceeds the threshold only from an update to the divergence test
\* of that operator in the same turn, which has an item.
LoopInv ==
  /\ \A t \in Threads : pc[t] = "process" => tuple[t]
  /\ \A t \in Threads, n \in 0 .. NumOps - 1 :
       max_diff[<<t, n>>] > theta_ =>
         /\ tuple[t]
         /\ \/ pc[t] = "process" /\ updates[<<t, n>>] > 0
            \/ pc[t] = "check" /\ op[t] <= n
            \/ pc[t] = "wait" /\ op[t] < n

\* An element that is above its backup by more than the threshold is the one
\* that max_diff and max_diff_index describe, so there is at most one.
ElementInv ==
  \A o \in Operators, x \in Index :
    /\ backup_array[o][x] <= array[o][x]
    /\ array[o][x] - backup_array[o][x] > theta_ =>
         max_diff[o] = array[o][x] - backup_array[o][x] /\ max_diff_index[o] = x

\* The server holds backup_array, but for the element under way.
ServerInv ==
  /\ late # {} => worker = "dead"
  /\ (worker = "run" /\ windows = 0) =>
       \A t \in Threads, n \in 0 .. NumOps - 1, x \in Index :
         IF pc[t] = "wait" /\ op[t] = n /\ Waiting(t).key = x
           THEN Waiting(t).value = backup_array[<<t, n>>][x]
           ELSE Recovered(<<t, n>>, x) = backup_array[<<t, n>>][x]

\* The inductive invariant behind ErrorBound, when an item updates an operator
\* once and no dead worker's request reaches the server after a restart.
BackupInv == TypeOK /\ HandshakeInv /\ LoopInv /\ ElementInv /\ ServerInv

\* Whenever a compute thread is between two items, each element of each of its
\* operators is above what the server would restore by at most the threshold:
\* resetting max_diff after a backup forgets no element that is out of bounds.
\* (In the first window: Clear does not reach the server.)
ErrorBound ==
  \A t \in Threads : (Runs(t, "loop") /\ windows = 0) =>
    \A n \in 0 .. NumOps - 1, x \in Index :
      array[<<t, n>>][x] - Recovered(<<t, n>>, x) \in 0 .. theta_

\* Each crash costs an element no more than the threshold and one update,
\* however the crash falls between update, request, save and answer.
CrashLoss ==
  (worker = "run" /\ windows = 0) =>
    \A o \in Operators, x \in Index, m \in 0 .. MaxValue :
      (\A v \in Values : v <= m) =>
        ideal[o][x] - array[o][x] \in 0 .. crashes * (theta_ + m)

\* A backup's seq is never read through the NULL that Extract returned: an
\* operator diverges only in a turn of the loop that had an item.
NoNullTuple == ~null_read

\* The answer to "read len" is the length of what "read data" then returns.
ReadLenIsLength == ~overrun
=============================================================================
