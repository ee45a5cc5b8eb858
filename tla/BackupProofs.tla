---------------------------- MODULE BackupProofs ----------------------------
(***************************************************************************)
(* Proofs about Backup: the divergence test is sound for any number of     *)
(* threads, operators, elements and crashes and any threshold.             *)
(***************************************************************************)
EXTENDS Backup, TLAPS

USE BackupAssumption

\* What the constructors put in every element.
LEMMA ZeroElements == \A o \in Operators, x \in Index : Zero[o][x] = 0
BY DEF Zero

\* The types hold initially.
LEMMA BackupTypeInit == Init => TypeOK
<1> SUFFICES ASSUME Init PROVE TypeOK
  OBVIOUS
<1>1. array \in [Operators -> [Index -> 0 .. MaxValue]]
        /\ backup_array \in [Operators -> [Index -> 0 .. MaxValue]]
        /\ ideal \in [Operators -> [Index -> Nat]]
  BY DEF Init, Zero
<1>2. content \in [Operators -> [Index -> 0 .. MaxValue \cup {None}]]
  BY DEF Init
<1>3. max_diff \in [Operators -> 0 .. MaxValue] /\ max_diff_index \in [Operators -> Index]
        /\ updates \in [Operators -> 0 .. Updates]
  BY DEF Init
<1>4. pc \in [Threads -> {"loop", "process", "check", "wait"}]
        /\ op \in [Threads -> 0 .. NumOps - 1] /\ tuple \in [Threads -> BOOLEAN]
  BY DEF Init
<1>5. command \in [Threads -> Items \cup {NoItem}] /\ request \in Items \cup {NoItem}
        /\ late \subseteq Items
  BY DEF Init
<1>6. null_read \in BOOLEAN /\ overrun \in BOOLEAN
  BY Zenon DEF Init
<1>7. worker \in {"run", "dead", "count", "data"}
        /\ crashes \in 0 .. MaxCrashes /\ windows \in 0 .. MaxWindows
  BY DEF Init
<1> QED
  BY <1>1, <1>2, <1>3, <1>4, <1>5, <1>6, <1>7 DEF TypeOK

\* Every action of the threads, the server and the recovery keeps the types;
\* for the arrays this is the bound MaxValue on what an update may reach.
LEMMA BackupTypeStep == TypeOK /\ [Next]_vars => TypeOK'
<1> SUFFICES ASSUME TypeOK, [Next]_vars PROVE TypeOK'
  OBVIOUS
<1> USE DEF TypeOK, ops, threadVars, serverVars, workerVars
<1>op. ASSUME NEW t \in Threads, op[t] \in 0 .. NumOps - 1, NextOperator(t)
       PROVE  pc' \in [Threads -> {"loop", "process", "check", "wait"}]
                /\ op' \in [Threads -> 0 .. NumOps - 1]
  <2>1. CASE op[t] + 1 < NumOps
    <3>1. op' = [op EXCEPT ![t] = op[t] + 1] /\ pc' = [pc EXCEPT ![t] = "check"]
      BY <1>op, <2>1 DEF NextOperator
    <3>2. op[t] + 1 \in 0 .. NumOps - 1
      BY <1>op, <2>1
    <3> QED
      BY <3>1, <3>2
  <2>2. CASE ~(op[t] + 1 < NumOps)
    BY <1>op, <2>2 DEF NextOperator
  <2> QED
    BY <2>1, <2>2
<1>o. \A t \in Threads : <<t, op[t]>> \in Operators
  BY DEF Operators
<1>z. Zero \in [Operators -> [Index -> 0 .. MaxValue]]
  BY DEF Zero
<1>1. CASE \E t \in Threads : NoTuple(t)
  BY <1>1 DEF NoTuple
<1>2. CASE \E t \in Threads : ProcessData(t)
  BY <1>2 DEF ProcessData
<1>3. ASSUME NEW t \in Threads, NEW o \in Operators, NEW x \in Index, NEW v \in Values,
             UpdateSketch(t, o, x, v)
      PROVE  TypeOK'
  <2>1. array[o][x] \in 0 .. MaxValue /\ backup_array[o][x] \in 0 .. MaxValue
          /\ max_diff[o] \in 0 .. MaxValue /\ v \in Nat
    OBVIOUS
  <2>2. array[o][x] + v \in 0 .. MaxValue
    BY <1>3, <2>1 DEF UpdateSketch
  <2>3. array' \in [Operators -> [Index -> 0 .. MaxValue]]
    BY <1>3, <2>2 DEF UpdateSketch, UpdateValue
  <2>4. max_diff' \in [Operators -> 0 .. MaxValue] /\ max_diff_index' \in [Operators -> Index]
    <3>1. CASE array[o][x] + v - backup_array[o][x] > max_diff[o]
      <4>1. array[o][x] + v - backup_array[o][x] \in 0 .. MaxValue
        BY <2>1, <2>2, <3>1
      <4>2. max_diff' = [max_diff EXCEPT ![o] = array[o][x] + v - backup_array[o][x]]
              /\ max_diff_index' = [max_diff_index EXCEPT ![o] = x]
        BY <1>3, <3>1 DEF UpdateSketch, UpdateValue
      <4> QED
        BY <4>1, <4>2
    <3>2. CASE ~(array[o][x] + v - backup_array[o][x] > max_diff[o])
      BY <1>3, <3>2 DEF UpdateSketch, UpdateValue
    <3> QED
      BY <3>1, <3>2
  <2>5. ideal' \in [Operators -> [Index -> Nat]]
    BY <1>3, <2>1 DEF UpdateSketch
  <2>6. updates' \in [Operators -> 0 .. Updates]
    BY <1>3 DEF UpdateSketch
  <2> QED
    BY <1>3, <2>3, <2>4, <2>5, <2>6 DEF UpdateSketch, UpdateValue
<1>4. CASE \E t \in Threads : Processed(t)
  BY <1>4 DEF Processed
<1>5. CASE \E t \in Threads : TerminateWindow(t)
  BY <1>5, <1>z DEF TerminateWindow, Clear
<1>6. CASE \E t \in Threads : WithinThresh(t)
  BY <1>6, <1>op DEF WithinThresh
<1>7. CASE \E t \in Threads : Diverged(t)
  BY <1>7, <1>o DEF Diverged, SerializeState, Item, Items
<1>8. CASE \E t \in Threads : MakeBackup(t)
  BY <1>8 DEF MakeBackup
<1>9. CASE Serve
  BY <1>9, <1>op DEF Serve, SaveBackup, Items, Operators
<1>10. CASE \E item \in late : ServeLate(item)
  BY <1>10 DEF ServeLate, SaveBackup, Items
<1>11. CASE Crash
  BY <1>11, <1>z DEF Crash, Fresh
<1>12. CASE Restart
  BY <1>12 DEF Restart
<1>13. CASE ReadLen
  BY <1>13 DEF ReadLen
<1>14. CASE ReadData
  BY <1>14 DEF ReadData, RecoveryState, None
<1>15. CASE UNCHANGED vars
  BY <1>15 DEF vars
<1> QED
  BY <1>1, <1>2, <1>3, <1>4, <1>5, <1>6, <1>7, <1>8, <1>9, <1>10, <1>11, <1>12,
     <1>13, <1>14, <1>15 DEF Next, ComputeLoop

\* Threads and main thread agree on whose item is under way.
LEMMA HandshakeStep == TypeOK /\ HandshakeInv /\ [Next]_vars => HandshakeInv'
<1> SUFFICES ASSUME TypeOK, HandshakeInv, [Next]_vars PROVE HandshakeInv'
  OBVIOUS
<1> USE DEF HandshakeInv, Waiting, Runs
<1>n. NoItem \notin Items
  BY DEF NoItem, Items, Operators
<1>t. /\ pc \in [Threads -> {"loop", "process", "check", "wait"}]
      /\ op \in [Threads -> 0 .. NumOps - 1]
      /\ command \in [Threads -> Items \cup {NoItem}] /\ request \in Items \cup {NoItem}
  BY DEF TypeOK
<1>1. ASSUME NEW t \in Threads, NoTuple(t) \/ ProcessData(t) \/ Processed(t)
      PROVE  HandshakeInv'
  BY <1>1, <1>t DEF NoTuple, ProcessData, Processed, ops, workerVars
<1>2. ASSUME NEW t \in Threads, TerminateWindow(t)
      PROVE  HandshakeInv'
  BY <1>2, <1>t DEF TerminateWindow, workerVars
<1>3. ASSUME NEW t \in Threads, NEW o \in Operators, NEW x \in Index, NEW v \in Values,
             UpdateSketch(t, o, x, v)
      PROVE  HandshakeInv'
  BY <1>3, <1>t DEF UpdateSketch, workerVars
<1>4. ASSUME NEW t \in Threads, WithinThresh(t)
      PROVE  HandshakeInv'
  BY <1>4, <1>t DEF WithinThresh, NextOperator, workerVars, ops
<1>5. ASSUME NEW t \in Threads, Diverged(t)
      PROVE  HandshakeInv'
  <2> DEFINE o == <<t, op[t]>>
  <2> DEFINE it == Item(o, max_diff_index[o], array[o][max_diff_index[o]])
  <2>1. it \in Items /\ it # NoItem /\ it.op = o
    <3>1. o \in Operators
      BY <1>t DEF Operators
    <3>2. max_diff_index[o] \in Index /\ array[o][max_diff_index[o]] \in 0 .. MaxValue
      BY <3>1 DEF TypeOK
    <3> QED
      BY <3>1, <3>2, <1>n DEF Item, Items
  <2>2. command' = [command EXCEPT ![t] = it] /\ pc' = [pc EXCEPT ![t] = "wait"]
          /\ UNCHANGED <<op, request, worker>> /\ worker = "run" /\ pc[t] = "check"
    BY <1>5 DEF Diverged, workerVars
  <2> HIDE DEF it
  <2> QED
    BY <2>1, <2>2, <1>t
<1>6. ASSUME NEW t \in Threads, MakeBackup(t)
      PROVE  HandshakeInv'
  BY <1>6, <1>t, <1>n DEF MakeBackup, workerVars, threadVars, Operators, Items
<1>7. CASE Serve
  BY <1>7, <1>t, <1>n DEF Serve, NextOperator, workerVars, ops
<1>8. CASE \E item \in late : ServeLate(item)
  BY <1>8 DEF ServeLate, workerVars, threadVars, ops
<1>9. CASE Crash
  BY <1>9, <1>n DEF Crash, Fresh
<1>10. CASE Restart
  BY <1>10 DEF Restart, threadVars, ops
<1>11. CASE ReadLen
  BY <1>11 DEF ReadLen, threadVars, ops
<1>12. CASE ReadData
  BY <1>12 DEF ReadData, threadVars
<1>13. CASE UNCHANGED vars
  BY <1>13 DEF vars, threadVars, ops, workerVars
<1> QED
  BY <1>1, <1>2, <1>3, <1>4, <1>5, <1>6, <1>7, <1>8, <1>9, <1>10, <1>11, <1>12,
     <1>13 DEF Next, ComputeLoop

\* A divergence is tested for, and removed, in the turn that caused it.
LEMMA LoopStep ==
  TypeOK /\ HandshakeInv /\ LoopInv /\ NoNullTuple /\ [Next]_vars => (LoopInv /\ NoNullTuple)'
<1> SUFFICES ASSUME TypeOK, HandshakeInv, LoopInv, NoNullTuple, [Next]_vars
             PROVE  (LoopInv /\ NoNullTuple)'
  OBVIOUS
<1> USE DEF LoopInv, NoNullTuple, Runs
<1>t. /\ pc \in [Threads -> {"loop", "process", "check", "wait"}]
      /\ op \in [Threads -> 0 .. NumOps - 1] /\ tuple \in [Threads -> BOOLEAN]
      /\ max_diff \in [Operators -> 0 .. MaxValue] /\ updates \in [Operators -> 0 .. Updates]
  BY DEF TypeOK
<1>o. \A t \in Threads, n \in 0 .. NumOps - 1 : <<t, n>> \in Operators /\ <<t, n>>[1] = t
  BY DEF Operators
<1>1. ASSUME NEW t \in Threads, NoTuple(t)
      PROVE  (LoopInv /\ NoNullTuple)'
  BY <1>1, <1>t, <1>o DEF NoTuple, ops
<1>2. ASSUME NEW t \in Threads, ProcessData(t)
      PROVE  (LoopInv /\ NoNullTuple)'
  BY <1>2, <1>t, <1>o DEF ProcessData, ops
<1>3. ASSUME NEW t \in Threads, Processed(t)
      PROVE  (LoopInv /\ NoNullTuple)'
  BY <1>3, <1>t, <1>o DEF Processed, ops
<1>4. ASSUME NEW t \in Threads, TerminateWindow(t)
      PROVE  (LoopInv /\ NoNullTuple)'
  BY <1>4, <1>t, <1>o DEF TerminateWindow, Clear
<1>5. ASSUME NEW t \in Threads, NEW o \in Operators, NEW x \in Index, NEW v \in Values,
             UpdateSketch(t, o, x, v)
      PROVE  (LoopInv /\ NoNullTuple)'
  <2>1. \A p \in Operators : p # o => max_diff'[p] = max_diff[p]
    BY <1>5, <1>t DEF UpdateSketch, UpdateValue
  <2>2. updates'[o] > 0 /\ \A p \in Operators : p # o => updates'[p] = updates[p]
    BY <1>5, <1>t DEF UpdateSketch
  <2>3. UNCHANGED <<pc, op, tuple, null_read>> /\ pc[t] = "process" /\ o[1] = t
    BY <1>5 DEF UpdateSketch
  <2> QED
    BY <2>1, <2>2, <2>3, <1>o
<1>6. ASSUME NEW t \in Threads, WithinThresh(t)
      PROVE  (LoopInv /\ NoNullTuple)'
  BY SMTT(60), <1>6, <1>t, <1>o DEF WithinThresh, NextOperator, ops
<1>7. ASSUME NEW t \in Threads, Diverged(t)
      PROVE  (LoopInv /\ NoNullTuple)'
  <2> DEFINE o == <<t, op[t]>>
  <2>0. tuple[t]
    BY <1>7, <1>t, <1>o DEF Diverged
  <2>1. ~null_read'
    BY <2>0, <1>7, Zenon DEF Diverged, NoNullTuple
  <2>2. max_diff' = [max_diff EXCEPT ![o] = 0]
    BY <1>7 DEF Diverged, SerializeState
  <2>3. pc' = [pc EXCEPT ![t] = "wait"] /\ UNCHANGED <<op, tuple, updates>> /\ pc[t] = "check"
    BY <1>7 DEF Diverged
  <2> QED
    BY <2>1, <2>2, <2>3, <1>t, <1>o
<1>8. ASSUME NEW t \in Threads, MakeBackup(t)
      PROVE  (LoopInv /\ NoNullTuple)'
  BY <1>8 DEF MakeBackup, threadVars, ops
<1>9. CASE Serve
  <2> DEFINE u == request.op[1]
  <2>1. u \in Threads /\ pc[u] = "wait"
    BY <1>9 DEF Serve, HandshakeInv
  <2>2. NextOperator(u) /\ UNCHANGED <<max_diff, tuple, updates, null_read>>
    BY <1>9 DEF Serve, ops
  <2> HIDE DEF u
  <2>3. ~null_read'
    BY <2>2, Zenon
  <2>4. CASE op[u] + 1 < NumOps
    <3>1. op' = [op EXCEPT ![u] = op[u] + 1] /\ pc' = [pc EXCEPT ![u] = "check"]
      BY <2>2, <2>4 DEF NextOperator
    <3> QED
      BY <3>1, <2>1, <2>2, <2>3, <1>t, <1>o
  <2>5. CASE ~(op[u] + 1 < NumOps)
    <3>1. op' = op /\ pc' = [pc EXCEPT ![u] = "loop"] /\ op[u] = NumOps - 1
      BY <2>1, <2>2, <2>5, <1>t DEF NextOperator
    <3> QED
      BY <3>1, <2>1, <2>2, <2>3, <1>t, <1>o
  <2> QED
    BY <2>4, <2>5
<1>10. ASSUME NEW item \in late, ServeLate(item)
       PROVE  (LoopInv /\ NoNullTuple)'
  <2>1. UNCHANGED <<pc, op, tuple, updates, null_read, max_diff>>
    BY <1>10 DEF ServeLate, threadVars, ops
  <2> QED
    BY <2>1
<1>11. CASE Crash
  <2>1. \A t \in Threads : pc'[t] = "loop"
    BY <1>11 DEF Crash, Fresh
  <2>2. \A t \in Threads, n \in 0 .. NumOps - 1 : max_diff'[<<t, n>>] = 0
    BY <1>11, <1>o DEF Crash, Fresh
  <2>3. ~null_read'
    BY <1>11, Zenon DEF Crash
  <2> QED
    BY <2>1, <2>2, <2>3
<1>12. CASE Restart
  BY <1>12 DEF Restart, threadVars, ops
<1>13. CASE ReadLen
  BY <1>13 DEF ReadLen, threadVars, ops
<1>14. CASE ReadData
  BY <1>14 DEF ReadData, threadVars
<1>15. CASE UNCHANGED vars
  BY <1>15 DEF vars, threadVars, ops
<1> QED
  BY <1>1, <1>2, <1>3, <1>4, <1>5, <1>6, <1>7, <1>8, <1>9, <1>10, <1>11, <1>12,
     <1>13, <1>14, <1>15 DEF Next, ComputeLoop

\* With one update per item, an element out of bounds is the one max_diff is of.
LEMMA ElementStep ==
  ASSUME Updates = 1, TypeOK, HandshakeInv, LoopInv, ElementInv, [Next]_vars
  PROVE  ElementInv'
<1> USE DEF ElementInv
<1>t. /\ array \in [Operators -> [Index -> 0 .. MaxValue]]
      /\ backup_array \in [Operators -> [Index -> 0 .. MaxValue]]
      /\ max_diff \in [Operators -> 0 .. MaxValue] /\ max_diff_index \in [Operators -> Index]
      /\ updates \in [Operators -> 0 .. Updates]
      /\ op \in [Threads -> 0 .. NumOps - 1]
      /\ content \in [Operators -> [Index -> 0 .. MaxValue \cup {None}]]
  BY DEF TypeOK
<1>1. ASSUME NEW t \in Threads, TerminateWindow(t)
      PROVE  ElementInv'
  BY <1>1, <1>t DEF TerminateWindow, Clear, Zero
<1>2. ASSUME NEW t \in Threads, NEW o \in Operators, NEW x \in Index, NEW v \in Values,
             UpdateSketch(t, o, x, v)
      PROVE  ElementInv'
  <2>1. max_diff[o] <= theta_
    <3>1. updates[o] = 0 /\ pc[t] = "process" /\ o[1] = t
      BY <1>2, <1>t DEF UpdateSketch, Runs
    <3>2. PICK s \in Threads, n \in 0 .. NumOps - 1 : o = <<s, n>>
      BY DEF Operators
    <3>3. s = t
      BY <3>1, <3>2
    <3>4. ~(max_diff[<<t, n>>] > theta_)
      BY <3>1, <3>2, <3>3 DEF LoopInv
    <3> QED
      BY <3>2, <3>3, <3>4, <1>t
  <2>2. \A y \in Index : array[o][y] - backup_array[o][y] <= theta_
    BY SMTT(60), <2>1, <1>t
  <2>3. v \in Nat /\ array[o][x] + v <= MaxValue /\ UpdateValue(o, x, array[o][x] + v)
    BY <1>2 DEF UpdateSketch
  <2> DEFINE w == array[o][x] + v
  <2>4. array' = [array EXCEPT ![o] = [array[o] EXCEPT ![x] = w]] /\ backup_array' = backup_array
    BY <2>3, <1>t DEF UpdateValue
  <2>5. w \in Nat /\ w >= array[o][x]
    BY <2>3, <1>t
  <2>6. ASSUME NEW p \in Operators, NEW y \in Index, p # o
        PROVE  array'[p][y] = array[p][y] /\ max_diff'[p] = max_diff[p]
                 /\ max_diff_index'[p] = max_diff_index[p]
    BY <2>6, <2>3, <2>4, <1>t DEF UpdateValue
  <2>7. ASSUME NEW y \in Index, y # x
        PROVE  array'[o][y] = array[o][y]
    BY <2>7, <2>4, <1>t
  <2>8. array'[o][x] = w
    BY <2>4, <1>t
  <2>9. w - backup_array[o][x] > theta_ =>
          max_diff'[o] = w - backup_array[o][x] /\ max_diff_index'[o] = x
    BY <2>1, <2>3, <2>5, <1>t DEF UpdateValue
  <2> HIDE DEF w
  <2> QED
    BY <2>2, <2>4, <2>5, <2>6, <2>7, <2>8, <2>9, <1>t
<1>3. ASSUME NEW t \in Threads, Diverged(t)
      PROVE  ElementInv'
  <2> DEFINE o == <<t, op[t]>>
             i == max_diff_index[o]
  <2>o. o \in Operators /\ i \in Index
    BY <1>t DEF Operators
  <2>1. backup_array' = [backup_array EXCEPT ![o] = [backup_array[o] EXCEPT ![i] = array[o][i]]]
          /\ max_diff_index' = [max_diff_index EXCEPT ![o] = 0]
          /\ max_diff' = [max_diff EXCEPT ![o] = 0] /\ array' = array
    BY <1>3 DEF Diverged, SerializeState
  <2>2. \A y \in Index : y # i => array[o][y] - backup_array[o][y] <= theta_
    BY <2>o, <1>t
  <2> HIDE DEF o, i
  <2>3. backup_array'[o][i] = array[o][i]
          /\ \A y \in Index : y # i => backup_array'[o][y] = backup_array[o][y]
    BY <2>o, <2>1, <1>t
  <2>4. \A p \in Operators : p # o => backup_array'[p] = backup_array[p]
          /\ max_diff'[p] = max_diff[p] /\ max_diff_index'[p] = max_diff_index[p]
    BY <2>o, <2>1, <1>t
  <2> QED
    BY <2>o, <2>1, <2>2, <2>3, <2>4, <1>t
<1>4. CASE Crash
  <2>1. array' = Zero /\ backup_array' = Zero
    BY <1>4 DEF Crash, Fresh
  <2>2. \A o \in Operators, x \in Index : array'[o][x] = 0 /\ backup_array'[o][x] = 0
    BY <2>1, ZeroElements, Zenon
  <2>3. ASSUME NEW o \in Operators, NEW x \in Index
        PROVE  backup_array'[o][x] <= array'[o][x]
                 /\ ~(array'[o][x] - backup_array'[o][x] > theta_)
    BY <2>2
  <2> QED
    BY <2>3, Zenon
<1>5. CASE ReadData
  <2>1. array = Zero /\ backup_array = Zero
    BY <1>5 DEF ReadData, HandshakeInv
  <2>2. \A o \in Operators, x \in Index : array'[o][x] = backup_array'[o][x] /\ array'[o][x] \in Nat
    <3> SUFFICES ASSUME NEW o \in Operators, NEW x \in Index
                 PROVE  array'[o][x] = backup_array'[o][x] /\ array'[o][x] \in Nat
      OBVIOUS
    <3>1. array'[o][x] = IF content[o][x] = None THEN array[o][x] ELSE content[o][x]
      BY <1>5 DEF ReadData, RecoveryState
    <3>2. backup_array'[o][x] = IF content[o][x] = None THEN backup_array[o][x]
                                                        ELSE content[o][x]
      BY <1>5 DEF ReadData, RecoveryState
    <3>3. content[o][x] # None => content[o][x] \in Nat
      BY <1>t
    <3>4. array[o][x] = 0 /\ backup_array[o][x] = 0
      BY <2>1, ZeroElements, Zenon
    <3>5. array[o][x] \in Nat
      BY <3>4
    <3> QED
      BY <3>1, <3>2, <3>3, <3>4, <3>5, Zenon
  <2>3. ASSUME NEW o \in Operators, NEW x \in Index
        PROVE  backup_array'[o][x] <= array'[o][x]
                 /\ ~(array'[o][x] - backup_array'[o][x] > theta_)
    BY <2>2
  <2> QED
    BY <2>3, Zenon
<1>6. CASE UNCHANGED ops
  BY <1>6 DEF ops
<1>7. [Next]_vars =>
        \/ UNCHANGED ops \/ Crash \/ ReadData
        \/ \E t \in Threads :
             \/ TerminateWindow(t) \/ Diverged(t)
             \/ \E o \in Operators, x \in Index, v \in Values : UpdateSketch(t, o, x, v)
  BY DEF Next, ComputeLoop, vars, ops, NoTuple, ProcessData, Processed, WithinThresh,
         MakeBackup, Serve, ServeLate, Restart, ReadLen
<1> QED
  BY <1>1, <1>2, <1>3, <1>4, <1>5, <1>6, <1>7

\* When no dead worker's request arrives late, the server holds backup_array but
\* for the elements whose items are under way.
LEMMA ServerStep ==
  ASSUME ~LateDelivery, TypeOK, HandshakeInv, ServerInv, [Next]_vars
  PROVE  ServerInv'
<1> DEFINE At(t, n, x) ==
      IF pc[t] = "wait" /\ op[t] = n /\ Waiting(t).key = x
        THEN Waiting(t).value = backup_array[<<t, n>>][x]
        ELSE Recovered(<<t, n>>, x) = backup_array[<<t, n>>][x]
<1>t. /\ array \in [Operators -> [Index -> 0 .. MaxValue]]
      /\ backup_array \in [Operators -> [Index -> 0 .. MaxValue]]
      /\ max_diff_index \in [Operators -> Index]
      /\ pc \in [Threads -> {"loop", "process", "check", "wait"}]
      /\ op \in [Threads -> 0 .. NumOps - 1]
      /\ command \in [Threads -> Items \cup {NoItem}] /\ request \in Items \cup {NoItem}
      /\ content \in [Operators -> [Index -> 0 .. MaxValue \cup {None}]]
      /\ windows \in 0 .. MaxWindows
  BY DEF TypeOK
<1>o. \A t \in Threads, n \in 0 .. NumOps - 1 : <<t, n>> \in Operators
  BY DEF Operators
<1>l. (late # {} => worker = "dead")'
  <2>1. CASE UNCHANGED <<late, worker>>
    BY <2>1 DEF ServerInv
  <2>2. ASSUME NEW u \in Threads, ComputeLoop(u)
        PROVE  UNCHANGED <<late, worker>>
    BY <2>2 DEF ComputeLoop, serverVars, workerVars, NoTuple, ProcessData, Processed,
           WithinThresh, MakeBackup, TerminateWindow, UpdateSketch, Diverged
  <2>3. CASE Serve \/ UNCHANGED vars
    BY <2>3, <2>1 DEF Serve, vars, serverVars, workerVars
  <2> QED
    BY <2>1, <2>2, <2>3 DEF Next, ServerInv, Crash, Restart, ServeLate, ReadLen, ReadData,
       serverVars, workerVars
<1>s. SUFFICES ASSUME worker' = "run", windows' = 0,
                      NEW t \in Threads, NEW n \in 0 .. NumOps - 1, NEW x \in Index
               PROVE  At(t, n, x)'
  BY <1>l DEF ServerInv
<1>a. (worker = "run" /\ windows = 0) => At(t, n, x)
  BY DEF ServerInv
\* Steps that leave everything the formula reads, except that a thread that
\* does not wait goes on to a place where it does not.
<1>1. ASSUME UNCHANGED <<backup_array, content, command, request, worker>>, windows = 0,
             \A u \in Threads : (pc[u] = "wait" <=> pc'[u] = "wait")
                                   /\ (pc[u] = "wait" => op'[u] = op[u])
      PROVE  At(t, n, x)'
  BY <1>1, <1>a, <1>s DEF Waiting, Recovered
<1>2. ASSUME NEW u \in Threads, ComputeLoop(u), ~MakeBackup(u), ~Diverged(u)
      PROVE  At(t, n, x)'
  <2>1. ~TerminateWindow(u)
    <3>1. TerminateWindow(u) => windows' = windows + 1
      BY DEF TerminateWindow
    <3>2. windows \in Nat /\ windows' = 0
      BY <1>s, <1>t
    <3> QED
      BY <3>1, <3>2
  <2>2. UNCHANGED <<backup_array, content, command, request, worker>> /\ windows = 0
    BY ZenonT(60), <1>2, <1>s, <2>1 DEF ComputeLoop, ops, serverVars, workerVars, NoTuple, ProcessData,
       Processed, WithinThresh, UpdateSketch, UpdateValue
  <2>3. pc[u] # "wait" /\ pc'[u] # "wait"
          /\ \A s \in Threads : s # u => pc'[s] = pc[s] /\ op'[s] = op[s]
    BY <1>2, <2>1, <1>t DEF ComputeLoop, NoTuple, ProcessData, Processed, WithinThresh,
       UpdateSketch, Runs, NextOperator
  <2> QED
    BY <1>1, <2>2, <2>3
<1>3. ASSUME NEW u \in Threads, Diverged(u)
      PROVE  At(t, n, x)'
  <2> DEFINE o == <<u, op[u]>>
             i == max_diff_index[o]
  <2>o. o \in Operators /\ i \in Index
    BY <1>t DEF Operators
  <2>1. backup_array' = [backup_array EXCEPT ![o] = [backup_array[o] EXCEPT ![i] = array[o][i]]]
    BY <1>3 DEF Diverged, SerializeState
  <2>2. /\ command' = [command EXCEPT ![u] = Item(o, i, array[o][i])]
        /\ pc' = [pc EXCEPT ![u] = "wait"] /\ pc[u] = "check"
        /\ UNCHANGED <<op, request, content, worker, windows>>
    BY <1>3 DEF Diverged, Runs, serverVars, workerVars
  <2>3. At(t, n, x)
    BY <1>a, <1>s, <2>2
  <2>4. Item(o, i, array[o][i]) # NoItem
    BY <2>o DEF Item, NoItem, None, Operators
  <2>5. CASE t # u
    <3>1. backup_array'[<<t, n>>] = backup_array[<<t, n>>]
      BY <2>1, <2>5, <1>t, <1>o
    <3>2. Waiting(t)' = Waiting(t) /\ pc'[t] = pc[t] /\ op'[t] = op[t]
      BY <2>2, <2>5, <1>t DEF Waiting
    <3> QED
      BY <2>2, <2>3, <3>1, <3>2 DEF Recovered
  <2>6. CASE t = u
    <3>1. Waiting(t)' = Item(o, i, array[o][i])
      BY <2>2, <2>4, <2>6, <1>t DEF Waiting
    <3>2. Recovered(<<t, n>>, x) = backup_array[<<t, n>>][x]
      BY <2>2, <2>3, <2>6
    <3>3. pc'[t] = "wait" /\ op'[t] = op[t] /\ UNCHANGED content
      BY <2>2, <2>6, <1>t
    <3>4. CASE op[t] = n /\ i = x
      <4>1. backup_array'[<<t, n>>][x] = array[o][i]
        BY <3>4, <2>1, <2>6, <2>o, <1>t
      <4>2. Waiting(t)'.key = i /\ Waiting(t)'.value = array[o][i]
        BY <3>1 DEF Item
      <4> QED
        BY <3>3, <3>4, <4>1, <4>2
    <3>5. CASE ~(op[t] = n /\ i = x)
      <4>1. backup_array'[<<t, n>>][x] = backup_array[<<t, n>>][x]
        <5>1. CASE op[t] # n
          <6>1. <<t, n>> # o
            BY <5>1
          <6> QED
            BY <6>1, <2>1, <2>o, <1>t, <1>o
        <5>2. CASE op[t] = n /\ i # x
          BY <5>2, <2>1, <2>6, <2>o, <1>t
        <5> QED
          BY <5>1, <5>2, <3>5
      <4>2. Waiting(t)'.key = i
        BY <3>1 DEF Item
      <4>3. Recovered(<<t, n>>, x)' = backup_array'[<<t, n>>][x]
        BY <3>2, <3>3, <4>1 DEF Recovered
      <4> QED
        BY <3>3, <3>5, <4>2, <4>3
    <3> QED
      BY <3>4, <3>5
  <2> QED
    BY <2>5, <2>6
<1>4. ASSUME NEW u \in Threads, MakeBackup(u)
      PROVE  At(t, n, x)'
  <2>1. /\ UNCHANGED <<pc, op, content, backup_array, worker, windows>>
        /\ request = NoItem /\ command[u] # NoItem /\ request' = command[u]
        /\ command' = [command EXCEPT ![u] = NoItem]
    BY <1>4 DEF MakeBackup, threadVars, ops, serverVars, workerVars
  <2>2. pc[t] = "wait" => Waiting(t)' = Waiting(t)
    <3>1. NoItem \notin Items
      BY DEF Items, NoItem, None, Operators
    <3> QED
      BY <2>1, <3>1, <1>t DEF HandshakeInv, Waiting
  <2> QED
    BY <1>a, <1>s, <2>1, <2>2 DEF Recovered
<1>5. CASE Serve
  <2> DEFINE u == request.op[1]
  <2>1. request \in Items /\ u \in Threads /\ pc[u] = "wait" /\ command[u] = NoItem
          /\ request.op = <<u, op[u]>> /\ worker = "run" /\ Waiting(u) = request
    BY <1>5, <1>t DEF Serve, HandshakeInv, Waiting
  <2>2. /\ UNCHANGED <<backup_array, command, worker, windows>> /\ request' = NoItem
        /\ content' = [content EXCEPT ![request.op] =
                         [content[request.op] EXCEPT ![request.key] = request.value]]
    BY <1>5 DEF Serve, SaveBackup, ops, workerVars
  <2>3. pc'[u] # "wait" /\ \A s \in Threads : s # u => pc'[s] = pc[s] /\ op'[s] = op[s]
    BY <1>5, <2>1, <1>t DEF Serve, NextOperator
  <2>4. At(t, n, x)
    BY <1>a, <1>s, <2>2
  <2>5. request.value \in 0 .. MaxValue /\ request.op \in Operators /\ request.key \in Index
    BY <2>1 DEF Items
  <2>6. CASE t # u
    <3>1. content'[<<t, n>>] = content[<<t, n>>]
      <4>1. <<t, n>> # <<u, op[u]>>
        BY <2>6
      <4> QED
        BY <4>1, <2>1, <2>2, <2>5, <1>t, <1>o
    <3>2. pc[t] = "wait" => Waiting(t)' = Waiting(t)
      BY <2>1, <2>2, <2>6 DEF HandshakeInv, Waiting
    <3> QED
      BY <2>2, <2>3, <2>4, <2>6, <3>1, <3>2 DEF Recovered
  <2>7. CASE t = u
    <3>1. CASE op[t] = n /\ request.key = x
      <4>1. content'[<<t, n>>][x] = request.value
        BY <3>1, <2>1, <2>2, <2>5, <2>7, <1>t
      <4>2. request.value = backup_array[<<t, n>>][x]
        BY <3>1, <2>1, <2>4, <2>7
      <4> QED
        BY <4>1, <4>2, <2>2, <2>3, <2>5, <2>7 DEF Recovered, None
    <3>2. CASE ~(op[t] = n /\ request.key = x)
      <4>1. content'[<<t, n>>][x] = content[<<t, n>>][x]
        <5>1. CASE op[t] # n
          <6>1. <<t, n>> # request.op
            BY <5>1, <2>1, <2>7
          <6> QED
            BY <6>1, <2>2, <2>5, <1>t, <1>o
        <5>2. CASE op[t] = n /\ request.key # x
          BY <5>2, <2>1, <2>2, <2>5, <2>7, <1>t
        <5> QED
          BY <5>1, <5>2, <3>2
      <4>2. Recovered(<<t, n>>, x) = backup_array[<<t, n>>][x]
        BY <3>2, <2>1, <2>4, <2>7
      <4> QED
        BY <4>1, <4>2, <2>2, <2>3, <2>7 DEF Recovered
    <3> QED
      BY <3>1, <3>2
  <2> QED
    BY <2>6, <2>7
<1>6. CASE \E item \in late : ServeLate(item)
  BY <1>6, <1>s DEF ServeLate, workerVars
<1>7. CASE ReadData
  <2>1. array = Zero /\ backup_array = Zero /\ pc[t] = "loop"
    BY <1>7 DEF ReadData, HandshakeInv
  <2>2. pc' = pc /\ content' = content
    BY <1>7 DEF ReadData, threadVars, serverVars
  <2>3. backup_array'[<<t, n>>][x] =
          IF content[<<t, n>>][x] = None THEN 0 ELSE content[<<t, n>>][x]
    BY <1>7, <2>1, <1>o DEF ReadData, RecoveryState, Zero
  <2> QED
    BY <2>1, <2>2, <2>3 DEF Recovered
<1>8. CASE Crash \/ Restart \/ ReadLen
  BY <1>8, <1>s DEF Crash, Restart, ReadLen
<1>9. CASE UNCHANGED vars
  BY <1>9, <1>1, <1>s DEF vars, ops, threadVars, serverVars, workerVars
<1> QED
  BY <1>2, <1>3, <1>4, <1>5, <1>6, <1>7, <1>8, <1>9 DEF Next

\* The other parts of the invariant hold initially.
LEMMA BackupInvInit == Init => BackupInv /\ NoNullTuple
<1> SUFFICES ASSUME Init PROVE BackupInv /\ NoNullTuple
  OBVIOUS
<1>1. TypeOK
  BY BackupTypeInit
<1>2. HandshakeInv
  BY DEF Init, HandshakeInv, Waiting
<1>3. LoopInv
  BY DEF Init, LoopInv, Operators
<1>4. ElementInv /\ ServerInv
  <2>1. \A o \in Operators, x \in Index :
          array[o][x] = 0 /\ backup_array[o][x] = 0 /\ content[o][x] = None
    BY DEF Init, Zero
  <2>2. ElementInv
    BY <2>1 DEF ElementInv
  <2>3. \A t \in Threads, n \in 0 .. NumOps - 1 : <<t, n>> \in Operators /\ pc[t] = "loop"
    BY DEF Init, Operators
  <2>4. ServerInv
    BY <2>1, <2>3 DEF ServerInv, Recovered, Init
  <2> QED
    BY <2>2, <2>4
<1>5. NoNullTuple
  BY Zenon DEF Init, NoNullTuple
<1> QED
  BY <1>1, <1>2, <1>3, <1>4, <1>5 DEF BackupInv

\* The seq of a backup is never read through NULL: compute_thread.hpp:350 runs
\* only in a turn that extracted an item, whatever the number of threads and
\* operators, the threshold (>= 0), the updates per item and the crashes.
THEOREM BackupNoNullTuple == Spec => []NoNullTuple
<1>1. Init => TypeOK /\ HandshakeInv /\ LoopInv /\ NoNullTuple
  BY BackupInvInit DEF BackupInv
<1>2. TypeOK /\ HandshakeInv /\ LoopInv /\ NoNullTuple /\ [Next]_vars
        => (TypeOK /\ HandshakeInv /\ LoopInv /\ NoNullTuple)'
  BY BackupTypeStep, HandshakeStep, LoopStep
<1> QED
  BY <1>1, <1>2, PTL DEF Spec

\* The invariant is inductive when an item updates an operator at most once and
\* no request of a dead worker reaches the server after the restart.
THEOREM BackupCorrect ==
  ASSUME Updates = 1, ~LateDelivery
  PROVE  Spec => []BackupInv
<1>1. Init => BackupInv /\ NoNullTuple
  BY BackupInvInit
<1>2. BackupInv /\ NoNullTuple /\ [Next]_vars => (BackupInv /\ NoNullTuple)'
  BY BackupTypeStep, HandshakeStep, LoopStep, ElementStep, ServerStep DEF BackupInv
<1> QED
  BY <1>1, <1>2, PTL DEF Spec

\* The guarantee of approximate fault tolerance: between two items, what the
\* server would restore is below the state by at most theta_, for any number of
\* threads, operators, elements and crashes (max_diff describes every element
\* that is out of bounds; the server holds backup_array).
THEOREM BackupErrorBound ==
  ASSUME Updates = 1, ~LateDelivery
  PROVE  Spec => []ErrorBound
<1>1. BackupInv => ErrorBound
  <2> SUFFICES ASSUME BackupInv,
                      NEW t \in Threads, Runs(t, "loop"), windows = 0,
                      NEW n \in 0 .. NumOps - 1, NEW x \in Index
               PROVE  array[<<t, n>>][x] - Recovered(<<t, n>>, x) \in 0 .. theta_
    BY DEF ErrorBound
  <2>1. <<t, n>> \in Operators
    BY DEF Operators
  <2>2. array[<<t, n>>][x] \in Nat /\ backup_array[<<t, n>>][x] \in Nat
          /\ max_diff[<<t, n>>] \in Nat
    BY <2>1 DEF BackupInv, TypeOK
  <2>3. Recovered(<<t, n>>, x) = backup_array[<<t, n>>][x]
    BY DEF BackupInv, ServerInv, Runs
  <2>4. max_diff[<<t, n>>] <= theta_
    BY <2>2 DEF BackupInv, LoopInv, Runs
  <2>5. array[<<t, n>>][x] - backup_array[<<t, n>>][x] \in 0 .. theta_
    <3>1. /\ backup_array[<<t, n>>][x] <= array[<<t, n>>][x]
          /\ array[<<t, n>>][x] - backup_array[<<t, n>>][x] > theta_ =>
               max_diff[<<t, n>>] = array[<<t, n>>][x] - backup_array[<<t, n>>][x]
      BY <2>1 DEF BackupInv, ElementInv
    <3> QED
      BY <3>1, <2>2, <2>4
  <2> QED
    BY <2>3, <2>5
<1>2. Spec => []BackupInv
  BY BackupCorrect
<1> QED
  BY <1>1, <1>2, PTL
=============================================================================
