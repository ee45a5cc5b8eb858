--------------------------- MODULE MailboxProofs ---------------------------
(* The mailbox is correct for every number of senders, commands and sends. *)
EXTENDS Mailbox, SequenceTheorems, TLAPS

\* A mailbox just constructed satisfies the invariant.
LEMMA MailboxInvInit == mailbox_t => MailboxInv
<1> SUFFICES ASSUME mailbox_t PROVE MailboxInv
  OBVIOUS
<1> USE MailboxAssumption DEF mailbox_t, NULL
<1>0. active \in BOOLEAN
  BY Zenon
<1>1. TypeOK
  BY <1>0 DEF TypeOK
<1>2. NoAbort /\ MutexInv /\ WriterInv
  BY DEF NoAbort, MutexInv, WriterInv
<1>3. ReaderInv
  BY DEF ReaderInv, Signalling
<1> QED
  BY <1>1, <1>2, <1>3 DEF MailboxInv

\* Every step of a sender or of the receiver preserves the invariant.
LEMMA MailboxInvStep == MailboxInv /\ [Next]_vars => MailboxInv'
<1> SUFFICES ASSUME MailboxInv, [Next]_vars PROVE MailboxInv'
  OBVIOUS
<1> USE MailboxAssumption DEF MailboxInv, NULL
<1>1. ASSUME NEW s \in Senders, NEW command \in Commands, Lock(s, command) PROVE MailboxInv'
  <2> USE <1>1 DEF Lock, readerVars
  <2>1. TypeOK'
    BY DEF TypeOK, NoAbort, MutexInv, WriterInv, ReaderInv
  <2>2. NoAbort'
    BY DEF TypeOK, NoAbort, ReaderInv
  <2>3. MutexInv'
    BY DEF TypeOK, MutexInv
  <2>4. WriterInv'
    BY DEF TypeOK, MutexInv, WriterInv, ReaderInv
  <2>5. ReaderInv'
    BY DEF TypeOK, MutexInv, WriterInv, ReaderInv, Signalling, NoAbort
  <2> QED
    BY <2>1, <2>2, <2>3, <2>4, <2>5
<1>2. ASSUME NEW s \in Senders, write(s) PROVE MailboxInv'
  <2> USE <1>2 DEF write, readerVars
  <2>1. TypeOK'
    BY DEF TypeOK, NoAbort, MutexInv, WriterInv, ReaderInv
  <2>2. NoAbort'
    BY DEF TypeOK, NoAbort, ReaderInv
  <2>3. MutexInv'
    BY DEF TypeOK, MutexInv
  <2>4. WriterInv'
    BY DEF TypeOK, MutexInv, WriterInv, ReaderInv
  <2>5. ReaderInv'
    BY DEF TypeOK, MutexInv, WriterInv, ReaderInv, Signalling, NoAbort
  <2> QED
    BY <2>1, <2>2, <2>3, <2>4, <2>5
<1>3. ASSUME NEW s \in Senders, flush(s) PROVE MailboxInv'
  <2> USE <1>3 DEF flush, readerVars
  <2>1. TypeOK'
    BY DEF TypeOK, NoAbort, MutexInv, WriterInv, ReaderInv
  <2>2. NoAbort'
    BY DEF TypeOK, NoAbort, ReaderInv
  <2>3. MutexInv'
    BY DEF TypeOK, MutexInv
  <2>4. WriterInv'
    BY DEF TypeOK, MutexInv, WriterInv, ReaderInv
  <2>5. ReaderInv'
    BY DEF TypeOK, MutexInv, WriterInv, ReaderInv, Signalling, NoAbort
  <2> QED
    BY <2>1, <2>2, <2>3, <2>4, <2>5
<1>4. ASSUME NEW s \in Senders, set(s) PROVE MailboxInv'
  <2> USE <1>4 DEF set, readerVars
  <2>1. TypeOK'
    BY DEF TypeOK, NoAbort, MutexInv, WriterInv, ReaderInv
  <2>2. NoAbort'
    BY DEF TypeOK, NoAbort, ReaderInv
  <2>3. MutexInv'
    BY DEF TypeOK, MutexInv
  <2>4. WriterInv'
    BY DEF TypeOK, MutexInv, WriterInv, ReaderInv
  <2>5. ReaderInv'
    BY DEF TypeOK, MutexInv, WriterInv, ReaderInv, Signalling, NoAbort
  <2> QED
    BY <2>1, <2>2, <2>3, <2>4, <2>5
<1>5. ASSUME NEW s \in Senders, signaler_send(s) PROVE MailboxInv'
  <2> USE <1>5 DEF signaler_send, readerVars
  <2>1. TypeOK'
    BY DEF TypeOK, NoAbort, MutexInv, WriterInv, ReaderInv
  <2>2. NoAbort'
    BY DEF TypeOK, NoAbort, ReaderInv
  <2>3. MutexInv'
    BY DEF TypeOK, MutexInv
  <2>4. WriterInv'
    BY DEF TypeOK, MutexInv, WriterInv, ReaderInv
  <2>5. ReaderInv'
    BY DEF TypeOK, MutexInv, WriterInv, ReaderInv, Signalling, NoAbort
  <2> QED
    BY <2>1, <2>2, <2>3, <2>4, <2>5
<1>6. CASE read
  <2> USE <1>6 DEF read, writerVars
  <2>1. TypeOK'
    BY DEF TypeOK, NoAbort, MutexInv, WriterInv, ReaderInv
  <2>2. NoAbort'
    BY DEF TypeOK, NoAbort, ReaderInv
  <2>3. MutexInv'
    BY DEF TypeOK, MutexInv
  <2>4. WriterInv'
    BY DEF TypeOK, MutexInv, WriterInv, ReaderInv
  <2>5. ReaderInv'
    BY DEF TypeOK, MutexInv, WriterInv, ReaderInv, Signalling, NoAbort
  <2> QED
    BY <2>1, <2>2, <2>3, <2>4, <2>5
<1>7. CASE recv_active
  <2> USE <1>7 DEF recv_active, check_read, writerVars
  <2>0. active' \in BOOLEAN
    BY Zenon
  <2>a. ~(c = front \/ c = NULL) => cells[front + 1] \in Commands /\ front + 1 \in Nat
    <3>1. ~(c = front \/ c = NULL) => front + 1 \in 1 .. Len(cells)
      BY DEF TypeOK, WriterInv, ReaderInv
    <3> QED
      BY <3>1, ElementOfSeq DEF TypeOK
  <2>1. TypeOK'
    BY <2>0, <2>a DEF TypeOK
  <2>2. NoAbort'
    BY DEF TypeOK, NoAbort, ReaderInv
  <2>3. MutexInv'
    BY DEF TypeOK, MutexInv
  <2>4. WriterInv'
    BY DEF TypeOK, MutexInv, WriterInv, ReaderInv
  <2>5. ReaderInv'
    BY DEF TypeOK, MutexInv, WriterInv, ReaderInv, Signalling, NoAbort
  <2> QED
    BY <2>1, <2>2, <2>3, <2>4, <2>5
<1>8. CASE signaler_recv
  <2> USE <1>8 DEF signaler_recv, writerVars
  <2>1. TypeOK'
    BY DEF TypeOK, NoAbort, MutexInv, WriterInv, ReaderInv
  <2>2. NoAbort'
    BY DEF TypeOK, NoAbort, ReaderInv
  <2>3. MutexInv'
    BY DEF TypeOK, MutexInv
  <2>4. WriterInv'
    BY DEF TypeOK, MutexInv, WriterInv, ReaderInv
  <2>5. ReaderInv'
    BY DEF TypeOK, MutexInv, WriterInv, ReaderInv, Signalling, NoAbort
  <2> QED
    BY <2>1, <2>2, <2>3, <2>4, <2>5
<1>9. CASE signaler_putback
  <2> USE <1>9 DEF signaler_putback, writerVars
  <2>1. TypeOK'
    BY DEF TypeOK, NoAbort, MutexInv, WriterInv, ReaderInv
  <2>2. NoAbort'
    BY DEF TypeOK, NoAbort, ReaderInv
  <2>3. MutexInv'
    BY DEF TypeOK, MutexInv
  <2>4. WriterInv'
    BY DEF TypeOK, MutexInv, WriterInv, ReaderInv
  <2>5. ReaderInv'
    BY DEF TypeOK, MutexInv, WriterInv, ReaderInv, Signalling, NoAbort
  <2> QED
    BY <2>1, <2>2, <2>3, <2>4, <2>5
<1>10. CASE recv_passive
  <2> USE <1>10 DEF recv_passive, writerVars
  <2>1. TypeOK'
    BY DEF TypeOK, NoAbort, MutexInv, WriterInv, ReaderInv
  <2>2. NoAbort'
    BY DEF TypeOK, NoAbort, ReaderInv
  <2>3. MutexInv'
    BY DEF TypeOK, MutexInv
  <2>4. WriterInv'
    BY DEF TypeOK, MutexInv, WriterInv, ReaderInv
  <2>5. ReaderInv'
    BY DEF TypeOK, MutexInv, WriterInv, ReaderInv, Signalling, NoAbort
  <2> QED
    BY <2>1, <2>2, <2>3, <2>4, <2>5
<1>11. CASE recv_woken
  <2> USE <1>11 DEF recv_woken, check_read, writerVars
  <2>0. active' \in BOOLEAN
    BY Zenon
  <2>a. ~(c = front \/ c = NULL) => cells[front + 1] \in Commands /\ front + 1 \in Nat
    <3>1. ~(c = front \/ c = NULL) => front + 1 \in 1 .. Len(cells)
      BY DEF TypeOK, WriterInv, ReaderInv
    <3> QED
      BY <3>1, ElementOfSeq DEF TypeOK
  <2>1. TypeOK'
    BY <2>0, <2>a DEF TypeOK
  <2>2. NoAbort'
    BY DEF TypeOK, NoAbort, WriterInv, ReaderInv
  <2>3. MutexInv'
    BY DEF TypeOK, MutexInv
  <2>4. WriterInv'
    BY DEF TypeOK, MutexInv, WriterInv, ReaderInv
  <2>5. ReaderInv'
    BY DEF TypeOK, MutexInv, WriterInv, ReaderInv, Signalling, NoAbort
  <2> QED
    BY <2>1, <2>2, <2>3, <2>4, <2>5
<1>12. CASE UNCHANGED vars
  BY <1>12 DEF TypeOK, NoAbort, MutexInv, WriterInv, ReaderInv, Signalling,
     vars, writerVars, readerVars
<1> QED
  BY <1>1, <1>2, <1>3, <1>4, <1>5, <1>6, <1>7, <1>8, <1>9, <1>10, <1>11, <1>12
     DEF Next, send, SendStep, recv

\* Every reachable state of a mailbox satisfies the invariant.
THEOREM MailboxCorrect == Spec => []MailboxInv
<1> QED
  BY MailboxInvInit, MailboxInvStep, PTL DEF Spec

\* No assertion of recv or of signaler_t::recv ever fails.
THEOREM MailboxNoAbort == Spec => []NoAbort
<1>1. MailboxInv => NoAbort
  BY DEF MailboxInv
<1> QED
  BY <1>1, MailboxCorrect, PTL

\* A receiver asleep in signaler.wait has a command exactly when a signal is
\* there or on its way.
THEOREM MailboxNoLostWakeup == Spec => []NoLostWakeup
<1>1. MailboxInv => NoLostWakeup
  BY DEF MailboxInv, ReaderInv, TypeOK, NoLostWakeup, NULL
<1> QED
  BY <1>1, MailboxCorrect, PTL

\* What is left of a queue from position n on, after an append and after a read.
LEMMA WindowAppend ==
  ASSUME NEW S, NEW s \in Seq(S), NEW d \in S, NEW n \in Nat, n <= Len(s)
  PROVE  SubSeq(Append(s, d), n + 1, Len(s) + 1) = Append(SubSeq(s, n + 1, Len(s)), d)
<1> DEFINE t == Append(s, d)
           q == SubSeq(s, n + 1, Len(s))
           p == SubSeq(t, n + 1, Len(s) + 1)
<1>1. /\ t \in Seq(S) /\ Len(t) = Len(s) + 1
      /\ \A i \in 1 .. Len(s) : t[i] = s[i]
      /\ t[Len(s) + 1] = d
  BY AppendProperties
<1>2. \A i \in n + 1 .. Len(s) + 1 : t[i] \in S
  <2> SUFFICES ASSUME NEW i \in n + 1 .. Len(s) + 1 PROVE t[i] \in S
    OBVIOUS
  <2>1. i \in 1 .. Len(t)
    BY <1>1
  <2> HIDE DEF t
  <2> QED
    BY <1>1, <2>1, ElementOfSeq
<1>3. \A i \in n + 1 .. Len(s) : s[i] \in S
  BY ElementOfSeq
<1> HIDE DEF t
<1>4. /\ p \in Seq(S) /\ Len(p) = Len(s) + 1 - n
      /\ \A i \in 1 .. Len(s) + 1 - n : p[i] = t[n + i]
  BY <1>2, SubSeqProperties
<1>5. /\ q \in Seq(S) /\ Len(q) = Len(s) - n
      /\ \A i \in 1 .. Len(s) - n : q[i] = s[n + i]
  BY <1>3, SubSeqProperties
<1> HIDE DEF p, q
<1>6. /\ Append(q, d) \in Seq(S) /\ Len(Append(q, d)) = Len(q) + 1
      /\ \A i \in 1 .. Len(q) : Append(q, d)[i] = q[i]
      /\ Append(q, d)[Len(q) + 1] = d
  BY <1>5, AppendProperties
<1>7. \A i \in 1 .. Len(p) : p[i] = Append(q, d)[i]
  <2> SUFFICES ASSUME NEW i \in 1 .. Len(p) PROVE p[i] = Append(q, d)[i]
    OBVIOUS
  <2>1. CASE i \in 1 .. Len(q)
    <3>1. p[i] = t[n + i] /\ q[i] = s[n + i] /\ n + i \in 1 .. Len(s)
      BY <1>4, <1>5, <2>1
    <3> QED
      BY <1>1, <1>6, <2>1, <3>1
  <2>2. CASE i = Len(q) + 1
    <3>1. p[i] = t[n + i] /\ n + i = Len(s) + 1
      BY <1>4, <1>5, <2>2
    <3> QED
      BY <1>1, <1>6, <2>2, <3>1
  <2> QED
    BY <1>4, <1>5, <2>1, <2>2
<1>8. Len(p) = Len(Append(q, d))
  BY <1>4, <1>5, <1>6
<1>9. p = Append(q, d)
  <2> DEFINE a == Append(q, d)
  <2>1. a \in Seq(S) /\ Len(p) = Len(a) /\ \A i \in 1 .. Len(p) : p[i] = a[i]
    BY <1>6, <1>7, <1>8
  <2> HIDE DEF a
  <2>2. p = a
    BY <1>4, <2>1, SeqEqual
  <2> QED
    BY <2>2 DEF a
<1> QED
  BY <1>9 DEF p, q, t

\* Reading takes the head of what is left.
LEMMA WindowTail ==
  ASSUME NEW S, NEW s \in Seq(S), NEW n \in Nat, n < Len(s)
  PROVE  /\ SubSeq(s, n + 1, Len(s)) # <<>>
         /\ Head(SubSeq(s, n + 1, Len(s))) = s[n + 1]
         /\ Tail(SubSeq(s, n + 1, Len(s))) = SubSeq(s, n + 2, Len(s))
<1>1. n + 1 \in 1 .. Len(s) /\ Len(s) \in n + 1 .. Len(s) /\ (n + 1) + 1 = n + 2
  BY LenProperties
<1>2. /\ Head(SubSeq(s, n + 1, Len(s))) = s[n + 1]
      /\ Tail(SubSeq(s, n + 1, Len(s))) = SubSeq(s, n + 2, Len(s))
  BY <1>1, HeadTailOfSubSeq
<1>3. \A i \in n + 1 .. Len(s) : s[i] \in S
  BY ElementOfSeq
<1>4. Len(SubSeq(s, n + 1, Len(s))) = Len(s) - n
  BY <1>1, <1>3, SubSeqProperties
<1>5. SubSeq(s, n + 1, Len(s)) # <<>>
  <2> SUFFICES ASSUME SubSeq(s, n + 1, Len(s)) = <<>> PROVE FALSE
    OBVIOUS
  <2>1. Len(s) - n = 0
    BY <1>4
  <2> QED
    BY <1>1, <2>1
<1> QED
  BY <1>2, <1>5

\* write appends to the queue, a successful read takes its head, nothing else
\* shows.
LEMMA MailboxFIFOStep ==
  MailboxInv /\ [Next]_vars => [FIFO!Next]_(FIFO!vars)
<1> SUFFICES ASSUME MailboxInv, [Next]_vars PROVE [FIFO!Next]_(FIFO!vars)
  OBVIOUS
<1> USE MailboxAssumption
<1> DEFINE q == SubSeq(cells, front + 1, Len(cells))
<1>0. cells \in Seq(Commands) /\ front \in Nat /\ front <= Len(cells)
  BY DEF MailboxInv, TypeOK, WriterInv, ReaderInv
<1>1. CASE UNCHANGED <<cells, front, got>>
  BY <1>1 DEF FIFO!vars
<1>2. ASSUME NEW s \in Senders, write(s) PROVE FIFO!Next
  <2>1. cells' = Append(cells, cmd_[s]) /\ cmd_[s] \in Commands /\ UNCHANGED <<front, got>>
    BY <1>2 DEF write, readerVars, MailboxInv, WriterInv
  <2>2. Len(cells') = Len(cells) + 1
    BY <1>0, <2>1, AppendProperties
  <2>3. q' = Append(q, cmd_[s])
    BY <1>0, <2>1, <2>2, WindowAppend
  <2>4. Len(q) < MaxSends
    <3>1. \A i \in front + 1 .. Len(cells) : cells[i] \in Commands
      BY <1>0, ElementOfSeq
    <3>2. Len(q) = Len(cells) - front
      BY <1>0, <3>1, SubSeqProperties
    <3> QED
      BY <1>0, <1>2, <3>2 DEF write, MailboxInv, WriterInv
  <2> QED
    BY <2>1, <2>3, <2>4 DEF FIFO!Next, FIFO!Put
<1>3. ASSUME front' = front + 1, got' = cells[front + 1], UNCHANGED cells,
             front < Len(cells)
      PROVE  FIFO!Next
  <2>1. q # <<>> /\ got' = Head(q) /\ Tail(q) = SubSeq(cells, front + 2, Len(cells))
    BY <1>0, <1>3, WindowTail
  <2>2. q' = SubSeq(cells, front + 2, Len(cells))
    <3>1. front' + 1 = front + 2
      BY <1>0, <1>3
    <3> QED
      BY <1>3, <3>1
  <2> QED
    BY <2>1, <2>2 DEF FIFO!Next, FIFO!Get
<1>4. CASE read
  <2>1. front < Len(cells)
    BY <1>4 DEF read, MailboxInv, TypeOK, WriterInv, ReaderInv, NULL
  <2> QED
    BY <1>3, <1>4, <2>1 DEF read, writerVars
<1>5. CASE recv_active \/ recv_woken
  <2>1. CASE c = front \/ c = NULL
    BY <1>1, <1>5, <2>1 DEF recv_active, recv_woken, check_read, writerVars
  <2>2. CASE ~(c = front \/ c = NULL)
    <3>1. front < Len(cells)
      BY <2>2 DEF MailboxInv, TypeOK, WriterInv, ReaderInv, NULL
    <3> QED
      BY <1>3, <1>5, <2>2, <3>1 DEF recv_active, recv_woken, check_read, writerVars
  <2> QED
    BY <2>1, <2>2
<1>6. CASE signaler_recv \/ signaler_putback \/ recv_passive
  BY <1>1, <1>6 DEF signaler_recv, signaler_putback, recv_passive, writerVars
<1>7. ASSUME NEW s \in Senders,
             flush(s) \/ set(s) \/ signaler_send(s) \/ \E command \in Commands : Lock(s, command)
      PROVE  [FIFO!Next]_(FIFO!vars)
  BY <1>1, <1>7 DEF flush, set, signaler_send, Lock, readerVars
<1>8. CASE UNCHANGED vars
  BY <1>1, <1>8 DEF vars, readerVars, writerVars
<1> QED
  BY <1>2, <1>4, <1>5, <1>6, <1>7, <1>8 DEF Next, send, SendStep, recv

\* The mailbox is a FIFO queue of commands: each arrives once, in the order of
\* the sends.
THEOREM MailboxImplementsFIFO == Spec => ImplementsFIFO
<1>1. mailbox_t => FIFO!Init
  BY DEF mailbox_t, FIFO!Init
<1> QED
  BY <1>1, MailboxFIFOStep, MailboxCorrect, PTL DEF Spec, ImplementsFIFO, FIFO!Spec
=============================================================================
