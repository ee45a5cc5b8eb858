------------------------------ MODULE Mailbox ------------------------------
(***************************************************************************)
(* mailbox_t (src/control_channel): the channel on which the main thread   *)
(* of a worker and one of its threads exchange commands.  It is a ypipe_t, *)
(* a lock-free queue whose only point of contention is the pointer c, with *)
(* an eventfd (signaler_t) that wakes a sleeping receiver.  Senders        *)
(* serialise on the mutex `sync'; there is one receiver.                   *)
(*                                                                         *)
(* A pointer into the queue is the position of its cell, counted from the  *)
(* first cell ever pushed; module YQueue shows that comparing the cells'   *)
(* addresses, which are reused, is comparing positions.                    *)
(***************************************************************************)
EXTENDS Integers, Sequences, FiniteSets

CONSTANTS Senders, Commands, Nobody, NoCommand, MaxSends

ASSUME MailboxAssumption ==
  Nobody \notin Senders /\ NoCommand \notin Commands /\ MaxSends \in Nat

VARIABLES
  cells,           \* the commands written so far; cell k + 1 holds position k
  w, f, c,         \* ypipe: first un-flushed, flush up to here, shared with the reader
  front, r,        \* ypipe: next position to read, first un-prefetched
  sync,            \* the mutex: the sender in write/flush, or Nobody
  spc, cmd_,       \* per sender: position in send, its argument
  signals,         \* value of the eventfd
  active, rpc, got \* receiver: mailbox state, position in recv, last command

writerVars == <<cells, w, f, sync, spc, cmd_>>
readerVars == <<front, r, active, rpc, got>>
vars == <<writerVars, c, readerVars, signals>>

NULL == -1

\* The constructors: ypipe_t pushes the terminator, mailbox_t reads once, finds
\* nothing and so puts the pipe to sleep.
mailbox_t ==
  /\ cells = <<>> /\ w = 0 /\ f = 0 /\ c = NULL
  /\ front = 0 /\ r = 0
  /\ sync = Nobody
  /\ spc = [s \in Senders |-> "idle"] /\ cmd_ = [s \in Senders |-> NoCommand]
  /\ signals = 0
  /\ active = FALSE /\ rpc = "idle" /\ got = NoCommand
-----------------------------------------------------------------------------
(* send *)

Lock(s, command) ==
  /\ spc[s] = "idle"
  /\ sync = Nobody
  /\ Len(cells) < MaxSends                 \* bound on the number of sends
  /\ sync' = s
  /\ cmd_' = [cmd_ EXCEPT ![s] = command]
  /\ spc' = [spc EXCEPT ![s] = "write"]
  /\ UNCHANGED <<cells, w, f, c, readerVars, signals>>

\* cpipe.write: fill the terminator, push a new one, move f to it.
write(s) ==
  /\ spc[s] = "write"
  /\ cells' = Append(cells, cmd_[s])
  /\ f' = Len(cells) + 1
  /\ spc' = [spc EXCEPT ![s] = "flush"]
  /\ UNCHANGED <<w, c, sync, cmd_, readerVars, signals>>

\* cpipe.flush and the unlock: publish up to f if the reader is awake.
flush(s) ==
  /\ spc[s] = "flush"
  /\ IF c = w
       THEN /\ c' = f /\ w' = f
            /\ sync' = Nobody /\ spc' = [spc EXCEPT ![s] = "idle"]
       ELSE /\ spc' = [spc EXCEPT ![s] = "set"]
            /\ UNCHANGED <<c, w, sync>>
  /\ UNCHANGED <<cells, f, cmd_, readerVars, signals>>

\* The reader sleeps: c is stored without a compare-and-swap.
set(s) ==
  /\ spc[s] = "set"
  /\ c' = f /\ w' = f
  /\ sync' = Nobody
  /\ spc' = [spc EXCEPT ![s] = "signal"]
  /\ UNCHANGED <<cells, f, cmd_, readerVars, signals>>

\* signaler.send, outside the mutex.
signaler_send(s) ==
  /\ spc[s] = "signal"
  /\ signals' = signals + 1
  /\ spc' = [spc EXCEPT ![s] = "idle"]
  /\ UNCHANGED <<cells, w, f, c, sync, cmd_, readerVars>>
-----------------------------------------------------------------------------
(* recv *)

\* Mutant: the command is not popped.
read_NoPop ==
  /\ active /\ rpc = "idle"
  /\ front # r /\ r # NULL
  /\ got' = cells[front + 1]
  /\ UNCHANGED <<writerVars, c, front, r, active, rpc, signals>>

\* cpipe.read finds a command that an earlier check_read prefetched.
read ==
  /\ active /\ rpc = "idle"
  /\ front # r /\ r # NULL
  /\ got' = cells[front + 1] /\ front' = front + 1
  /\ UNCHANGED <<writerVars, c, r, active, rpc, signals>>

\* Mutant: r is loaded and c cleared without comparing.
check_read_NoCompare(empty) ==
  /\ front = r \/ r = NULL
  /\ r' = c
  /\ c' = NULL
  /\ IF c = front \/ c = NULL
       THEN active' = FALSE /\ rpc' = empty /\ UNCHANGED <<front, got>>
       ELSE /\ got' = cells[front + 1] /\ front' = front + 1
            /\ active' = TRUE /\ rpc' = "idle"

\* check_read prefetches by compare-and-swap; if that gives nothing, c is left
\* NULL and read fails (the caller goes to position `empty').
check_read(empty) ==
  /\ front = r \/ r = NULL
  /\ r' = c
  /\ c' = IF c = front THEN NULL ELSE c
  /\ IF c = front \/ c = NULL
       THEN active' = FALSE /\ rpc' = empty /\ UNCHANGED <<front, got>>
       ELSE /\ got' = cells[front + 1] /\ front' = front + 1
            /\ active' = TRUE /\ rpc' = "idle"

recv_active ==
  /\ active /\ rpc = "idle"
  /\ check_read("drain")
  /\ UNCHANGED <<writerVars, signals>>

\* Mutant: a signal that came with the old one is swallowed.
signaler_recv_Swallow ==
  /\ rpc = "drain"
  /\ signals' = 0
  /\ rpc' = IF signals \in {1, 2} THEN "idle" ELSE "abort"
  /\ UNCHANGED <<writerVars, c, front, r, active, got>>

\* signaler.recv: the read must succeed; 2 means the next signal came along.
signaler_recv ==
  /\ rpc = "drain"
  /\ signals' = 0
  /\ rpc' = CASE signals = 2 -> "putback" [] signals = 1 -> "idle" [] OTHER -> "abort"
  /\ UNCHANGED <<writerVars, c, front, r, active, got>>

signaler_putback ==
  /\ rpc = "putback"
  /\ signals' = signals + 1
  /\ rpc' = "idle"
  /\ UNCHANGED <<writerVars, c, front, r, active, got>>

\* signaler.wait returns; recv with a timeout that expires changes nothing.
recv_passive ==
  /\ ~active /\ rpc = "idle"
  /\ signals > 0
  /\ active' = TRUE
  /\ rpc' = "woken"
  /\ UNCHANGED <<writerVars, c, front, r, got, signals>>

\* The read after the wake-up: zmq_assert (ok).
recv_woken ==
  /\ rpc = "woken"
  /\ check_read("abort")
  /\ UNCHANGED <<writerVars, signals>>
-----------------------------------------------------------------------------
SendStep(s) == write(s) \/ flush(s) \/ set(s) \/ signaler_send(s)

recv == read \/ recv_active \/ signaler_recv \/ signaler_putback \/ recv_passive \/ recv_woken

send == \E s \in Senders : SendStep(s) \/ \E command \in Commands : Lock(s, command)

Next == send \/ recv

Spec == mailbox_t /\ [][Next]_vars

\* A send that has begun ends (the mutex is held for a few instructions), and
\* the owner of the mailbox calls recv again and again (worker.hpp polls it).
FairSpec == Spec /\ WF_vars(recv) /\ \A s \in Senders : WF_vars(SendStep(s))
-----------------------------------------------------------------------------
(* Properties.                                                             *)

\* Pointers are positions or NULL, and every thread is at a line of its code.
TypeOK ==
  /\ cells \in Seq(Commands) /\ w \in Nat /\ f \in Nat /\ c \in Nat \cup {NULL}
  /\ front \in Nat /\ r \in Nat \cup {NULL}
  /\ sync \in Senders \cup {Nobody}
  /\ spc \in [Senders -> {"idle", "write", "flush", "set", "signal"}]
  /\ cmd_ \in [Senders -> Commands \cup {NoCommand}]
  /\ signals \in Nat /\ active \in BOOLEAN
  /\ rpc \in {"idle", "drain", "putback", "woken", "abort"}
  /\ got \in Commands \cup {NoCommand}

\* No assertion of recv fails: the eventfd holds one signal or two when it is
\* drained, and a wake-up always finds a command.
NoAbort == rpc # "abort"

Signalling == {s \in Senders : spc[s] = "signal"}

\* A sleeping receiver has a command waiting exactly when a signal is on its
\* way or there: no wake-up is lost, none is spurious.
NoLostWakeup ==
  (~active /\ rpc = "idle") => (front < w <=> (signals > 0 \/ Signalling # {}))

\* Who holds the mutex is the sender between lock and unlock.
MutexInv ==
  \A s \in Senders : spc[s] \in {"write", "flush", "set"} <=> sync = s

\* The writer's pointers: c is NULL or w, and w lags f inside a send only.
WriterInv ==
  /\ w <= f /\ f = Len(cells)
  /\ c \in {NULL, w}
  /\ \A s \in Senders : spc[s] \in {"flush", "set"} => w < f
  /\ (\A s \in Senders : spc[s] \notin {"flush", "set"}) => w = f
  /\ \A s \in Senders : spc[s] = "set" => c = NULL
  /\ \A s \in Senders : spc[s] = "write" => cmd_[s] \in Commands /\ Len(cells) < MaxSends

\* The reader's pointers, and the account of signals: one is held while the
\* mailbox is active, and one sender at most is about to add one.
ReaderInv ==
  /\ front <= w /\ r # NULL /\ front <= r /\ r <= w
  /\ \A s, t \in Senders : spc[s] = "signal" /\ spc[t] = "signal" => s = t
  /\ rpc = "woken" => active /\ front = r
  /\ rpc \in {"drain", "putback"} => ~active
  /\ active => c # NULL /\ signals = 1 /\ Signalling = {}
  /\ rpc = "woken" => front < w
  /\ (~active) =>
       LET held == IF rpc = "drain" THEN 1 ELSE 0 IN
       /\ front = r
       /\ \/ c = NULL /\ front = w /\ signals = held /\ Signalling = {} /\ rpc # "putback"
          \/ c # NULL /\ front < w /\ signals = held /\ Signalling # {} /\ rpc # "putback"
          \/ c # NULL /\ front < w /\ Signalling = {}
               /\ signals = (IF rpc = "putback" THEN 0 ELSE held + 1)

\* The inductive invariant of the mailbox.
MailboxInv == TypeOK /\ NoAbort /\ MutexInv /\ WriterInv /\ ReaderInv

\* send and recv implement a FIFO queue: commands arrive once each, in the
\* order in which their senders held the mutex.
FIFO == INSTANCE BoundedFIFO
          WITH Items <- Commands, Capacity <- MaxSends, NoItem <- NoCommand,
               queue <- SubSeq(cells, front + 1, Len(cells)), delivered <- got

ImplementsFIFO == FIFO!Spec

\* Every command written is received, with no further send to push it out.
EveryCommandArrives == \A k \in 1 .. MaxSends : Len(cells) >= k ~> front >= k
=============================================================================
