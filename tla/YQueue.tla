------------------------------- MODULE YQueue -------------------------------
(***************************************************************************)
(* yqueue_t and ypipe_t (src/control_channel): the memory of a mailbox's   *)
(* queue.  Cells live in chunks of N; the reader hands a chunk it has      *)
(* emptied to the writer through spare_chunk, so that cells' addresses are *)
(* reused while w, f, c and r, which are compared as addresses, point at   *)
(* cells.  The list of chunks linked by `next' from begin_chunk to         *)
(* end_chunk is a sequence; a cell's address is a chunk and an offset.     *)
(*                                                                         *)
(* One writer (the mailbox serialises the senders) and one reader, which   *)
(* does not read again after it found nothing until c is set (the mailbox  *)
(* waits for the signal).                                                  *)
(***************************************************************************)
EXTENDS Integers, Sequences

CONSTANTS N,          \* cells of a chunk (command_pipe_granularity)
          Chunks,     \* the addresses malloc can return
          Commands, NoCommand,
          MaxQueued   \* bound on the commands queued at a time

VARIABLES
  chunks,             \* begin_chunk ... end_chunk
  begin_pos, end_pos, back,
  spare_chunk,
  values,             \* contents of the cells
  w, f, c, r,         \* ypipe's pointers
  wpc, rpc, got

vars == <<chunks, begin_pos, end_pos, back, spare_chunk, values, w, f, c, r,
          wpc, rpc, got>>

NULL == <<>>
Addresses == Chunks \X (0 .. N - 1)
front == <<Head(chunks), begin_pos>>

\* yqueue_t and ypipe_t: one chunk, whose first cell is the terminator.
ypipe_t ==
  \E k \in Chunks :
    /\ chunks = <<k>> /\ begin_pos = 0 /\ end_pos = 1 /\ back = <<k, 0>>
    /\ spare_chunk = NULL
    /\ values = [a \in Addresses |-> NoCommand]
    /\ w = <<k, 0>> /\ f = <<k, 0>> /\ c = <<k, 0>> /\ r = <<k, 0>>
    /\ wpc = "idle" /\ rpc = "idle" /\ got = NoCommand

\* How many cells hold commands: from front to the terminator.
Queued ==
  (Len(chunks) - 1) * N + end_pos - 1 - begin_pos

Live == {chunks[i] : i \in 1 .. Len(chunks)} \cup (IF spare_chunk = NULL THEN {} ELSE {spare_chunk})
-----------------------------------------------------------------------------
(* The writer: write, then flush.                                          *)

\* Mutant: the value goes into the new terminator.
write_WrongCell(command) ==
  /\ wpc = "idle"
  /\ Queued < MaxQueued
  /\ values' = [values EXCEPT ![<<chunks[Len(chunks)], end_pos>>] = command]
  /\ back' = <<chunks[Len(chunks)], end_pos>>
  /\ end_pos' = end_pos + 1
  /\ IF end_pos + 1 # N
       THEN wpc' = "flush" /\ f' = back'
       ELSE wpc' = "grow" /\ UNCHANGED f
  /\ UNCHANGED <<chunks, begin_pos, spare_chunk, w, c, r, rpc, got>>

\* Fill the terminator and step `back' to the end; the last cell of a chunk
\* makes push fetch another.
write(command) ==
  /\ wpc = "idle"
  /\ Queued < MaxQueued
  /\ values' = [values EXCEPT ![back] = command]
  /\ back' = <<chunks[Len(chunks)], end_pos>>
  /\ end_pos' = end_pos + 1
  /\ IF end_pos + 1 # N
       THEN wpc' = "flush" /\ f' = back'
       ELSE wpc' = "grow" /\ UNCHANGED f
  /\ UNCHANGED <<chunks, begin_pos, spare_chunk, w, c, r, rpc, got>>

\* spare_chunk.xchg (NULL), or malloc: any address not in use.
push_grow ==
  /\ wpc = "grow"
  /\ spare_chunk' = NULL
  /\ IF spare_chunk # NULL
       THEN chunks' = Append(chunks, spare_chunk)
       ELSE \E k \in Chunks \ Live : chunks' = Append(chunks, k)
  /\ end_pos' = 0
  /\ f' = back
  /\ wpc' = "flush"
  /\ UNCHANGED <<begin_pos, back, values, w, c, r, rpc, got>>

\* c.cas (w, f), or c.set (f) when the reader sleeps.
flush ==
  /\ wpc = "flush"
  /\ c' = f
  /\ w' = f
  /\ wpc' = "idle"
  /\ UNCHANGED <<chunks, begin_pos, end_pos, back, spare_chunk, values, f, r, rpc, got>>
-----------------------------------------------------------------------------
(* The reader.                                                             *)

\* queue.front and the first half of queue.pop.
take ==
  /\ got' = values[front]
  /\ begin_pos' = begin_pos + 1
  /\ rpc' = IF begin_pos + 1 = N THEN "pop" ELSE "idle"
  /\ UNCHANGED <<chunks, end_pos, back, spare_chunk, values, w, f, wpc>>

\* The value was prefetched already.
read ==
  /\ rpc = "idle"
  /\ front # r
  /\ take
  /\ UNCHANGED <<c, r>>

\* Mutant: prefetches up to the terminator, flushed or not.
check_read_Unflushed ==
  /\ rpc = "idle"
  /\ front = r
  /\ c # NULL
  /\ IF c = front
       THEN /\ c' = NULL
            /\ UNCHANGED <<chunks, begin_pos, end_pos, back, spare_chunk, values,
                           w, f, r, wpc, rpc, got>>
       ELSE r' = back /\ take /\ UNCHANGED c

\* r = c.cas (&queue.front (), NULL).
check_read ==
  /\ rpc = "idle"
  /\ front = r
  /\ c # NULL
  /\ IF c = front
       THEN /\ c' = NULL
            /\ UNCHANGED <<chunks, begin_pos, end_pos, back, spare_chunk, values,
                           w, f, r, wpc, rpc, got>>
       ELSE r' = c /\ take /\ UNCHANGED c

\* Unlink the emptied chunk and leave it to the writer; the old spare is freed.
pop_next ==
  /\ rpc = "pop"
  /\ spare_chunk' = Head(chunks)
  /\ chunks' = Tail(chunks)
  /\ begin_pos' = 0
  /\ rpc' = "idle"
  /\ UNCHANGED <<end_pos, back, values, w, f, c, r, wpc, got>>
-----------------------------------------------------------------------------
Write == \E command \in Commands : write(command)

Next == Write \/ push_grow \/ flush \/ read \/ check_read \/ pop_next

Spec == ypipe_t /\ [][Next]_vars
-----------------------------------------------------------------------------
(* Properties.                                                             *)

\* The cells from the front to the terminator, as offsets into the list.
Cell(k) == <<chunks[1 + (begin_pos + k) \div N], (begin_pos + k) % N>>
Cells == {Cell(k) : k \in 0 .. Queued}

\* No chunk is in use twice: the list has no repetition and the spare chunk is
\* not part of it, whatever malloc returns after push and pop exchanged spares.
\* And w, f, c and r point at cells between the front and the terminator, so that
\* equal addresses are equal positions and flush's and check_read's comparisons
\* mean what their comments say.
PointersLive ==
  /\ \A i, j \in 1 .. Len(chunks) : chunks[i] = chunks[j] => i = j
  /\ \A i \in 1 .. Len(chunks) : chunks[i] # spare_chunk
  /\ rpc = "idle" => {w, f, r, back} \cup (IF c = NULL THEN {} ELSE {c}) \subseteq Cells

\* The pipe is a FIFO queue of commands across chunk boundaries.
FIFO == INSTANCE BoundedFIFO
          WITH Items <- Commands, Capacity <- MaxQueued, NoItem <- NoCommand,
               queue <- [k \in 1 .. Queued |-> values[Cell(k - 1)]], delivered <- got

ImplementsFIFO == FIFO!Spec
=============================================================================
