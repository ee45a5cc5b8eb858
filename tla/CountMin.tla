------------------------------ MODULE CountMin ------------------------------
(***************************************************************************)
(* The count-min application (apps/count_min): the compute threads of the  *)
(* local worker keep a sketch and the heavy hitters of a window of the     *)
(* trace, and send both to the merger at the end of the window.            *)
(*                                                                         *)
(* The source is module Trace.  The way from a compute thread to the       *)
(* merger (mesh, network, ring) delivers in order (modules Mesh, Stream    *)
(* and RingBuffer): a sequence of items per compute thread.                *)
(***************************************************************************)
EXTENDS Trace, FiniteSetsExt

CONSTANTS Row, Width,
          HashOf,            \* per seed, the function from keys to 0 .. Width - 1
          Thresh, MergeThresh,
          Window, ByteModulus, ByteGarbage, \* byte has no initial value; it wraps
          Base               \* of the digits in the trace

VARIABLES
  hash,                      \* per compute thread and row: its hash function
  sketch, cand, byte,        \* per compute thread
  received,                  \* history: keys and values of the current window
  sent,                      \* per compute thread: items on their way
  m_sketch, m_cand,          \* the merger; it reports a key when it adds it
  merged                     \* history: per compute thread and key, the total merged

cmVars == <<hash, sketch, cand, byte, received, sent>>
mergeVars == <<m_sketch, m_cand, merged>>
countVars == <<traceVars, cmVars, mergeVars>>

Keys == 0 .. Base - 1
Rows == 0 .. Row - 1
Buckets == 0 .. Width - 1
-----------------------------------------------------------------------------
(* The sketch: one array per row.                                          *)

Zero == [i \in Rows |-> [j \in Buckets |-> 0]]

\* GetSeed counts up, once per row; the threads of a worker are initialised one
\* after the other, so that thread t draws seeds t * Row to t * Row + Row - 1.
GetSeed(t, i) == t * Row + i

GetHashValue(h, i, key) == h[i][key]

\* Mutant: every row but the first is left alone.
UpdateSketch_FirstRow(s, h, key, value) ==
  [i \in Rows |-> IF i = 0 THEN [s[i] EXCEPT ![GetHashValue(h, i, key)] = @ + value] ELSE s[i]]

UpdateSketch(s, h, key, value) ==
  [i \in Rows |-> [s[i] EXCEPT ![GetHashValue(h, i, key)] = @ + value]]

GetEstimate(s, h, key) == Min({s[i][GetHashValue(h, i, key)] : i \in Rows})

\* A CMItem: the positive counters, each at its index i * w + j, and the keys.
AppendCounters(s) ==
  {<<i * Width + j, s[i][j]>> : i \in Rows, j \in Buckets} \ {<<n, 0>> : n \in 0 .. Row * Width - 1}

\* ProcessData of the merger adds each counter in the place its index says.
AddCounters(s, counters) ==
  LET at_(i, j) == {c \in counters : c[1] \div Width = i /\ (c[1] % Width) = j}
  IN [i \in Rows |-> [j \in Buckets |->
        IF at_(i, j) = {} THEN s[i][j] ELSE s[i][j] + (CHOOSE c \in at_(i, j) : TRUE)[2]]]
-----------------------------------------------------------------------------
CountStart ==
  /\ TraceStart
  /\ hash = [t \in Threads |-> [i \in Rows |-> HashOf[GetSeed(t, i)]]]
  /\ sketch = [t \in Threads |-> Zero] /\ cand = [t \in Threads |-> {}]
  /\ \E g \in ByteGarbage : byte = [t \in Threads |-> g]
  /\ received = [t \in Threads |-> [k \in Keys |-> 0]]
  /\ sent = [t \in Threads |-> <<>>]
  /\ m_sketch = Zero /\ m_cand = {}
  /\ merged = [t \in Threads |-> [k \in Keys |-> 0]]

\* The fields strtok and strtoll find: a key of one digit, and the digits after it
\* up to the first byte that is none.
ParsedKey(data) == data[1] - 48
ParsedValue(data) ==
  LET value[i \in 1 .. MAX_RECORD_LENGTH] ==
        IF i = 1 THEN [open |-> TRUE, v |-> 0]
        ELSE IF value[i - 1].open /\ IsDigit(data[i])
          THEN [open |-> TRUE, v |-> Base * value[i - 1].v + (data[i] - 48)]
          ELSE [open |-> FALSE, v |-> value[i - 1].v]
  IN value[MAX_RECORD_LENGTH].v

\* The value the line was written with.
Written(line) ==
  LET value[i \in 0 .. Len(line.digits)] ==
        IF i = 0 THEN 0 ELSE Base * value[i - 1] + line.digits[i]
  IN value[Len(line.digits)]

\* TerminateWindow ends with byte, sketch and candidates empty.
TerminateWindow(t, s, c, total) ==
  /\ sent' = [sent EXCEPT ![t] = Append(@, [counters |-> AppendCounters(s), hh |-> c, total |-> total])]
  /\ byte' = [byte EXCEPT ![t] = 0]
  /\ sketch' = [sketch EXCEPT ![t] = Zero]
  /\ cand' = [cand EXCEPT ![t] = {}]
  /\ received' = [received EXCEPT ![t] = [k \in Keys |-> 0]]

ProcessData(t, data) ==
  LET key == ParsedKey(data)
      value == ParsedValue(data)
      s == UpdateSketch(sketch[t], hash[t], key, value)
      c == IF GetEstimate(s, hash[t], key) > Thresh THEN cand[t] \cup {key} ELSE cand[t]
      b == (byte[t] + value) % ByteModulus
      total == [received[t] EXCEPT ![key] = @ + value]
  IN IF b > Window
       THEN TerminateWindow(t, s, c, total)
       ELSE /\ sketch' = [sketch EXCEPT ![t] = s]
            /\ cand' = [cand EXCEPT ![t] = c]
            /\ byte' = [byte EXCEPT ![t] = b]
            /\ received' = [received EXCEPT ![t] = total]
            /\ UNCHANGED sent

\* A turn of a compute thread: data is processed; a timeout calls ProcessPunc,
\* which is empty, and FINISH ends the thread without TerminateWindow.
Compute(t) ==
  /\ queues_[t] # <<>>
  /\ queues_' = [queues_ EXCEPT ![t] = Tail(@)]
  /\ IF Head(queues_[t]).type = "normal"
       THEN ProcessData(t, Head(queues_[t]).data)
       ELSE UNCHANGED <<sketch, cand, byte, received, sent>>
  /\ UNCHANGED <<sourceVars, hash, mergeVars>>

\* Mutant: the keys are looked up before the counters of the item are added.
Merge_KeysFirst(t) ==
  LET item == Head(sent[t])
      s == AddCounters(m_sketch, item.counters)
      new == {k \in item.hh : GetEstimate(m_sketch, hash[0], k) > MergeThresh} \ m_cand
  IN
  /\ sent[t] # <<>>
  /\ sent' = [sent EXCEPT ![t] = Tail(@)]
  /\ m_sketch' = s
  /\ m_cand' = m_cand \cup new
  /\ merged' = [merged EXCEPT ![t] = [k \in Keys |-> @[k] + item.total[k]]]
  /\ UNCHANGED <<traceVars, hash, sketch, cand, byte, received>>

\* ProcessData of the merger: the counters, then the keys that exceed its own
\* threshold and have not been reported.
Merge(t) ==
  LET item == Head(sent[t])
      s == AddCounters(m_sketch, item.counters)
      new == {k \in item.hh : GetEstimate(s, hash[0], k) > MergeThresh} \ m_cand
  IN
  /\ sent[t] # <<>>
  /\ sent' = [sent EXCEPT ![t] = Tail(@)]
  /\ m_sketch' = s
  /\ m_cand' = m_cand \cup new
  /\ merged' = [merged EXCEPT ![t] = [k \in Keys |-> @[k] + item.total[k]]]
  /\ UNCHANGED <<traceVars, hash, sketch, cand, byte, received>>
-----------------------------------------------------------------------------
Quiet ==
  /\ upc \in {"done", "crashed"} \/ event_ = MaxEvents
  /\ \A t \in Threads : queues_[t] = <<>> /\ sent[t] = <<>>
  /\ UNCHANGED countVars

CountNext ==
  \/ UpThread /\ UNCHANGED <<cmVars, mergeVars>>
  \/ \E t \in Threads : Compute(t) \/ Merge(t)
  \/ Quiet

CountSpec == CountStart /\ [][CountNext]_countVars
-----------------------------------------------------------------------------

\* The merger never underestimates what the windows of compute thread 0, the one
\* whose hash functions it shares, have brought it; and each row of its sketch
\* adds up to all that was merged, of the other threads too.
NeverUnderestimates ==
  /\ \A k \in Keys : GetEstimate(m_sketch, hash[0], k) >= merged[0][k]
  /\ \A i \in Rows :
       MapThenSumSet(LAMBDA j : m_sketch[i][j], Buckets)
         = MapThenSumSet(LAMBDA t : MapThenSumSet(LAMBDA k : merged[t][k], Keys), Threads)

\* With a local threshold of 0, as configured, every key whose merged total of
\* thread 0 exceeds the merger's threshold has been reported, in whatever order
\* the windows of the threads arrive and however the total is spread over them.
HeavyHittersFound ==
  Thresh = 0 => \A k \in Keys : merged[0][k] > MergeThresh => k \in m_cand
=============================================================================
