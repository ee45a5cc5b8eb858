------------------------------- MODULE Stream -------------------------------
(***************************************************************************)
(* The connections between upstream workers and one downstream worker:     *)
(* tcp_connecter_t in an upstream worker's down thread, tcp_listener_t in  *)
(* the downstream worker's up thread, a stream_engine_t at each end with   *)
(* its encoder, decoder and NULL mechanism, and the epoll_t that runs them.*)
(*                                                                         *)
(* Bytes are grouped into units <<m, j>>, part j of message m, which the   *)
(* code handles as a whole: the greeting (-1) has the parts signature,     *)
(* version and rest, the READY command (0) one part and an item MsgUnits.  *)
(* Items are numbered from 1; the last one of each direction is FINISH.    *)
(* Both callbacks are always given in this program (support_feedback_), so *)
(* an engine without one is left out.  The compute threads of a worker are *)
(* one writer here: FINISH is that of the last of them.                     *)
(***************************************************************************)
EXTENDS Integers, Sequences, FiniteSets, SequencesExt

CONSTANTS NumUpstream,   \* upstream workers, 0 .. NumUpstream - 1
          MaxItems, MaxFeedback,   \* items sent downstream, upstream, before FINISH
          MsgUnits,      \* units of an item
          out_batch_size, in_batch_size,   \* in units
          SocketBuffer,  \* units that a socket takes before it is full
          MaxCrashes     \* bound: processes that are killed

ASSUME StreamAssumption ==
  /\ NumUpstream \in Nat \ {0} /\ MaxItems \in Nat /\ MaxFeedback \in Nat
  /\ out_batch_size \in Nat /\ out_batch_size >= 3 /\ MsgUnits \in 1 .. out_batch_size
  /\ in_batch_size \in Nat \ {0} /\ SocketBuffer \in Nat \ {0}
  /\ MaxCrashes \in Nat

Conns == 0 .. NumUpstream - 1
Engines == Conns \X {"up", "down"}
Down == <<0, "down">>
Pollers == (Conns \X {"up"}) \cup {Down}

poller(e) == IF e[2] = "up" THEN e ELSE Down
peer(e) == <<e[1], IF e[2] = "up" THEN "down" ELSE "up">>

Least(a, b) == IF a < b THEN a ELSE b

GREETING == -1
READY == 0
FINISH(e) == 1 + (IF e[2] = "up" THEN MaxItems ELSE MaxFeedback)   \* sent by e
NumUnits(m) == IF m = GREETING THEN 3 ELSE IF m = READY THEN 1 ELSE MsgUnits
Units(m) == [j \in 1 .. NumUnits(m) |-> <<m, j>>]
\* The units of the k items that follow item i.
ItemUnits(i, k) ==
  [j \in 1 .. k * MsgUnits |-> <<i + 1 + (j - 1) \div MsgUnits, 1 + ((j - 1) % MsgUnits)>>]

VARIABLES
  \* epoll_t, per process
  batch,       \* events of the last epoll_wait still to be handled, per socket
  status,      \* "run", "stopping", "exited" from the loop, "dead"
  \* establishing connections
  listening, backlog, connecter, id_sent,
  \* stream_engine_t and its socket
  engine,      \* per end
  wire,        \* units sent by this end and not yet read by the other
  closed, rst, \* the socket is closed; it has seen a reset
  \* the rings on either side of the engines
  avail,       \* items the compute thread has published to this end
  got,         \* items this end has pushed to its compute thread
  num_stop_,   \* FINISHes counted by a process's in_callback_
  \* history
  garbled,     \* this end decoded something that was not sent
  cut,         \* this end threw encoded bytes away
  crashes

pollVars == <<batch, status>>
connVars == <<listening, backlog, connecter, id_sent>>
sockVars == <<wire, closed, rst>>
appVars == <<avail, got, num_stop_>>
history == <<garbled, cut, crashes>>
vars == <<pollVars, connVars, engine, sockVars, appVars, history>>

\* The constructor and plug: the signature is in the buffer.
NewEngine ==
  [state |-> "plugged", handshaking |-> TRUE, greeting_read |-> 0, greeting_sent |-> 1,
   out |-> <<<<GREETING, 1>>>>, enc |-> <<>>, pulled |-> 0, acked |-> 0,
   dec |-> <<>>, ready_sent |-> FALSE, ready_received |-> FALSE,
   input_stopped |-> FALSE, output_stopped |-> FALSE, flushing |-> FALSE,
   pollin |-> TRUE, pollout |-> TRUE]

Init ==
  /\ batch = [p \in Pollers |-> <<>>] /\ status = [p \in Pollers |-> "run"]
  /\ listening = FALSE /\ backlog = <<>>
  /\ connecter = [c \in Conns |-> "start"] /\ id_sent = [c \in Conns |-> FALSE]
  /\ engine = [e \in Engines |-> [NewEngine EXCEPT !.state = "none"]]
  /\ wire = [e \in Engines |-> <<>>]
  /\ closed = [e \in Engines |-> FALSE] /\ rst = [e \in Engines |-> FALSE]
  /\ avail = [e \in Engines |-> 0] /\ got = [e \in Engines |-> 0]
  /\ num_stop_ = [p \in Pollers |-> 0]
  /\ garbled = [e \in Engines |-> FALSE] /\ cut = [e \in Engines |-> FALSE]
  /\ crashes = 0
-----------------------------------------------------------------------------
(* What one call does to an engine record g.                               *)

\* Mutant: polling for output is not resumed for the next part.
Greet_NoPollout(g, n) ==
  LET r == g.greeting_read + n
      s == IF r >= 2 THEN 3 ELSE r + 1
  IN [g EXCEPT !.greeting_read = r, !.greeting_sent = s, !.handshaking = (r < 3),
               !.out = @ \o SubSeq(Units(GREETING), g.greeting_sent + 1, s)]

\* The end of handshake, with the NULL mechanism on both sides.
Handshaken(g) == [g EXCEPT !.handshaking = FALSE, !.pollout = @ \/ g.out = <<>>]

\* handshake reads n more parts of the greeting.  The signature is answered with
\* the version and the version with the rest; polling for output is resumed when
\* the buffer had run empty.  The third part ends it.
Greet(g, n) ==
  LET r == g.greeting_read + n
      s == IF r >= 2 THEN 3 ELSE r + 1
      more == SubSeq(Units(GREETING), g.greeting_sent + 1, s)
      answered == [g EXCEPT !.greeting_read = r, !.greeting_sent = s, !.out = @ \o more,
                            !.pollout = @ \/ (g.out = <<>> /\ more # <<>>)]
  IN IF r < 3 THEN answered ELSE Handshaken(answered)

Ready(g) == g.ready_sent /\ g.ready_received

\* The first READY is taken; anything else is a protocol error.
process_handshake_command(r, m) ==
  [r EXCEPT !.error = (m # READY \/ r.g.ready_received), !.g.ready_received = TRUE]

\* FINISH is counted in the in_callback_ that the engines of a process share, and
\* only the call that completes the count reports the end of the input.
PushRecord(e, r, m) ==
  LET n == IF m = FINISH(peer(e)) THEN r.stops + 1 ELSE r.stops
      num_in == IF e[2] = "up" THEN 1 ELSE NumUpstream
  IN [r EXCEPT !.got = m, !.stops = n, !.garbled = @ \/ m # r.got + 1,
               !.g.input_stopped = @ \/ (m = FINISH(peer(e)) /\ n = num_in)]

\* write_msg: mechanism_ready replaces the first by the second.
write_msg(e, r, m) ==
  IF Ready(r.g) THEN PushRecord(e, r, m) ELSE process_handshake_command(r, m)

\* decode for one more unit: a message is complete when it has the length that
\* its first unit gives.
Decode(e, r, u) ==
  LET d == Append(r.g.dec, u)
      m == d[1][1]
  IN IF r.error THEN r
     ELSE IF Len(d) < NumUnits(m) THEN [r EXCEPT !.g.dec = d]
     ELSE write_msg(e, [r EXCEPT !.g.dec = <<>>, !.garbled = @ \/ d # Units(m)], m)

\* next_handshake_command: the READY command, once.
ReadyCommand(g) == IF g.ready_sent THEN <<>> ELSE Units(READY)

\* pull_and_encode: how many of the published items are pulled while the batch,
\* which holds the given number of units, is not full.
PullCount(e, g, before) ==
  IF ~g.ready_received THEN 0
  ELSE Cardinality({i \in g.pulled + 1 .. avail[e] :
                      before + (i - g.pulled - 1) * MsgUnits < out_batch_size})

\* encode acknowledges an item when it is called again with the item written and
\* room in the batch, so not the last of the k items of a full batch.
Acked(g, k, full) == IF full /\ k > 0 THEN g.pulled + k - 1 ELSE g.pulled + k

\* Mutant: the encoder starts afresh and the rest of the item is not sent.
Fill_ForgetsRest(e, g) ==
  LET k == PullCount(e, g, Len(ReadyCommand(g)))
      all == ReadyCommand(g) \o ItemUnits(g.pulled, k)
  IN [g EXCEPT !.ready_sent = TRUE, !.pulled = @ + k, !.acked = g.pulled + k,
               !.out = SubSeq(all, 1, Least(Len(all), out_batch_size)), !.enc = <<>>,
               !.output_stopped = @ \/ g.pulled + k = FINISH(e)]

\* The loop that fills the batch: what is left of the item in the encoder, READY,
\* and the items there are, up to FINISH.  The last may fit in part only.
Fill(e, g) ==
  LET first == g.enc \o ReadyCommand(g)
      k == PullCount(e, g, Len(first))
      all == first \o ItemUnits(g.pulled, k)
  IN [g EXCEPT !.ready_sent = TRUE, !.pulled = @ + k,
               !.acked = Acked(g, k, Len(all) >= out_batch_size),
               !.out = SubSeq(all, 1, Least(Len(all), out_batch_size)),
               !.enc = SubSeq(all, out_batch_size + 1, Len(all)),
               !.output_stopped = @ \/ g.pulled + k = FINISH(e)]

\* Mutant: the item in the encoder is not finished.
Stop_NoEncode(g) == [g EXCEPT !.out = <<>>, !.flushing = TRUE]

\* After the write that follows FINISH: the buffer is what is left in the encoder.
Stop(g) == [g EXCEPT !.out = g.enc, !.enc = <<>>, !.acked = g.pulled, !.flushing = TRUE]

\* Everything is written: no more output.
Stopped(g) == [g EXCEPT !.flushing = FALSE, !.pollout = FALSE]
-----------------------------------------------------------------------------
(* Sockets, and epoll_t::loop.                                             *)

Entry(e, ev) == [engine |-> e, event |-> ev]
Space(e) == SocketBuffer - Len(wire[e])

\* The ends in S are closed, with units w under way: an end that leaves units
\* unread resets its peer, and what it has sent may be lost from any point on.
Close(S, w) ==
  /\ closed' = [e \in Engines |-> closed[e] \/ e \in S]
  /\ rst' = [e \in Engines |-> rst[e] \/ (peer(e) \in S /\ w[e] # <<>>)]
  /\ \E keep \in 0 .. SocketBuffer :
       wire' = [e \in Engines |->
         IF peer(e) \in S THEN <<>>
         ELSE IF e \in S /\ w[peer(e)] # <<>> THEN SubSeq(w[e], 1, Least(keep, Len(w[e])))
         ELSE w[e]]

\* What epoll_wait reports for an engine's socket, in the order of the tests.
EngineEvents(e) ==
  (IF rst[e] THEN <<Entry(e, "hup")>> ELSE <<>>) \o
  (IF engine[e].pollout /\ (Space(e) > 0 \/ rst[e] \/ closed[peer(e)])
     THEN <<Entry(e, "out")>> ELSE <<>>) \o
  (IF engine[e].pollin /\ (wire[peer(e)] # <<>> \/ rst[e] \/ closed[peer(e)])
     THEN <<Entry(e, "in")>> ELSE <<>>)

ReadySets(p) ==
  ({EngineEvents(e) : e \in {x \in Engines : poller(x) = p /\ engine[x].state = "plugged"}}
     \cup (IF p = Down /\ backlog # <<>> THEN {<<Entry(p, "accept")>>} ELSE {})
     \cup (IF p # Down /\ connecter[p[1]] \in {"connected", "refused"}
             THEN {<<Entry(p, "connect")>>} ELSE {})) \ {<<>>}

\* A thread inside the loop that writes the end of its output.
Blocked(p) == \E e \in Engines : poller(e) = p /\ engine[e].flushing

epoll_wait(p) ==
  /\ status[p] = "run" /\ batch[p] = <<>> /\ ~Blocked(p)
  /\ ReadySets(p) # {}
  /\ \E order \in SetToSeqs(ReadySets(p)) : batch' = [batch EXCEPT ![p] = order]
  /\ UNCHANGED <<status, connVars, engine, sockVars, appVars, history>>

\* The next event of the batch.
Due(p, e, ev) ==
  /\ status[p] \in {"run", "stopping"} /\ ~Blocked(p)
  /\ batch[p] # <<>> /\ Head(Head(batch[p])) = Entry(e, ev)

\* The event is handled; stopping is tested after the last one.
Handled(p, stop) ==
  LET more == Tail(Head(batch[p]))
      left == (IF more = <<>> THEN <<>> ELSE <<more>>) \o Tail(batch[p])
  IN /\ batch' = [batch EXCEPT ![p] = left]
     /\ status' = [status EXCEPT ![p] =
          IF (stop \/ @ = "stopping") /\ left = <<>> THEN "exited"
          ELSE IF stop THEN "stopping" ELSE @]

\* Mutant: events of a removed socket are delivered.
Retired_NoCheck(e) == FALSE

\* pe->fd == retired_fd: rm_fd was called since epoll_wait returned.
Retired(e) == engine[e].state # "plugged"

skip_retired(e) ==
  /\ \E ev \in {"hup", "out", "in"} : Due(poller(e), e, ev)
  /\ Retired(e)
  /\ Handled(poller(e), FALSE)
  /\ UNCHANGED <<connVars, engine, sockVars, appVars, history>>
-----------------------------------------------------------------------------
(* Input.                                                                  *)

\* read and decode of the next n units for the engine record g.
Received(e, g, n) ==
  LET k == IF g.handshaking THEN Least(n, 3 - g.greeting_read) ELSE 0
      r == [g |-> IF k > 0 THEN Greet(g, k) ELSE g, got |-> got[e],
            stops |-> num_stop_[poller(e)], garbled |-> garbled[e], error |-> FALSE]
      after[i \in k .. n] == IF i = k THEN r ELSE Decode(e, after[i - 1], wire[peer(e)][i])
  IN after[n]

\* Mutant: the end of either direction ends the engine.
EndOfInput_Either(g) == g.input_stopped \/ g.output_stopped

\* Mutant: the engine does not look whether its output has ended.
EndOfInput_NoTerminate(g) == FALSE

\* in_event saw the end of the input after that of the output.
EndOfInput(g) == g.input_stopped /\ g.output_stopped

\* The socket has no unit and never will: recv returns 0 or an error.
NoMore(e) == wire[peer(e)] = <<>> /\ (closed[peer(e)] \/ rst[e])

\* read finds n units: with one there it returns at least one, except that the
\* call in plug may be too early.  Greeting aside it takes one buffer at most.
Readable(e, g, n, plugging) ==
  /\ n <= Len(wire[peer(e)])
  /\ n <= in_batch_size + (IF g.handshaking THEN 3 - g.greeting_read ELSE 0)
  /\ wire[peer(e)] = <<>> \/ plugging \/ n > 0

\* in_event of engine e whose record is g, when neither side is stopped before.
Input(e, g, n) ==
  LET r == Received(e, g, n)
      w == [wire EXCEPT ![peer(e)] = SubSeq(@, n + 1, Len(@))]
      gone == NoMore(e) \/ r.error \/ EndOfInput(r.g)
  IN /\ engine' = [engine EXCEPT ![e] =
           [r.g EXCEPT !.pollin = ~r.g.input_stopped, !.state = IF gone THEN "gone" ELSE @]]
     /\ got' = [got EXCEPT ![e] = r.got]
     /\ num_stop_' = [num_stop_ EXCEPT ![poller(e)] = r.stops]
     /\ garbled' = [garbled EXCEPT ![e] = r.garbled]
     /\ IF gone THEN Close({e}, w) ELSE wire' = w /\ UNCHANGED <<closed, rst>>

in_event(e) ==
  /\ \E ev \in {"hup", "in"} : Due(poller(e), e, ev)
  /\ ~Retired(e)
  /\ IF engine[e].input_stopped
       THEN /\ engine' = [engine EXCEPT ![e].state = "io_error"]
            /\ Handled(poller(e), FALSE)
            /\ UNCHANGED <<sockVars, got, num_stop_, garbled>>
       ELSE \E n \in 0 .. SocketBuffer :
              /\ Readable(e, engine[e], n, FALSE)
              /\ Input(e, engine[e], n)
              /\ Handled(poller(e), EndOfInput(Received(e, engine[e], n).g))
  /\ UNCHANGED <<connVars, avail, cut, crashes>>
-----------------------------------------------------------------------------
(* Output.                                                                 *)

\* send: what fits is under way; a closed peer answers with a reset.
Sent(e, g) == IF closed[peer(e)] THEN Len(g.out) ELSE Least(Len(g.out), Space(e))
WireAfter(e, g) ==
  IF closed[peer(e)] THEN wire ELSE [wire EXCEPT ![e] = @ \o SubSeq(g.out, 1, Sent(e, g))]

\* The end of an out_event that sent units of g and leaves g1: the output has
\* ended, and with it the engine if the input has; or the loop goes on writing.
EndOutput(e, g, g1) ==
  LET over == g1.flushing /\ g1.out = <<>>
      gone == over /\ g1.input_stopped
  IN /\ engine' = [engine EXCEPT ![e] =
           [(IF over THEN Stopped(g1) ELSE g1) EXCEPT !.state = IF gone THEN "gone" ELSE @]]
     /\ IF gone THEN Close({e}, WireAfter(e, g))
        ELSE /\ wire' = WireAfter(e, g)
             /\ rst' = [rst EXCEPT ![e] = @ \/ closed[peer(e)]]
             /\ UNCHANGED closed
     /\ IF g1.flushing /\ ~over THEN UNCHANGED pollVars ELSE Handled(poller(e), gone)

out_event(e) ==
  LET old == engine[e]
      g == IF old.out = <<>> /\ ~old.handshaking THEN Fill(e, old) ELSE old
      n == Sent(e, g)
      rest == [g EXCEPT !.out = SubSeq(@, n + 1, Len(@))]
  IN
  /\ Due(poller(e), e, "out")
  /\ ~Retired(e)
  /\ \/ /\ g.out = <<>>
        /\ engine' = [engine EXCEPT ![e] = g]
        /\ Handled(poller(e), FALSE)
        /\ UNCHANGED <<sockVars, cut>>
     \/ /\ g.out # <<>> /\ rst[e]
        /\ engine' = [engine EXCEPT ![e] = [g EXCEPT !.pollout = FALSE]]
        /\ Handled(poller(e), FALSE)
        /\ UNCHANGED <<sockVars, cut>>
     \/ /\ g.out # <<>> /\ ~rst[e]
        /\ cut' = [cut EXCEPT ![e] = @ \/ (g.output_stopped /\ rest.out # <<>>)]
        /\ EndOutput(e, g, IF g.output_stopped THEN Stop(rest)
                           ELSE [rest EXCEPT !.pollout = @ /\ ~(g.handshaking /\ rest.out = <<>>)])
  /\ UNCHANGED <<connVars, appVars, garbled, crashes>>

\* One more round of the loop after FINISH.  After a reset write returns -1 and
\* the loop never ends.
flush(e) ==
  LET g == engine[e] IN
  /\ g.flushing /\ status[poller(e)] \in {"run", "stopping"}
  /\ ~rst[e] /\ Sent(e, g) > 0
  /\ EndOutput(e, g, [g EXCEPT !.out = SubSeq(@, Sent(e, g) + 1, Len(@))])
  /\ UNCHANGED <<connVars, appVars, garbled, cut, crashes>>
-----------------------------------------------------------------------------
(* Connections.                                                            *)

\* plug of a new engine, whose in_event may read at once.
plug(e) == \E n \in 0 .. SocketBuffer : Readable(e, NewEngine, n, TRUE) /\ Input(e, NewEngine, n)

\* set_address in ThreadInitHandler of the up thread: bind and listen.
set_address ==
  /\ ~listening /\ status[Down] = "run"
  /\ listening' = TRUE
  /\ UNCHANGED <<pollVars, backlog, connecter, id_sent, engine, sockVars, appVars, history>>

\* The loop runs due timers before it waits.
Idle(c) == status[<<c, "up">>] = "run" /\ batch[<<c, "up">>] = <<>>

\* Connected: the worker id is sent and the engine plugged.
Attach(c) ==
  /\ id_sent' = [id_sent EXCEPT ![c] = TRUE]
  /\ connecter' = [connecter EXCEPT ![c] = "done"]
  /\ plug(<<c, "up">>)

\* start_connecting, from ThreadInitHandler or timer_event: connect succeeds or
\* fails at once, or is under way.
start_connecting(c) ==
  /\ Idle(c) /\ connecter[c] \in {"start", "timer"}
  /\ \/ /\ listening
        /\ backlog' = Append(backlog, c)
        /\ Attach(c)
     \/ /\ ~listening
        /\ connecter' = [connecter EXCEPT ![c] = "timer"]
        /\ UNCHANGED <<backlog, id_sent, engine, sockVars, got, num_stop_, garbled>>
     \/ /\ connecter' = [connecter EXCEPT ![c] = "connecting"]
        /\ UNCHANGED <<backlog, id_sent, engine, sockVars, got, num_stop_, garbled>>
  /\ UNCHANGED <<pollVars, listening, avail, cut, crashes>>

\* The kernel completes the connection, or finds nobody listening.
kernel_connect(c) ==
  /\ connecter[c] = "connecting" /\ status[<<c, "up">>] = "run"
  /\ connecter' = [connecter EXCEPT ![c] = IF listening THEN "connected" ELSE "refused"]
  /\ backlog' = IF listening THEN Append(backlog, c) ELSE backlog
  /\ UNCHANGED <<pollVars, listening, id_sent, engine, sockVars, appVars, history>>

\* tcp_connecter_t::out_event.
connecter_out_event(c) ==
  /\ Due(<<c, "up">>, <<c, "up">>, "connect")
  /\ IF connecter[c] = "connected" THEN Attach(c)
     ELSE /\ connecter' = [connecter EXCEPT ![c] = "timer"]
          /\ UNCHANGED <<id_sent, engine, sockVars, got, num_stop_, garbled>>
  /\ Handled(<<c, "up">>, FALSE)
  /\ UNCHANGED <<listening, backlog, avail, cut, crashes>>

\* tcp_listener_t::in_event: accept, and recv of the worker id until it is there.
listener_in_event ==
  /\ Due(Down, Down, "accept")
  /\ id_sent[Head(backlog)]
  /\ plug(<<Head(backlog), "down">>)
  /\ backlog' = Tail(backlog)
  /\ Handled(Down, FALSE)
  /\ UNCHANGED <<listening, connecter, id_sent, avail, cut, crashes>>
-----------------------------------------------------------------------------
(* The compute threads, and the end of the processes.                      *)

\* An item, or FINISH, is published to an engine.  The downstream worker
\* publishes FINISH to one upstream worker after the other when it has had one
\* from each (EmitReverseFinish).
publish(e) ==
  /\ status[poller(e)] # "dead" /\ avail[e] < FINISH(e)
  /\ (avail[e] = MaxFeedback /\ e[2] = "down") =>
       /\ num_stop_[Down] = NumUpstream
       /\ \A c \in 0 .. e[1] - 1 : avail[<<c, "down">>] = FINISH(e)
  /\ avail' = [avail EXCEPT ![e] = @ + 1]
  /\ UNCHANGED <<pollVars, connVars, engine, sockVars, got, num_stop_, history>>

\* The downstream process ends when its up thread has left the loop and Clean has
\* had every slot back.
exit_process ==
  /\ status[Down] = "exited" /\ listening
  /\ \A c \in Conns : engine[<<c, "down">>].acked = FINISH(<<c, "down">>)
  /\ listening' = FALSE
  /\ Close({<<c, "down">> : c \in Conns}, wire)
  /\ UNCHANGED <<pollVars, backlog, connecter, id_sent, engine, appVars, history>>

\* A process is killed; the kernel closes its sockets.
crash(p) ==
  /\ crashes < MaxCrashes /\ status[p] \in {"run", "stopping"}
  /\ crashes' = crashes + 1
  /\ status' = [status EXCEPT ![p] = "dead"]
  /\ batch' = [batch EXCEPT ![p] = <<>>]
  /\ listening' = (listening /\ p # Down)
  /\ backlog' = IF p = Down THEN <<>> ELSE backlog
  /\ Close({e \in Engines : poller(e) = p}, wire)
  /\ UNCHANGED <<connecter, id_sent, engine, appVars, garbled, cut>>
-----------------------------------------------------------------------------
EngineStep(e) == in_event(e) \/ out_event(e) \/ flush(e) \/ skip_retired(e)

PollerStep(p) ==
  \/ epoll_wait(p)
  \/ \E e \in Engines : poller(e) = p /\ EngineStep(e)
  \/ p = Down /\ (set_address \/ listener_in_event)
  \/ p # Down /\ (start_connecting(p[1]) \/ connecter_out_event(p[1]))

Others ==
  \/ \E c \in Conns : kernel_connect(c)
  \/ \E e \in Engines : publish(e)
  \/ exit_process

Next ==
  \/ \E p \in Pollers : PollerStep(p)
  \/ Others
  \/ \E p \in Pollers : crash(p)

Spec == Init /\ [][Next]_vars

\* Threads are scheduled, compute threads publish what they have, the kernel
\* completes connections.  A crash never has to happen.
Fairness == (\A p \in Pollers : WF_vars(PollerStep(p))) /\ WF_vars(Others)

FairSpec == Spec /\ Fairness
-----------------------------------------------------------------------------
(* Properties.                                                             *)

TypeOK ==
  /\ \A p \in Pollers : status[p] \in {"run", "stopping", "exited", "dead"}
  /\ \A e \in Engines :
       /\ engine[e].state \in {"none", "plugged", "io_error", "gone"}
       /\ Len(wire[e]) <= SocketBuffer /\ Len(engine[e].out) <= out_batch_size
       /\ engine[e].pulled \in 0 .. avail[e] /\ got[e] \in 0 .. FINISH(peer(e))

\* Whatever the sizes of the reads and writes, an engine hands over the messages
\* its peer pulled, in order and once each (in_event, out_event, encode, decode);
\* the exception is a peer whose out_event threw away what a partial write left.
InOrder ==
  \A e \in Engines : garbled[e] => cut[peer(e)]

\* On a live connection no unit is lost, doubled or moved: what the peer has taken
\* in, its decoder, the socket, the write buffer and the encoder together hold what
\* this end was given to send (handshake, in_event, out_event).
Conserved ==
  \A e \in Engines :
    LET g == engine[e]
        h == engine[peer(e)]
        sent == SubSeq(Units(GREETING), 1, g.greeting_sent)
                  \o (IF g.ready_sent THEN Units(READY) ELSE <<>>) \o ItemUnits(0, g.pulled)
        taken == SubSeq(Units(GREETING), 1, h.greeting_read)
                  \o (IF h.ready_received THEN Units(READY) ELSE <<>>) \o ItemUnits(0, got[peer(e)])
    IN (g.state = "plugged" /\ ~closed[peer(e)] /\ ~closed[e] /\ ~cut[e]) =>
         taken \o h.dec \o wire[e] \o g.out \o g.enc = sent

\* What passes over a connection arrives as it was sent, in bounded buffers.
StreamInv == TypeOK /\ InOrder /\ Conserved

\* When out_event has sent FINISH on a live connection, every slot has been given
\* back to the compute threads, so that their Clean can end.
SlotsReturned ==
  \A e \in Engines :
    (engine[e].output_stopped /\ ~engine[e].flushing /\ ~rst[e]) => engine[e].acked = FINISH(e)

\* An up-side poller leaves its loop only when the downstream worker has had every
\* item of this connection and the FINISH of every upstream worker, even if
\* processes are killed.
ExitMeansDelivered ==
  \A c \in Conns : status[<<c, "up">>] = "exited" =>
    num_stop_[Down] = NumUpstream /\ (cut[<<c, "up">>] \/ got[<<c, "down">>] = FINISH(<<c, "up">>))

\* No event reaches an engine after rm_fd, also when one epoll_wait reported
\* several events of its socket (the retired_fd tests of epoll_t::loop).
NoEventAfterRemoval ==
  [][\A e \in Engines : engine[e].state \in {"gone", "io_error"} => engine'[e] = engine[e]]_vars

\* However the two greetings and the READY commands meet, both engines of a
\* connection complete the handshake (handshake, next_handshake_command,
\* process_handshake_command), unless a process is killed.
HandshakeCompletes ==
  \A e \in Engines :
    engine[e].state = "plugged" ~> (Ready(engine[e]) \/ crashes > 0)

\* With every process alive and no byte thrown away, every poller leaves its loop.
PollersExit ==
  <>(\/ crashes > 0 \/ \E e \in Engines : cut[e]
     \/ \A p \in Pollers : status[p] = "exited")

\* The upstream workers "send finish first / but continue to wait for finish from
\* downstream workers" (compute_thread.hpp): the poller that sends it leaves its
\* loop only after it has sent it on every connection.
FinishSentToAll ==
  status[Down] = "exited" => \A c \in Conns : engine[<<c, "down">>].output_stopped
=============================================================================
