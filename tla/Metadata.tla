------------------------------ MODULE Metadata ------------------------------
(***************************************************************************)
(* The READY commands of a handshake (src/net/mechanism.cpp and            *)
(* null_mechanism.cpp): the properties that each side appends with         *)
(* add_property and the other takes apart with parse_metadata, down to the *)
(* bytes of the length fields (src/net/wire.hpp).  Two engines of any      *)
(* socket types exchange theirs in any order; module Stream has the        *)
(* connection around them.                                                 *)
(*                                                                         *)
(* A byte is a number below Base.  Names of properties and of socket types *)
(* are short strings of bytes of their own.                                *)
(***************************************************************************)
EXTENDS Integers, Sequences

CONSTANTS Base,         \* values of a byte (256)
          Identities    \* identities of sockets: strings of bytes

Sides == {1, 2}
Other(e) == 3 - e

VARIABLES
  stype, own_identity, recv_identity,   \* options of each side
  command,                              \* READY under way to each side
  ready_command_sent, ready_command_received,
  rc, identity                          \* of process_handshake_command; what
                                        \* set_peer_identity stored

MetadataVars == <<stype, own_identity, recv_identity, command, ready_command_sent,
                  ready_command_received, rc, identity>>

SocketTypes == {"PAIR", "PUB", "SUB", "REQ", "REP", "DEALER", "ROUTER", "PULL", "PUSH",
                "XPUB", "XSUB"}
NoCommandYet == <<>>
NoRc == 1

\* socket_type_string, as bytes.
socket_type_string(t) ==
  CASE t = "PAIR" -> <<3, 0>> [] t = "PUB" -> <<3, 1>> [] t = "SUB" -> <<3, 2>>
    [] t = "REQ" -> <<3, 3>> [] t = "REP" -> <<2, 3>> [] t = "DEALER" -> <<2, 2, 0>>
    [] t = "ROUTER" -> <<2, 2, 1>> [] t = "PULL" -> <<2, 0>> [] t = "PUSH" -> <<2, 1>>
    [] t = "XPUB" -> <<1, 3, 1>> [] t = "XSUB" -> <<1, 3, 2>>
SocketType == <<0, 1, 2>>
Identity == <<1, 1>>
READY == <<1, 3>>

\* put_uint8 ... put_uint64: n bytes, most significant first.
put(n, value) == [i \in 1 .. n |-> (value \div Base ^ (n - i)) % Base]

\* get_uint8 ... get_uint64.
get(bytes) ==
  LET value[i \in 0 .. Len(bytes)] == IF i = 0 THEN 0 ELSE value[i - 1] * Base + bytes[i]
  IN value[Len(bytes)]

add_property(name, value) == put(1, Len(name)) \o name \o put(4, Len(value)) \o value

SendsIdentity(t) == t \in {"REQ", "DEALER", "ROUTER"}

\* Mutant: a router takes every peer that takes it, but not another router.
check_socket_type_Router(own, t) ==
  CASE own = "REQ" -> t \in {"REP", "ROUTER"} [] own = "REP" -> t \in {"REQ", "DEALER"}
    [] own = "DEALER" -> t \in {"REP", "DEALER", "ROUTER"}
    [] own = "ROUTER" -> t \in {"REQ", "ROUTER"}
    [] own = "PUSH" -> t = "PULL" [] own = "PULL" -> t = "PUSH"
    [] own \in {"PUB", "XPUB"} -> t \in {"SUB", "XSUB"}
    [] own \in {"SUB", "XSUB"} -> t \in {"PUB", "XPUB"}
    [] own = "PAIR" -> t = "PAIR"

\* The peers a socket accepts.
check_socket_type(own, t) ==
  CASE own = "REQ" -> t \in {"REP", "ROUTER"} [] own = "REP" -> t \in {"REQ", "DEALER"}
    [] own = "DEALER" -> t \in {"REP", "DEALER", "ROUTER"}
    [] own = "ROUTER" -> t \in {"REQ", "DEALER", "ROUTER"}
    [] own = "PUSH" -> t = "PULL" [] own = "PULL" -> t = "PUSH"
    [] own \in {"PUB", "XPUB"} -> t \in {"SUB", "XSUB"}
    [] own \in {"SUB", "XSUB"} -> t \in {"PUB", "XPUB"}
    [] own = "PAIR" -> t = "PAIR"

Accepts(own, text) == \E t \in SocketTypes : text = socket_type_string(t) /\ check_socket_type(own, t)

\* The loop, by the position it stands at.  A property that is cut short ends
\* it; only bytes that are left over then are an error.
parse_metadata(bytes, own, recv, first) ==
  LET Result(rc_, id) == [rc |-> rc_, identity |-> id]
      Stop(left) == Result(IF left > 0 THEN -1 ELSE 0, <<>>)
      Loop[at \in 1 .. Len(bytes) + 1] ==
        LET bytes_left == Len(bytes) - at + 1
            name_length == bytes[at]
            left1 == bytes_left - 1 - name_length
            name == SubSeq(bytes, at + 1, at + name_length)
            value_length == get(SubSeq(bytes, at + 1 + name_length, at + 4 + name_length))
            left2 == left1 - 4
            value_at == at + 5 + name_length
            value == SubSeq(bytes, value_at, value_at + value_length - 1)
            rest == Loop[value_at + value_length]
        IN IF bytes_left <= 1 THEN Stop(bytes_left)
           ELSE IF left1 < 0 THEN Stop(bytes_left - 1)
           ELSE IF left1 < 4 THEN Stop(left1)
           ELSE IF left2 < value_length THEN Stop(left2)
           ELSE IF name = Identity /\ recv
             THEN [rest EXCEPT !.identity = IF @ = <<>> THEN value ELSE @]
           ELSE IF name = SocketType /\ ~Accepts(own, value) THEN Result(-1, <<>>)
           ELSE rest
  IN Loop[first]
-----------------------------------------------------------------------------
MetadataStart ==
  /\ stype \in [Sides -> SocketTypes]
  /\ own_identity \in [Sides -> Identities] /\ recv_identity \in [Sides -> BOOLEAN]
  /\ command = [e \in Sides |-> NoCommandYet]
  /\ ready_command_sent = [e \in Sides |-> FALSE]
  /\ ready_command_received = [e \in Sides |-> FALSE]
  /\ rc = [e \in Sides |-> NoRc] /\ identity = [e \in Sides |-> <<>>]

next_handshake_command(e) ==
  /\ ~ready_command_sent[e]
  /\ command' = [command EXCEPT ![Other(e)] =
       READY \o add_property(SocketType, socket_type_string(stype[e]))
         \o (IF SendsIdentity(stype[e]) THEN add_property(Identity, own_identity[e]) ELSE <<>>)]
  /\ ready_command_sent' = [ready_command_sent EXCEPT ![e] = TRUE]
  /\ UNCHANGED <<stype, own_identity, recv_identity, ready_command_received, rc, identity>>

\* ready_command_received is set whatever the result.
process_handshake_command(e) ==
  /\ command[e] # NoCommandYet
  /\ LET parsed == parse_metadata(command[e], stype[e], recv_identity[e], Len(READY) + 1)
         bad == ready_command_received[e] \/ SubSeq(command[e], 1, Len(READY)) # READY
     IN /\ rc' = [rc EXCEPT ![e] = IF bad THEN -1 ELSE parsed.rc]
        /\ identity' = [identity EXCEPT ![e] = IF bad THEN @ ELSE parsed.identity]
  /\ ready_command_received' = [ready_command_received EXCEPT ![e] = TRUE]
  /\ command' = [command EXCEPT ![e] = NoCommandYet]
  /\ UNCHANGED <<stype, own_identity, recv_identity, ready_command_sent>>

MetadataNext == \E e \in Sides : next_handshake_command(e) \/ process_handshake_command(e)

MetadataSpec == MetadataStart /\ [][MetadataNext]_MetadataVars
-----------------------------------------------------------------------------
(* Properties.                                                             *)

\* The two sides of a connection come to the same verdict, each from the
\* other's READY alone: no pair of socket types leaves one side connected and
\* the other refusing.  A side that asks for the peer's identity and accepts
\* the peer ends with the identity the peer was given, its length carried by
\* several bytes; without the option it keeps none.
HandshakeAgrees ==
  \A e \in Sides : rc[e] # NoRc =>
    /\ rc[Other(e)] # NoRc => rc[e] = rc[Other(e)]
    /\ rc[e] = 0 =>
         identity[e] = IF recv_identity[e] /\ SendsIdentity(stype[Other(e)])
                         THEN own_identity[Other(e)] ELSE <<>>
=============================================================================
