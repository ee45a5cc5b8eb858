---------------------------- MODULE MCStructures ----------------------------
(***************************************************************************)
(* The components that one thread uses by itself, or two threads through   *)
(* one object: the command queue, the message, the operators, the socket   *)
(* options, the listening endpoint and the handshake's metadata.  They     *)
(* share no state; a behaviour exercises the one that `object' names while *)
(* the others stay as they were constructed.                               *)
(***************************************************************************)
EXTENDS YQueue, Msg, Operators, Options, Endpoint, Metadata

VARIABLE object

Objects == {"queue", "msg", "operator", "options", "endpoint", "metadata"}

OptionNumbers == -2 .. 2

MCIdentities == {<<>>, <<3>>, <<1, 0, 2, 2, 1>>}

\* Endpoints: hosts of every form, ports in range, at the edge and out of it.
V4 == <<1, 2>>
V6 == <<2, 1, 3>>
Hosts == {<<Star>>, <<Name("eth0")>>, <<Name("tun0")>>, <<Literal("inet", V4)>>,
          <<Sep("["), Literal("inet6", V6), Sep("]")>>, <<Literal("inet6", V6)>>, <<>>}
PortTexts == {<<Sep(":"), p>> : p \in {Star, Number(0), Number(80), Number(65616), Name("x")}}
               \cup {<<>>, <<Sep(":")>>}
MCUris == {<<tcp, Sep("://")>> \o h \o t : h \in Hosts, t \in PortTexts}
            \cup {<<Name("udp"), Sep("://"), Star, Sep(":"), Number(80)>>,
                  <<tcp, Star, Sep(":"), Number(80)>>}
MCMasks == {<<l>> \o t : l \in {Literal("inet", V4), Literal("inet6", V6)},
             t \in {<<>>, <<Sep("/")>>} \cup {<<Sep("/"), Number(n)>> : n \in 0 .. 7}}
MCPeers == [family : {"inet"}, ip : {<<a, b>> : a, b \in 0 .. 3}]
             \cup [family : {"inet6"}, ip : {<<2, a, b>> : a, b \in 0 .. 3}]

\* A component that is not exercised starts in one of its initial states; which
\* address the first chunk has makes no difference.
Start ==
  /\ object \in Objects
  /\ ypipe_t
  /\ chunks = <<CHOOSE k \in Chunks : TRUE>>
  /\ MsgStart
  /\ OpStart
  /\ object # "operator" => kind = NumericArray_L1 /\ theta = 0 /\ length = 1
  /\ OptionStart
  /\ EndpointStart
  /\ object # "endpoint" =>
       /\ uri = <<tcp, Sep("://"), Star, Sep(":"), Number(80)>>
       /\ ~use_ipv6 /\ ~kernel_ipv6 /\ ~stale_errno
  /\ MetadataStart
  /\ object # "metadata" => \A e \in Sides :
       stype[e] = "PAIR" /\ own_identity[e] = <<>> /\ ~recv_identity[e]

StructuresNext ==
  /\ UNCHANGED object
  /\ \/ object = "queue" /\ Next
        /\ UNCHANGED <<MsgVars, OpVars, OptionVars, EndpointVars, MetadataVars>>
     \/ object = "msg" /\ MsgNext
        /\ UNCHANGED <<vars, OpVars, OptionVars, EndpointVars, MetadataVars>>
     \/ object = "operator" /\ OpNext
        /\ UNCHANGED <<vars, MsgVars, OptionVars, EndpointVars, MetadataVars>>
     \/ object = "options" /\ OptionNext
        /\ UNCHANGED <<vars, MsgVars, OpVars, EndpointVars, MetadataVars>>
     \/ object = "endpoint" /\ EndpointNext
        /\ UNCHANGED <<vars, MsgVars, OpVars, OptionVars, MetadataVars>>
     \/ object = "metadata" /\ MetadataNext
        /\ UNCHANGED <<vars, MsgVars, OpVars, OptionVars, EndpointVars>>

StructuresSpec ==
  Start /\ [][StructuresNext]_<<object, vars, MsgVars, OpVars, OptionVars, EndpointVars, MetadataVars>>
=============================================================================
