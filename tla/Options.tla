------------------------------ MODULE Options ------------------------------
(***************************************************************************)
(* options_t (src/net/options.cpp): the socket options of the network      *)
(* layer, set and read by setsockopt and getsockopt.  Most options are a   *)
(* range check and an assignment, so they are a table; several options     *)
(* share a field (IPV4ONLY and IPV6; PLAIN_SERVER, PLAIN_USERNAME and      *)
(* PLAIN_PASSWORD), and accept filters are resolved with what ipv6 is at   *)
(* the time.  The CURVE options exist only in builds with libsodium.       *)
(*                                                                         *)
(* An argument has a size in bytes and a content; contents are small       *)
(* numbers, read as an integer when the size fits, as text otherwise.  The *)
(* first byte of a content is zero exactly when the number is zero.        *)
(***************************************************************************)
EXTENDS Integers, Sequences

CONSTANTS Sizes,     \* sizes of arguments, among them 0, 4, 8, 255, 256
          Numbers,   \* contents of arguments
          MaxSets    \* bound on the accepted calls

VARIABLES opt,                 \* the fields
          tcp_accept_filters,
          accepted             \* history: the accepted calls

OptionVars == <<opt, tcp_accept_filters, accepted>>

\* optval_ is NULL only together with size 0.
Argument(bytes, null, data) == [bytes |-> bytes, null |-> null, data |-> data]
Arguments ==
  {Argument(b, FALSE, d) : b \in Sizes \ {0}, d \in Numbers}
    \cup {Argument(0, TRUE, 0), Argument(0, FALSE, 0)}

is_int(arg) == arg.bytes = 4

Text == [bytes |-> 0, data |-> 0]

options_t ==
  [sndhwm |-> 1000, rcvhwm |-> 1000, affinity |-> 0, identity |-> Text, rate |-> 100,
   recovery_ivl |-> 10000, multicast_hops |-> 1, sndbuf |-> 4194304, rcvbuf |-> 4194304,
   type |-> -1, linger |-> -1, reconnect_ivl |-> 100, reconnect_ivl_max |-> 0,
   backlog |-> 100, maxmsgsize |-> -1, rcvtimeo |-> -1, sndtimeo |-> -1, ipv6 |-> 0,
   immediate |-> 0, tcp_keepalive |-> -1, tcp_keepalive_cnt |-> -1,
   tcp_keepalive_idle |-> -1, tcp_keepalive_intvl |-> -1, mechanism |-> "NULL",
   as_server |-> 0, zap_domain |-> Text, plain_username |-> Text,
   plain_password |-> Text, conflate |-> 0]

OptionStart == opt = options_t /\ tcp_accept_filters = <<>> /\ accepted = <<>>

Field(name, valid) == [field |-> name, valid |-> valid]

\* The values an int option takes: any, none below zero, and so on.
AtLeast(low) == {n \in Numbers : n >= low}
Flag == {n \in Numbers : n \in {0, 1}}

\* The cases that check a range and assign an int.  TCP_KEEPALIVE's test,
\* value >= -1 || value <= 1, accepts every int.
IntOptions ==
  [SNDHWM |-> Field("sndhwm", AtLeast(0)), RCVHWM |-> Field("rcvhwm", AtLeast(0)),
   RATE |-> Field("rate", AtLeast(1)), RECOVERY_IVL |-> Field("recovery_ivl", AtLeast(0)),
   SNDBUF |-> Field("sndbuf", AtLeast(0)), RCVBUF |-> Field("rcvbuf", AtLeast(0)),
   LINGER |-> Field("linger", AtLeast(-1)),
   RECONNECT_IVL |-> Field("reconnect_ivl", AtLeast(-1)),
   RECONNECT_IVL_MAX |-> Field("reconnect_ivl_max", AtLeast(0)),
   BACKLOG |-> Field("backlog", AtLeast(0)),
   MULTICAST_HOPS |-> Field("multicast_hops", AtLeast(1)),
   RCVTIMEO |-> Field("rcvtimeo", AtLeast(-1)), SNDTIMEO |-> Field("sndtimeo", AtLeast(-1)),
   TCP_KEEPALIVE |-> Field("tcp_keepalive", Numbers),
   TCP_KEEPALIVE_CNT |-> Field("tcp_keepalive_cnt", AtLeast(-1)),
   TCP_KEEPALIVE_IDLE |-> Field("tcp_keepalive_idle", AtLeast(-1)),
   TCP_KEEPALIVE_INTVL |-> Field("tcp_keepalive_intvl", AtLeast(-1)),
   IMMEDIATE |-> Field("immediate", Flag), CONFLATE |-> Field("conflate", Flag)]

\* The ones that take 64 bits.
WideOptions ==
  [AFFINITY |-> Field("affinity", Numbers), MAXMSGSIZE |-> Field("maxmsgsize", Numbers)]
-----------------------------------------------------------------------------
(* setsockopt, by kinds of cases; what none of them accepts is EINVAL.     *)

Accept(o, arg) == accepted' = Append(accepted, [option |-> o, arg |-> arg])

SetInt(o, arg) ==
  /\ o \in DOMAIN IntOptions
  /\ is_int(arg) /\ arg.data \in IntOptions[o].valid
  /\ opt' = [opt EXCEPT ![IntOptions[o].field] = arg.data]
  /\ Accept(o, arg)
  /\ UNCHANGED tcp_accept_filters

SetWide(o, arg) ==
  /\ o \in DOMAIN WideOptions
  /\ arg.bytes = 8
  /\ opt' = [opt EXCEPT ![WideOptions[o].field] = arg.data]
  /\ Accept(o, arg)
  /\ UNCHANGED tcp_accept_filters

\* IPV4ONLY is IPV6 with the opposite sense.
SetFamily(o, arg) ==
  /\ o \in {"IPV4ONLY", "IPV6"}
  /\ is_int(arg) /\ arg.data \in Flag
  /\ opt' = [opt EXCEPT !.ipv6 = IF o = "IPV6" THEN arg.data ELSE 1 - arg.data]
  /\ Accept(o, arg)
  /\ UNCHANGED tcp_accept_filters

\* Sizes 1 to 255; a first byte of zero is for generated identities.
SetIdentity(o, arg) ==
  /\ o = "IDENTITY"
  /\ arg.bytes \in 1 .. 255 /\ arg.data # 0
  /\ opt' = [opt EXCEPT !.identity = [bytes |-> arg.bytes, data |-> arg.data]]
  /\ Accept(o, arg)
  /\ UNCHANGED tcp_accept_filters

SetZapDomain(o, arg) ==
  /\ o = "ZAP_DOMAIN"
  /\ arg.bytes < 256
  /\ opt' = [opt EXCEPT !.zap_domain = [bytes |-> arg.bytes, data |-> arg.data]]
  /\ Accept(o, arg)
  /\ UNCHANGED tcp_accept_filters

\* tcp_address_mask_t::resolve (module Endpoint): content 1 stands for an IPv4
\* mask, 2 for one in IPv6 notation, others do not parse.
Resolves(data) == data = IF opt.ipv6 = 1 THEN 2 ELSE 1

\* NULL clears the filters; a mask is added as resolved under the present ipv6.
SetAcceptFilter(o, arg) ==
  /\ o = "TCP_ACCEPT_FILTER"
  /\ \/ arg.null /\ tcp_accept_filters' = <<>>
     \/ /\ arg.bytes \in 1 .. 255 /\ Resolves(arg.data)
        /\ tcp_accept_filters' =
             Append(tcp_accept_filters, [mask |-> arg.data, ipv6 |-> opt.ipv6])
  /\ Accept(o, arg)
  /\ UNCHANGED opt

SetPlainServer(o, arg) ==
  /\ o = "PLAIN_SERVER"
  /\ is_int(arg) /\ arg.data \in Flag
  /\ opt' = [opt EXCEPT !.as_server = arg.data,
                        !.mechanism = IF arg.data = 1 THEN "PLAIN" ELSE "NULL"]
  /\ Accept(o, arg)
  /\ UNCHANGED tcp_accept_filters

\* Mutant: a client's credential leaves as_server alone.
SetCredential_KeepServer(o, arg) ==
  /\ o \in {"PLAIN_USERNAME", "PLAIN_PASSWORD"}
  /\ \/ arg.null /\ opt' = [opt EXCEPT !.mechanism = "NULL"]
     \/ /\ arg.bytes \in 1 .. 255
        /\ opt' = [opt EXCEPT ![IF o = "PLAIN_USERNAME" THEN "plain_username"
                                                         ELSE "plain_password"] =
                                [bytes |-> arg.bytes, data |-> arg.data],
                              !.mechanism = "PLAIN"]
  /\ Accept(o, arg)
  /\ UNCHANGED tcp_accept_filters

\* NULL switches the mechanism off and keeps as_server and the credential; a
\* credential makes the socket a client.
SetCredential(o, arg) ==
  /\ o \in {"PLAIN_USERNAME", "PLAIN_PASSWORD"}
  /\ \/ arg.null /\ opt' = [opt EXCEPT !.mechanism = "NULL"]
     \/ /\ arg.bytes \in 1 .. 255
        /\ opt' = [opt EXCEPT ![IF o = "PLAIN_USERNAME" THEN "plain_username"
                                                         ELSE "plain_password"] =
                                [bytes |-> arg.bytes, data |-> arg.data],
                              !.as_server = 0, !.mechanism = "PLAIN"]
  /\ Accept(o, arg)
  /\ UNCHANGED tcp_accept_filters

setsockopt(o, arg) ==
  \/ SetInt(o, arg) \/ SetWide(o, arg) \/ SetFamily(o, arg) \/ SetIdentity(o, arg)
  \/ SetZapDomain(o, arg) \/ SetAcceptFilter(o, arg) \/ SetPlainServer(o, arg)
  \/ SetCredential(o, arg)
-----------------------------------------------------------------------------
(* getsockopt.                                                             *)

Texts == [IDENTITY |-> "identity", PLAIN_USERNAME |-> "plain_username",
          PLAIN_PASSWORD |-> "plain_password", ZAP_DOMAIN |-> "zap_domain"]

EINVAL == "EINVAL"

\* The options that are read as an int.
IntValue(o) ==
  CASE o \in DOMAIN IntOptions -> opt[IntOptions[o].field]
    [] o = "IPV4ONLY" -> 1 - opt.ipv6
    [] o = "IPV6" -> opt.ipv6
    [] o = "TYPE" -> opt.type
    [] o = "MECHANISM" -> opt.mechanism
    [] o = "PLAIN_SERVER" -> IF opt.as_server = 1 /\ opt.mechanism = "PLAIN" THEN 1 ELSE 0
    [] OTHER -> EINVAL

\* Answer to a read with room for `bytes'; all texts but the identity are
\* returned with their terminating zero.
getsockopt(o, bytes) ==
  CASE o \in DOMAIN WideOptions -> IF bytes = 8 THEN opt[WideOptions[o].field] ELSE EINVAL
    [] o \in DOMAIN Texts /\ bytes >= opt[Texts[o]].bytes + (IF o = "IDENTITY" THEN 0 ELSE 1)
         -> opt[Texts[o]]
    [] o \notin DOMAIN Texts /\ bytes = 4 -> IntValue(o)
    [] OTHER -> EINVAL
-----------------------------------------------------------------------------
SetOptions ==
  DOMAIN IntOptions \cup DOMAIN WideOptions \cup DOMAIN Texts
    \cup {"IPV4ONLY", "IPV6", "TCP_ACCEPT_FILTER", "PLAIN_SERVER"}

OptionNext ==
  /\ Len(accepted) < MaxSets
  /\ \E o \in SetOptions, arg \in Arguments : setsockopt(o, arg)

OptionSpec == OptionStart /\ [][OptionNext]_OptionVars
-----------------------------------------------------------------------------
(* Properties.                                                             *)

\* The last accepted call among those for `family', or an empty sequence.
LastOf(family) ==
  LET calls == SelectSeq(accepted, LAMBDA call : call.option \in family)
  IN IF calls = <<>> THEN <<>> ELSE <<calls[Len(calls)]>>

\* An accepted value is what a read returns until the next accepted call for
\* that option, whatever is set in between: no case assigns another option's
\* field, and a text of the largest size still fits a read of 256 bytes.
GetReturnsLastSet ==
  \A o \in DOMAIN IntOptions \cup DOMAIN WideOptions \cup {"IDENTITY", "ZAP_DOMAIN"} :
    LET last == LastOf({o})
        bytes == IF o \in DOMAIN IntOptions THEN 4 ELSE IF o \in DOMAIN WideOptions THEN 8 ELSE 256
    IN last # <<>> =>
         getsockopt(o, bytes) =
           IF o \in DOMAIN Texts THEN [bytes |-> last[1].arg.bytes, data |-> last[1].arg.data]
                                 ELSE last[1].arg.data

\* The options that share fields agree on the last accepted call of either:
\* the two names of the address family are opposites, and a socket reads as
\* PLAIN server exactly when the last security call made it one, though NULL
\* credentials leave as_server set.
SharedFieldsAgree ==
  /\ LET last == LastOf({"IPV4ONLY", "IPV6"}) IN
       last # <<>> => /\ getsockopt(last[1].option, 4) = last[1].arg.data
                      /\ getsockopt("IPV4ONLY", 4) + getsockopt("IPV6", 4) = 1
  /\ LET last == LastOf({"PLAIN_SERVER", "PLAIN_USERNAME", "PLAIN_PASSWORD"})
         server == last # <<>> /\ last[1].option = "PLAIN_SERVER" /\ last[1].arg.data = 1
         client == last # <<>> /\ last[1].option # "PLAIN_SERVER" /\ ~last[1].arg.null
     IN /\ getsockopt("PLAIN_SERVER", 4) = 1 <=> server
        /\ getsockopt("MECHANISM", 4) = "PLAIN" <=> server \/ client

\* What getsockopt reports is what the accepted calls of setsockopt asked for.
OptionsInv == GetReturnsLastSet /\ SharedFieldsAgree
=============================================================================
