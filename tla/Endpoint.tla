------------------------------ MODULE Endpoint ------------------------------
(***************************************************************************)
(* From an endpoint's text to a listening socket: parse_uri and            *)
(* check_protocol of UpThreadNet and DownThreadNet, tcp_address_t and      *)
(* tcp_address_mask_t (src/net/tcp_address.cpp), tcp_listener_t's          *)
(* set_address with its error paths, and accept with the filters.          *)
(*                                                                         *)
(* A text is a sequence of tokens: the separators the code looks for, and  *)
(* words between them.  IP addresses are sequences of bytes of ByteBits    *)
(* bits, BytesOf (family) of them, so that prefixes can be compared bit by *)
(* bit; the colons of an IPv6 literal stay inside its token, since without *)
(* a port after it the code's split at the last one fails to resolve, too. *)
(* getaddrinfo, getifaddrs, getnameinfo and the kernel are external.       *)
(***************************************************************************)
EXTENDS Integers, Sequences, FiniteSets, FiniteSetsExt

CONSTANTS ByteBits,     \* bits of a byte (8)
          Uris,         \* texts of endpoints
          Masks,        \* texts of accept filters
          MaxFilters,   \* bound on the accept filters
          Peers         \* peers that connect: family and ip

VARIABLES
  uri, use_ipv6,        \* what the thread was given
  lpc,                  \* place in ThreadInitHandler and set_address
  sockaddr, endpoint,   \* the listener's address and its text
  s, open_fds,          \* the listener's socket; sockets open in the process
  kernel_ipv6,          \* the kernel can make IPv6 sockets
  stale_errno,          \* errno is EAFNOSUPPORT from some earlier call
  filters,              \* options.tcp_accept_filters
  peer, let_in          \* the last peer that connected; was it accepted

EndpointVars == <<uri, use_ipv6, lpc, sockaddr, endpoint, s, open_fds, kernel_ipv6,
                  stale_errno, filters, peer, let_in>>

retired_fd == -1
NoPeer == [family |-> "none", ip |-> <<>>]
NoAddress == [family |-> "none", ip |-> <<>>, port |-> 0]
Failed == <<>>

BytesOf(family) == IF family = "inet6" THEN 3 ELSE 2
AnyAddress(family) == [i \in 1 .. BytesOf(family) |-> 0]

\* Tokens: separators, numbers, address literals and names.
Sep(text) == <<"sep", text>>
Number(n) == <<"number", n>>
Literal(family, ip) == <<family, ip>>
Name(text) == <<"name", text>>
Star == Name("*")
tcp == Name("tcp")

\* The network interfaces of the machine.
Nics == {[name |-> Name("eth0"), family |-> "inet", ip |-> <<1, 2>>],
         [name |-> Name("tun0"), family |-> "inet6", ip |-> <<2, 1, 3>>]}
-----------------------------------------------------------------------------
(* Parsing.                                                                *)

Before(text, n) == SubSeq(text, 1, n - 1)
After(text, n) == SubSeq(text, n + 1, Len(text))
Positions(text, token) == {i \in DOMAIN text : text[i] = token}

\* parse_uri and check_protocol, which each of the two network threads has: the
\* address part, or Failed.
parse_uri(text) ==
  LET found == Positions(text, Sep("://"))
  IN IF found # {} /\ Before(text, Min(found)) = <<tcp>> THEN After(text, Min(found)) ELSE Failed

Family == IF use_ipv6 THEN "inet6" ELSE "inet"

Resolved(family, ip) == [family |-> family, ip |-> ip, port |-> 0]

\* getaddrinfo knows literals of the family it is asked for.
resolve_hostname(text) ==
  IF Len(text) = 1 /\ text[1][1] = Family THEN Resolved(Family, text[1][2]) ELSE NoAddress

\* An interface of that name with an IPv4 address, or IPv6 if that is allowed.
resolve_nic_name(text) ==
  {Resolved(nic.family, nic.ip) :
     nic \in {n \in Nics : text = <<n.name>> /\ (n.family = "inet" \/ use_ipv6)}}

resolve_interface(text) ==
  IF text = <<Star>> THEN Resolved(Family, AnyAddress(Family))
  ELSE IF resolve_nic_name(text) # {} THEN CHOOSE a \in resolve_nic_name(text) : TRUE
  ELSE resolve_hostname(text)

\* atoi, converted to uint16_t.
PortNumber(text) == IF Len(text) = 1 /\ text[1][1] = "number" THEN text[1][2] % 65536 ELSE 0

Unbracketed(text) ==
  IF Len(text) >= 2 /\ text[1] = Sep("[") /\ text[Len(text)] = Sep("]")
    THEN SubSeq(text, 2, Len(text) - 1) ELSE text

\* tcp_address_t::resolve: the last colon ends the address; port 0 has to be
\* asked for as 0 or *.
resolve(text, local) ==
  LET found == Positions(text, Sep(":"))
      name == Unbracketed(Before(text, Max(found)))
      port == After(text, Max(found))
      address == IF local THEN resolve_interface(name) ELSE resolve_hostname(name)
  IN IF found = {} \/ address = NoAddress THEN NoAddress
     ELSE IF port \notin {<<Star>>, <<Number(0)>>} /\ PortNumber(port) = 0 THEN NoAddress
     ELSE [address EXCEPT !.port = PortNumber(port)]

\* tcp_address_t::to_string, and address_t's, which calls it.
to_string(a) ==
  <<tcp, Sep("://")>>
    \o (IF a.family = "inet6" THEN <<Sep("["), Literal(a.family, a.ip), Sep("]")>>
                              ELSE <<Literal(a.family, a.ip)>>)
    \o <<Sep(":"), Number(a.port)>>

\* tcp_address_mask_t::resolve: the part after the last slash is the mask.
Bits(family) == BytesOf(family) * ByteBits
NoMask == [family |-> "none", ip |-> <<>>, mask |-> -1]

resolve_mask(text) ==
  LET found == Positions(text, Sep("/"))
      address == resolve_hostname(IF found = {} THEN text ELSE Before(text, Max(found)))
      mask_str == After(text, Max(found))
      mask == IF mask_str = <<>> \/ mask_str[1][1] # "number" THEN -1 ELSE mask_str[1][2]
  IN IF address = NoAddress THEN NoMask
     ELSE IF found = {}
       THEN [family |-> address.family, ip |-> address.ip, mask |-> Bits(address.family)]
     ELSE IF mask \in 0 .. Bits(address.family)
       THEN [family |-> address.family, ip |-> address.ip, mask |-> mask]
     ELSE NoMask

TopBits(byte, n) == byte \div 2 ^ (ByteBits - n)

\* Mutant: whole bytes only.
match_address_Bytes(f, p) ==
  /\ f.family = p.family
  /\ \A i \in 1 .. f.mask \div ByteBits : f.ip[i] = p.ip[i]

\* The whole bytes under the mask, then the upper bits of the next one, which
\* is not read when the mask ends with a byte.
match_address(f, p) ==
  LET full_bytes == f.mask \div ByteBits
      last_bits == f.mask % ByteBits
  IN /\ f.family = p.family
     /\ \A i \in 1 .. full_bytes : f.ip[i] = p.ip[i]
     /\ last_bits > 0 =>
          TopBits(f.ip[full_bytes + 1], last_bits) = TopBits(p.ip[full_bytes + 1], last_bits)
-----------------------------------------------------------------------------
(* The listener.                                                           *)

EndpointStart ==
  /\ uri \in Uris /\ use_ipv6 \in BOOLEAN
  /\ lpc = "init" /\ sockaddr = NoAddress /\ endpoint = <<>>
  /\ s = retired_fd /\ open_fds = {}
  /\ kernel_ipv6 \in BOOLEAN /\ stale_errno \in BOOLEAN
  /\ filters = {} /\ peer = NoPeer /\ let_in = FALSE

Inputs == <<uri, use_ipv6, kernel_ipv6, stale_errno>>

\* ThreadInitHandler: an endpoint that does not parse is an assertion failure.
Parse ==
  /\ lpc = "init"
  /\ lpc' = IF parse_uri(uri) = Failed THEN "abort" ELSE "resolve"
  /\ UNCHANGED <<Inputs, sockaddr, endpoint, s, open_fds, filters, peer, let_in>>

\* Before the thread listens, its options get accept filters.
AddFilter(text) ==
  /\ lpc = "resolve" /\ Cardinality(filters) < MaxFilters
  /\ resolve_mask(text) # NoMask
  /\ filters' = filters \cup {resolve_mask(text)}
  /\ UNCHANGED <<Inputs, lpc, sockaddr, endpoint, s, open_fds, peer, let_in>>

Resolve ==
  /\ lpc = "resolve"
  /\ sockaddr' = resolve(parse_uri(uri), TRUE)
  /\ lpc' = IF sockaddr' = NoAddress THEN "error" ELSE "socket"
  /\ UNCHANGED <<Inputs, endpoint, s, open_fds, filters, peer, let_in>>

CanOpen == sockaddr.family = "inet" \/ kernel_ipv6

\* errno is looked at without looking at s: the retry resolves with IPv6 again,
\* and a socket that was opened is forgotten when errno was stale.
OpenSocket ==
  /\ lpc = "socket"
  /\ \E opened \in {CanOpen, FALSE} :
       LET no_support == IF opened THEN stale_errno ELSE ~CanOpen
           retry == sockaddr.family = "inet6" /\ no_support /\ use_ipv6
           first == IF opened THEN {3} ELSE {}
           second == IF retry /\ CanOpen THEN {4} ELSE {}
       IN /\ open_fds' = first \cup second
          /\ s' = IF second # {} THEN 4 ELSE IF retry \/ ~opened THEN retired_fd ELSE 3
          /\ lpc' = IF s' = retired_fd THEN "error" ELSE "bind"
          /\ endpoint' = IF s' = retired_fd THEN endpoint ELSE to_string(sockaddr)
  /\ UNCHANGED <<Inputs, sockaddr, filters, peer, let_in>>

close_listener == s' = retired_fd /\ open_fds' = open_fds \ {s}

\* Mutant: the error path leaves the socket open.
BindAndListen_NoClose ==
  /\ lpc = "bind"
  /\ lpc' \in {"listening", "error"}
  /\ UNCHANGED <<Inputs, sockaddr, endpoint, s, open_fds, filters, peer, let_in>>

\* bind and listen; either may fail, which closes the socket.
BindAndListen ==
  /\ lpc = "bind"
  /\ \/ lpc' = "listening" /\ UNCHANGED <<s, open_fds>>
     \/ /\ lpc' = "error"
        /\ close_listener
  /\ UNCHANGED <<Inputs, sockaddr, endpoint, filters, peer, let_in>>

\* in_event: the peer's connection is closed at once unless a filter matches or
\* there is none.
accept(p) ==
  /\ lpc = "listening" /\ peer = NoPeer
  /\ peer' = p
  /\ let_in' = (filters = {} \/ \E f \in filters : match_address(f, p))
  /\ UNCHANGED <<Inputs, lpc, sockaddr, endpoint, s, open_fds, filters>>

EndpointNext ==
  \/ Parse \/ Resolve \/ OpenSocket \/ BindAndListen
  \/ \E text \in Masks : AddFilter(text)
  \/ \E p \in Peers : accept(p)

EndpointSpec == EndpointStart /\ [][EndpointNext]_EndpointVars
-----------------------------------------------------------------------------
(* Properties.                                                             *)

\* The text a listener keeps of itself resolves to the address it is bound to,
\* brackets, wildcards and interface names included, and port 0 is there only
\* because the endpoint asked for it.  (An IPv4 interface under the IPv6 option
\* is printed as a literal that option does not take.)
EndpointRoundTrip ==
  endpoint # <<>> =>
    /\ sockaddr.family = Family =>
         /\ resolve(parse_uri(endpoint), TRUE) = sockaddr
         /\ sockaddr.port # 0 => resolve(parse_uri(endpoint), FALSE) = sockaddr
    /\ sockaddr.port = 0 => uri[Len(uri)] \in {Star, Number(0)}

\* set_address either returns with the one socket it listens on, or fails with
\* no socket left open and s retired, as the destructor asserts; only a stale
\* errno under IPv6 makes it forget a socket.
ListenerOwnsSocket ==
  ~(use_ipv6 /\ stale_errno) =>
    /\ open_fds = IF s = retired_fd THEN {} ELSE {s}
    /\ lpc = "error" => s = retired_fd
    /\ lpc = "listening" => s # retired_fd

\* A listener owns one socket, bound to what its endpoint says (set_address).
EndpointInv == EndpointRoundTrip /\ ListenerOwnsSocket

Bit(ip, i) == (ip[1 + (i - 1) \div ByteBits] \div 2 ^ (ByteBits - 1 - ((i - 1) % ByteBits))) % 2

\* A connection is let in exactly when there is no filter, or one whose first
\* `mask' bits are the peer's, at every length of the mask: 0, inside a byte, at
\* a byte's end and the whole address.
FiltersDecide ==
  peer # NoPeer =>
    (let_in <=> \/ filters = {}
                \/ \E f \in filters :
                     f.family = peer.family /\ \A i \in 1 .. f.mask : Bit(f.ip, i) = Bit(peer.ip, i))
=============================================================================
