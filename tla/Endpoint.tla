-------------------------------- MODULE Endpoint --------------------------------
(***************************************************************************)
(* firelink::Endpoint and the conversions around it: endpoint <-> SOCKADDR *)
(* (WinSocket), endpoint <-> text (endpoint.cpp), and the second, private  *)
(* set of text conversions in WinSocket.                                   *)
(*                                                                         *)
(* An Endpoint is an untagged union of an IPv4Address and an IPv6Address.  *)
(* It is modelled by its memory, one cell a byte; a cell nothing has been  *)
(* written to holds Junk.  The build is little-endian: a 16-bit port is    *)
(* stored low byte first, and htons swaps its bytes.                       *)
(***************************************************************************)
EXTENDS Integers

CONSTANTS
  Junk,    \* an indeterminate byte, or what is computed from one
  Stale    \* the bytes that memory nothing was written to may turn out to hold

Byte == {n \in Nat : n < 256}

ASSUME JunkAssumption == Junk \notin Int
ASSUME StaleAssumption == Stale \subseteq Byte

Port == {n \in Nat : n < 256 * 256}
Families == {"IPv4", "IPv6"}
AddressFamily == Families \cup {"Unspecified", "NotSupported"}

\* Bytes of an address; the port follows them in IPv4Address and IPv6Address.
Width(family) == IF family = "IPv4" THEN 4 ELSE 16
Bytes(family) == [0 .. Width(family) - 1 -> Byte]
Address(family) == [bytes : Bytes(family), port : Port]

--------------------------------------------------------------------------------
(* The union *)

Cells == 0 .. 17

\* Endpoint(){}: nothing is initialised
EmptyEndpoint == [i \in Cells |-> Junk]

\* Endpoint(IPv4Address) and Endpoint(IPv6Address)
Endpoint(family, a) ==
  [i \in Cells |-> IF i < Width(family) THEN a.bytes[i]
                   ELSE IF i = Width(family) THEN a.port % 256
                   ELSE IF i = Width(family) + 1 THEN a.port \div 256 ELSE Junk]

\* What a reader finds in the cells, if those never written hold the bytes of stale
Settled(e, stale) == [i \in Cells |-> IF e[i] = Junk THEN stale[i] ELSE e[i]]

\* ipv4() and ipv6(): whatever the cells hold
Member(family, e) ==
  LET w == Width(family)
  IN  [bytes |-> [i \in 0 .. w - 1 |-> e[i]],
       port |-> IF Junk \in {e[w], e[w + 1]} THEN Junk ELSE e[w] + 256 * e[w + 1]]

--------------------------------------------------------------------------------
(* Endpoint <-> SOCKADDR_STORAGE *)

htons_Identity(p) == p

\* htons and ntohs
htons(p) == IF p = Junk THEN Junk ELSE (p % 256) * 256 + (p \div 256)

Sockaddr(family) == [family : {family}, port : Port, bytes : Bytes(family)]
NoAddr == [family |-> "NotSupported", port |-> 0, bytes |-> <<>>]

endpoint_to_sockaddr(family, e) ==
  IF family \in Families
  THEN [err |-> "Success",
        addr |-> [family |-> family, port |-> htons(Member(family, e).port),
                  bytes |-> Member(family, e).bytes]]
  ELSE [err |-> "AddressFamilyNotSupported", addr |-> NoAddr]

\* The four bytes of sin_addr read as a std::int32_t
Int32(b) ==
  b[0] + 256 * b[1] + 256 * 256 * b[2] + 256 * 256 * 256 * (IF b[3] < 128 THEN b[3] ELSE b[3] - 256)

\* The address is taken for one in host byte order.
ShiftedByte_Reversed(x, i) ==
  CASE i = 3 -> x % 256
    [] i = 2 -> (x \div 256) % 256
    [] i = 1 -> (x \div (256 * 256)) % 256
    [] OTHER -> (x \div (256 * 256 * 256)) % 256

\* (x >> 8 * i) & 0XFF, with the arithmetic shift of a signed x
ShiftedByte(x, i) ==
  CASE i = 0 -> x % 256
    [] i = 1 -> (x \div 256) % 256
    [] i = 2 -> (x \div (256 * 256)) % 256
    [] OTHER -> (x \div (256 * 256 * 256)) % 256

\* e is what the endpoint held before
sockaddr_to_endpoint(addr, e) ==
  CASE addr.family = "IPv4" ->
         [err |-> "Success",
          endpoint |-> Endpoint("IPv4", [port |-> htons(addr.port),
                                         bytes |-> [i \in 0 .. 3 |-> ShiftedByte(Int32(addr.bytes), i)]])]
    [] addr.family = "IPv6" ->
         [err |-> "Success",
          endpoint |-> Endpoint("IPv6", [port |-> htons(addr.port), bytes |-> addr.bytes])]
    [] OTHER -> [err |-> "AddressFamilyNotSupported", endpoint |-> e]

--------------------------------------------------------------------------------
(* Text.  A string is abstracted to what the parsers look for: a host, which *)
(* is an address of some family or a "name" that is none, with or without a  *)
(* dot in it; brackets around the host; and what follows the colon.          *)

\* shape: "none", no colon; "number" in the range of int; "huge", digits beyond it;
\* "other", no number
PortText == [shape : {"none", "number", "huge", "other"}, value : Int]
Host(family, bytes) == [family |-> family, bytes |-> bytes]
Dotted(host) == host.family \in {"IPv4", "dotted name"}
TextType ==
  [host : [family : {"name", "dotted name"}, bytes : {<<>>}]
          \cup [family : {"IPv4"}, bytes : Bytes("IPv4")]
          \cup [family : {"IPv6"}, bytes : Bytes("IPv6")],
   brackets : BOOLEAN,
   port : PortText]
NoText == [host |-> Host("name", <<>>), brackets |-> FALSE, port |-> [shape |-> "none", value |-> 0]]

\* std::to_string
Number(n) == [shape |-> "number", value |-> n]

inet_ntop(family, e) ==
  IF family \in Families
  THEN [host |-> Host(family, Member(family, e).bytes), brackets |-> family = "IPv6",
        port |-> Number(Member(family, e).port)]
  ELSE NoText

\* The text has a port the parser of this family finds: behind the last dot, or
\* behind the closing bracket.
SplitsPort(family, text) ==
  /\ text.port.shape # "none"
  /\ IF family = "IPv4" THEN Dotted(text.host) ELSE text.brackets

\* What is left is an address: ::inet_pton returns 1.  The brackets are removed
\* together with the port of an IPv6 address, never otherwise.
HostParses(family, text) ==
  /\ text.host.family = family
  /\ SplitsPort(family, text) => (text.brackets <=> family = "IPv6")
  /\ ~SplitsPort(family, text) => ~text.brackets /\ text.port.shape = "none"

\* std::stoi, narrowed to std::uint16_t
PortOf(text) == text.port.value % (256 * 256)

\* std::stoi throws before the address is looked at.
inet_pton(family, text, e) ==
  IF family \notin Families THEN [err |-> "AddressFamilyNotSupported", endpoint |-> e]
  ELSE IF SplitsPort(family, text) /\ text.port.shape # "number" THEN [err |-> "throws", endpoint |-> e]
  ELSE IF ~HostParses(family, text) THEN [err |-> "SystemError", endpoint |-> e]
  ELSE [err |-> "Success",
        endpoint |-> Endpoint(family, [bytes |-> text.host.bytes,
                                       port |-> IF SplitsPort(family, text) THEN PortOf(text) ELSE 0])]

--------------------------------------------------------------------------------
(* The text conversions inside WinSocket, which take address and port apart *)

addr_to_str(addr) == Host(addr.family, addr.bytes)
port_to_str(port) == Number(htons(port))
addr_and_port_to_str(addr) == [host |-> addr_to_str(addr), port |-> port_to_str(addr.port)]

\* The checks on what strtol made of the port; "huge" became LONG_MAX, and text
\* without a number 0.
port_error(port) ==
  CASE port.shape = "huge" -> "InvalidArgument"
    [] port.shape = "number" -> IF port.value \in Port THEN "Success" ELSE "InvalidArgument"
    [] OTHER -> "SystemError"

\* htons is forgotten.
ParsedAddr_HostOrder(family, host, port) ==
  [family |-> family, port |-> port.value, bytes |-> host.bytes]

ParsedAddr(family, host, port) ==
  [family |-> family, port |-> htons(port.value), bytes |-> host.bytes]

\* The part the parsers of both families share
str_to_addr(family, host, port) ==
  IF host.family # family THEN [err |-> "InvalidArgument", addr |-> NoAddr]
  ELSE IF port_error(port) # "Success" THEN [err |-> port_error(port), addr |-> NoAddr]
  ELSE [err |-> "Success", addr |-> ParsedAddr(family, host, port)]

str_to_addr4(host, port) == str_to_addr("IPv4", host, port)

\* IN6ADDR_SETV4MAPPED
MappedV4(b) ==
  [i \in 0 .. 15 |-> IF i < 10 THEN 0 ELSE IF i < 12 THEN 255 ELSE b[i - 12]]

str_to_addr6(src_addr_family, host, port) ==
  LET four == str_to_addr4(host, port)
  IN  IF src_addr_family # "IPv4" THEN str_to_addr("IPv6", host, port)
      ELSE IF four.err # "Success" THEN four
      ELSE [err |-> "Success",
            addr |-> [family |-> "IPv6", port |-> four.addr.port, bytes |-> MappedV4(four.addr.bytes)]]
================================================================================
