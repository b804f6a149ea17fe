---------------------------- MODULE SyncPartsProofs ----------------------------
(***************************************************************************)
(* Proofs about the two parts that SyncSocket is made of.  The conversions *)
(* of Endpoint are inverses of each other, for every address and every     *)
(* port, and the two parsers agree.  The time arithmetic of disconnect()   *)
(* is right for every int timeout, every tick count at the start and every *)
(* integer width that fits.                                                *)
(***************************************************************************)
EXTENDS Endpoint, Disconnect, TLAPS

--------------------------------------------------------------------------------
(* Bytes *)

\* The bytes of a port
LEMMA PortBytes ==
  ASSUME NEW p \in Port
  PROVE  p % 256 \in Byte /\ p \div 256 \in Byte /\ (p % 256) + 256 * (p \div 256) = p
<1>0. p \in Port
  OBVIOUS
<1>1. p \in Int /\ p >= 0 /\ p < 256 * 256
  BY <1>0 DEF Port
<1>2. p % 256 >= 0 /\ p % 256 <= 255
  BY <1>1
<1>3. p \div 256 >= 0 /\ p \div 256 <= 255
  BY <1>1
<1>4. (p % 256) + 256 * (p \div 256) = p
  BY <1>1
<1>5. p % 256 \in Int /\ p \div 256 \in Int
  BY <1>1
<1>6. \A n \in Int : n >= 0 /\ n <= 255 => n \in Byte
  BY DEF Byte
<1> QED
  BY <1>2, <1>3, <1>4, <1>5, <1>6

\* htons is its own inverse.
LEMMA HtonsInverse ==
  ASSUME NEW p \in Port
  PROVE  htons(p) \in Port /\ htons(htons(p)) = p
         /\ htons(p) % 256 = p \div 256 /\ htons(p) \div 256 = p % 256
<1> DEFINE lo == p % 256
           hi == p \div 256
<1>1. lo \in Byte /\ hi \in Byte /\ lo + 256 * hi = p
  BY PortBytes
<1>2. p # Junk /\ p \in Int
  BY JunkAssumption DEF Port
<1>3. htons(p) = lo * 256 + hi
  BY <1>2 DEF htons
<1> HIDE DEF lo, hi
<1>4. lo * 256 + hi \in Port
  BY <1>1 DEF Byte, Port
<1>5. (lo * 256 + hi) % 256 = hi /\ (lo * 256 + hi) \div 256 = lo
  BY <1>1 DEF Byte
<1>6. lo * 256 + hi # Junk
  BY <1>4, JunkAssumption DEF Port
<1>7. htons(lo * 256 + hi) = hi * 256 + lo
  BY <1>5, <1>6 DEF htons
<1>8. hi * 256 + lo = p
  BY <1>1 DEF Byte
<1> QED
  BY <1>3, <1>4, <1>5, <1>7, <1>8 DEF lo, hi

\* The shifts take a signed 32-bit address apart again.
LEMMA ShiftInverse ==
  ASSUME NEW b \in Bytes("IPv4")
  PROVE  [i \in 0 .. 3 |-> ShiftedByte(Int32(b), i)] = b
<1> DEFINE top == IF b[3] < 128 THEN b[3] ELSE b[3] - 256
           x == b[0] + 256 * b[1] + 256 * 256 * b[2] + 256 * 256 * 256 * top
<1>0. b \in [0 .. 3 -> Byte]
  BY DEF Bytes, Width
<1>1. /\ b[0] \in Int /\ b[0] >= 0 /\ b[0] <= 255 /\ b[1] \in Int /\ b[1] >= 0 /\ b[1] <= 255
      /\ b[2] \in Int /\ b[2] >= 0 /\ b[2] <= 255 /\ b[3] \in Int /\ b[3] >= 0 /\ b[3] <= 255
  BY <1>0 DEF Byte
<1>a. top \in Int
  BY <1>1
<1>2. top % 256 = b[3]
  BY <1>1
<1>3. Int32(b) = x
  BY DEF Int32
<1> HIDE DEF top
<1>4. ASSUME NEW a \in Int, NEW c \in Int, 0 <= a, a <= 255
      PROVE  (a + 256 * c) % 256 = a /\ (a + 256 * c) \div 256 = c
  BY <1>4
<1>5. ASSUME NEW a \in Int PROVE a \div (256 * 256) = (a \div 256) \div 256
  BY <1>5
<1>6. ASSUME NEW a \in Int PROVE a \div (256 * 256 * 256) = ((a \div 256) \div 256) \div 256
  BY <1>6
<1> DEFINE x3 == top
           x2 == b[2] + 256 * x3
           x1 == b[1] + 256 * x2
<1>7. x = b[0] + 256 * x1 /\ x \in Int /\ x1 \in Int /\ x2 \in Int
  BY <1>1, <1>a
<1>8. x % 256 = b[0] /\ x \div 256 = x1 /\ x1 % 256 = b[1] /\ x1 \div 256 = x2
      /\ x2 % 256 = b[2] /\ x2 \div 256 = x3
  <2>1. x % 256 = b[0] /\ x \div 256 = x1
    BY <1>1, <1>4, <1>7 DEF x1
  <2>2. x1 % 256 = b[1] /\ x1 \div 256 = x2
    BY <1>1, <1>4, <1>7
  <2>3. x2 % 256 = b[2] /\ x2 \div 256 = x3
    BY <1>1, <1>a, <1>4
  <2> QED
    BY <2>1, <2>2, <2>3
<1> HIDE DEF x, x1, x2, x3
<1>9. ShiftedByte(x, 0) = b[0] /\ ShiftedByte(x, 1) = b[1] /\ ShiftedByte(x, 2) = b[2]
  BY <1>5, <1>7, <1>8 DEF ShiftedByte
<1>10. ShiftedByte(x, 3) = b[3]
  BY <1>2, <1>6, <1>7, <1>8 DEF ShiftedByte, x3
<1> QED
  BY <1>0, <1>3, <1>9, <1>10

--------------------------------------------------------------------------------
(* The union, SOCKADDRs and text *)

\* Reading the member that was written gives what was written.
LEMMA MemberInverse ==
  ASSUME NEW f \in Families, NEW a \in Address(f)
  PROVE  Member(f, Endpoint(f, a)) = a
<1> DEFINE w == Width(f)
           e == Endpoint(f, a)
<1>1. w \in Nat /\ w > 0 /\ w <= 16
  BY DEF Width
<1>2. a.bytes \in [0 .. w - 1 -> Byte] /\ a.port \in Port /\ a = [bytes |-> a.bytes, port |-> a.port]
  BY DEF Address, Bytes
<1> HIDE DEF w
<1>3. \A i \in 0 .. w - 1 : e[i] = a.bytes[i]
  BY <1>1 DEF Endpoint, Cells, w
<1>4. e[w] = a.port % 256 /\ e[w + 1] = a.port \div 256
  BY <1>1 DEF Endpoint, Cells, w
<1>5. a.port % 256 \in Byte /\ a.port \div 256 \in Byte /\ (a.port % 256) + 256 * (a.port \div 256) = a.port
  BY <1>2, PortBytes
<1>6. Junk \notin {e[w], e[w + 1]}
  BY <1>4, <1>5, JunkAssumption DEF Byte
<1> HIDE DEF e
<1>7. [i \in 0 .. w - 1 |-> e[i]] = a.bytes
  BY ZenonT(60), <1>2, <1>3
<1>8. Member(f, e) = [bytes |-> [i \in 0 .. w - 1 |-> e[i]], port |-> e[w] + 256 * e[w + 1]]
  BY <1>6 DEF Member, w
<1> QED
  BY <1>2, <1>4, <1>5, <1>7, <1>8 DEF e

\* What the memory of an endpoint can hold
CellType == [Cells -> Byte \cup {Junk}]

\* The cells of an address are bytes, the cells behind it were never written.
LEMMA EndpointCells ==
  ASSUME NEW f \in Families, NEW a \in Address(f)
  PROVE  Endpoint(f, a) \in CellType /\ \A i \in 0 .. Width(f) + 1 : i \in Cells /\ Endpoint(f, a)[i] \in Byte
<1> DEFINE w == Width(f)
<1>1. w \in Nat /\ w > 0 /\ w <= 16
  BY DEF Width
<1>2. a.bytes \in [0 .. w - 1 -> Byte] /\ a.port \in Port
  BY DEF Address, Bytes
<1>3. a.port % 256 \in Byte /\ a.port \div 256 \in Byte
  BY <1>2, PortBytes
<1> HIDE DEF w
<1>4. Endpoint(f, a) = [i \in Cells |-> IF i < w THEN a.bytes[i] ELSE IF i = w THEN a.port % 256
                                        ELSE IF i = w + 1 THEN a.port \div 256 ELSE Junk]
  BY DEF Endpoint, w
<1>5. \A i \in Cells : i < w => a.bytes[i] \in Byte
  BY <1>1, <1>2 DEF Cells
<1>6. \A i \in 0 .. w + 1 : i \in Cells /\ (i < w \/ i = w \/ i = w + 1)
  BY <1>1 DEF Cells
<1>7. Endpoint(f, a) \in CellType
  BY <1>3, <1>4, <1>5 DEF CellType
<1>8. ASSUME NEW i \in 0 .. w + 1 PROVE i \in Cells /\ Endpoint(f, a)[i] \in Byte
  BY <1>3, <1>4, <1>5, <1>6
<1> QED
  BY <1>7, <1>8 DEF w

\* Whatever the cells hold, reading them gives an address of the family that is read.
LEMMA SettledAddress ==
  ASSUME NEW f \in Families, NEW e \in CellType, NEW stale \in [Cells -> Stale]
  PROVE  Member(f, Settled(e, stale)) \in Address(f)
<1> DEFINE w == Width(f)
           m == Settled(e, stale)
<1>1. w \in Nat /\ w > 0 /\ w <= 16
  BY DEF Width
<1>2. \A i \in Cells : m[i] \in Byte
  BY StaleAssumption DEF Settled, CellType
<1>3. \A i \in 0 .. w + 1 : i \in Cells
  BY <1>1 DEF Cells
<1> HIDE DEF w, m
<1>4. [i \in 0 .. w - 1 |-> m[i]] \in [0 .. w - 1 -> Byte]
  BY <1>1, <1>2, <1>3
<1>5. m[w] \in Byte /\ m[w + 1] \in Byte
  BY <1>1, <1>2, <1>3
<1>6. m[w] + 256 * m[w + 1] \in Port /\ Junk \notin {m[w], m[w + 1]}
  BY <1>5, JunkAssumption DEF Byte, Port
<1>7. Member(f, m) = [bytes |-> [i \in 0 .. w - 1 |-> m[i]], port |-> m[w] + 256 * m[w + 1]]
  BY <1>6 DEF Member, w
<1>8. Bytes(f) = [0 .. w - 1 -> Byte]
  BY DEF Bytes, w
<1> QED
  BY <1>4, <1>6, <1>7, <1>8 DEF Address, m

\* Reading the family an endpoint was filled for reads nothing that was never written.
LEMMA SettledFilled ==
  ASSUME NEW f \in Families, NEW a \in Address(f), NEW stale \in [Cells -> Stale]
  PROVE  Member(f, Settled(Endpoint(f, a), stale)) = a
<1> DEFINE w == Width(f)
           e == Endpoint(f, a)
           m == Settled(e, stale)
<1>1. w \in Nat
  BY DEF Width
<1>2. \A i \in 0 .. w + 1 : i \in Cells /\ e[i] \in Byte
  BY EndpointCells
<1>3. \A n \in Byte : n # Junk
  BY JunkAssumption DEF Byte
<1> HIDE DEF e, w
<1>4. \A i \in 0 .. w + 1 : m[i] = e[i]
  BY <1>2, <1>3 DEF Settled
<1> HIDE DEF m
<1>5. [i \in 0 .. w - 1 |-> m[i]] = [i \in 0 .. w - 1 |-> e[i]] /\ m[w] = e[w] /\ m[w + 1] = e[w + 1]
  BY <1>1, <1>4
<1>6. Member(f, m) = Member(f, e)
  BY <1>5 DEF Member, w
<1> QED
  BY <1>6, MemberInverse DEF e, m

\* What an endpoint becomes as a SOCKADDR
LEMMA ToSockaddr ==
  ASSUME NEW f \in Families, NEW a \in Address(f)
  PROVE  endpoint_to_sockaddr(f, Endpoint(f, a)) =
           [err |-> "Success", addr |-> [family |-> f, port |-> htons(a.port), bytes |-> a.bytes]]
BY MemberInverse DEF endpoint_to_sockaddr

\* What a SOCKADDR becomes as an endpoint
LEMMA FromSockaddr ==
  ASSUME NEW f \in Families, NEW p \in Port, NEW b \in Bytes(f), NEW e
  PROVE  /\ sockaddr_to_endpoint([family |-> f, port |-> p, bytes |-> b], e) =
              [err |-> "Success", endpoint |-> Endpoint(f, [port |-> htons(p), bytes |-> b])]
         /\ [port |-> htons(p), bytes |-> b] \in Address(f)
<1>1. [port |-> htons(p), bytes |-> b] \in Address(f)
  BY HtonsInverse DEF Address
<1>2. CASE f = "IPv4"
  <2>1. [i \in 0 .. 3 |-> ShiftedByte(Int32(b), i)] = b
    BY <1>2, ShiftInverse
  <2> QED
    BY <1>1, <1>2, <2>1 DEF sockaddr_to_endpoint
<1>3. CASE f = "IPv6"
  BY <1>1, <1>3 DEF sockaddr_to_endpoint
<1> QED
  BY <1>2, <1>3 DEF Families

(***************************************************************************)
(* An endpoint that is a SOCKADDR for a while is the same endpoint again.  *)
(***************************************************************************)
THEOREM SockaddrRoundTrip ==
  ASSUME NEW f \in Families, NEW a \in Address(f), NEW e
  PROVE  sockaddr_to_endpoint(endpoint_to_sockaddr(f, Endpoint(f, a)).addr, e) =
           [err |-> "Success", endpoint |-> Endpoint(f, a)]
<1>1. a.bytes \in Bytes(f) /\ a.port \in Port /\ a = [port |-> a.port, bytes |-> a.bytes]
  BY DEF Address
<1>2. htons(a.port) \in Port /\ htons(htons(a.port)) = a.port
  BY <1>1, HtonsInverse
<1>3. endpoint_to_sockaddr(f, Endpoint(f, a)).addr = [family |-> f, port |-> htons(a.port), bytes |-> a.bytes]
  BY ToSockaddr
<1> QED
  BY <1>1, <1>2, <1>3, FromSockaddr

(***************************************************************************)
(* What inet_ntop prints, inet_pton reads back.                            *)
(***************************************************************************)
THEOREM TextRoundTrip ==
  ASSUME NEW f \in Families, NEW a \in Address(f), NEW e
  PROVE  /\ inet_ntop(f, Endpoint(f, a)) =
              [host |-> Host(f, a.bytes), brackets |-> f = "IPv6", port |-> Number(a.port)]
         /\ inet_pton(f, inet_ntop(f, Endpoint(f, a)), e) =
              [err |-> "Success", endpoint |-> Endpoint(f, a)]
<1> DEFINE t == inet_ntop(f, Endpoint(f, a))
<1>1. t = [host |-> Host(f, a.bytes), brackets |-> f = "IPv6", port |-> Number(a.port)]
  BY MemberInverse DEF inet_ntop
<1>2. a.port \in Port /\ a.port \in Nat /\ a.port < 256 * 256 /\ a = [bytes |-> a.bytes, port |-> a.port]
  BY DEF Address, Port
<1>3. t.host.family = f /\ t.host.bytes = a.bytes /\ t.brackets = (f = "IPv6")
      /\ t.port.shape = "number" /\ t.port.value = a.port
  BY <1>1 DEF Host, Number
<1> HIDE DEF t
<1>4. SplitsPort(f, t)
  BY <1>3 DEF SplitsPort, Dotted, Families
<1>5. HostParses(f, t)
  BY ZenonT(60), <1>3, <1>4 DEF HostParses
<1>6. a.port % (256 * 256) = a.port
  BY <1>2
<1>7. PortOf(t) = a.port
  BY <1>3, <1>6 DEF PortOf
<1>8. inet_pton(f, t, e) = [err |-> "Success", endpoint |-> Endpoint(f, [bytes |-> a.bytes, port |-> a.port])]
  BY <1>3, <1>4, <1>5, <1>7 DEF inet_pton
<1> QED
  BY <1>1, <1>2, <1>8 DEF t

\* What WinSocket prints names the same host and port, and its parser reads it back.
LEMMA StringRoundTrip ==
  ASSUME NEW f \in Families, NEW a \in Address(f)
  PROVE  LET addr == [family |-> f, port |-> htons(a.port), bytes |-> a.bytes]
         IN  /\ addr_and_port_to_str(addr) = [host |-> Host(f, a.bytes), port |-> Number(a.port)]
             /\ str_to_addr(f, Host(f, a.bytes), Number(a.port)) = [err |-> "Success", addr |-> addr]
<1>1. a.port \in Port
  BY DEF Address
<1>2. htons(htons(a.port)) = a.port
  BY <1>1, HtonsInverse
<1>3. Number(a.port).shape = "number" /\ Number(a.port).value = a.port
      /\ Host(f, a.bytes).family = f /\ Host(f, a.bytes).bytes = a.bytes
  BY DEF Number, Host
<1>4. port_error(Number(a.port)) = "Success"
  BY <1>1, <1>3 DEF port_error
<1>5. ParsedAddr(f, Host(f, a.bytes), Number(a.port)) = [family |-> f, port |-> htons(a.port), bytes |-> a.bytes]
  BY <1>3 DEF ParsedAddr
<1>6. str_to_addr(f, Host(f, a.bytes), Number(a.port))
        = [err |-> "Success", addr |-> [family |-> f, port |-> htons(a.port), bytes |-> a.bytes]]
  BY <1>3, <1>4, <1>5 DEF str_to_addr
<1>7. addr_and_port_to_str([family |-> f, port |-> htons(a.port), bytes |-> a.bytes])
        = [host |-> Host(f, a.bytes), port |-> Number(a.port)]
  BY <1>2 DEF addr_and_port_to_str, addr_to_str, port_to_str
<1> QED
  BY <1>6, <1>7

(***************************************************************************)
(* What str_to_addr4 and str_to_addr6 accept, endpoint.cpp's inet_pton     *)
(* accepts, and reads as the same address.                                 *)
(***************************************************************************)
THEOREM ParserAgreement ==
  ASSUME NEW f \in Families, NEW t \in TextType, NEW e,
         str_to_addr(f, t.host, t.port).err = "Success"
  PROVE  LET loose == inet_pton(f, [t EXCEPT !.brackets = f = "IPv6"], e)
         IN  /\ loose.err = "Success"
             /\ endpoint_to_sockaddr(f, loose.endpoint).addr = str_to_addr(f, t.host, t.port).addr
<1> DEFINE u == [t EXCEPT !.brackets = f = "IPv6"]
           a == [bytes |-> t.host.bytes, port |-> t.port.value]
<1>1. t.host.family = f /\ port_error(t.port) = "Success"
  BY DEF str_to_addr
<1>2. t.port.shape = "number" /\ t.port.value \in Port
  BY <1>1 DEF port_error
<1>3. t.host.bytes \in Bytes(f)
  BY <1>1 DEF TextType, Families
<1>4. a \in Address(f)
  BY <1>2, <1>3 DEF Address
<1>5. str_to_addr(f, t.host, t.port).addr = [family |-> f, port |-> htons(t.port.value), bytes |-> t.host.bytes]
  BY <1>1 DEF str_to_addr, ParsedAddr
<1>6. u.host = t.host /\ u.port = t.port /\ u.brackets = (f = "IPv6")
  BY DEF TextType
<1> HIDE DEF u
<1>7. SplitsPort(f, u)
  BY <1>1, <1>2, <1>6 DEF SplitsPort, Dotted, Families
<1>8. HostParses(f, u)
  BY ZenonT(60), <1>1, <1>6, <1>7 DEF HostParses
<1>9. t.port.value % (256 * 256) = t.port.value
  BY <1>2 DEF Port
<1>10. inet_pton(f, u, e) = [err |-> "Success", endpoint |-> Endpoint(f, a)]
  BY <1>2, <1>6, <1>7, <1>8, <1>9 DEF inet_pton, PortOf
<1>11. endpoint_to_sockaddr(f, Endpoint(f, a)).addr = [family |-> f, port |-> htons(a.port), bytes |-> a.bytes]
  BY <1>4, ToSockaddr
<1> QED
  BY <1>5, <1>10, <1>11 DEF u

--------------------------------------------------------------------------------
(* disconnect() *)

\* The unsigned difference of two tick counts is the time that passed, also when the
\* tick count wraps in between.
LEMMA ElapsedIsSpent ==
  ASSUME DisconnectType
  PROVE  Minus(GetTickCount64, operation_start_time) = spent
BY WidthAssumption DEF DisconnectType, Minus, GetTickCount64

\* A negative timeout becomes larger than any time that can pass.
LEMMA NegativeNeverExpires ==
  ASSUME DisconnectType, timeout_ms < 0
  PROVE  spent < AsULongLong(timeout_ms)
BY WidthAssumption DEF DisconnectType, AsULongLong

\* What is left of a positive timeout survives the narrowing to seconds.
LEMMA RestFits ==
  ASSUME NEW n \in 1 .. IntBound - 1
  PROVE  /\ AsLong(n \div 1000) = n \div 1000
         /\ n \div 1000 >= 0
         /\ (n % 1000) * 1000 >= 0 /\ (n % 1000) * 1000 < 1000 * 1000
         /\ ((n % 1000) * 1000) \div 1000 = n % 1000
         /\ n = (n \div 1000) * 1000 + (n % 1000)
<1>1. IntBound \in Nat /\ n \in Nat /\ n < IntBound
  BY WidthAssumption
<1>2. n \div 1000 \in Int /\ n \div 1000 >= 0 /\ n \div 1000 <= n
  BY <1>1
<1>3. n % 1000 \in 0 .. 999
  BY <1>1
<1>4. n = (n \div 1000) * 1000 + (n % 1000)
  BY <1>1
<1>5. (n % 1000) * 1000 >= 0 /\ (n % 1000) * 1000 < 1000 * 1000
  BY <1>3
<1>6. ((n % 1000) * 1000) \div 1000 = n % 1000
  BY <1>3
<1>7. AsLong(n \div 1000) = n \div 1000
  BY <1>1, <1>2 DEF AsLong
<1> QED
  BY <1>2, <1>4, <1>5, <1>6, <1>7

\* The conversions stay within the integers.
LEMMA AsLongInt == ASSUME NEW n \in Nat PROVE AsLong(n) \in Int
BY WidthAssumption DEF AsLong

DInv == DisconnectType /\ DeadlineKept

\* Returning from disconnect() restores the types.
LEMMA ReturnInv ==
  ASSUME DisconnectType, NEW e \in {"none", "Success", "TimedOut", "error"},
         DisconnectReturn(e), readable' \in BOOLEAN
  PROVE  DInv'
<1>1. 0 \in 0 .. ULongLong - 1 /\ 0 \in -IntBound .. IntBound - 1 /\ 0 \in 0 .. MaxSpent + Quantum
  BY WidthAssumption
<1>2. time_val' = [sec |-> 0, usec |-> 0] /\ at' = "idle" /\ since' = 0 /\ spent' = 0
  BY DEF DisconnectReturn, NoTime
<1>3. time_val' \in [sec : Int, usec : Int] /\ since' \in 0 .. spent'
  BY <1>2
<1>4. DisconnectType'
  BY ZenonT(60), <1>1, <1>2, <1>3 DEF DisconnectReturn, DisconnectType
<1>5. DeadlineKept'
  BY <1>2 DEF DeadlineKept
<1> QED
  BY <1>4, <1>5 DEF DInv

\* Every step keeps the TIMEVAL at what is left of the timeout.
LEMMA StepDInv == DInv /\ [DisconnectNext]_disconnectVars => DInv'
<1> SUFFICES ASSUME DInv, [DisconnectNext]_disconnectVars PROVE DInv'
  OBVIOUS
<1>0. DisconnectType /\ DeadlineKept
  BY DEF DInv
<1>1. ASSUME NEW t \in Timeouts, disconnect(t) PROVE DInv'
  <2>1. CASE DisconnectReturn("error") /\ UNCHANGED readable
    BY <1>0, <2>1, ReturnInv DEF DisconnectType
  <2> QED
    <3>1. CASE /\ at' = "top"
               /\ timeout_ms' = t
               /\ operation_start_time' \in TickCounts
               /\ UNCHANGED <<time_val, spent, since, readable, outcome>>
      <4>1. t \in -IntBound .. IntBound - 1 /\ operation_start_time' \in 0 .. ULongLong - 1
        BY <3>1, WidthAssumption
      <4> QED
        BY <1>0, <3>1, <4>1 DEF DisconnectType, DeadlineKept, DInv
    <3> QED
      BY <1>1, <2>1, <3>1 DEF disconnect
<1>2. CASE SetTimeout
  <2> DEFINE elapsed == Minus(GetTickCount64, operation_start_time)
             new_timeout == Minus(AsULongLong(timeout_ms), elapsed)
  <2>1. elapsed = spent
    BY <1>0, ElapsedIsSpent
  <2>2. CASE DisconnectReturn("TimedOut") /\ UNCHANGED readable
    BY <1>0, <2>2, ReturnInv DEF DisconnectType
  <2>3. CASE /\ ~(timeout_ms # 0 /\ elapsed >= AsULongLong(timeout_ms))
             /\ at' = "select"
             /\ time_val' = [sec |-> AsLong(new_timeout \div 1000), usec |-> (new_timeout % 1000) * 1000]
             /\ since' = spent
             /\ UNCHANGED <<timeout_ms, operation_start_time, spent, readable, outcome>>
    <3>1. new_timeout \in Nat
      BY <1>0, <2>1, WidthAssumption DEF Minus, AsULongLong, DisconnectType
    <3> HIDE DEF new_timeout
    <3>2. AsLong(new_timeout \div 1000) \in Int /\ (new_timeout % 1000) * 1000 \in Int
      BY <3>1, AsLongInt
    <3>3. DisconnectType'
      BY <1>0, <2>3, <3>2 DEF DisconnectType
    <3>4. ASSUME timeout_ms > 0 PROVE new_timeout = timeout_ms - spent /\ new_timeout \in 1 .. IntBound - 1
      <4>1. spent < timeout_ms
        BY <1>0, <2>1, <2>3, <3>4 DEF AsULongLong, DisconnectType
      <4> QED
        BY <1>0, <2>1, <3>4, <4>1, WidthAssumption DEF new_timeout, Minus, AsULongLong, DisconnectType
    <3>5. DeadlineKept'
      <4> SUFFICES ASSUME timeout_ms > 0
                   PROVE  (/\ time_val.sec >= 0
                           /\ time_val.usec >= 0 /\ time_val.usec < 1000 * 1000
                           /\ Limit > 0
                           /\ since + Limit = timeout_ms)'
        BY <2>3 DEF DeadlineKept
      <4>1. time_val'.sec = new_timeout \div 1000 /\ time_val'.usec = (new_timeout % 1000) * 1000
        BY <2>3, <3>4, RestFits
      <4>2. Limit' = new_timeout
        BY <3>4, <4>1, RestFits DEF Limit
      <4> QED
        BY <1>0, <2>3, <3>4, <4>1, <4>2, RestFits DEF DisconnectType
    <3> QED
      BY <3>3, <3>5 DEF DInv
  <2> QED
    BY <1>2, <2>2, <2>3 DEF SetTimeout
<1>3. CASE Select \/ SelectFails
  <2>1. CASE DisconnectReturn("error") /\ UNCHANGED readable
    BY <1>0, <2>1, ReturnInv DEF DisconnectType
  <2>2. CASE /\ at' \in {"recv", "top"}
             /\ UNCHANGED <<timeout_ms, operation_start_time, time_val, spent, since, readable, outcome>>
    BY <1>0, <2>2 DEF DisconnectType, DeadlineKept, DInv
  <2> QED
    BY <1>3, <2>1, <2>2 DEF Select, SelectFails
<1>4. CASE Recv
  <2>1. CASE (DisconnectReturn("Success") \/ DisconnectReturn("error")) /\ UNCHANGED readable
    BY <1>0, <2>1, ReturnInv DEF DisconnectType
  <2>2. CASE /\ at' = "top" /\ readable' \in BOOLEAN
             /\ UNCHANGED <<timeout_ms, operation_start_time, time_val, spent, since, outcome>>
    BY <1>0, <2>2 DEF DisconnectType, DeadlineKept, DInv
  <2> QED
    BY ZenonT(60), <1>4, <2>1, <2>2 DEF Recv
<1>5. CASE Arrive \/ Steal
  <2>1. UNCHANGED <<at, timeout_ms, operation_start_time, time_val, spent, since, outcome>>
    BY <1>5 DEF Arrive, Steal
  <2>2. readable' \in BOOLEAN
    BY ZenonT(60), <1>0, <1>5 DEF Arrive, Steal, DisconnectType
  <2>3. DeadlineKept'
    BY <1>0, <2>1 DEF DeadlineKept, Limit
  <2> QED
    BY <1>0, <2>1, <2>2, <2>3 DEF DisconnectType, DInv
<1>6. CASE Tick
  BY <1>0, <1>6, WidthAssumption DEF Tick, DisconnectType, DeadlineKept, Limit, DInv
<1>7. CASE Forget
  <2>1. DisconnectType'
    BY ZenonT(60), <1>0, <1>7 DEF Forget, DisconnectType
  <2> QED
    BY <1>7, <2>1 DEF Forget, DeadlineKept, DInv
<1>8. CASE UNCHANGED disconnectVars
  BY <1>0, <1>8 DEF disconnectVars, DisconnectType, DeadlineKept, Limit, DInv
<1> QED
  BY <1>1, <1>2, <1>3, <1>4, <1>5, <1>6, <1>7, <1>8 DEF DisconnectNext, LoopStep

\* Types and deadline hold throughout.
LEMMA DInvariance == DisconnectSpec => []DInv
<1>1. DisconnectInit => DInv
  <2>1. 0 \in 0 .. ULongLong - 1 /\ 0 \in -IntBound .. IntBound - 1 /\ 0 \in 0 .. MaxSpent + Quantum
        /\ 0 \in 0 .. 0
    BY WidthAssumption
  <2>2. NoTime \in [sec : Int, usec : Int]
    BY DEF NoTime
  <2> QED
    BY ZenonT(60), <2>1, <2>2 DEF DisconnectInit, DInv, DisconnectType, DeadlineKept
<1> QED
  BY <1>1, StepDInv, PTL DEF DisconnectSpec

(***************************************************************************)
(* For every positive int timeout and every tick count at the start, each  *)
(* select() of disconnect() is given exactly what is left of the timeout.  *)
(***************************************************************************)
THEOREM DeadlineTheorem == DisconnectSpec => []DeadlineKept
<1>1. DInv => DeadlineKept
  BY DEF DInv
<1> QED
  BY <1>1, DInvariance, PTL

(***************************************************************************)
(* TimedOut is reported only for a positive timeout and only after it has  *)
(* passed; a negative timeout never expires.                               *)
(***************************************************************************)
THEOREM TimedOutTheorem == DisconnectSpec => TimedOutHonest
<1>1. ASSUME DInv, [DisconnectNext]_disconnectVars, at = "top", at' = "idle"
      PROVE  timeout_ms > 0 /\ spent >= timeout_ms
  <2>1. SetTimeout
    BY <1>1 DEF DisconnectNext, LoopStep, disconnect, Select, SelectFails, Recv, Arrive, Steal, Tick, Forget, disconnectVars
  <2>2. timeout_ms # 0 /\ spent >= AsULongLong(timeout_ms)
    BY <1>1, <2>1, ElapsedIsSpent DEF SetTimeout, DInv
  <2>3. timeout_ms >= 0
    BY <1>1, <2>2, NegativeNeverExpires, WidthAssumption DEF DInv, DisconnectType, AsULongLong
  <2> QED
    BY <1>1, <2>2, <2>3 DEF AsULongLong, DInv, DisconnectType
<1> QED
  BY <1>1, DInvariance, PTL DEF DisconnectSpec, TimedOutHonest
================================================================================
