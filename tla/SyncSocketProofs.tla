---------------------------- MODULE SyncSocketProofs ----------------------------
(***************************************************************************)
(* Proofs about SyncSocket, for any number of sockets, handles, texts and  *)
(* peers: whatever calls fail, handles are accounted for, members describe *)
(* the native socket, and addresses survive their conversions.             *)
(***************************************************************************)
EXTENDS SyncSocket, SyncPartsProofs

--------------------------------------------------------------------------------
(* disconnect() inside the socket *)

(***************************************************************************)
(* The socket calls disconnect() the way Disconnect describes it.          *)
(***************************************************************************)
LEMMA StepIsDisconnect == [Next]_vars => [DisconnectNext]_disconnectVars
<1> SUFFICES ASSUME Next PROVE [DisconnectNext]_disconnectVars
    BY DEF vars
<1>1. ASSUME NEW s \in Sockets, close(s) PROVE DisconnectNext
  BY <1>1 DEF close, DisconnectNext
<1>2. ASSUME NEW s \in Sockets, Disconnects(s) PROVE DisconnectNext
  BY <1>2 DEF Disconnects, DisconnectNext
<1>3. CASE Loop \/ TimePasses \/ Environment
  BY SMTT(60), <1>3 DEF Loop, TimePasses, Environment, DisconnectNext
<1>4. ASSUME NEW s \in Sockets,
             WinSocket(s) \/ Destroy(s) \/ bind(s) \/ listen(s) \/ connect(s) \/ send_to(s)
               \/ recv_from(s) \/ get_sock_name(s) \/ get_peer_name(s)
      PROVE  UNCHANGED disconnectVars
  BY <1>4 DEF WinSocket, Destroy, bind, listen, connect, send_to, recv_from, get_sock_name, get_peer_name,
              BecomesBound, Fill
<1>5. ASSUME NEW s \in Sockets, NEW f \in Families \cup {"Unspecified"}, socket(s, f)
      PROVE  UNCHANGED disconnectVars
  BY <1>5 DEF socket
<1>6. ASSUME NEW s \in Sockets, NEW a \in Sockets, accept(s, a) PROVE UNCHANGED disconnectVars
  BY ZenonT(60), <1>6 DEF accept
<1>7. ASSUME DropCore \/ (\E t \in Texts : ReadText(t)) \/ (\E f \in Families : Parse(f))
      PROVE  UNCHANGED disconnectVars
  BY <1>7 DEF DropCore, ReadText, Parse
<1> QED
  BY <1>1, <1>2, <1>3, <1>4, <1>5, <1>6, <1>7 DEF Next

(***************************************************************************)
(* What is proved of disconnect() alone holds in the socket.               *)
(***************************************************************************)
LEMMA SocketDisconnects == Spec => DisconnectSpec
<1>1. Init => DisconnectInit
  BY DEF Init
<1> QED
  BY <1>1, StepIsDisconnect, PTL DEF Spec, DisconnectSpec

(***************************************************************************)
(* Every select() inside disconnect() gets what is left of the timeout,    *)
(* whatever the program does with its sockets.                             *)
(***************************************************************************)
THEOREM SocketDeadline == Spec => []DeadlineKept
BY SocketDisconnects, DeadlineTheorem, PTL

(***************************************************************************)
(* disconnect() of a socket reports TimedOut only when it is true.         *)
(***************************************************************************)
THEOREM SocketTimedOut == Spec => TimedOutHonest
BY SocketDisconnects, TimedOutTheorem, PTL

--------------------------------------------------------------------------------
(* The inductive invariant *)

\* The SOCKADDR of an address
SockaddrOf(f, a) == [family |-> f, port |-> htons(a.port), bytes |-> a.bytes]

\* What Winsock knows of a native socket fits together.
NativeOk(n) ==
  /\ DOMAIN n = {"state", "family", "name", "peer", "given"}
  /\ n.state \in {"closed", "open", "listening", "connected"}
  /\ n.family \in AddressFamily
  /\ n.state # "closed" <=> n.family \in Families
  /\ n.name = NoAddr \/ n.name \in Sockaddr(n.family)
  /\ n.peer = NoAddr \/ n.peer \in Sockaddr(n.family)
  /\ n.state \in {"listening", "connected"} => n.name # NoAddr
  /\ n.state = "closed" => n = Closed
  /\ n.state # "closed" /\ n.given.family = n.family =>
       \E a \in Address(n.family) :
         n.given.cells = Endpoint(n.family, a) /\ n.name = Named(SockaddrOf(n.family, a))

\* The program's endpoint is an address of the family it was filled for.
EndpointOk(e) ==
  /\ e.family \in AddressFamily
  /\ e.cells \in CellType
  /\ e.family \in Families => \E a \in Address(e.family) : e.cells = Endpoint(e.family, a)

MemberType ==
  /\ obj \subseteq Sockets
  /\ socket_ \in [Sockets -> Handles \cup {NoHandle}]
  /\ socket_io_handle_ \in [Sockets -> Handles \cup {NoHandle}]
  /\ addr_family_ \in [Sockets -> AddressFamily]
  /\ is_bound_ \in [Sockets -> BOOLEAN]

DataInv ==
  /\ native = [h \in Handles |-> native[h]]
  /\ \A h \in Handles : NativeOk(native[h])
  /\ EndpointOk(ep)
  /\ text \in TextType

HandleType ==
  /\ tpio \subseteq Handles
  /\ lost \in [sockets : SUBSET Handles, ios : SUBSET Handles]

\* Accounted, handle by handle
OwnerInv ==
  /\ \A h \in Handles : native[h].state # "closed" <=> \E s \in obj : socket_[s] = h
  /\ \A p \in Handles : p \in tpio <=> p \in lost.ios \/ \E s \in obj : socket_io_handle_[s] = p
  /\ \A s \in obj : socket_[s] \notin lost.sockets /\ socket_io_handle_[s] \notin lost.ios
  /\ \A s, t \in obj :
       s # t => /\ socket_[s] # NoHandle => socket_[s] # socket_[t]
                /\ socket_io_handle_[s] # NoHandle => socket_io_handle_[s] # socket_io_handle_[t]

(***************************************************************************)
(* Ownership, the members and the data need one another: a name is what the*)
(* program asked for because addr_family_ is the family of the native      *)
(* socket, and that because nobody else holds the handle.                  *)
(***************************************************************************)
SInv == MemberType /\ HandleType /\ DataInv /\ OwnerInv /\ MembersAgree

--------------------------------------------------------------------------------
(* Data *)

\* A SOCKADDR has a family, so it is not NoAddr.
LEMMA SockaddrNotNone ==
  ASSUME NEW f \in Families, NEW addr \in Sockaddr(f)
  PROVE  addr # NoAddr /\ addr = [family |-> f, port |-> addr.port, bytes |-> addr.bytes]
         /\ addr.port \in Port /\ addr.bytes \in Bytes(f) /\ addr.family = f
<1>1. addr = [family |-> f, port |-> addr.port, bytes |-> addr.bytes] /\ addr.family = f
      /\ addr.port \in Port /\ addr.bytes \in Bytes(f)
  BY DEF Sockaddr
<1>2. NoAddr.family = "NotSupported" /\ f # "NotSupported"
  BY DEF NoAddr, Families
<1> QED
  BY <1>1, <1>2

\* The name Winsock makes of a SOCKADDR is one.
LEMMA NamedAddr ==
  ASSUME NEW f \in Families, NEW addr \in Sockaddr(f)
  PROVE  Named(addr) \in Sockaddr(f)
BY SyncAssumption DEF Named, Sockaddr

\* The address of an endpoint, and the name Winsock makes of it, are SOCKADDRs.
LEMMA NamedType ==
  ASSUME NEW f \in Families, NEW a \in Address(f)
  PROVE  SockaddrOf(f, a) \in Sockaddr(f) /\ Named(SockaddrOf(f, a)) \in Sockaddr(f)
<1>1. a.port \in Port /\ a.bytes \in Bytes(f)
  BY DEF Address
<1>2. htons(a.port) \in Port
  BY <1>1, HtonsInverse
<1>3. Ephemeral \in Port
  BY SyncAssumption
<1> QED
  BY <1>1, <1>2, <1>3 DEF SockaddrOf, Named, Sockaddr

\* The text of a program that has read none
LEMMA NoTextType == NoText \in TextType
<1>1. Host("name", <<>>) \in [family : {"name", "dotted name"}, bytes : {<<>>}]
  BY DEF Host
<1>2. [shape |-> "none", value |-> 0] \in PortText
  BY DEF PortText
<1> QED
  BY <1>1, <1>2 DEF NoText, TextType

\* The name a socket gets that has not asked for one
LEMMA AnyNameType == ASSUME NEW f \in Families PROVE AnyName(f) \in Sockaddr(f)
<1>1. Ephemeral \in Port /\ 0 \in Byte
  BY SyncAssumption DEF Byte
<1>2. [i \in 0 .. Width(f) - 1 |-> 0] \in Bytes(f)
  BY <1>1 DEF Bytes
<1> QED
  BY <1>1, <1>2 DEF AnyName, Sockaddr

\* Closed and new native sockets
LEMMA FreshOk ==
  /\ NativeOk(Closed) /\ Closed.state = "closed"
  /\ \A f \in Families : NativeOk(Fresh(f)) /\ Fresh(f).state = "open" /\ Fresh(f).family = f
<1>1. NativeOk(Closed) /\ Closed.state = "closed"
  BY DEF NativeOk, Closed, NoEndpoint, AddressFamily, Families
<1>2. ASSUME NEW f \in Families
      PROVE  NativeOk(Fresh(f)) /\ Fresh(f).state = "open" /\ Fresh(f).family = f
  <2> DEFINE n == Fresh(f)
  <2>1. /\ n.state = "open" /\ n.family = f /\ n.name = NoAddr /\ n.peer = NoAddr /\ n.given = NoEndpoint
        /\ DOMAIN n = {"state", "family", "name", "peer", "given"}
    BY DEF Fresh, Closed
  <2>2. n.given.family # f
    BY <2>1 DEF NoEndpoint, Families
  <2> QED
    BY <2>1, <2>2 DEF NativeOk, AddressFamily
<1> QED
  BY <1>1, <1>2

\* What bind() hands to Winsock is what endpoint e says, if e was filled for family f.
Conveys(f, e, addr) ==
  /\ addr \in Sockaddr(f)
  /\ e.family = f => \E a \in Address(f) : e.cells = Endpoint(f, a) /\ addr = SockaddrOf(f, a)

\* bind(): the name is what the program's endpoint says.
LEMMA BoundOk ==
  ASSUME NEW n, NativeOk(n), n.state # "closed", n.family \in Families,
         NEW e, NEW addr, Conveys(n.family, e, addr)
  PROVE  LET m == [n EXCEPT !.name = Named(addr), !.given = e]
         IN  NativeOk(m) /\ m.state = n.state /\ m.family = n.family /\ m.name # NoAddr
<1> DEFINE name == Named(addr)
           m == [n EXCEPT !.name = name, !.given = e]
<1>1. name \in Sockaddr(n.family) /\ name # NoAddr
  BY NamedAddr, SockaddrNotNone DEF Conveys
<1>2. DOMAIN n = {"state", "family", "name", "peer", "given"}
  BY DEF NativeOk
<1>3. m.given.family = m.family =>
        \E a \in Address(m.family) : m.given.cells = Endpoint(m.family, a) /\ m.name = Named(SockaddrOf(m.family, a))
  BY <1>2 DEF Conveys
<1> HIDE DEF name
<1>4. /\ m.state = n.state /\ m.family = n.family /\ m.name = name /\ m.peer = n.peer /\ m.given = e
      /\ DOMAIN m = {"state", "family", "name", "peer", "given"}
  BY <1>2
<1> HIDE DEF m
<1>5. NativeOk(m)
  BY <1>1, <1>3, <1>4 DEF NativeOk
<1> QED
  BY <1>1, <1>4, <1>5 DEF m, name

\* listen()
LEMMA ListeningOk ==
  ASSUME NEW n, NativeOk(n), n.state = "open", n.name # NoAddr
  PROVE  LET m == [n EXCEPT !.state = "listening"]
         IN  NativeOk(m) /\ m.state = "listening" /\ m.family = n.family /\ m.name = n.name
<1> DEFINE m == [n EXCEPT !.state = "listening"]
<1>1. DOMAIN n = {"state", "family", "name", "peer", "given"}
  BY DEF NativeOk
<1>2. /\ m.state = "listening" /\ m.family = n.family /\ m.name = n.name /\ m.peer = n.peer /\ m.given = n.given
      /\ DOMAIN m = {"state", "family", "name", "peer", "given"}
  BY <1>1
<1> HIDE DEF m
<1>3. NativeOk(m)
  BY <1>2 DEF NativeOk
<1> QED
  BY <1>2, <1>3 DEF m

\* connect() and send_to(): the socket keeps its name or gets one.
LEMMA GetsName ==
  ASSUME NEW n, NativeOk(n), n.state = "open",
         NEW m, DOMAIN m = {"state", "family", "name", "peer", "given"},
         m.state \in {"open", "connected"}, m.family = n.family, m.given = n.given,
         m.peer = NoAddr \/ m.peer \in Sockaddr(n.family),
         m.name = IF n.name = NoAddr THEN AnyName(n.family) ELSE n.name
  PROVE  NativeOk(m) /\ m.name # NoAddr
<1>0. n.family \in Families
  BY DEF NativeOk
<1>1. AnyName(n.family) \in Sockaddr(n.family) /\ AnyName(n.family) # NoAddr
  BY <1>0, AnyNameType, SockaddrNotNone
<1>3. m.name # NoAddr /\ m.name \in Sockaddr(n.family)
  BY <1>1 DEF NativeOk
<1>4. ASSUME m.given.family = m.family
      PROVE  \E b \in Address(m.family) : m.given.cells = Endpoint(m.family, b) /\ m.name = Named(SockaddrOf(m.family, b))
  <2>1. PICK b \in Address(n.family) : n.given.cells = Endpoint(n.family, b) /\ n.name = Named(SockaddrOf(n.family, b))
    BY <1>4 DEF NativeOk
  <2>2. n.name # NoAddr
    BY SMTT(60), <1>0, <2>1, NamedType, SockaddrNotNone
  <2> QED
    BY <2>1, <2>2
<1>5. NativeOk(m)
  BY SMTT(60), <1>0, <1>3, <1>4 DEF NativeOk
<1> QED
  BY <1>3, <1>5

--------------------------------------------------------------------------------
(* Handles *)

\* An object that is open owns its native socket and knows its family.
LEMMA OpenOwned ==
  ASSUME SInv, NEW s \in obj, Open(s)
  PROVE  /\ s \in Sockets /\ socket_[s] \in Handles
         /\ NativeOk(Native(s)) /\ Native(s).state # "closed" /\ Native(s).family \in Families
         /\ Describes(addr_family_[s], Native(s))
<1>1. s \in Sockets /\ socket_[s] \in Handles
  BY DEF SInv, MemberType, Open
<1>2. NativeOk(native[socket_[s]]) /\ native[socket_[s]].state # "closed"
  BY SMTT(60), <1>1 DEF SInv, DataInv, OwnerInv
<1>3. native[socket_[s]].family \in Families
  BY <1>2 DEF NativeOk
<1>4. Describes(addr_family_[s], Native(s))
  BY DEF SInv, MembersAgree
<1> QED
  BY <1>1, <1>2, <1>3, <1>4 DEF Native

\* The handle WSASocketW or ::accept returns is nobody's.
LEMMA NewHandleFree ==
  ASSUME FreeHandles # {}
  PROVE  NewHandle \in Handles /\ NewHandle \notin lost.sockets /\ native[NewHandle].state = "closed"
<1>1. NewHandle \in FreeHandles
  BY DEF NewHandle
<1> QED
  BY <1>1 DEF FreeHandles

\* So is the PTP_IO.
LEMMA NewIoFree ==
  ASSUME HandleType, tpio # Handles
  PROVE  NewIo \in Handles /\ NewIo \notin tpio
<1>1. \E p : p \in Handles \ tpio
  BY SMTT(60) DEF HandleType
<1> QED
  BY <1>1 DEF NewIo

\* Object a gives up its handles, closing them or losing them, and takes h and p, which
\* were nobody's, or keeps its PTP_IO: what socket(), close() and accept() do, however
\* they end.  m is the native socket behind h.
TakesHandles(a, h, p, m, lostSockets, lostIos) ==
  /\ h \in Handles \cup {NoHandle} /\ p \in Handles \cup {NoHandle}
  /\ h \in Handles => /\ native[h].state = "closed" /\ h \notin lost.sockets
                      /\ NativeOk(m) /\ m.state # "closed"
  /\ p \in Handles => p \notin tpio \/ p = socket_io_handle_[a]
  /\ obj' = obj
  /\ socket_' = [socket_ EXCEPT ![a] = h]
  /\ socket_io_handle_' = [socket_io_handle_ EXCEPT ![a] = p]
  /\ native' = [x \in Handles |-> IF x = socket_[a] THEN Closed ELSE IF x = h THEN m ELSE native[x]]
  /\ lost' = [sockets |-> lostSockets, ios |-> lostIos]
  /\ lostSockets \in SUBSET Handles /\ lostIos \in SUBSET Handles
  /\ \A x \in lostSockets : x \in lost.sockets \/ x = socket_[a] \/ (native[x].state = "closed" /\ x # h)
  /\ \/ lostIos = lost.ios
     \/ /\ lostIos = lost.ios \cup ({socket_io_handle_[a]} \cap Handles)
        /\ p \in {NoHandle} \/ p # socket_io_handle_[a]
  /\ tpio' = (tpio \ {socket_io_handle_[a]}) \cup (lostIos \cap {socket_io_handle_[a]}) \cup ({p} \cap Handles)

\* The state of the handles after such a step
HandlesTaken(a, h, p, m) ==
  /\ obj' = obj
  /\ HandleType' /\ OwnerInv'
  /\ native' = [x \in Handles |-> native'[x]]
  /\ \A x \in Handles : NativeOk(native'[x])
  /\ socket_' \in [Sockets -> Handles \cup {NoHandle}]
  /\ socket_io_handle_' \in [Sockets -> Handles \cup {NoHandle}]
  /\ h \in Handles \cup {NoHandle}
  /\ socket_'[a] = h /\ socket_io_handle_'[a] = p
  /\ h \in Handles => native'[h] = m
  /\ \A s \in obj \ {a} : /\ socket_'[s] = socket_[s] /\ socket_io_handle_'[s] = socket_io_handle_[s]
                          /\ socket_[s] # NoHandle => native'[socket_[s]] = native[socket_[s]]

\* The other members of a are set to f and b, which fit h, p and m.
MembersSet(a, h, p, m, f, b) ==
  /\ UNCHANGED <<ep, text>>
  /\ f \in AddressFamily /\ addr_family_' = [addr_family_ EXCEPT ![a] = f]
  /\ b \in BOOLEAN /\ is_bound_' = [is_bound_ EXCEPT ![a] = b]
  /\ h \in Handles => Describes(f, m)
  /\ \A s \in Sockets \ {a} : s \in overwritten' <=> s \in overwritten
  /\ a \notin overwritten' => /\ h # NoHandle <=> p # NoHandle
                              /\ b => h \in Handles /\ m.name # NoAddr

(***************************************************************************)
(* Handles that are taken are accounted for.                               *)
(***************************************************************************)
LEMMA HandleStep ==
  ASSUME SInv, NEW a \in obj, NEW h, NEW p, NEW m, NEW lostSockets, NEW lostIos,
         TakesHandles(a, h, p, m, lostSockets, lostIos)
  PROVE  HandlesTaken(a, h, p, m)
<1> USE DEF TakesHandles
<1>a. MemberType /\ HandleType /\ DataInv /\ OwnerInv /\ NoHandle \notin Handles
  BY SMTT(60), SyncAssumption DEF SInv
<1>b. /\ obj \subseteq Sockets /\ a \in Sockets
      /\ socket_ \in [Sockets -> Handles \cup {NoHandle}]
      /\ socket_io_handle_ \in [Sockets -> Handles \cup {NoHandle}]
  BY <1>a DEF MemberType
<1>c. tpio \subseteq Handles /\ lost.sockets \subseteq Handles /\ lost.ios \subseteq Handles
  BY SMTT(60), <1>a DEF HandleType
<1>d. /\ socket_'[a] = h /\ socket_io_handle_'[a] = p
      /\ \A s \in obj \ {a} : socket_'[s] = socket_[s] /\ socket_io_handle_'[s] = socket_io_handle_[s]
  BY <1>b
<1>e. lost'.sockets = lostSockets /\ lost'.ios = lostIos
  OBVIOUS
<1>f. NativeOk(Closed) /\ Closed.state = "closed"
  BY SMTT(60), FreshOk
<1>g. h \in Handles => h # socket_[a]
  BY SMTT(60), <1>a DEF OwnerInv
<1>h. \A s \in obj \ {a} : socket_[s] # NoHandle => socket_[s] \in Handles /\ socket_[s] # h /\ socket_[s] # socket_[a]
  BY SMTT(60), <1>a, <1>b DEF OwnerInv
<1>1. HandleType'
  <2>1. tpio' \subseteq Handles
    BY <1>c
  <2> QED
    BY SMTT(60), <2>1 DEF HandleType
<1>2. \A x \in Handles : NativeOk(native'[x])
  BY SMTT(60), <1>a, <1>f DEF DataInv
<1>3. \A s \in obj \ {a} : socket_[s] # NoHandle => native'[socket_[s]] = native[socket_[s]]
  BY SMTT(60), <1>h
<1>4. h \in Handles => native'[h] = m
  BY SMTT(60), <1>g
<1>5. OwnerInv'
  <2>1. ASSUME NEW x \in Handles
        PROVE  native'[x].state # "closed" <=> \E s \in obj : socket_'[s] = x
    <3>1. CASE x = h
      BY <1>d, <1>4, <3>1
    <3>2. CASE x # h /\ x = socket_[a]
      BY SMTT(60), <1>d, <1>f, <1>h, <1>a, <3>2
    <3>3. CASE x # h /\ x # socket_[a]
      <4>1. native'[x] = native[x]
        BY SMTT(60), <3>3
      <4>2. native[x].state # "closed" <=> \E s \in obj : socket_[s] = x
        BY SMTT(60), <1>a DEF OwnerInv
      <4> QED
        BY <1>d, <3>3, <4>1, <4>2
    <3> QED
      BY SMTT(60), <3>1, <3>2, <3>3
  <2>2. ASSUME NEW x \in Handles
        PROVE  x \in tpio' <=> x \in lostIos \/ \E s \in obj : socket_io_handle_'[s] = x
    <3>1. x \in tpio <=> x \in lost.ios \/ \E s \in obj : socket_io_handle_[s] = x
      BY SMTT(60), <1>a DEF OwnerInv
    <3>2. \A s \in obj \ {a} : socket_io_handle_[s] = x => x # socket_io_handle_[a]
      BY SMTT(60), <1>a DEF OwnerInv
    <3>3. socket_io_handle_[a] \notin lost.ios
      BY SMTT(60), <1>a DEF OwnerInv
    <3>4. CASE x = p
      BY SMTT(60), <1>d, <3>4
    <3>5. CASE x # p
      BY SMTT(60), <1>d, <3>1, <3>2, <3>3, <3>5
    <3> QED
      BY SMTT(60), <3>4, <3>5
  <2>3. ASSUME NEW s \in obj PROVE socket_'[s] \notin lostSockets /\ socket_io_handle_'[s] \notin lostIos
    <3>1. socket_[s] \notin lost.sockets /\ socket_io_handle_[s] \notin lost.ios
      BY SMTT(60), <1>a DEF OwnerInv
    <3>2. CASE s = a
      <4>1. h \notin lostSockets
        BY SMTT(60), <1>a, <1>g, <3>1, <3>2
      <4>2. p \notin lostIos
        BY SMTT(60), <1>a, <3>1, <3>2 DEF OwnerInv
      <4> QED
        BY SMTT(60), <1>d, <3>2, <4>1, <4>2
    <3>3. CASE s # a
      <4>0. socket_[s] \in Handles => native[socket_[s]].state # "closed"
        BY SMTT(60), <1>a DEF OwnerInv
      <4>1. socket_[s] \notin lostSockets
        BY SMTT(60), <1>a, <1>h, <3>1, <3>3, <4>0
      <4>2. socket_io_handle_[s] \in Handles => socket_io_handle_[s] # socket_io_handle_[a]
        BY SMTT(60), <1>a, <3>3 DEF OwnerInv
      <4> QED
        BY SMTT(60), <1>d, <3>1, <3>3, <4>1, <4>2
    <3> QED
      BY SMTT(60), <3>2, <3>3
  <2>4. ASSUME NEW s \in obj, NEW u \in obj, s # u
        PROVE  /\ socket_'[s] # NoHandle => socket_'[s] # socket_'[u]
               /\ socket_io_handle_'[s] # NoHandle => socket_io_handle_'[s] # socket_io_handle_'[u]
    <3>1. socket_'[s] # NoHandle => socket_'[s] # socket_'[u]
      BY SMTT(60), <1>a, <1>d, <1>h, <2>4 DEF OwnerInv
    <3>2. \A q \in obj \ {a} : socket_io_handle_[q] # NoHandle => socket_io_handle_[q] # p
      <4>1. \A q \in obj \ {a} : socket_io_handle_[q] # NoHandle =>
              socket_io_handle_[q] \in tpio /\ socket_io_handle_[q] # socket_io_handle_[a]
        BY SMTT(60), <1>a, <1>b DEF OwnerInv
      <4> QED
        BY SMTT(60), <4>1, <1>a
    <3>3. socket_io_handle_'[s] # NoHandle => socket_io_handle_'[s] # socket_io_handle_'[u]
      BY SMTT(60), <1>a, <1>d, <2>4, <3>2 DEF OwnerInv
    <3> QED
      BY SMTT(60), <3>1, <3>3
  <2> QED
    BY SMTT(60), <1>e, <2>1, <2>2, <2>3, <2>4 DEF OwnerInv
<1> QED
  BY SMTT(60), <1>1, <1>2, <1>3, <1>4, <1>5, <1>b, <1>d DEF HandlesTaken

(***************************************************************************)
(* What is left to show of a handle step is that the members of a agree.   *)
(***************************************************************************)
LEMMA HandleStepInv ==
  ASSUME SInv, NEW a \in obj, NEW h, NEW p, NEW m, NEW f, NEW b,
         HandlesTaken(a, h, p, m), MembersSet(a, h, p, m, f, b)
  PROVE  SInv'
<1> USE DEF HandlesTaken, MembersSet
<1>a. MemberType /\ DataInv /\ MembersAgree
  BY DEF SInv
<1>b. obj \subseteq Sockets /\ addr_family_ \in [Sockets -> AddressFamily] /\ is_bound_ \in [Sockets -> BOOLEAN]
  BY <1>a DEF MemberType
<1>1. MemberType'
  BY SMTT(60), <1>b DEF MemberType
<1>2. DataInv'
  BY SMTT(60), <1>a DEF DataInv, EndpointOk
<1>3. MembersAgree'
  <2> SUFFICES ASSUME NEW s \in obj
               PROVE  /\ socket_'[s] # NoHandle => Describes(addr_family_'[s], native'[socket_'[s]])
                      /\ s \notin overwritten' =>
                           /\ socket_'[s] # NoHandle <=> socket_io_handle_'[s] # NoHandle
                           /\ is_bound_'[s] => socket_'[s] # NoHandle /\ native'[socket_'[s]].name # NoAddr
    BY SMTT(60) DEF MembersAgree, Open, Native, Describes
  <2>1. CASE s = a
    <3>1. addr_family_'[a] = f /\ is_bound_'[a] = b
      BY <1>b
    <3>2. socket_'[a] = h /\ socket_io_handle_'[a] = p /\ (h # NoHandle => h \in Handles)
      OBVIOUS
    <3>3. h \in Handles => native'[h] = m /\ Describes(f, m)
      OBVIOUS
    <3>4. a \notin overwritten' =>
            /\ h # NoHandle <=> p # NoHandle
            /\ b => h \in Handles /\ m.name # NoAddr
      OBVIOUS
    <3>5. NoHandle \notin Handles
      BY SMTT(60), SyncAssumption
    <3> HIDE DEF HandlesTaken, MembersSet
    <3>6. socket_'[a] # NoHandle => Describes(addr_family_'[a], native'[socket_'[a]])
      BY SMTT(60), <3>1, <3>2, <3>3
    <3>7. ASSUME a \notin overwritten'
          PROVE  socket_'[a] # NoHandle <=> socket_io_handle_'[a] # NoHandle
      BY SMTT(60), <3>2, <3>4, <3>7
    <3>8. ASSUME a \notin overwritten', is_bound_'[a]
          PROVE  socket_'[a] # NoHandle /\ native'[socket_'[a]].name # NoAddr
      <4>1. b
        BY <3>1, <3>8, Zenon
      <4>2. h \in Handles /\ m.name # NoAddr
        BY SMTT(60), <3>4, <3>8, <4>1
      <4> QED
        BY <3>2, <3>3, <3>5, <4>2
    <3> QED
      BY SMTT(60), <2>1, <3>6, <3>7, <3>8
  <2>2. CASE s # a
    <3>1. addr_family_'[s] = addr_family_[s] /\ is_bound_'[s] = is_bound_[s] /\ s \in Sockets
      BY <1>b, <2>2
    <3> QED
      BY SMTT(60), <1>a, <2>2, <3>1 DEF MembersAgree, Open, Native
  <2> QED
    BY SMTT(60), <2>1, <2>2
<1> QED
  BY SMTT(60), <1>1, <1>2, <1>3 DEF SInv

\* What the lemmas below need of the types
MembersTyped ==
  /\ socket_ \in [Sockets -> Handles \cup {NoHandle}]
  /\ socket_io_handle_ \in [Sockets -> Handles \cup {NoHandle}]
  /\ addr_family_ \in [Sockets -> AddressFamily] /\ is_bound_ \in [Sockets -> BOOLEAN]
  /\ lost.sockets \subseteq Handles /\ lost.ios \subseteq Handles /\ tpio \subseteq Handles
  /\ lost = [sockets |-> lost.sockets, ios |-> lost.ios]
  /\ DOMAIN native = Handles /\ obj \subseteq Sockets
  /\ NoHandle \notin Handles

\* They follow from the invariant.
LEMMA Typed == ASSUME SInv PROVE MembersTyped
<1>1. DOMAIN native = Handles
  BY DEF SInv, DataInv
<1>2. NoHandle \notin Handles
  BY SyncAssumption
<1>3. lost.sockets \subseteq Handles /\ lost.ios \subseteq Handles /\ tpio \subseteq Handles
      /\ lost = [sockets |-> lost.sockets, ios |-> lost.ios]
  BY SMTT(60) DEF SInv, HandleType
<1> QED
  BY <1>1, <1>2, <1>3 DEF SInv, MemberType, MembersTyped

(***************************************************************************)
(* A new native socket and a new PTP_IO become those of a, which loses the *)
(* ones it had: the successful end of socket() and accept().               *)
(***************************************************************************)
LEMMA OpensNew ==
  ASSUME SInv, NEW a \in obj, NEW m, NativeOk(m), m.state # "closed",
         FreeHandles # {}, tpio # Handles, obj' = obj,
         Loses({socket_[a]}, {socket_io_handle_[a]}, [native EXCEPT ![NewHandle] = m]),
         tpio' = tpio \cup {NewIo},
         socket_' = [socket_ EXCEPT ![a] = NewHandle],
         socket_io_handle_' = [socket_io_handle_ EXCEPT ![a] = NewIo]
  PROVE  HandlesTaken(a, NewHandle, NewIo, m) /\ NewHandle \in Handles /\ NewIo \in Handles
<1> DEFINE h == NewHandle
           p == NewIo
           lostSockets == lost.sockets \cup ({socket_[a]} \cap Handles)
           lostIos == lost.ios \cup ({socket_io_handle_[a]} \cap Handles)
<1>a. MembersTyped /\ a \in Sockets
  BY SMTT(60), Typed DEF SInv, MemberType
<1>b. socket_io_handle_[a] \in Handles => socket_io_handle_[a] \in tpio
  BY DEF SInv, OwnerInv
<1>1. h \in Handles /\ h \notin lost.sockets /\ native[h].state = "closed"
  BY NewHandleFree
<1>2. p \in Handles /\ p \notin tpio
  BY NewIoFree DEF SInv
<1> HIDE DEF h, p
<1>3. native' = [x \in Handles |-> IF x = socket_[a] THEN Closed ELSE IF x = h THEN m ELSE native[x]]
  <2>1. native' = [x \in Handles |-> IF x \in {socket_[a]} THEN Closed ELSE [native EXCEPT ![h] = m][x]]
    BY SMTT(60) DEF Loses, h
  <2> QED
    BY SMTT(60), <1>1, <1>a, <2>1 DEF MembersTyped
<1>4. lost' = [sockets |-> lostSockets, ios |-> lostIos]
  BY DEF Loses
<1>5. tpio' = (tpio \ {socket_io_handle_[a]}) \cup (lostIos \cap {socket_io_handle_[a]}) \cup ({p} \cap Handles)
  BY <1>a, <1>b, <1>2 DEF MembersTyped, p
<1>6. lostSockets \in SUBSET Handles /\ lostIos \in SUBSET Handles /\ p # socket_io_handle_[a]
  BY <1>a, <1>b, <1>2 DEF MembersTyped
<1>7. socket_' = [socket_ EXCEPT ![a] = h] /\ socket_io_handle_' = [socket_io_handle_ EXCEPT ![a] = p]
  BY DEF h, p
<1>8. TakesHandles(a, h, p, m, lostSockets, lostIos)
  BY ZenonT(60), <1>1, <1>2, <1>3, <1>4, <1>5, <1>6, <1>7 DEF TakesHandles
<1> QED
  BY <1>1, <1>2, <1>8, HandleStep DEF h, p

(***************************************************************************)
(* a loses or closes its handles and takes no native socket: how close()   *)
(* and the failures of socket() and accept() end.                          *)
(***************************************************************************)
LEMMA GivesUp ==
  ASSUME SInv, NEW a \in obj, NEW p, NEW left, NEW lostIos,
         obj' = obj,
         socket_' = [socket_ EXCEPT ![a] = NoHandle],
         socket_io_handle_' = [socket_io_handle_ EXCEPT ![a] = p],
         native' = [x \in Handles |-> IF x = socket_[a] THEN Closed ELSE native[x]],
         lost' = [sockets |-> lost.sockets \cup (left \cap Handles), ios |-> lostIos],
         \A x \in left \cap Handles : x = socket_[a] \/ native[x].state = "closed",
         \/ p = NoHandle /\ lostIos = lost.ios /\ tpio' = tpio \ {socket_io_handle_[a]}
         \/ p = NoHandle /\ lostIos = lost.ios \cup ({socket_io_handle_[a]} \cap Handles) /\ tpio' = tpio
         \/ p = socket_io_handle_[a] /\ lostIos = lost.ios /\ tpio' = tpio
  PROVE  HandlesTaken(a, NoHandle, p, Closed)
<1>a. MembersTyped /\ a \in Sockets
  BY SMTT(60), Typed DEF SInv, MemberType
<1>b. /\ socket_io_handle_[a] \in Handles => socket_io_handle_[a] \in tpio
      /\ socket_io_handle_[a] \notin lost.ios /\ socket_io_handle_[a] \in Handles \cup {NoHandle}
  BY <1>a DEF SInv, OwnerInv, MembersTyped
<1>1. native' = [x \in Handles |-> IF x = socket_[a] THEN Closed ELSE IF x = NoHandle THEN Closed ELSE native[x]]
  BY <1>a DEF MembersTyped
<1>2. p \in Handles \cup {NoHandle}
  BY <1>b
<1>3. tpio' = (tpio \ {socket_io_handle_[a]}) \cup (lostIos \cap {socket_io_handle_[a]}) \cup ({p} \cap Handles)
  BY SMTT(60), <1>a, <1>b DEF MembersTyped
<1> DEFINE lostSockets == lost.sockets \cup (left \cap Handles)
<1>4. /\ lostSockets \in SUBSET Handles /\ lostIos \in SUBSET Handles
      /\ \A x \in lostSockets : x \in lost.sockets \/ x = socket_[a] \/ (native[x].state = "closed" /\ x # NoHandle)
  BY SMTT(60), <1>a DEF MembersTyped
<1>5. \/ lostIos = lost.ios
      \/ /\ lostIos = lost.ios \cup ({socket_io_handle_[a]} \cap Handles)
         /\ p \in {NoHandle} \/ p # socket_io_handle_[a]
  OBVIOUS
<1>6. p \in Handles => p \notin tpio \/ p = socket_io_handle_[a]
  BY SMTT(60), <1>a DEF MembersTyped
<1>7. TakesHandles(a, NoHandle, p, Closed, lostSockets, lostIos)
  BY SMTT(60), <1>a, <1>1, <1>2, <1>3, <1>4, <1>5, <1>6 DEF TakesHandles, MembersTyped
<1> QED
  BY SMTT(60), <1>7, HandleStep

\* The new native socket, which was nobody's, is closed again or left open.
LEMMA LosesLeft ==
  ASSUME SInv, FreeHandles # {}, NEW a, NEW left \in LeftOpen(NewHandle), NEW ios,
         Loses({a} \cup left, ios, native)
  PROVE  /\ native' = [x \in Handles |-> IF x = a THEN Closed ELSE native[x]]
         /\ lost' = [sockets |-> lost.sockets \cup (({a} \cup left) \cap Handles),
                     ios |-> lost.ios \cup (ios \cap Handles)]
         /\ \A x \in ({a} \cup left) \cap Handles : x = a \/ native[x].state = "closed"
<1>1. NewHandle \in Handles /\ native[NewHandle].state = "closed" /\ left \subseteq {NewHandle}
  BY NewHandleFree DEF LeftOpen
<1>2. native[NewHandle] = Closed
  BY <1>1 DEF SInv, DataInv, NativeOk
<1>3. native' = [x \in Handles |-> IF x \in {a} \cup left THEN Closed ELSE native[x]]
  BY DEF Loses
<1>4. \A x \in Handles : (IF x \in {a} \cup left THEN Closed ELSE native[x]) = IF x = a THEN Closed ELSE native[x]
  BY <1>1, <1>2
<1> QED
  BY <1>1, <1>3, <1>4 DEF Loses

(***************************************************************************)
(* socket() keeps the invariant, also on a socket that is open.            *)
(***************************************************************************)
LEMMA SocketInv ==
  ASSUME SInv, NEW s \in Sockets, NEW f \in Families \cup {"Unspecified"}, socket(s, f)
  PROVE  SInv'
<1>a. s \in obj /\ obj' = obj /\ UNCHANGED <<is_bound_, ep, text>>
  BY DEF socket, Calls
<1>b. MembersTyped /\ MembersAgree
  BY Typed DEF SInv
<1>c. overwritten' = IF Open(s) THEN overwritten \cup {s} ELSE overwritten
  BY DEF socket, Overwrites
<1>d. is_bound_' = [is_bound_ EXCEPT ![s] = is_bound_[s]] /\ is_bound_[s] \in BOOLEAN
  BY SMTT(60), <1>a, <1>b DEF MembersTyped
<1>e. s \notin overwritten' => socket_io_handle_[s] = NoHandle /\ ~is_bound_[s]
  BY <1>a, <1>b, <1>c DEF MembersAgree, Open
<1>f. \A x \in Sockets \ {s} : x \in overwritten' <=> x \in overwritten
  BY <1>c
<1>1. ASSUME NEW g \in Families, f = g \/ f = "Unspecified",
             FreeHandles # {}, tpio # Handles,
             Loses({socket_[s]}, {socket_io_handle_[s]}, [native EXCEPT ![NewHandle] = Fresh(g)]),
             tpio' = tpio \cup {NewIo},
             socket_' = [socket_ EXCEPT ![s] = NewHandle],
             socket_io_handle_' = [socket_io_handle_ EXCEPT ![s] = NewIo],
             addr_family_' = [addr_family_ EXCEPT ![s] = f]
      PROVE  SInv'
  <2>1. NativeOk(Fresh(g)) /\ Fresh(g).state # "closed"
    BY FreshOk
  <2>2. HandlesTaken(s, NewHandle, NewIo, Fresh(g)) /\ NewHandle \in Handles /\ NewIo \in Handles
    BY ZenonT(60), <1>1, <1>a, <2>1, OpensNew
  <2>3. Describes(f, Fresh(g))
    BY <1>1 DEF Describes, Fresh, Closed
  <2>4. MembersSet(s, NewHandle, NewIo, Fresh(g), f, is_bound_[s])
    BY ZenonT(60), <1>1, <1>a, <1>b, <1>d, <1>e, <1>f, <2>2, <2>3 DEF MembersSet, AddressFamily, MembersTyped
  <2> QED
    BY <1>a, <2>2, <2>4, HandleStepInv
<1>2. ASSUME NEW p, NEW left, NEW ios,
             (p = NoHandle /\ ios = {socket_io_handle_[s]}) \/ (p = socket_io_handle_[s] /\ ios = {}),
             native' = [x \in Handles |-> IF x = socket_[s] THEN Closed ELSE native[x]],
             lost' = [sockets |-> lost.sockets \cup (left \cap Handles), ios |-> lost.ios \cup (ios \cap Handles)],
             \A x \in left \cap Handles : x = socket_[s] \/ native[x].state = "closed",
             socket_' = [socket_ EXCEPT ![s] = NoHandle],
             socket_io_handle_' = [socket_io_handle_ EXCEPT ![s] = p],
             UNCHANGED <<tpio, addr_family_>>
      PROVE  SInv'
  <2> DEFINE lostIos == lost.ios \cup (ios \cap Handles)
  <2>1. \/ p = NoHandle /\ lostIos = lost.ios \cup ({socket_io_handle_[s]} \cap Handles) /\ tpio' = tpio
        \/ p = socket_io_handle_[s] /\ lostIos = lost.ios /\ tpio' = tpio
    BY SMTT(60), <1>2
  <2>2. lost' = [sockets |-> lost.sockets \cup (left \cap Handles), ios |-> lostIos]
    BY <1>2
  <2> HIDE DEF lostIos
  <2>3. HandlesTaken(s, NoHandle, p, Closed)
    BY ZenonT(60), <1>2, <1>a, <2>1, <2>2, GivesUp
  <2>4. addr_family_' = [addr_family_ EXCEPT ![s] = addr_family_[s]] /\ addr_family_[s] \in AddressFamily
    BY <1>2, <1>b DEF MembersTyped
  <2>5. p = NoHandle \/ p = socket_io_handle_[s]
    BY <1>2
  <2>6. MembersSet(s, NoHandle, p, Closed, addr_family_[s], is_bound_[s])
    BY ZenonT(60), <1>a, <1>b, <1>d, <1>e, <1>f, <2>4, <2>5 DEF MembersSet, MembersTyped
  <2> QED
    BY <1>a, <2>3, <2>6, HandleStepInv
<1>3. ASSUME Refused(s), socket_' = [socket_ EXCEPT ![s] = NoHandle], UNCHANGED <<tpio, addr_family_>>
      PROVE  SInv'
  <2>1. PICK left \in LeftOpen(NewHandle) : Loses({socket_[s]} \cup left, {socket_io_handle_[s]}, native)
    BY <1>3 DEF Refused
  <2>2. FreeHandles # {} /\ socket_io_handle_' = [socket_io_handle_ EXCEPT ![s] = NoHandle]
    BY <1>3 DEF Refused
  <2> DEFINE gone == {socket_[s]} \cup left
             ios == {socket_io_handle_[s]}
  <2>3. /\ native' = [x \in Handles |-> IF x = socket_[s] THEN Closed ELSE native[x]]
        /\ lost' = [sockets |-> lost.sockets \cup (gone \cap Handles), ios |-> lost.ios \cup (ios \cap Handles)]
        /\ \A x \in gone \cap Handles : x = socket_[s] \/ native[x].state = "closed"
    BY ZenonT(60), <2>1, <2>2, LosesLeft
  <2>4. NoHandle = NoHandle /\ ios = {socket_io_handle_[s]}
    OBVIOUS
  <2> HIDE DEF gone, ios
  <2> QED
    BY ZenonT(60), <1>2, <1>3, <2>2, <2>3, <2>4
<1>4. ASSUME NEW gone,
             native' = [x \in Handles |-> IF x = socket_[s] THEN Closed ELSE native[x]],
             lost' = [sockets |-> lost.sockets \cup (gone \cap Handles), ios |-> lost.ios \cup ({} \cap Handles)],
             \A x \in gone \cap Handles : x = socket_[s] \/ native[x].state = "closed",
             socket_' = [socket_ EXCEPT ![s] = NoHandle],
             UNCHANGED <<tpio, socket_io_handle_, addr_family_>>
      PROVE  SInv'
  <2>1. socket_io_handle_' = [socket_io_handle_ EXCEPT ![s] = socket_io_handle_[s]]
    BY <1>4, <1>b DEF MembersTyped
  <2> QED
    BY ZenonT(60), <1>2, <1>4, <2>1
<1>5. ASSUME Loses({socket_[s]}, {}, native), socket_' = [socket_ EXCEPT ![s] = NoHandle],
             UNCHANGED <<tpio, socket_io_handle_, addr_family_>>
      PROVE  SInv'
  <2>1. /\ native' = [x \in Handles |-> IF x = socket_[s] THEN Closed ELSE native[x]]
        /\ lost' = [sockets |-> lost.sockets \cup ({socket_[s]} \cap Handles), ios |-> lost.ios \cup ({} \cap Handles)]
    BY <1>5 DEF Loses
  <2>2. \A x \in {socket_[s]} \cap Handles : x = socket_[s] \/ native[x].state = "closed"
    OBVIOUS
  <2> QED
    BY ZenonT(60), <1>4, <1>5, <2>1, <2>2
<1>6. ASSUME NEW left \in LeftOpen(NewHandle), FreeHandles # {}, Loses({socket_[s]} \cup left, {}, native),
             socket_' = [socket_ EXCEPT ![s] = NoHandle], UNCHANGED <<tpio, socket_io_handle_, addr_family_>>
      PROVE  SInv'
  <2> DEFINE gone == {socket_[s]} \cup left
  <2>1. /\ native' = [x \in Handles |-> IF x = socket_[s] THEN Closed ELSE native[x]]
        /\ lost' = [sockets |-> lost.sockets \cup (gone \cap Handles), ios |-> lost.ios \cup ({} \cap Handles)]
        /\ \A x \in gone \cap Handles : x = socket_[s] \/ native[x].state = "closed"
    BY ZenonT(60), <1>6, LosesLeft
  <2> HIDE DEF gone
  <2> QED
    BY ZenonT(60), <1>4, <1>6, <2>1
<1>7. CASE /\ FreeHandles # {} /\ tpio # Handles
           /\ \E g \in IF f = "Unspecified" THEN Families ELSE {f} :
                Loses({socket_[s]}, {socket_io_handle_[s]}, [native EXCEPT ![NewHandle] = Fresh(g)])
           /\ tpio' = tpio \cup {NewIo}
           /\ socket_' = [socket_ EXCEPT ![s] = NewHandle]
           /\ socket_io_handle_' = [socket_io_handle_ EXCEPT ![s] = NewIo]
           /\ addr_family_' = [addr_family_ EXCEPT ![s] = f]
  <2>1. PICK g \in IF f = "Unspecified" THEN Families ELSE {f} :
          Loses({socket_[s]}, {socket_io_handle_[s]}, [native EXCEPT ![NewHandle] = Fresh(g)])
    BY Zenon, <1>7
  <2>2. g \in Families /\ (f = g \/ f = "Unspecified")
    OBVIOUS
  <2> QED
    BY ZenonT(60), <1>1, <1>7, <2>1, <2>2
<1> QED
  BY ZenonT(60), <1>3, <1>5, <1>6, <1>7 DEF socket

(***************************************************************************)
(* close() keeps the invariant.                                            *)
(***************************************************************************)
LEMMA CloseInv ==
  ASSUME SInv, NEW s \in Sockets, close(s)
  PROVE  SInv'
<1>a. s \in obj /\ obj' = obj /\ UNCHANGED <<ep, text>> /\ overwritten' = overwritten \ {s} /\ ResetMembers(s)
  BY DEF close
<1>b. MembersTyped
  BY Typed
<1>1. PICK left \in LeftOpen(socket_[s]) :
        Loses(left, {}, [h \in Handles |-> IF h = socket_[s] THEN Closed ELSE native[h]])
  BY DEF close
<1>2. HandlesTaken(s, NoHandle, NoHandle, Closed)
  <2>1. left \subseteq {socket_[s]}
    BY DEF LeftOpen
  <2>2. native' = [x \in Handles |-> IF x = socket_[s] THEN Closed ELSE native[x]] /\ tpio' = tpio \ {socket_io_handle_[s]}
    BY <1>1, <2>1 DEF close, Loses
  <2>3. /\ socket_' = [socket_ EXCEPT ![s] = NoHandle]
        /\ socket_io_handle_' = [socket_io_handle_ EXCEPT ![s] = NoHandle]
    BY <1>a DEF ResetMembers
  <2>4. lost' = [sockets |-> lost.sockets \cup (left \cap Handles), ios |-> lost.ios]
    BY <1>1, <1>b DEF Loses, MembersTyped
  <2>5. \A x \in left \cap Handles : x = socket_[s] \/ native[x].state = "closed"
    BY <2>1
  <2> QED
    BY ZenonT(60), <1>a, <2>2, <2>3, <2>4, <2>5, GivesUp
<1>3. MembersSet(s, NoHandle, NoHandle, Closed, "NotSupported", FALSE)
  BY SMTT(60), <1>a, <1>b DEF MembersSet, ResetMembers, AddressFamily, MembersTyped
<1> QED
  BY ZenonT(60), <1>a, <1>2, <1>3, HandleStepInv

\* The native socket of a new connection
Accepted(f, addr, name) == [Fresh(f) EXCEPT !.state = "connected", !.peer = addr, !.name = name]

\* is as it should be, and has a name.
LEMMA AcceptedOk ==
  ASSUME NEW f \in Families, NEW addr \in Sockaddr(f), NEW name \in Sockaddr(f)
  PROVE  LET m == Accepted(f, addr, name)
         IN  NativeOk(m) /\ m.state = "connected" /\ m.family = f /\ m.name # NoAddr
<1> DEFINE m == Accepted(f, addr, name)
<1>1. /\ m.state = "connected" /\ m.family = f /\ m.name = name /\ m.peer = addr /\ m.given = NoEndpoint
      /\ DOMAIN m = {"state", "family", "name", "peer", "given"}
  BY DEF Fresh, Closed, Accepted
<1>2. name # NoAddr
  BY SMTT(60), SockaddrNotNone
<1>a. m.given.family # f
  BY <1>1 DEF NoEndpoint, Families
<1> HIDE DEF m
<1>3. NativeOk(m)
  BY <1>1, <1>2, <1>a DEF NativeOk, AddressFamily
<1> QED
  BY <1>1, <1>2, <1>3 DEF m

(***************************************************************************)
(* accept() keeps the invariant, wherever it fails.                        *)
(***************************************************************************)
LEMMA AcceptInv ==
  ASSUME SInv, NEW s \in Sockets, NEW a \in Sockets, accept(s, a)
  PROVE  SInv'
<1>a. s \in obj /\ a \in obj /\ Open(s) /\ obj' = obj /\ UNCHANGED <<ep, text>> /\ FreeHandles # {}
      /\ Native(s).state = "listening"
  BY ZenonT(60) DEF accept, Calls
<1>b. MembersTyped
  BY Typed
<1>1. ASSUME NEW io, AcceptGivesUp(a, io), io \in {NoHandle, socket_io_handle_[a]}
      PROVE  SInv'
  <2>1. PICK left \in LeftOpen(NewHandle) :
          Loses({socket_[a]} \cup left, {socket_io_handle_[a]} \ {io}, native)
    BY <1>1 DEF AcceptGivesUp
  <2> DEFINE gone == {socket_[a]} \cup left
             ios == {socket_io_handle_[a]} \ {io}
             lostIos == lost.ios \cup (ios \cap Handles)
  <2>a. Loses({socket_[a]} \cup left, ios, native)
    BY <2>1
  <2> HIDE DEF ios
  <2>2. /\ native' = [x \in Handles |-> IF x = socket_[a] THEN Closed ELSE native[x]]
        /\ lost' = [sockets |-> lost.sockets \cup (gone \cap Handles), ios |-> lostIos]
        /\ \A x \in gone \cap Handles : x = socket_[a] \/ native[x].state = "closed"
    BY ZenonT(60), <1>a, <2>a, LosesLeft
  <2>3. \/ lostIos = lost.ios /\ tpio' = tpio \ {socket_io_handle_[a]}
        \/ lostIos = lost.ios \cup ({socket_io_handle_[a]} \cap Handles) /\ tpio' = tpio
    BY <1>1, <1>b DEF AcceptGivesUp, MembersTyped, ios
  <2>4. /\ socket_' = [socket_ EXCEPT ![a] = NoHandle]
        /\ socket_io_handle_' = [socket_io_handle_ EXCEPT ![a] = NoHandle]
    BY <1>1 DEF AcceptGivesUp, ResetMembers
  <2> HIDE DEF gone, lostIos
  <2>5. HandlesTaken(a, NoHandle, NoHandle, Closed)
    BY ZenonT(60), <1>a, <2>2, <2>3, <2>4, GivesUp
  <2>6. MembersSet(a, NoHandle, NoHandle, Closed, "NotSupported", FALSE)
    BY <1>a, <1>b, <1>1 DEF MembersSet, AcceptGivesUp, ResetMembers, AddressFamily, MembersTyped
  <2> QED
    BY ZenonT(60), <1>a, <2>5, <2>6, HandleStepInv
<1>2. ASSUME NEW addr \in Peers, addr.family = Native(s).family, tpio # Handles,
             AcceptSucceeds(a, [Fresh(addr.family) EXCEPT !.state = "connected", !.peer = addr,
                                                          !.name = Native(s).name])
      PROVE  SInv'
  <2> DEFINE f == addr.family
             m == Accepted(f, addr, Native(s).name)
  <2>1. f \in Families /\ Native(s).name \in Sockaddr(f)
    BY <1>a, <1>2, OpenOwned DEF NativeOk
  <2>2. addr \in Sockaddr(f)
    BY SMTT(60), <1>2, SyncAssumption DEF Sockaddr
  <2>3. NativeOk(m) /\ m.state = "connected" /\ m.family = f /\ m.name # NoAddr
    BY <2>1, <2>2, AcceptedOk
  <2>4. AcceptSucceeds(a, m)
    BY <1>2 DEF Accepted
  <2> HIDE DEF m, f
  <2>5. /\ Loses({socket_[a]}, {socket_io_handle_[a]}, [native EXCEPT ![NewHandle] = m])
        /\ tpio' = tpio \cup {NewIo}
        /\ socket_' = [socket_ EXCEPT ![a] = NewHandle]
        /\ socket_io_handle_' = [socket_io_handle_ EXCEPT ![a] = NewIo]
    BY <2>4 DEF AcceptSucceeds
  <2>6. HandlesTaken(a, NewHandle, NewIo, m) /\ NewHandle \in Handles /\ NewIo \in Handles
    BY ZenonT(60), <1>2, <1>a, <2>3, <2>5, OpensNew
  <2>7. addr_family_' = [addr_family_ EXCEPT ![a] = f] /\ is_bound_' = [is_bound_ EXCEPT ![a] = TRUE]
    BY <2>3, <2>4 DEF AcceptSucceeds
  <2>8. \A x \in Sockets \ {a} : x \in overwritten' <=> x \in overwritten
    BY SMTT(60), <2>4 DEF AcceptSucceeds, Overwrites
  <2>9. MembersSet(a, NewHandle, NewIo, m, f, TRUE)
    BY <1>a, <1>b, <2>1, <2>3, <2>6, <2>7, <2>8 DEF MembersSet, Describes, AddressFamily, MembersTyped
  <2> QED
    BY ZenonT(60), <1>a, <2>6, <2>9, HandleStepInv
<1>3. CASE AcceptFails
  <2>1. PICK left \in LeftOpen(NewHandle) : Loses(left, {}, native)
    BY <1>3 DEF AcceptFails
  <2>2. UNCHANGED <<socket_, socket_io_handle_, addr_family_, is_bound_, tpio, overwritten>>
    BY <1>3 DEF AcceptFails, memberVars
  <2>3. /\ NewHandle \in Handles /\ native[NewHandle].state = "closed" /\ left \subseteq {NewHandle}
        /\ native[NewHandle] = Closed
    BY <1>a, NewHandleFree DEF LeftOpen, SInv, DataInv, NativeOk
  <2>4. native' = native
    BY <2>1, <2>3 DEF Loses, SInv, DataInv
  <2>5. lost' = [sockets |-> lost.sockets \cup left, ios |-> lost.ios]
    BY <1>b, <2>1, <2>3 DEF Loses, MembersTyped
  <2>6. \A x \in obj : socket_[x] \notin left
    BY SMTT(60), <2>3 DEF SInv, OwnerInv
  <2>7. MemberType' /\ HandleType'
    BY SMTT(60), <1>a, <1>b, <2>2, <2>3, <2>5 DEF SInv, MemberType, HandleType, MembersTyped
  <2>8. DataInv' /\ MembersAgree'
    BY ZenonT(60), <1>a, <2>2, <2>4 DEF SInv, DataInv, MembersAgree, Open, Native, EndpointOk
  <2>9. OwnerInv'
    BY SMTT(60), <1>a, <2>2, <2>4, <2>5, <2>6 DEF SInv, OwnerInv
  <2> QED
    BY SMTT(60), <2>7, <2>8, <2>9 DEF SInv
<1> QED
  BY ZenonT(60), <1>1, <1>2, <1>3 DEF accept

(***************************************************************************)
(* The constructor and the destructor keep the invariant.                  *)
(***************************************************************************)
LEMMA ObjectInv ==
  ASSUME SInv, NEW s \in Sockets, WinSocket(s) \/ Destroy(s)
  PROVE  SInv'
<1>a. MembersTyped /\ OwnerInv /\ MembersAgree /\ DataInv
  BY SMTT(60), Typed DEF SInv
<1>b. ResetMembers(s) /\ UNCHANGED <<ep, text>> /\ obj' \in {obj \cup {s}, obj \ {s}}
  BY DEF WinSocket, Destroy
<1>c. MemberType'
  BY <1>a, <1>b DEF MemberType, ResetMembers, MembersTyped, AddressFamily
<1>d. /\ socket_'[s] = NoHandle /\ socket_io_handle_'[s] = NoHandle /\ is_bound_'[s] = FALSE
      /\ \A x \in Sockets \ {s} : /\ socket_'[x] = socket_[x] /\ socket_io_handle_'[x] = socket_io_handle_[x]
                                  /\ addr_family_'[x] = addr_family_[x] /\ is_bound_'[x] = is_bound_[x]
  BY <1>a, <1>b DEF ResetMembers, MembersTyped
<1>1. CASE WinSocket(s)
  <2>1. s \notin obj /\ obj' = obj \cup {s} /\ UNCHANGED <<native, tpio, lost, overwritten>>
    BY <1>1 DEF WinSocket, historyVars
  <2>2. HandleType' /\ DataInv'
    BY SMTT(60), <1>b, <2>1 DEF SInv, HandleType, DataInv, EndpointOk
  <2>3. OwnerInv'
    BY SMTT(60), <1>a, <1>d, <2>1 DEF OwnerInv, MembersTyped
  <2>4. MembersAgree'
    BY SMTT(60), <1>a, <1>d, <2>1 DEF MembersAgree, Open, Native, MembersTyped
  <2> QED
    BY <1>c, <2>2, <2>3, <2>4 DEF SInv
<1>2. CASE Destroy(s)
  <2>1. /\ s \in obj /\ obj' = obj \ {s} /\ tpio' = tpio \ {socket_io_handle_[s]}
        /\ lost' = [sockets |-> lost.sockets \cup ({socket_[s]} \cap Handles), ios |-> lost.ios \cup ({} \cap Handles)]
        /\ native' = [h \in Handles |-> IF h = socket_[s] THEN Closed ELSE native[h]]
        /\ overwritten' = overwritten \ {s}
    BY <1>2 DEF Destroy, Calls, Loses
  <2>2. lost'.ios = lost.ios /\ lost'.sockets = lost.sockets \cup ({socket_[s]} \cap Handles) /\ HandleType'
    BY SMTT(60), <1>a, <2>1 DEF HandleType, MembersTyped
  <2>3. DataInv'
    BY SMTT(60), <1>a, <1>b, <2>1, FreshOk DEF DataInv, EndpointOk
  <2>4. \A x \in obj' : x \in obj /\ x \in Sockets /\ x # s /\ socket_'[x] = socket_[x] /\ socket_io_handle_'[x] = socket_io_handle_[x]
    BY SMTT(60), <1>a, <1>d, <2>1 DEF MembersTyped
  <2>5. OwnerInv'
    <3>1. \A h \in Handles : native'[h].state # "closed" <=> \E x \in obj' : socket_'[x] = h
      BY SMTT(60), <1>a, <2>1, <2>4, FreshOk DEF OwnerInv, MembersTyped
    <3>2. \A p \in Handles : p \in tpio' <=> p \in lost'.ios \/ \E x \in obj' : socket_io_handle_'[x] = p
      BY SMTT(60), <1>a, <2>1, <2>2, <2>4 DEF OwnerInv, MembersTyped
    <3>3. \A x \in obj' : socket_'[x] \notin lost'.sockets /\ socket_io_handle_'[x] \notin lost'.ios
      BY SMTT(60), <1>a, <2>1, <2>2, <2>4 DEF OwnerInv, MembersTyped
    <3>4. \A x, y \in obj' :
            x # y => /\ socket_'[x] # NoHandle => socket_'[x] # socket_'[y]
                     /\ socket_io_handle_'[x] # NoHandle => socket_io_handle_'[x] # socket_io_handle_'[y]
      BY SMTT(60), <1>a, <2>4 DEF OwnerInv
    <3> QED
      BY SMTT(60), <3>1, <3>2, <3>3, <3>4 DEF OwnerInv
  <2>6. MembersAgree'
    <3> SUFFICES ASSUME NEW x \in obj'
                 PROVE  /\ socket_'[x] # NoHandle => Describes(addr_family_'[x], native'[socket_'[x]])
                        /\ x \notin overwritten' =>
                             /\ socket_'[x] # NoHandle <=> socket_io_handle_'[x] # NoHandle
                             /\ is_bound_'[x] => socket_'[x] # NoHandle /\ native'[socket_'[x]].name # NoAddr
      BY SMTT(60) DEF MembersAgree, Open, Native
    <3>1. socket_[x] # NoHandle => native'[socket_[x]] = native[socket_[x]]
      BY SMTT(60), <1>a, <2>1, <2>4 DEF OwnerInv, MembersTyped
    <3>2. x \in obj /\ socket_'[x] = socket_[x] /\ socket_io_handle_'[x] = socket_io_handle_[x]
          /\ addr_family_'[x] = addr_family_[x] /\ is_bound_'[x] = is_bound_[x]
          /\ (x \notin overwritten' => x \notin overwritten)
      BY SMTT(60), <1>d, <2>1, <2>4
    <3>3. /\ socket_[x] # NoHandle => Describes(addr_family_[x], native[socket_[x]])
          /\ x \notin overwritten =>
               /\ socket_[x] # NoHandle <=> socket_io_handle_[x] # NoHandle
               /\ is_bound_[x] => socket_[x] # NoHandle /\ native[socket_[x]].name # NoAddr
      BY ZenonT(60), <1>a, <3>2 DEF MembersAgree, Open, Native
    <3> QED
      BY ONLY SMTT(60), <3>1, <3>2, <3>3
  <2> QED
    BY SMTT(60), <1>c, <2>2, <2>3, <2>5, <2>6 DEF SInv
<1> QED
  BY <1>1, <1>2

(***************************************************************************)
(* A call changes what Winsock knows of the native socket of s, which then *)
(* has a name: bind, listen, connect and send_to.                          *)
(***************************************************************************)
LEMMA NativeStep ==
  ASSUME SInv, NEW s \in obj, Open(s), addr_family_[s] = Native(s).family, NEW m,
         NativeOk(m), m.state # "closed", m.family = Native(s).family, m.name # NoAddr,
         native' = [native EXCEPT ![socket_[s]] = m],
         is_bound_' = is_bound_ \/ is_bound_' = [is_bound_ EXCEPT ![s] = TRUE],
         UNCHANGED <<obj, socket_, socket_io_handle_, addr_family_, tpio, lost, overwritten, ep, text>>
  PROVE  SInv'
<1>a. MembersTyped /\ OwnerInv /\ MembersAgree /\ DataInv
  BY SMTT(60), Typed DEF SInv
<1>b. s \in Sockets /\ socket_[s] \in Handles /\ Native(s).state # "closed"
  BY OpenOwned
<1>c. native' = [h \in Handles |-> IF h = socket_[s] THEN m ELSE native[h]]
  BY ZenonT(60), <1>a, <1>b DEF MembersTyped
<1>1. MemberType'
  BY ZenonT(60), <1>a DEF SInv, MemberType, MembersTyped
<1>2. HandleType'
  BY DEF SInv, HandleType
<1>3. DataInv'
  BY ZenonT(60), <1>a, <1>c DEF DataInv, EndpointOk
<1>4. OwnerInv'
  <2>1. \A h \in Handles : native'[h].state # "closed" <=> native[h].state # "closed"
    BY SMTT(60), <1>b, <1>c DEF Native
  <2>2. \A h \in Handles : native[h].state # "closed" <=> \E x \in obj : socket_[x] = h
    BY ZenonT(60), <1>a DEF OwnerInv
  <2>3. \A h \in Handles : native'[h].state # "closed" <=> \E x \in obj : socket_[x] = h
    BY ONLY ZenonT(60), <2>1, <2>2
  <2> QED
    BY ZenonT(60), <1>a, <2>3 DEF OwnerInv
<1>5. MembersAgree'
  <2> SUFFICES ASSUME NEW x \in obj
               PROVE  /\ socket_[x] # NoHandle => Describes(addr_family_[x], native'[socket_[x]])
                      /\ x \notin overwritten =>
                           /\ socket_[x] # NoHandle <=> socket_io_handle_[x] # NoHandle
                           /\ is_bound_'[x] => socket_[x] # NoHandle /\ native'[socket_[x]].name # NoAddr
    BY SMTT(60) DEF MembersAgree, Open, Native
  <2>1. CASE x = s
    <3>1. native'[socket_[s]] = m
      BY ONLY SMTT(60), <1>b, <1>c
    <3>2. Describes(addr_family_[s], m)
      BY DEF Describes
    <3> QED
      BY SMTT(60), <1>a, <2>1, <3>1, <3>2 DEF MembersAgree, Open, Native
  <2>2. CASE x # s
    <3>1. socket_[x] # NoHandle => native'[socket_[x]] = native[socket_[x]]
      BY SMTT(60), <1>a, <1>b, <1>c, <2>2 DEF OwnerInv, MembersTyped
    <3>2. is_bound_'[x] = is_bound_[x]
      BY SMTT(60), <1>a, <2>2 DEF MembersTyped
    <3> QED
      BY SMTT(60), <1>a, <3>1, <3>2 DEF MembersAgree, Open, Native
  <2> QED
    BY ZenonT(60), <2>1, <2>2
<1> QED
  BY ZenonT(60), <1>1, <1>2, <1>3, <1>4, <1>5 DEF SInv

\* What is converted for the socket is a SOCKADDR of its family.
LEMMA PassedAddr ==
  ASSUME SInv, NEW s \in Sockets, Passes(s), NEW to \in Converted(s), to.err = "Success"
  PROVE  /\ s \in obj /\ Open(s) /\ addr_family_[s] = Native(s).family
         /\ Conveys(Native(s).family, ep, to.addr)
<1>1. s \in obj /\ Open(s)
  BY SMTT(60) DEF Passes, Calls
<1>2. PICK stale \in [Cells -> Stale] : to = endpoint_to_sockaddr(addr_family_[s], Settled(ep.cells, stale))
  BY DEF Converted
<1> DEFINE f == addr_family_[s]
           e == Settled(ep.cells, stale)
           a == Member(f, e)
<1>3. f \in Families
  BY <1>2 DEF endpoint_to_sockaddr
<1>4. f = Native(s).family
  BY <1>1, <1>3, OpenOwned DEF Describes, Families
<1>5. a \in Address(f)
  BY <1>3, SettledAddress DEF SInv, DataInv, EndpointOk
<1>6. to.addr = SockaddrOf(f, a)
  BY <1>2, <1>3 DEF endpoint_to_sockaddr, SockaddrOf
<1>7. ASSUME ep.family = f
      PROVE  \E b \in Address(f) : ep.cells = Endpoint(f, b) /\ to.addr = SockaddrOf(f, b)
  <2>1. PICK b \in Address(f) : ep.cells = Endpoint(f, b)
    BY <1>3, <1>7 DEF SInv, DataInv, EndpointOk
  <2>2. a = b
    BY <1>3, <2>1, SettledFilled
  <2> QED
    BY <1>6, <2>1, <2>2
<1> HIDE DEF f, a
<1>8. to.addr \in Sockaddr(f)
  BY <1>3, <1>5, <1>6, NamedType
<1>9. Conveys(f, ep, to.addr)
  BY <1>7, <1>8 DEF Conveys
<1> QED
  BY <1>1, <1>4, <1>9 DEF f

(***************************************************************************)
(* bind() keeps the invariant.                                             *)
(***************************************************************************)
LEMMA BindInv == ASSUME SInv, NEW s \in Sockets, bind(s) PROVE SInv'
<1> DEFINE n == Native(s)
<1>1. PICK to \in Converted(s) :
        /\ Passes(s) /\ to.err = "Success"
        /\ BecomesBound(s, [n EXCEPT !.name = Named(to.addr), !.given = ep])
  BY DEF bind
<1>2. s \in obj /\ Open(s) /\ addr_family_[s] = n.family /\ Conveys(n.family, ep, to.addr)
  BY <1>1, PassedAddr
<1>3. NativeOk(n) /\ n.state # "closed" /\ n.family \in Families
  BY <1>2, OpenOwned
<1> DEFINE m == [n EXCEPT !.name = Named(to.addr), !.given = ep]
<1>4. BecomesBound(s, m)
  BY <1>1
<1> HIDE DEF n
<1>5. NativeOk(m) /\ m.state = n.state /\ m.family = n.family /\ m.name # NoAddr
  BY ZenonT(60), <1>2, <1>3, BoundOk
<1> HIDE DEF m
<1>6. NativeOk(m) /\ m.state # "closed" /\ m.family = Native(s).family /\ m.name # NoAddr
      /\ addr_family_[s] = Native(s).family
  BY <1>2, <1>3, <1>5 DEF n
<1> QED
  BY ZenonT(60), <1>2, <1>4, <1>6, NativeStep DEF BecomesBound, historyVars

\* listen() changes the state of a named native socket.
LEMMA ListenInv == ASSUME SInv, NEW s \in Sockets, listen(s) PROVE SInv'
<1> DEFINE n == Native(s)
           m == [n EXCEPT !.state = "listening"]
<1>1. s \in obj /\ Open(s) /\ n.state = "open" /\ n.name # NoAddr
  BY SMTT(60) DEF listen, Calls
<1>2. NativeOk(n) /\ socket_[s] \in Handles
  BY <1>1, OpenOwned
<1>3. native' = [native EXCEPT ![socket_[s]] = m]
  BY DEF listen, Native
<1> HIDE DEF n
<1>4. NativeOk(m) /\ m.state # "closed" /\ m.family = n.family /\ m.name # NoAddr
  BY <1>1, <1>2, ListeningOk
<1> HIDE DEF m
<1>5. m.family = Native(s).family /\ addr_family_[s] = Native(s).family
  BY <1>1, <1>4, OpenOwned DEF n, Describes
<1> QED
  BY ZenonT(60), <1>1, <1>3, <1>4, <1>5, NativeStep DEF listen, memberVars, historyVars

(***************************************************************************)
(* connect() and send_to() keep the invariant: the family that endpoints   *)
(* are converted for is that of the native socket.                         *)
(***************************************************************************)
LEMMA ConnectInv == ASSUME SInv, NEW s \in Sockets, connect(s) \/ send_to(s) PROVE SInv'
<1> DEFINE n == Native(s)
           name == IF n.name = NoAddr THEN AnyName(n.family) ELSE n.name
           joined(to) == [n EXCEPT !.state = "connected", !.peer = to.addr, !.name = name]
<1>1. PICK to \in Converted(s) :
        /\ Passes(s) /\ n.state = "open" /\ to.err = "Success"
        /\ BecomesBound(s, joined(to)) \/ BecomesBound(s, [n EXCEPT !.name = name])
  BY DEF connect, send_to
<1>2. s \in obj /\ Open(s) /\ addr_family_[s] = Native(s).family /\ to.addr \in Sockaddr(n.family)
  BY <1>1, PassedAddr DEF Conveys
<1>3. NativeOk(n) /\ n.family \in Families
  BY ZenonT(60), <1>2, OpenOwned
<1>4. ASSUME NEW m, BecomesBound(s, m), DOMAIN m = {"state", "family", "name", "peer", "given"},
             m.state \in {"open", "connected"}, m.family = n.family, m.given = n.given, m.name = name,
             m.peer = NoAddr \/ m.peer \in Sockaddr(n.family)
      PROVE  SInv'
  <2> HIDE DEF n
  <2>1. NativeOk(m) /\ m.name # NoAddr
    BY ZenonT(60), <1>1, <1>3, <1>4, GetsName
  <2>2. m.state # "closed" /\ m.family = Native(s).family
    BY ZenonT(60), <2>1, <1>4 DEF n
  <2> QED
    BY ZenonT(60), <1>2, <1>4, <2>1, <2>2, NativeStep DEF BecomesBound, historyVars
<1>a. DOMAIN n = {"state", "family", "name", "peer", "given"} /\ (n.peer = NoAddr \/ n.peer \in Sockaddr(n.family))
  BY ZenonT(60), <1>3 DEF NativeOk
<1>5. CASE BecomesBound(s, joined(to))
  <2> DEFINE m == joined(to)
  <2>1. BecomesBound(s, m)
    BY <1>5
  <2> HIDE DEF n, name
  <2>2. /\ m.state = "connected" /\ m.family = n.family /\ m.peer = to.addr /\ m.given = n.given /\ m.name = name
        /\ DOMAIN m = {"state", "family", "name", "peer", "given"}
    BY SMTT(60), <1>a
  <2> HIDE DEF m
  <2> QED
    BY <1>2, <1>4, <2>1, <2>2
<1>6. CASE BecomesBound(s, [n EXCEPT !.name = name])
  <2> DEFINE m == [n EXCEPT !.name = name]
  <2>1. BecomesBound(s, m)
    BY <1>6
  <2> HIDE DEF n, name
  <2>2. /\ m.state = n.state /\ m.family = n.family /\ m.peer = n.peer /\ m.given = n.given /\ m.name = name
        /\ DOMAIN m = {"state", "family", "name", "peer", "given"}
    BY <1>a
  <2> HIDE DEF m
  <2> QED
    BY <1>a, <1>1, <1>4, <2>1, <2>2
<1> QED
  BY <1>1, <1>5, <1>6

(***************************************************************************)
(* Only the endpoint and the text change.                                  *)
(***************************************************************************)
LEMMA DataStep ==
  ASSUME SInv, EndpointOk(ep'), text' \in TextType,
         UNCHANGED <<obj, memberVars, native, tpio, historyVars>>
  PROVE  SInv'
<1>1. UNCHANGED <<obj, socket_, socket_io_handle_, addr_family_, is_bound_, native, tpio, lost, overwritten>>
  BY DEF memberVars, historyVars
<1>2. MemberType' /\ HandleType'
  BY SMTT(60), <1>1 DEF SInv, MemberType, HandleType
<1>3. DataInv'
  BY SMTT(60), <1>1 DEF SInv, DataInv, EndpointOk
<1>4. OwnerInv' /\ MembersAgree'
  BY ZenonT(60), <1>1 DEF SInv, OwnerInv, MembersAgree, Open, Native
<1> QED
  BY <1>2, <1>3, <1>4 DEF SInv

(***************************************************************************)
(* recv_from, get_sock_name and get_peer_name fill the endpoint with the   *)
(* address of a SOCKADDR.                                                  *)
(***************************************************************************)
LEMMA FillInv ==
  ASSUME SInv, NEW s \in Sockets, recv_from(s) \/ get_sock_name(s) \/ get_peer_name(s)
  PROVE  SInv'
<1>1. s \in obj /\ Open(s)
  BY SMTT(60) DEF recv_from, get_sock_name, get_peer_name, Calls
<1>2. NativeOk(Native(s)) /\ Native(s).family \in Families
  BY SMTT(60), <1>1, OpenOwned
<1>3. ASSUME NEW f \in Families, NEW addr \in Sockaddr(f), Fill(s, addr)
      PROVE  SInv'
  <2>1. addr = [family |-> f, port |-> addr.port, bytes |-> addr.bytes] /\ addr.family = f
        /\ addr.port \in Port /\ addr.bytes \in Bytes(f)
    BY SMTT(60), SockaddrNotNone
  <2> DEFINE a == [port |-> htons(addr.port), bytes |-> addr.bytes]
  <2>2. sockaddr_to_endpoint(addr, ep.cells) = [err |-> "Success", endpoint |-> Endpoint(f, a)] /\ a \in Address(f)
    BY SMTT(60), <2>1, FromSockaddr
  <2>3. ep' = [cells |-> sockaddr_to_endpoint(addr, ep.cells).endpoint, family |-> f]
    BY SMTT(60), <1>3, <2>1 DEF Fill
  <2> HIDE DEF a
  <2>4. ep'.cells = Endpoint(f, a) /\ ep'.family = f
    BY <2>2, <2>3
  <2>5. EndpointOk(ep')
    BY SMTT(60), <2>2, <2>4, EndpointCells DEF EndpointOk, AddressFamily
  <2> QED
    BY SMTT(60), <1>3, <2>5, DataStep DEF Fill, SInv, DataInv
<1>4. CASE recv_from(s)
  <2>1. PICK addr \in Peers : addr.family = Native(s).family /\ Fill(s, addr)
    BY SMTT(60), <1>4 DEF recv_from
  <2>2. addr \in Sockaddr(Native(s).family)
    BY <2>1, SyncAssumption DEF Sockaddr
  <2> QED
    BY SMTT(60), <1>2, <1>3, <2>1, <2>2
<1>5. CASE get_sock_name(s)
  <2>1. Native(s).name \in Sockaddr(Native(s).family) /\ Fill(s, Native(s).name)
    BY ZenonT(60), <1>2, <1>5 DEF get_sock_name, NativeOk
  <2> QED
    BY <1>2, <1>3, <2>1
<1>6. CASE get_peer_name(s)
  <2>1. Native(s).peer \in Sockaddr(Native(s).family) /\ Fill(s, Native(s).peer)
    BY ZenonT(60), <1>2, <1>6 DEF get_peer_name, NativeOk
  <2> QED
    BY <1>2, <1>3, <2>1
<1> QED
  BY <1>4, <1>5, <1>6

\* What inet_pton accepts is an address, whatever number stood for the port.
LEMMA ParsedAddress ==
  ASSUME NEW f \in Families, NEW t \in TextType, NEW e, inet_pton(f, t, e).err = "Success"
  PROVE  \E a \in Address(f) : inet_pton(f, t, e).endpoint = Endpoint(f, a)
<1> DEFINE a == [bytes |-> t.host.bytes, port |-> IF SplitsPort(f, t) THEN PortOf(t) ELSE 0]
<1>1. inet_pton(f, t, e) = [err |-> "Success", endpoint |-> Endpoint(f, a)] /\ HostParses(f, t)
  <2> DEFINE throws == SplitsPort(f, t) /\ t.port.shape # "number"
  <2>1. ~ throws
    <3>1. throws => inet_pton(f, t, e) = [err |-> "throws", endpoint |-> e]
      BY ONLY Zenon, f \in Families DEF inet_pton
    <3> HIDE DEF throws
    <3> QED
      BY ONLY SMT, <3>1, inet_pton(f, t, e).err = "Success"
  <2>2. HostParses(f, t)
    <3>1. ~ HostParses(f, t) => inet_pton(f, t, e) = [err |-> "SystemError", endpoint |-> e]
      BY ONLY Zenon, f \in Families, <2>1 DEF inet_pton
    <3> QED
      BY ONLY SMT, <3>1, inet_pton(f, t, e).err = "Success"
  <2> QED
    BY ONLY Zenon, f \in Families, <2>1, <2>2 DEF inet_pton
<1>2. t.host.bytes \in Bytes(f)
  BY <1>1 DEF HostParses, TextType, Families
<1>3. t.port.value \in Int
  BY ZenonT(60) DEF TextType, PortText
<1>4. PortOf(t) \in Port
  <2> DEFINE v == t.port.value
  <2>1. v \in Int
    BY <1>3
  <2> HIDE DEF v
  <2>2. (v % (256 * 256)) \in Int /\ (v % (256 * 256)) >= 0 /\ (v % (256 * 256)) < 256 * 256
    BY <2>1
  <2> QED
    BY <2>2 DEF PortOf, Port, v
<1>5. 0 \in Port
  BY DEF Port
<1>6. a \in Address(f)
  BY <1>2, <1>4, <1>5 DEF Address
<1> QED
  BY SMTT(60), <1>1, <1>6

(***************************************************************************)
(* Reading and parsing a text keep the invariant.                          *)
(***************************************************************************)
LEMMA TextInv ==
  ASSUME SInv, (\E t \in Texts : ReadText(t)) \/ (\E f \in Families : Parse(f))
  PROVE  SInv'
<1>a. EndpointOk(ep) /\ text \in TextType
  BY DEF SInv, DataInv
<1>1. ASSUME NEW t \in Texts, ReadText(t) PROVE SInv'
  <2>1. t \in TextType
    BY SyncAssumption
  <2>2. EndpointOk(ep') /\ text' \in TextType
    BY SMTT(60), <1>1, <1>a, <2>1 DEF ReadText, EndpointOk
  <2> QED
    BY <1>1, <2>2, DataStep DEF ReadText
<1>2. ASSUME NEW f \in Families, Parse(f) PROVE SInv'
  <2> DEFINE r == inet_pton(f, text, ep.cells)
  <2>1. text' = NoText /\ ep' = IF r.err = "Success" THEN [cells |-> r.endpoint, family |-> f] ELSE ep
    BY <1>2 DEF Parse
  <2>2. NoText \in TextType
    BY SMTT(60), NoTextType
  <2>3. r.err = "Success" => \E a \in Address(f) : r.endpoint = Endpoint(f, a)
    BY SMTT(60), <1>a, ParsedAddress
  <2> HIDE DEF r
  <2>4. EndpointOk(ep')
    BY SMTT(60), <1>a, <2>1, <2>3, EndpointCells DEF EndpointOk, AddressFamily
  <2> QED
    BY SMTT(60), <1>2, <2>1, <2>2, <2>4, DataStep DEF Parse
<1> QED
  BY <1>1, <1>2

--------------------------------------------------------------------------------
(* The results *)

\* Before any socket exists
LEMMA InitSInv == Init => SInv
<1> SUFFICES ASSUME Init PROVE SInv
    BY SMTT(60)
<1>1. MemberType /\ HandleType
  BY SMTT(60) DEF Init, MemberType, HandleType, NothingLost, AddressFamily
<1>2. EndpointOk(ep)
  BY DEF Init, EndpointOk, AddressFamily, Families, NoEndpoint, EmptyEndpoint, CellType
<1>3. NoText \in TextType
  BY SMTT(60), NoTextType
<1>4. DataInv
  BY SMTT(60), <1>2, <1>3, FreshOk DEF Init, DataInv
<1>5. OwnerInv /\ MembersAgree
  BY SMTT(60), FreshOk DEF Init, OwnerInv, MembersAgree, NothingLost
<1> QED
  BY <1>1, <1>4, <1>5 DEF SInv

\* Every call, failing or not, every step of disconnect() and of its environment
LEMMA StepSInv == SInv /\ [Next]_vars => SInv'
<1> SUFFICES ASSUME SInv, [Next]_vars PROVE SInv'
    BY SMTT(60)
<1>1. ASSUME UNCHANGED syncVars PROVE SInv'
  BY <1>1, DataStep DEF syncVars, SInv, DataInv, EndpointOk
<1>2. ASSUME NEW s \in Sockets,
             WinSocket(s) \/ close(s) \/ Destroy(s) \/ bind(s) \/ listen(s) \/ connect(s) \/ send_to(s)
               \/ recv_from(s) \/ get_sock_name(s) \/ get_peer_name(s)
      PROVE  SInv'
  BY <1>2, ObjectInv, CloseInv, BindInv, ListenInv, ConnectInv, FillInv
<1>3. ASSUME NEW s \in Sockets, Disconnects(s) PROVE SInv'
  BY <1>1, <1>3 DEF Disconnects
<1>4. ASSUME NEW s \in Sockets, NEW f \in Families \cup {"Unspecified"}, socket(s, f) PROVE SInv'
  BY <1>4, SocketInv
<1>5. ASSUME NEW s \in Sockets, NEW a \in Sockets, accept(s, a) PROVE SInv'
  BY SMTT(60), <1>5, AcceptInv
<1>6. CASE DropCore
  BY <1>6, DataStep DEF DropCore, SInv, DataInv, EndpointOk
<1>7. CASE (\E t \in Texts : ReadText(t)) \/ (\E f \in Families : Parse(f))
  BY <1>7, TextInv
<1>8. CASE Loop \/ TimePasses \/ Environment
  BY <1>1, <1>8 DEF Loop, TimePasses, Environment
<1>9. CASE UNCHANGED vars
  BY <1>1, <1>9 DEF vars
<1> QED
  BY <1>2, <1>3, <1>4, <1>5, <1>6, <1>7, <1>8, <1>9 DEF Next

\* The invariant holds whatever the program calls.
LEMMA SocketInvariance == Spec => []SInv
BY InitSInv, StepSInv, PTL DEF Spec

(***************************************************************************)
(* No sequence of calls and failures of socket(), accept(), close(), the   *)
(* constructor and the destructor loses or shares a native socket or a     *)
(* PTP_IO behind the program's back.                                       *)
(***************************************************************************)
THEOREM AccountedTheorem == Spec => []Accounted
<1>1. SInv => Accounted
  <2> SUFFICES ASSUME SInv PROVE Accounted
      OBVIOUS
  <2>1. MembersTyped /\ OwnerInv
    BY SMTT(60), Typed DEF SInv
  <2>2. \A h \in Handles : native[h].state # "closed" <=> h \in OwnedSockets
    BY <2>1, SMTT(60) DEF OwnerInv, OwnedSockets
  <2>3. \A p \in Handles : p \in tpio <=> p \in lost.ios \/ p \in OwnedIos
    BY SMTT(60), <2>1 DEF OwnerInv, OwnedIos
  <2>4. OwnedSockets \subseteq Handles /\ OwnedIos \subseteq Handles
    BY SMTT(60) DEF OwnedSockets, OwnedIos
  <2>5. OwnedSockets \cap lost.sockets = {} /\ OwnedIos \cap lost.ios = {}
    BY SMTT(60), <2>1 DEF OwnerInv, OwnedSockets, OwnedIos
  <2>6. {h \in Handles : native[h].state # "closed"} = OwnedSockets
    BY <2>2, <2>4
  <2>7. tpio = OwnedIos \cup lost.ios
    BY <2>1, <2>3, <2>4 DEF MembersTyped
  <2> QED
    BY <2>1, <2>5, <2>6, <2>7 DEF Accounted, OwnerInv, Open
<1> QED
  BY <1>1, SocketInvariance, PTL

(***************************************************************************)
(* The members of a WinSocket describe its native socket.                  *)
(***************************************************************************)
THEOREM MembersTheorem == Spec => []MembersAgree
<1>1. SInv => MembersAgree
  BY SMTT(60) DEF SInv
<1> QED
  BY <1>1, SocketInvariance, PTL

(***************************************************************************)
(* bind() hands Winsock an address of the family of the socket, and the    *)
(* address and port the program asked for if its endpoint was filled for   *)
(* that family.                                                            *)
(***************************************************************************)
THEOREM NameTheorem == Spec => []NameFaithful
<1>0. ASSUME SInv, NEW h \in Handles, native[h].name # NoAddr
      PROVE  native[h].name.family = native[h].family
  <2>1. NativeOk(native[h])
    BY <1>0 DEF SInv, DataInv
  <2>2. native[h].state # "closed"
    <3>1. native[h].state = "closed" => native[h] = Closed
      BY ZenonT(60), <2>1 DEF NativeOk
    <3>2. Closed.name = NoAddr
      BY DEF Closed
    <3> QED
      BY <1>0, <3>1, <3>2
  <2> QED
    BY <1>0, <2>1, <2>2, SockaddrNotNone DEF NativeOk
<1>1. SInv => NameFaithful
  <2> SUFFICES ASSUME SInv, NEW h \in Handles,
                      native[h].state # "closed", native[h].given.family = native[h].family
               PROVE  LET n == native[h]
                          asked == Member(n.family, n.given.cells)
                      IN  /\ n.name.bytes = asked.bytes /\ asked.bytes \in Bytes(n.family)
                          /\ asked.port \in Port
                          /\ asked.port # 0 => InMemory(n.name.port) = <<asked.port \div 256, asked.port % 256>>
      BY ZenonT(60), <1>0 DEF NameFaithful
  <2> DEFINE n == native[h]
             f == n.family
  <2>1. NativeOk(n) /\ f \in Families
    BY SMTT(60) DEF SInv, DataInv, NativeOk
  <2>2. PICK a \in Address(f) : n.given.cells = Endpoint(f, a) /\ n.name = Named(SockaddrOf(f, a))
    BY ZenonT(60), <2>1 DEF NativeOk
  <2>3. Member(f, n.given.cells) = a
    BY <2>1, <2>2, MemberInverse
  <2> HIDE DEF n, f
  <2>4. a.bytes \in Bytes(f) /\ a.port \in Port
    BY DEF Address
  <2> DEFINE to == SockaddrOf(f, a)
  <2>5. to = [family |-> f, port |-> htons(a.port), bytes |-> a.bytes]
    BY DEF SockaddrOf
  <2>6. n.name.family = f /\ n.name.bytes = a.bytes /\ (htons(a.port) # 0 => n.name.port = htons(a.port))
    BY <2>2, <2>5 DEF Named
  <2>7. htons(a.port) % 256 = a.port \div 256 /\ htons(a.port) \div 256 = a.port % 256
    BY <2>4, HtonsInverse
  <2>8. a.port # 0 => htons(a.port) # 0
    <3>1. htons(htons(a.port)) = a.port
      BY <2>4, HtonsInverse
    <3>2. htons(0) = 0
      BY SMTT(60), JunkAssumption DEF htons
    <3> QED
      BY SMTT(60), <3>1, <3>2
  <2>9. a.port # 0 => InMemory(n.name.port) = <<a.port \div 256, a.port % 256>>
    BY SMTT(60), <2>6, <2>7, <2>8 DEF InMemory
  <2> QED
    BY <2>3, <2>4, <2>6, <2>9 DEF n, f
<1> QED
  BY <1>1, SocketInvariance, PTL

(***************************************************************************)
(* Every endpoint the program can hold survives all of its conversions.    *)
(***************************************************************************)
THEOREM EndpointTheorem == Spec => []EndpointSurvives
<1>1. SInv => EndpointSurvives
  <2> DEFINE f == ep.family
             addr == endpoint_to_sockaddr(f, ep.cells).addr
             printed == inet_ntop(f, ep.cells)
             parts == addr_and_port_to_str(addr)
  <2> SUFFICES ASSUME SInv, f \in Families
               PROVE  /\ sockaddr_to_endpoint(addr, EmptyEndpoint) = [err |-> "Success", endpoint |-> ep.cells]
                      /\ inet_pton(f, printed, EmptyEndpoint) = [err |-> "Success", endpoint |-> ep.cells]
                      /\ parts.host = printed.host /\ parts.port = printed.port
                      /\ str_to_addr(f, parts.host, parts.port) = [err |-> "Success", addr |-> addr]
      BY ZenonT(60) DEF EndpointSurvives
  <2>1. PICK a \in Address(f) : ep.cells = Endpoint(f, a)
    BY DEF SInv, DataInv, EndpointOk
  <2> HIDE DEF f
  <2> DEFINE e == Endpoint(f, a)
  <2>2. /\ endpoint_to_sockaddr(f, e).addr = [family |-> f, port |-> htons(a.port), bytes |-> a.bytes]
        /\ sockaddr_to_endpoint(endpoint_to_sockaddr(f, e).addr, EmptyEndpoint) = [err |-> "Success", endpoint |-> e]
    <3>1. endpoint_to_sockaddr(f, e).addr = [family |-> f, port |-> htons(a.port), bytes |-> a.bytes]
      BY SMTT(60), ToSockaddr
    <3>2. sockaddr_to_endpoint(endpoint_to_sockaddr(f, e).addr, EmptyEndpoint) = [err |-> "Success", endpoint |-> e]
      BY SockaddrRoundTrip
    <3> QED
      BY ZenonT(60), <3>1, <3>2
  <2>3. /\ inet_ntop(f, e) = [host |-> Host(f, a.bytes), brackets |-> f = "IPv6", port |-> Number(a.port)]
        /\ inet_pton(f, inet_ntop(f, e), EmptyEndpoint) = [err |-> "Success", endpoint |-> e]
    BY ZenonT(60), TextRoundTrip
  <2>4. /\ addr = [family |-> f, port |-> htons(a.port), bytes |-> a.bytes]
        /\ sockaddr_to_endpoint(addr, EmptyEndpoint) = [err |-> "Success", endpoint |-> ep.cells]
        /\ printed = [host |-> Host(f, a.bytes), brackets |-> f = "IPv6", port |-> Number(a.port)]
        /\ inet_pton(f, printed, EmptyEndpoint) = [err |-> "Success", endpoint |-> ep.cells]
    BY ZenonT(60), <2>1, <2>2, <2>3
  <2>5. /\ parts = [host |-> Host(f, a.bytes), port |-> Number(a.port)]
        /\ str_to_addr(f, Host(f, a.bytes), Number(a.port)) = [err |-> "Success", addr |-> addr]
    BY ZenonT(60), <2>4, StringRoundTrip
  <2> HIDE DEF addr, printed, parts
  <2>6. parts.host = printed.host /\ parts.port = printed.port
    BY SMTT(60), <2>4, <2>5
  <2>7. str_to_addr(f, parts.host, parts.port) = [err |-> "Success", addr |-> addr]
    BY SMTT(60), <2>5
  <2> QED
    BY <2>4, <2>6, <2>7 DEF f
<1> QED
  BY <1>1, SocketInvariance, PTL

(***************************************************************************)
(* The two parsers agree on every text the strict one accepts.             *)
(***************************************************************************)
THEOREM ParsersTheorem == Spec => []ParsersAgree
<1>1. SInv => ParsersAgree
  <2> DEFINE strict(f) == str_to_addr(f, text.host, text.port)
             loose(f) == inet_pton(f, [text EXCEPT !.brackets = f = "IPv6"], EmptyEndpoint)
             mapped == str_to_addr6("IPv4", text.host, text.port)
  <2> SUFFICES ASSUME SInv
               PROVE  /\ \A f \in Families :
                           strict(f).err = "Success" =>
                             /\ loose(f).err = "Success"
                             /\ endpoint_to_sockaddr(f, loose(f).endpoint).addr = strict(f).addr
                      /\ mapped.err = "Success" =>
                           /\ mapped.addr.port = strict("IPv4").addr.port
                           /\ [i \in 0 .. 3 |-> mapped.addr.bytes[12 + i]] = strict("IPv4").addr.bytes
      BY DEF ParsersAgree
  <2>1. text \in TextType
    BY DEF SInv, DataInv
  <2>2. ASSUME NEW f \in Families, strict(f).err = "Success"
        PROVE  /\ loose(f).err = "Success"
               /\ endpoint_to_sockaddr(f, loose(f).endpoint).addr = strict(f).addr
    BY SMTT(60), <2>1, <2>2, ParserAgreement
  <2>3. ASSUME mapped.err = "Success"
        PROVE  /\ mapped.addr.port = strict("IPv4").addr.port
               /\ [i \in 0 .. 3 |-> mapped.addr.bytes[12 + i]] = strict("IPv4").addr.bytes
    <3> DEFINE four == strict("IPv4")
               b == four.addr.bytes
    <3>1. four.err = "Success"
          /\ mapped.addr = [family |-> "IPv6", port |-> four.addr.port, bytes |-> MappedV4(b)]
      BY <2>3 DEF str_to_addr6, str_to_addr4
    <3>2. text.host.family = "IPv4" /\ b = text.host.bytes
      BY ZenonT(60), <3>1 DEF str_to_addr, ParsedAddr
    <3>3. b \in Bytes("IPv4")
      BY <2>1, <3>2 DEF TextType
    <3> HIDE DEF four, b, mapped
    <3>4. [i \in 0 .. 3 |-> MappedV4(b)[12 + i]] = b
      BY SMTT(60), <3>3 DEF MappedV4, Bytes, Width
    <3>5. mapped.addr.port = four.addr.port /\ mapped.addr.bytes = MappedV4(b)
      BY <3>1
    <3>6. [i \in 0 .. 3 |-> mapped.addr.bytes[12 + i]] = b
      BY <3>4, <3>5
    <3> QED
      BY SMTT(60), <3>5, <3>6 DEF b, four
  <2> QED
    BY <2>2, <2>3
<1> QED
  BY <1>1, SocketInvariance, PTL
================================================================================
