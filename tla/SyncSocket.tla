------------------------------- MODULE SyncSocket -------------------------------
(***************************************************************************)
(* The synchronous half of WinSocket: one application thread calls socket, *)
(* bind, listen, accept, connect, send_to, recv_from, disconnect, close and*)
(* the name functions on several sockets, each call failing at any place it*)
(* can.  What is tracked is what a failing call may get wrong: the native  *)
(* handles and PTP_IOs that exist and who owns them, the members that      *)
(* describe them, and the addresses that cross the API.                    *)
(*                                                                         *)
(* Native sockets and PTP_IOs are Winsock's and the thread pool's.  recv,  *)
(* send, shutdown and the socket options hand their arguments to Winsock   *)
(* and touch no member.                                                    *)
(***************************************************************************)
EXTENDS Endpoint, Disconnect

CONSTANTS
  Sockets,     \* WinSocket objects
  Handles,     \* bound: native sockets, and PTP_IOs, open at a time
  NoHandle,    \* INVALID_SOCKET, nullptr
  Texts,       \* what the program may read an address from
  Peers,       \* SOCKADDRs of remote programs
  Ephemeral,   \* the port, as it is stored in a SOCKADDR, that the system picks
  Bounds       \* bounds on what the program does, from BoundNames

(***************************************************************************)
(* objects_first     it creates WinSockets only while none is open         *)
(* loses_once        it loses handles, or closesocket() fails, in one call *)
(* pairs_plain       while it has several sockets, it passes them only     *)
(*                   endpoints of Peers, and of the right family           *)
(* reads_closed      it reads addresses only while no socket is open       *)
(* disconnects_last  it disconnects the only socket, which its last call   *)
(*                   connected, and closes it next                         *)
(***************************************************************************)
BoundNames ==
  {"objects_first", "loses_once", "pairs_plain", "reads_closed", "disconnects_last"}

ASSUME SyncAssumption ==
  /\ NoHandle \notin Handles
  /\ Texts \subseteq TextType
  /\ Peers \subseteq Sockaddr("IPv4") \cup Sockaddr("IPv6")
  /\ Ephemeral \in Port
  /\ Bounds \subseteq BoundNames

VARIABLES
  core,               \* "up" | "expired": what io_core_.lock() finds
  obj,                \* WinSocket objects that exist
  socket_,            \* the member, a native handle
  socket_io_handle_,  \* the member, a PTP_IO
  addr_family_,       \* the member
  is_bound_,          \* the member
  native,             \* Winsock's socket behind a handle
  tpio,               \* PTP_IOs not closed
  lost,               \* open native sockets and PTP_IOs without an owner; what Winsock knows
                      \* of such a socket is not tracked
  overwritten,        \* sockets opened while open, since their last close(); history
  ep,                 \* the program's Endpoint: its memory, and the family it was filled for
  text                \* the address text the program has just read

memberVars == <<socket_, socket_io_handle_, addr_family_, is_bound_>>
historyVars == <<lost, overwritten>>
syncVars == <<core, obj, memberVars, native, tpio, historyVars, ep, text>>
vars == <<syncVars, disconnectVars>>

NoEndpoint == [cells |-> EmptyEndpoint, family |-> "NotSupported"]

\* name, peer: what getsockname and getpeername answer; given: the endpoint the program
\* bound the socket to
Closed == [state |-> "closed", family |-> "NotSupported", name |-> NoAddr, peer |-> NoAddr,
           given |-> NoEndpoint]
Fresh(f) == [Closed EXCEPT !.state = "open", !.family = f]

NothingLost == [sockets |-> {}, ios |-> {}]
FreeHandles == {h \in Handles \ lost.sockets : native[h].state = "closed"}
NewHandle == CHOOSE h \in FreeHandles : TRUE
NewIo == CHOOSE p \in Handles \ tpio : TRUE
Open(s) == socket_[s] # NoHandle
Native(s) == native[socket_[s]]

Init ==
  /\ core = "up"
  /\ obj = {}
  /\ socket_ = [s \in Sockets |-> NoHandle]
  /\ socket_io_handle_ = [s \in Sockets |-> NoHandle]
  /\ addr_family_ = [s \in Sockets |-> "NotSupported"]
  /\ is_bound_ = [s \in Sockets |-> FALSE]
  /\ native = [h \in Handles |-> Closed]
  /\ tpio = {}
  /\ lost = NothingLost
  /\ overwritten = {}
  /\ ep = NoEndpoint
  /\ text = NoText
  /\ DisconnectInit

\* The application thread is in no call, and has parsed what it read.
Returned == at = "idle" /\ text = NoText

\* It calls a function of s.
Calls(s) == Returned /\ s \in obj /\ ("disconnects_last" \in Bounds => outcome = "none")

--------------------------------------------------------------------------------
(* Opening and closing *)

\* The members of a socket that is not open
ResetMembers(s) ==
  /\ socket_' = [socket_ EXCEPT ![s] = NoHandle]
  /\ socket_io_handle_' = [socket_io_handle_ EXCEPT ![s] = NoHandle]
  /\ addr_family_' = [addr_family_ EXCEPT ![s] = "NotSupported"]
  /\ is_bound_' = [is_bound_ EXCEPT ![s] = FALSE]

WinSocket(s) ==
  /\ Returned /\ s \notin obj
  /\ core = "up"
  /\ "objects_first" \in Bounds => \A x \in Sockets : ~Open(x)
  /\ obj' = obj \cup {s}
  /\ ResetMembers(s)
  /\ UNCHANGED <<core, native, tpio, historyVars, ep, text, disconnectVars>>

MayLose == "loses_once" \in Bounds => lost = NothingLost
MayForget(s) == Open(s) => MayLose

\* The handles that a closesocket(h) leaves open; an error it returns is ignored or
\* returned, and the handle forgotten.
LeftOpen(h) == {left \in SUBSET ({h} \cap Handles) : left # {} => MayLose}

\* The handles are left without an owner; the native sockets become as given.
Loses(sockets, ios, natives) ==
  /\ lost' = [sockets |-> lost.sockets \cup (sockets \cap Handles), ios |-> lost.ios \cup (ios \cap Handles)]
  /\ native' = [h \in Handles |-> IF h \in sockets THEN Closed ELSE natives[h]]

Overwrites(s) == overwritten' = IF Open(s) THEN overwritten \cup {s} ELSE overwritten

\* The new handle is forgotten, not closed, when the thread pool refuses it.
Refused_KeepsHandle(s) ==
  /\ core = "up" /\ FreeHandles # {}
  /\ Loses({socket_[s]}, {socket_io_handle_[s]}, [native EXCEPT ![NewHandle] = Fresh("IPv4")])
  /\ socket_io_handle_' = [socket_io_handle_ EXCEPT ![s] = NoHandle]

\* associate_handle() returns nullptr; the new native socket is closed again
Refused(s) ==
  /\ core = "up" /\ FreeHandles # {}
  /\ \E left \in LeftOpen(NewHandle) : Loses({socket_[s]} \cup left, {socket_io_handle_[s]}, native)
  /\ socket_io_handle_' = [socket_io_handle_ EXCEPT ![s] = NoHandle]

\* Nothing checks whether the socket is open already: its members are overwritten.  For
\* Unspecified Winsock picks a family of its own.
socket(s, f) ==
  /\ Calls(s) /\ MayForget(s)
  /\ Overwrites(s)
  /\ \/ /\ core = "up" /\ FreeHandles # {} /\ tpio # Handles
        /\ \E g \in IF f = "Unspecified" THEN Families ELSE {f} :
             Loses({socket_[s]}, {socket_io_handle_[s]}, [native EXCEPT ![NewHandle] = Fresh(g)])
        /\ tpio' = tpio \cup {NewIo}
        /\ socket_' = [socket_ EXCEPT ![s] = NewHandle]
        /\ socket_io_handle_' = [socket_io_handle_ EXCEPT ![s] = NewIo]
        /\ addr_family_' = [addr_family_ EXCEPT ![s] = f]
     \/ /\ Refused(s)
        /\ socket_' = [socket_ EXCEPT ![s] = NoHandle]
        /\ UNCHANGED <<tpio, addr_family_>>
     \/ /\ \/ Loses({socket_[s]}, {}, native)            \* WSASocketW fails
           \/ /\ core = "expired" /\ FreeHandles # {}     \* the core is gone
              /\ \E left \in LeftOpen(NewHandle) : Loses({socket_[s]} \cup left, {}, native)
        /\ socket_' = [socket_ EXCEPT ![s] = NoHandle]
        /\ UNCHANGED <<tpio, socket_io_handle_, addr_family_>>
  /\ UNCHANGED <<core, obj, is_bound_, ep, text, disconnectVars>>

\* No operation is pending, so the wait is over at once.  A handle that closesocket()
\* does not close is forgotten all the same.
close(s) ==
  /\ Returned /\ s \in obj
  /\ tpio' = tpio \ {socket_io_handle_[s]}
  /\ \E left \in LeftOpen(socket_[s]) :
       Loses(left, {}, [h \in Handles |-> IF h = socket_[s] THEN Closed ELSE native[h]])
  /\ ResetMembers(s)
  /\ overwritten' = overwritten \ {s}
  /\ Forget
  /\ UNCHANGED <<core, obj, ep, text>>

\* ~WinSocket closes the PTP_IO and leaves the native socket open.
Destroy(s) ==
  /\ Calls(s) /\ MayForget(s)
  /\ obj' = obj \ {s}
  /\ tpio' = tpio \ {socket_io_handle_[s]}
  /\ Loses({socket_[s]}, {}, native)
  /\ overwritten' = overwritten \ {s}
  /\ ResetMembers(s)
  /\ UNCHANGED <<core, ep, text, disconnectVars>>

DropCore ==
  /\ core = "up"
  /\ core' = "expired"
  /\ UNCHANGED <<obj, memberVars, native, tpio, historyVars, ep, text, disconnectVars>>

--------------------------------------------------------------------------------
(* Addresses.  A call that fails before it changes anything is a stuttering step. *)

\* The program passes its endpoint to s.
Passes(s) ==
  /\ Calls(s) /\ Open(s)
  /\ "pairs_plain" \in Bounds =>
       \/ obj = {s}
       \/ ep.family = Native(s).family /\ endpoint_to_sockaddr(ep.family, ep.cells).addr \in Peers

\* What endpoint_to_sockaddr may make of it; nothing ensures that it was filled for the
\* family of the socket, or at all.
Converted(s) ==
  {endpoint_to_sockaddr(addr_family_[s], Settled(ep.cells, stale)) : stale \in [Cells -> Stale]}

\* The name Winsock gives a socket that asks for addr; port 0 asks for any
Named(addr) == IF addr.port = 0 THEN [addr EXCEPT !.port = Ephemeral] ELSE addr

AnyName(f) == [family |-> f, port |-> Ephemeral, bytes |-> [i \in 0 .. Width(f) - 1 |-> 0]]

\* The socket has a name after the call; a name it had it keeps.
BecomesBound(s, n) ==
  /\ native' = [native EXCEPT ![socket_[s]] = n]
  /\ is_bound_' = [is_bound_ EXCEPT ![s] = TRUE]
  /\ UNCHANGED <<core, obj, socket_, socket_io_handle_, addr_family_, tpio, historyVars, ep, text,
                 disconnectVars>>

bind(s) ==
  \E to \in Converted(s) :
    /\ Passes(s)
    /\ Native(s).name = NoAddr
    /\ to.err = "Success"
    /\ BecomesBound(s, [Native(s) EXCEPT !.name = Named(to.addr), !.given = ep])

listen(s) ==
  /\ Calls(s) /\ Open(s)
  /\ Native(s).state = "open" /\ Native(s).name # NoAddr
  /\ native' = [native EXCEPT ![socket_[s]].state = "listening"]
  /\ UNCHANGED <<core, obj, memberVars, tpio, historyVars, ep, text, disconnectVars>>

connect(s) ==
  LET n == Native(s)
  IN  \E to \in Converted(s) :
        /\ Passes(s)
        /\ n.state = "open"
        /\ to.err = "Success" /\ to.addr.port # 0
        /\ BecomesBound(s, [n EXCEPT !.state = "connected", !.peer = to.addr,
                                     !.name = IF @ = NoAddr THEN AnyName(n.family) ELSE @])

send_to(s) ==
  LET n == Native(s)
  IN  \E to \in Converted(s) :
        /\ Passes(s)
        /\ n.state = "open"
        /\ to.err = "Success"
        /\ BecomesBound(s, [n EXCEPT !.name = IF @ = NoAddr THEN AnyName(n.family) ELSE @])

Fill(s, addr) ==
  /\ ep' = [cells |-> sockaddr_to_endpoint(addr, ep.cells).endpoint, family |-> addr.family]
  /\ UNCHANGED <<core, obj, memberVars, native, tpio, historyVars, text, disconnectVars>>

recv_from(s) ==
  /\ Calls(s) /\ Open(s)
  /\ Native(s).state = "open" /\ Native(s).name # NoAddr
  /\ \E addr \in Peers : addr.family = Native(s).family /\ Fill(s, addr)

get_sock_name(s) ==
  /\ Calls(s) /\ Open(s)
  /\ Native(s).name # NoAddr
  /\ Fill(s, Native(s).name)

get_peer_name(s) ==
  /\ Calls(s) /\ Open(s)
  /\ Native(s).peer # NoAddr
  /\ Fill(s, Native(s).peer)

--------------------------------------------------------------------------------
(* accept() *)

\* The accept socket's own close(), after its socket_ was set to the new connection and
\* socket_io_handle_ to io: io is closed, and so is the connection.
AcceptGivesUp(a, io) ==
  /\ tpio' = tpio \ {io}
  /\ \E left \in LeftOpen(NewHandle) :
       Loses({socket_[a]} \cup left, {socket_io_handle_[a]} \ {io}, native)
  /\ overwritten' = overwritten \ {a}
  /\ ResetMembers(a)

\* The members of the accept socket are not set to the family of the connection.
AcceptSucceeds_NoFamily(a, n) ==
  /\ Loses({socket_[a]}, {socket_io_handle_[a]}, [native EXCEPT ![NewHandle] = n])
  /\ Overwrites(a)
  /\ tpio' = tpio \cup {NewIo}
  /\ socket_' = [socket_ EXCEPT ![a] = NewHandle]
  /\ socket_io_handle_' = [socket_io_handle_ EXCEPT ![a] = NewIo]
  /\ is_bound_' = [is_bound_ EXCEPT ![a] = TRUE]
  /\ UNCHANGED addr_family_

AcceptSucceeds(a, n) ==
  /\ Loses({socket_[a]}, {socket_io_handle_[a]}, [native EXCEPT ![NewHandle] = n])
  /\ Overwrites(a)
  /\ tpio' = tpio \cup {NewIo}
  /\ socket_' = [socket_ EXCEPT ![a] = NewHandle]
  /\ socket_io_handle_' = [socket_io_handle_ EXCEPT ![a] = NewIo]
  /\ addr_family_' = [addr_family_ EXCEPT ![a] = n.family]
  /\ is_bound_' = [is_bound_ EXCEPT ![a] = TRUE]

\* getsockopt() fails, and the connection is closed again
AcceptFails ==
  /\ \E left \in LeftOpen(NewHandle) : Loses(left, {}, native)
  /\ UNCHANGED <<memberVars, tpio, overwritten>>

accept(s, a) ==
  /\ Calls(s) /\ a \in obj \ {s} /\ MayForget(a)
  /\ Open(s) /\ Native(s).state = "listening"
  /\ FreeHandles # {}
  /\ \/ AcceptFails
     \/ /\ core = "up" /\ tpio # Handles
        /\ \E addr \in Peers :
             /\ addr.family = Native(s).family
             /\ AcceptSucceeds(a, [Fresh(addr.family) EXCEPT !.state = "connected", !.peer = addr,
                                                            !.name = Native(s).name])
     \/ core = "up" /\ AcceptGivesUp(a, NoHandle)
     \/ core = "expired" /\ AcceptGivesUp(a, socket_io_handle_[a])
  /\ UNCHANGED <<core, obj, ep, text, disconnectVars>>

--------------------------------------------------------------------------------
(* Reading an address *)

ReadText(t) ==
  /\ Returned
  /\ "reads_closed" \in Bounds => \A s \in Sockets : ~Open(s)
  /\ text' = t
  /\ UNCHANGED <<core, obj, memberVars, native, tpio, historyVars, ep, disconnectVars>>

\* An exception of stoi leaves the endpoint alone, like a failure.
Parse(f) ==
  LET result == inet_pton(f, text, ep.cells)
  IN  /\ text # NoText
      /\ text' = NoText
      /\ ep' = IF result.err = "Success" THEN [cells |-> result.endpoint, family |-> f] ELSE ep
      /\ UNCHANGED <<core, obj, memberVars, native, tpio, historyVars, disconnectVars>>

--------------------------------------------------------------------------------
(* disconnect() *)

\* s is the only socket, connected by the program's last call.
JustConnected(s) ==
  /\ core = "up" /\ obj = {s} /\ lost = NothingLost
  /\ Open(s) /\ Native(s).state = "connected"
  /\ Native(s).given = NoEndpoint
  /\ sockaddr_to_endpoint(Native(s).peer, ep.cells).endpoint = ep.cells

Disconnects(s) ==
  /\ Calls(s) /\ ("disconnects_last" \in Bounds => JustConnected(s))
  /\ \E t \in Timeouts : disconnect(t)
  /\ at' = "top" => Open(s)
  /\ UNCHANGED syncVars

Loop == LoopStep /\ UNCHANGED syncVars
TimePasses == Tick /\ UNCHANGED syncVars
Environment == (SelectFails \/ Arrive \/ Steal) /\ UNCHANGED syncVars

Next ==
  \/ \E s \in Sockets :
       \/ WinSocket(s) \/ close(s) \/ Destroy(s) \/ bind(s) \/ listen(s) \/ connect(s) \/ send_to(s)
       \/ recv_from(s) \/ get_sock_name(s) \/ get_peer_name(s) \/ Disconnects(s)
       \/ \E f \in Families \cup {"Unspecified"} : socket(s, f)
       \/ \E a \in Sockets : accept(s, a)
  \/ DropCore
  \/ \E t \in Texts : ReadText(t)
  \/ \E f \in Families : Parse(f)
  \/ Loop \/ TimePasses \/ Environment

\* The calling thread is scheduled and time goes on; nothing is owed by the peer.
Spec == Init /\ [][Next]_vars /\ WF_vars(Loop) /\ WF_vars(TimePasses)

--------------------------------------------------------------------------------
(* Properties *)

OwnedSockets == {socket_[s] : s \in obj} \cap Handles
OwnedIos == {socket_io_handle_[s] : s \in obj} \cap Handles

(***************************************************************************)
(* However the calls fail, every native socket and every PTP_IO that is    *)
(* open belongs to exactly one WinSocket, and no WinSocket holds a closed  *)
(* one.  The exceptions are those that got lost: by socket() or accept()   *)
(* into a socket that was open, by destroying an open socket, or by a      *)
(* closesocket() that failed and whose handle the code forgot.             *)
(***************************************************************************)
Accounted ==
  /\ {h \in Handles : native[h].state # "closed"} = OwnedSockets
  /\ tpio = OwnedIos \cup lost.ios
  /\ OwnedSockets \cap lost.sockets = {} /\ OwnedIos \cap lost.ios = {}
  /\ \A s, t \in obj :
       s # t => /\ Open(s) => socket_[s] # socket_[t]
                /\ socket_io_handle_[s] # NoHandle => socket_io_handle_[s] # socket_io_handle_[t]

\* Endpoints converted for family f suit native socket n, or are never handed to it.
Describes(f, n) == f = n.family \/ (f = "Unspecified" /\ n.name = NoAddr /\ n.peer = NoAddr)

(***************************************************************************)
(* The members describe the native socket: the family endpoints are        *)
(* converted for is the family Winsock knows, or Unspecified on a socket   *)
(* that never gets a name or a peer; and, unless the socket was opened     *)
(* while open, a PTP_IO is there exactly when a native socket is and       *)
(* is_bound_ is never set on one without a local name (start_connect()     *)
(* would not bind it, and ConnectEx would refuse it).                      *)
(***************************************************************************)
MembersAgree ==
  \A s \in obj :
    /\ Open(s) => Describes(addr_family_[s], Native(s))
    /\ s \notin overwritten =>
         /\ Open(s) <=> socket_io_handle_[s] # NoHandle
         /\ is_bound_[s] => Open(s) /\ Native(s).name # NoAddr

\* The bytes of a 16-bit field in the order they have in memory
InMemory(p) == <<p % 256, p \div 256>>

(***************************************************************************)
(* Whatever endpoint the program passes, the name bind() gives a socket is *)
(* of the family of the socket.  If the endpoint was filled for that       *)
(* family, the name is the address the program asked for: its port goes out*)
(* high byte first, its bytes in their order, and none of it is read from  *)
(* memory the program never wrote.                                         *)
(***************************************************************************)
NameFaithful ==
  \A h \in Handles :
    LET n == native[h]
        asked == Member(n.family, n.given.cells)
    IN  /\ n.name # NoAddr => n.name.family = n.family
        /\ n.state # "closed" /\ n.given.family = n.family =>
             /\ n.name.bytes = asked.bytes /\ asked.bytes \in Bytes(n.family)
             /\ asked.port \in Port
             /\ asked.port # 0 => InMemory(n.name.port) = <<asked.port \div 256, asked.port % 256>>

(***************************************************************************)
(* An endpoint that was parsed, received or asked for survives every       *)
(* conversion and back: to a SOCKADDR, to the text of inet_ntop and to the *)
(* strings of addr_and_port_to_str; and both texts name the same address.  *)
(***************************************************************************)
EndpointSurvives ==
  LET f == ep.family
      addr == endpoint_to_sockaddr(f, ep.cells).addr
      printed == inet_ntop(f, ep.cells)
      parts == addr_and_port_to_str(addr)
  IN  f \in Families =>
        /\ sockaddr_to_endpoint(addr, EmptyEndpoint) = [err |-> "Success", endpoint |-> ep.cells]
        /\ inet_pton(f, printed, EmptyEndpoint) = [err |-> "Success", endpoint |-> ep.cells]
        /\ parts.host = printed.host /\ parts.port = printed.port
        /\ str_to_addr(f, parts.host, parts.port) = [err |-> "Success", addr |-> addr]

(***************************************************************************)
(* What the strict parsers of WinSocket accept, the parser of endpoint.cpp *)
(* reads as the same address, also as the IPv4 part of a mapped address.   *)
(***************************************************************************)
ParsersAgree ==
  LET strict(f) == str_to_addr(f, text.host, text.port)
      loose(f) == inet_pton(f, [text EXCEPT !.brackets = f = "IPv6"], EmptyEndpoint)
      mapped == str_to_addr6("IPv4", text.host, text.port)
  IN  text # NoText =>
        /\ \A f \in Families :
             strict(f).err = "Success" =>
               /\ loose(f).err = "Success"
               /\ endpoint_to_sockaddr(f, loose(f).endpoint).addr = strict(f).addr
        /\ mapped.err = "Success" =>
             /\ mapped.addr.port = strict("IPv4").addr.port
             /\ [i \in 0 .. 3 |-> mapped.addr.bytes[12 + i]] = strict("IPv4").addr.bytes
================================================================================
