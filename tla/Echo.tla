---------------------------------- MODULE Echo ----------------------------------
(***************************************************************************)
(* The two example programs, async_echo_server and async_echo_client, on   *)
(* one TCP connection: main() of each, the handlers they pass to start_*(),*)
(* the sockets whose PTP_IOs the mains close, and a network that cuts a    *)
(* message where it likes and may reset the connection.                    *)
(*                                                                         *)
(* Each program has a single buffer that every operation of it uses, sends *)
(* and receives at the same time; the test string is copied to its start.  *)
(* A send reads the buffer while it is in progress, cell by cell, not when *)
(* it is started.                                                          *)
(*                                                                         *)
(* The library is used as the other modules establish: a handler is called *)
(* once for every operation that was started, run() returns after stop(),  *)
(* close() waits for what is pending, release() for what runs.             *)
(***************************************************************************)
EXTENDS Naturals, Sequences, FiniteSets

CONSTANTS
  Env,    \* "fails": a call of main may fail; "resets": the network may
  Size,   \* cells of a buffer
  Text    \* cells of the test string

ASSUME EchoAssumption ==
  Env \subseteq {"fails", "resets"} /\ Size \in Nat \ {0} /\ Text \in 1 .. Size

Programs == {"server", "client"}
Peer(p) == IF p = "server" THEN "client" ELSE "server"

\* Sends are counted; there is at most one of each of the others.
Ops == {"accept", "connect", "recv", "disconnect"}

\* The socket an operation is started on
On(p, k) == IF p = "client" THEN "sock" ELSE IF k = "accept" THEN "listener" ELSE "accepted"
SocketsOf(p) == IF p = "client" THEN {"sock"} ELSE {"listener", "accepted"}
Connection(p) == On(p, "recv")

VARIABLES
  main,      \* where main() is
  stopped,   \* programs whose core has been told to stop
  io,        \* sockets with an open PTP_IO
  op,        \* stage of an operation and its handler
  res,       \* what a completed operation reports
  sending,   \* number of sends in progress
  sent,      \* cells of the oldest that have gone out
  sends,     \* number of sends that succeeded, their handlers queued
  failures,  \* number of sends that failed, their handlers queued
  buffer,    \* get_recv_buffer()
  stream,    \* cells on their way from a program to its peer
  fin,       \* programs that have closed their side of the stream
  net,       \* "none" | "connected" | "reset"
  printed,   \* the first message a program prints: how much it received, and the buffer
  late,      \* programs whose handler started an operation on a closed socket
  freed      \* sockets whose PTP_IO release() freed before their destructor used it

sendVars == <<sending, sent, sends, failures>>
opVars == <<op, res, sendVars>>
netVars == <<stream, fin, net>>
vars == <<main, stopped, io, opVars, buffer, netVars, printed, late, freed>>

Cells == 1 .. Size
Error == Size + 1   \* in the place of a number of cells

Init ==
  /\ main = [p \in Programs |-> "socket"]
  /\ stopped = {}
  /\ io = {}
  /\ op = [p \in Programs |-> [k \in Ops |-> "none"]]
  /\ res = [p \in Programs |-> [k \in Ops |-> 0]]
  /\ sending = [p \in Programs |-> 0]
  /\ sent = [p \in Programs |-> 0]
  /\ sends = [p \in Programs |-> 0]
  /\ failures = [p \in Programs |-> 0]
  /\ buffer = [p \in Programs |-> [i \in Cells |-> "zero"]]
  /\ stream = [p \in Programs |-> <<>>]
  /\ fin = {}
  /\ net = "none"
  /\ printed = [p \in Programs |-> [count |-> 0, cells |-> [i \in Cells |-> "zero"]]]
  /\ late = {}
  /\ freed = {}

--------------------------------------------------------------------------------
(* main() *)

Goes(p, to) == main' = [main EXCEPT ![p] = to]

Fails(p, to) == "fails" \in Env /\ Goes(p, to)

\* IOCore::create, initialize, Socket::create and socket(); until socket() has succeeded
\* there is no PTP_IO.
Setup(p) ==
  /\ main[p] = "socket"
  /\ \/ /\ Goes(p, IF p = "server" THEN "bind" ELSE "start")
        /\ io' = io \cup {IF p = "server" THEN "listener" ELSE "sock"}
     \/ Fails(p, "exit") /\ UNCHANGED io
  /\ UNCHANGED <<stopped, opVars, buffer, netVars, printed, late, freed>>

\* A failing bind() releases the core with the listener open.
Bind ==
  /\ main["server"] = "bind"
  /\ Goes("server", "listen") \/ Fails("server", "release")
  /\ UNCHANGED <<stopped, io, opVars, buffer, netVars, printed, late, freed>>

Listen ==
  /\ main["server"] = "listen"
  /\ \/ Goes("server", "accept_socket") /\ UNCHANGED io
     \/ Fails("server", "release") /\ io' = io \ {"listener"}
  /\ UNCHANGED <<stopped, opVars, buffer, netVars, printed, late, freed>>

\* A connection nobody has accepted is reset when its listener is closed.
Unlisten == net' = IF net = "connected" THEN "reset" ELSE net

AcceptSocket ==
  /\ main["server"] = "accept_socket"
  /\ \/ Goes("server", "start") /\ io' = io \cup {"accepted"} /\ UNCHANGED net
     \/ Fails("server", "release") /\ io' = io \ {"listener"} /\ Unlisten
  /\ UNCHANGED <<stopped, opVars, buffer, stream, fin, printed, late, freed>>

\* start_accept() or start_connect(); on failure everything is closed
Start(p) ==
  LET k == IF p = "server" THEN "accept" ELSE "connect"
  IN  /\ main[p] = "start"
      /\ \/ Goes(p, "run") /\ op' = [op EXCEPT ![p][k] = "pending"] /\ UNCHANGED <<io, net>>
         \/ /\ Fails(p, "release")
            /\ io' = io \ SocketsOf(p)
            /\ IF p = "server" THEN Unlisten ELSE UNCHANGED net
            /\ UNCHANGED op
      /\ UNCHANGED <<stopped, res, sendVars, buffer, stream, fin, printed, late, freed>>

Run(p) ==
  /\ main[p] = "run" /\ p \in stopped
  /\ Goes(p, "close")
  /\ UNCHANGED <<stopped, io, opVars, buffer, netVars, printed, late, freed>>

\* close() of the connection, when nothing is pending on it; unread data makes it a reset.
\* When closesocket fails, main() releases the core with the listener open.
Close(p) ==
  /\ main[p] = "close"
  /\ \A k \in Ops : On(p, k) = Connection(p) => op[p][k] # "pending"
  /\ sending[p] = 0
  /\ io' = io \ {Connection(p)}
  /\ fin' = fin \cup {p}
  /\ net' = IF net = "connected" /\ stream[Peer(p)] # <<>> THEN "reset" ELSE net
  /\ Goes(p, IF p = "server" THEN "close_listener" ELSE "release") \/ Fails(p, "release")
  /\ UNCHANGED <<stopped, opVars, buffer, stream, printed, late, freed>>

CloseListener ==
  /\ main["server"] = "close_listener"
  /\ op["server"]["accept"] # "pending"
  /\ io' = io \ {"listener"}
  /\ Goes("server", "release")
  /\ UNCHANGED <<stopped, opVars, buffer, netVars, printed, late, freed>>

\* release() cancels the handlers that have not started and waits for the others; it frees
\* the PTP_IOs that are still open, and ~WinSocket uses them again.
Release(p) ==
  /\ main[p] = "release"
  /\ \A k \in Ops : op[p][k] # "started"
  /\ op' = [op EXCEPT ![p] = [k \in Ops |-> IF op[p][k] = "none" THEN "none" ELSE "done"]]
  /\ sending' = [sending EXCEPT ![p] = 0]
  /\ sent' = [sent EXCEPT ![p] = 0]
  /\ sends' = [sends EXCEPT ![p] = 0]
  /\ failures' = [failures EXCEPT ![p] = 0]
  /\ io' = io \ SocketsOf(p)
  /\ freed' = freed \cup (io \cap SocketsOf(p))
  /\ Goes(p, "exit")
  /\ UNCHANGED <<stopped, res, buffer, netVars, printed, late>>

--------------------------------------------------------------------------------
(* The network, and the completion of operations; a completed operation has its *)
(* handler queued.                                                              *)

Completes(p, k, r) ==
  /\ op' = [op EXCEPT ![p][k] = "queued"]
  /\ res' = [res EXCEPT ![p][k] = r]
  /\ UNCHANGED sendVars

Listening == "listener" \in io /\ main["server"] \notin {"bind", "listen"}

\* The system completes the handshake with a listener, and refuses it without one.
Connect ==
  /\ op["client"]["connect"] = "pending"
  /\ net = "none"
  /\ \/ Listening /\ net' = "connected" /\ Completes("client", "connect", 0)
     \/ ~Listening /\ net' = net /\ Completes("client", "connect", Error)
  /\ UNCHANGED <<main, stopped, io, buffer, stream, fin, printed, late, freed>>

Accept ==
  /\ op["server"]["accept"] = "pending"
  /\ \/ net = "connected" /\ Completes("server", "accept", 0)
     \/ net = "reset" /\ Completes("server", "accept", Error)
  /\ UNCHANGED <<main, stopped, io, buffer, netVars, printed, late, freed>>

HasClosed(p) == main[p] \in {"close_listener", "release", "exit"}

\* Of the sends in progress the oldest puts one more cell out, as the buffer is now; a
\* peer that has closed its socket answers with a reset.
Send(p) ==
  /\ sending[p] > 0
  /\ \/ /\ net = "connected" /\ ~HasClosed(Peer(p))
        /\ stream' = [stream EXCEPT ![p] = Append(@, buffer[p][sent[p] + 1])]
        /\ \/ /\ sent[p] + 1 < Size
              /\ sent' = [sent EXCEPT ![p] = @ + 1]
              /\ UNCHANGED <<sending, sends>>
           \/ /\ sent[p] + 1 = Size
              /\ sent' = [sent EXCEPT ![p] = 0]
              /\ sending' = [sending EXCEPT ![p] = @ - 1]
              /\ sends' = [sends EXCEPT ![p] = @ + 1]
        /\ UNCHANGED <<failures, net>>
     \/ /\ net = "connected" /\ HasClosed(Peer(p))
        /\ net' = "reset" /\ UNCHANGED <<sendVars, stream>>
     \/ /\ net = "reset"
        /\ sent' = [sent EXCEPT ![p] = 0]
        /\ sending' = [sending EXCEPT ![p] = @ - 1]
        /\ failures' = [failures EXCEPT ![p] = @ + 1]
        /\ UNCHANGED <<sends, stream, net>>
  /\ UNCHANGED <<main, stopped, io, op, res, buffer, fin, printed, late, freed>>

\* n cells are received, at the front of the buffer.
Recv(p) ==
  LET s == stream[Peer(p)]
  IN  /\ op[p]["recv"] = "pending"
      /\ \/ \E n \in Cells :
              /\ net = "connected" /\ n <= Len(s)
              /\ buffer' = [buffer EXCEPT ![p] = [i \in Cells |-> IF i <= n THEN s[i] ELSE @[i]]]
              /\ stream' = [stream EXCEPT ![Peer(p)] = SubSeq(s, n + 1, Len(s))]
              /\ Completes(p, "recv", n)
         \/ /\ net = "connected" /\ s = <<>> /\ Peer(p) \in fin
            /\ Completes(p, "recv", 0)
            /\ UNCHANGED <<buffer, stream>>
         \/ net = "reset" /\ Completes(p, "recv", Error) /\ UNCHANGED <<buffer, stream>>
      /\ UNCHANGED <<main, stopped, io, fin, net, printed, late, freed>>

\* DisconnectEx sends what is still to be sent, and then its FIN.
Disconnect ==
  /\ op["client"]["disconnect"] = "pending"
  /\ sending["client"] = 0
  /\ \/ net = "connected" /\ fin' = fin \cup {"client"} /\ Completes("client", "disconnect", 0)
     \/ net = "reset" /\ Completes("client", "disconnect", Error) /\ UNCHANGED fin
  /\ UNCHANGED <<main, stopped, io, buffer, stream, net, printed, late, freed>>

Reset ==
  /\ "resets" \in Env /\ net = "connected"
  /\ net' = "reset"
  /\ UNCHANGED <<main, stopped, io, opVars, buffer, stream, fin, printed, late, freed>>

--------------------------------------------------------------------------------
(* Handlers.  One that starts two operations does so in two steps, "queued" and *)
(* "started"; in between the first may complete and its handler run.            *)

\* The handler of operation h cannot start another: on a connection that is reset, or
\* disconnected, the start may fail, and then the handler stops the core and returns; on
\* a closed socket StartThreadpoolIo is given a null PTP_IO.
StartFails(p, h) ==
  /\ op' = [op EXCEPT ![p][h] = "done"]
  /\ \/ /\ Connection(p) \in io
        /\ net = "reset" \/ op[p]["disconnect"] # "none"
        /\ stopped' = stopped \cup {p} /\ UNCHANGED late
     \/ /\ Connection(p) \notin io
        /\ late' = late \cup {p} /\ UNCHANGED stopped
  /\ UNCHANGED <<res, sendVars>>

\* It starts operation k, and goes on to stage next.
Starts(p, h, next, k) ==
  \/ /\ Connection(p) \in io
     /\ op' = [op EXCEPT ![p] = [@ EXCEPT ![h] = next, ![k] = "pending"]]
     /\ res' = [res EXCEPT ![p][k] = 0]
     /\ UNCHANGED <<sendVars, stopped, late>>
  \/ StartFails(p, h)

\* It copies the string over the start of the buffer, starts a send, and goes on.
CopiesAndSends(p, h) ==
  /\ buffer' = [buffer EXCEPT ![p] = [i \in Cells |-> IF i <= Text THEN p ELSE @[i]]]
  /\ \/ /\ Connection(p) \in io
        /\ op' = [op EXCEPT ![p][h] = "started"]
        /\ sending' = [sending EXCEPT ![p] = @ + 1]
        /\ UNCHANGED <<res, sent, sends, failures, stopped, late>>
     \/ StartFails(p, h)

\* The handler only returns.
Stops_Silently(p, h) ==
  /\ op' = [op EXCEPT ![p][h] = "done"]
  /\ UNCHANGED <<stopped, res, sendVars, buffer, printed, late>>

\* An error, or the end of the stream: stop_io_context() and return
Stops(p, h) ==
  /\ op' = [op EXCEPT ![p][h] = "done"]
  /\ stopped' = stopped \cup {p}
  /\ UNCHANGED <<res, sendVars, buffer, printed, late>>

Failed(p, h) == op[p][h] = "queued" /\ res[p][h] = Error

on_accept_complete ==
  /\ op["server"]["accept"] = "queued"
  /\ \/ Failed("server", "accept") /\ Stops("server", "accept")
     \/ /\ ~Failed("server", "accept")
        /\ Starts("server", "accept", "done", "recv")
        /\ UNCHANGED <<buffer, printed>>
  /\ UNCHANGED <<main, io, netVars, freed>>

on_connect_complete ==
  /\ \/ Failed("client", "connect") /\ Stops("client", "connect")
     \/ /\ op["client"]["connect"] = "queued" /\ ~Failed("client", "connect")
        /\ CopiesAndSends("client", "connect")
        /\ UNCHANGED <<printed>>
     \/ /\ op["client"]["connect"] = "started"
        /\ Starts("client", "connect", "done", "recv")
        /\ UNCHANGED <<buffer, printed>>
  /\ UNCHANGED <<main, io, netVars, freed>>

\* The program stops when its message has been sent.
on_send_complete_Stops(p) ==
  /\ \/ failures[p] > 0 /\ failures' = [failures EXCEPT ![p] = @ - 1] /\ UNCHANGED sends
     \/ sends[p] > 0 /\ sends' = [sends EXCEPT ![p] = @ - 1] /\ UNCHANGED failures
  /\ stopped' = stopped \cup {p}
  /\ UNCHANGED <<main, io, op, res, sending, sent, buffer, netVars, printed, late, freed>>

on_send_complete(p) ==
  /\ \/ /\ failures[p] > 0
        /\ failures' = [failures EXCEPT ![p] = @ - 1]
        /\ stopped' = stopped \cup {p} /\ UNCHANGED sends
     \/ /\ sends[p] > 0
        /\ sends' = [sends EXCEPT ![p] = @ - 1]
        /\ UNCHANGED <<stopped, failures>>
  /\ UNCHANGED <<main, io, op, res, sending, sent, buffer, netVars, printed, late, freed>>

on_disconnect_complete ==
  /\ op["client"]["disconnect"] = "queued"
  /\ \/ Failed("client", "disconnect") /\ Stops("client", "disconnect")
     \/ /\ ~Failed("client", "disconnect")
        /\ op' = [op EXCEPT !["client"]["disconnect"] = "done"]
        /\ UNCHANGED <<stopped, res, sendVars, buffer, printed, late>>
  /\ UNCHANGED <<main, io, netVars, freed>>

Prints(p) ==
  printed' = [printed EXCEPT ![p] =
                IF @.count = 0 THEN [count |-> res[p]["recv"], cells |-> buffer[p]] ELSE @]

\* The reply goes out without the string.
ServerReplies_Echo ==
  /\ Prints("server")
  /\ \/ /\ Connection("server") \in io
        /\ op' = [op EXCEPT !["server"]["recv"] = "started"]
        /\ sending' = [sending EXCEPT !["server"] = @ + 1]
        /\ UNCHANGED <<res, sent, sends, failures, stopped, late>>
     \/ StartFails("server", "recv")
  /\ UNCHANGED buffer

\* The server only reads.
ServerReplies_Not ==
  /\ Prints("server")
  /\ op' = [op EXCEPT !["server"]["recv"] = "started"]
  /\ UNCHANGED <<buffer, res, sendVars, stopped, late>>

\* The server prints the buffer, copies its string over the start of it, and sends it.
ServerReplies == Prints("server") /\ CopiesAndSends("server", "recv")

\* The client prints the buffer and disconnects; it can do so once.
ClientDisconnects ==
  /\ Prints("client")
  /\ \/ /\ op["client"]["disconnect"] = "none"
        /\ Starts("client", "recv", "started", "disconnect")
     \/ /\ op["client"]["disconnect"] # "none"
        /\ op' = [op EXCEPT !["client"]["recv"] = "done"]
        /\ stopped' = stopped \cup {"client"}
        /\ UNCHANGED <<res, sendVars, late>>
  /\ UNCHANGED buffer

on_recv_complete(p) ==
  /\ \/ /\ op[p]["recv"] = "queued" /\ res[p]["recv"] \in {Error, 0}
        /\ Stops(p, "recv")
     \/ /\ op[p]["recv"] = "queued" /\ res[p]["recv"] \in Cells
        /\ IF p = "server" THEN ServerReplies ELSE ClientDisconnects
     \/ /\ op[p]["recv"] = "started"
        /\ Starts(p, "recv", "pending", "recv")
        /\ UNCHANGED <<buffer, printed>>
  /\ UNCHANGED <<main, io, netVars, freed>>

--------------------------------------------------------------------------------
MainStep(p) == Setup(p) \/ Start(p) \/ Run(p) \/ Close(p) \/ Release(p)

ServerStep == Bind \/ Listen \/ AcceptSocket \/ CloseListener

Completion ==
  \/ Connect \/ Accept \/ Disconnect
  \/ \E p \in Programs : Recv(p) \/ Send(p)

Handler ==
  \/ on_accept_complete \/ on_connect_complete \/ on_disconnect_complete
  \/ \E p \in Programs : on_recv_complete(p) \/ on_send_complete(p)

Next ==
  \/ \E p \in Programs : MainStep(p)
  \/ ServerStep \/ Completion \/ Handler \/ Reset

\* Both programs, their pools and the network make progress; nobody has to reset.
Fairness ==
  /\ WF_vars(ServerStep) /\ WF_vars(Completion) /\ WF_vars(Handler)
  /\ \A p \in Programs : WF_vars(MainStep(p))

Spec == Init /\ [][Next]_vars /\ Fairness

--------------------------------------------------------------------------------
(* Properties *)

\* What a program means to send: the string in a buffer of zeros
Message(p) == [i \in Cells |-> IF i <= Text THEN p ELSE "zero"]

(***************************************************************************)
(* What the server receives first is the client's message, as far as it    *)
(* goes; and if the server got that message in one piece, what the client  *)
(* receives first is the server's: the operations that share a buffer do   *)
(* not spoil it for one another.  (A message that arrives in pieces        *)
(* overwrites the reply that is being sent.)                               *)
(***************************************************************************)
ReplyIntact ==
  /\ \A i \in 1 .. printed["server"].count : printed["server"].cells[i] = Message("client")[i]
  /\ printed["server"].count = Size =>
       \A i \in 1 .. printed["client"].count : printed["client"].cells[i] = Message("server")[i]

(***************************************************************************)
(* While the connection is not reset, no handler starts an operation on a  *)
(* socket main() has closed, although main() closes as soon as one handler *)
(* has called stop_io_context() and others are still running; and the core *)
(* is released with a socket open only by the server, on its two ways out  *)
(* that close no listener: a failing bind(), or a failing close().         *)
(***************************************************************************)
NoUseAfterClose ==
  /\ late # {} => net = "reset"
  /\ freed \subseteq {"listener"}

(***************************************************************************)
(* Once the programs are connected both end, whatever is reset, refused or *)
(* cut in pieces: no close() waits for an operation that never completes,  *)
(* and no run() for a stop() that never comes.                             *)
(***************************************************************************)
EchoEnds == net # "none" ~> \A p \in Programs : main[p] = "exit" \/ p \in late

(***************************************************************************)
(* Once connected the client prints a reply, unless the connection is reset*)
(* or the server never got to accept it.                                   *)
(***************************************************************************)
ReplyArrives == net = "connected" ~> printed["client"].count > 0 \/ net = "reset"
================================================================================
