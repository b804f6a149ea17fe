------------------------------- MODULE EchoProofs -------------------------------
(***************************************************************************)
(* Proofs about the echo programs, for buffers and strings of any size: the*)
(* first messages arrive as they were meant, and no handler starts an      *)
(* operation on a closed socket while the connection is not reset.         *)
(***************************************************************************)
EXTENDS Echo, TLAPS

Values == Programs \cup {"zero"}
Before == {"socket", "bind", "listen", "accept_socket", "start"}
Places == Before \cup {"run", "close", "close_listener", "release", "exit"}
Stages == {"none", "pending", "queued", "started", "done"}
AllSockets == {"sock", "listener", "accepted"}

ControlOK ==
  /\ main \in [Programs -> Places]
  /\ stopped \subseteq Programs /\ fin \subseteq Programs /\ late \subseteq Programs
  /\ io \subseteq AllSockets /\ freed \subseteq AllSockets
  /\ net \in {"none", "connected", "reset"}

OpOK == op \in [Programs -> [Ops -> Stages]] /\ res \in [Programs -> [Ops -> 0 .. Error]]

SendOK ==
  /\ sending \in [Programs -> Nat] /\ sent \in [Programs -> 0 .. Size - 1]
  /\ sends \in [Programs -> Nat] /\ failures \in [Programs -> Nat]

DataOK ==
  /\ buffer \in [Programs -> [Cells -> Values]]
  /\ stream \in [Programs -> Seq(Values)]
  /\ printed \in [Programs -> [count : 0 .. Size, cells : [Cells -> Values]]]

TypeOK == ControlOK /\ OpOK /\ SendOK /\ DataOK

--------------------------------------------------------------------------------
(* When handlers start operations *)

\* The operation of a program whose handler starts the others
Opener(p) == IF p = "server" THEN "accept" ELSE "connect"

\* Where main() is, and what that says of its socket and of its handlers
Life(p) ==
  /\ Connection(p) \in io <=> main[p] \in {"start", "run", "close"}
  /\ main[p] \in Before =>
       p \notin stopped /\ sending[p] = 0 /\ failures[p] = 0 /\ \A k \in Ops : op[p][k] = "none"
  /\ main[p] \in {"close", "close_listener"} => p \in stopped
  /\ main[p] \in {"release", "exit"} => p \in stopped \/ \A k \in Ops : op[p][k] = "none"

\* No handler of program p has anything to start.
Through(p) == op[p][Opener(p)] \in {"none", "done"} /\ op[p]["recv"] \in {"none", "done"}

\* A handler that stops the core is the last that would start anything, unless what it
\* reports is the reset of the connection.
LastStop(p) ==
  /\ op[p]["recv"] # "none" => op[p][Opener(p)] = "done"
  /\ op[p]["disconnect"] # "none" => op[p]["recv"] # "none"
  /\ p \in stopped => net = "reset" \/ Through(p)
  /\ failures[p] > 0 => net = "reset"
  /\ \A k \in {"accept", "disconnect"} : Failed(p, k) => net = "reset"

CloseInv == NoUseAfterClose /\ \A p \in Programs : Life(p) /\ LastStop(p)

--------------------------------------------------------------------------------
(* What the buffers hold *)

\* Program p has received nothing.
Fresh(p) == printed[p].count = 0 /\ op[p]["recv"] \in {"none", "pending"}

\* A message has been received and its handler has not run.
Got(p) == op[p]["recv"] = "queued" /\ res[p]["recv"] \in Cells

\* Nothing but a part of its one message has left program p, from the start of it.
Prefix(p) ==
  /\ Len(stream[p]) <= Size
  /\ \A i \in 1 .. Len(stream[p]) : stream[p][i] = Message(p)[i]
  /\ sending[p] > 0 =>
       sending[p] = 1 /\ Len(stream[p]) = sent[p] /\ buffer[p] = Message(p)

Received(p, n) == \A i \in 1 .. n : buffer[p][i] = Message(Peer(p))[i]

Unsent == op["client"]["connect"] \in {"none", "pending", "queued"}

\* The client will send no more.
NoMore == stream["client"] = <<>> /\ sending["client"] = 0 /\ ~Unsent

CountInv ==
  \A p \in Programs :
    /\ sending[p] = 0 => sent[p] = 0
    /\ op[p]["recv"] = "started" => printed[p].count > 0

\* The client has one message, which the server answers after it has printed its own.
ClientInv ==
  /\ Unsent => /\ sending["client"] = 0 /\ stream["client"] = <<>>
               /\ \A i \in Cells : buffer["client"][i] = "zero"
  /\ printed["server"].count = 0 =>
       sending["server"] = 0 /\ stream["server"] = <<>> /\ printed["client"].count = 0 /\ ~Got("client")
  /\ Fresh("server") => Prefix("client")
  /\ Got("server") /\ printed["server"].count = 0 =>
       Received("server", res["server"]["recv"]) /\ (res["server"]["recv"] = Size => NoMore)

\* After a message that came in one piece the server's buffer is not written again.
WholeInv ==
  printed["server"].count = Size =>
    /\ NoMore /\ ~Got("server") /\ buffer["server"] = Message("server")
    /\ Fresh("client") => Prefix("server")
    /\ Got("client") /\ printed["client"].count = 0 => Received("client", res["client"]["recv"])

DataInv == CountInv /\ ClientInv /\ WholeInv /\ ReplyIntact

IInv == TypeOK /\ CloseInv /\ DataInv

--------------------------------------------------------------------------------
(* Types *)

\* A number of cells is none of the other things a result can be.
LEMMA ConstType ==
  /\ Size \in Nat /\ Size >= 1 /\ Text \in Nat /\ 1 <= Text /\ Text <= Size
  /\ Error \in 0 .. Error /\ 0 \in 0 .. Error /\ Cells \subseteq 0 .. Error
  /\ Error \notin Cells /\ 0 \notin Cells /\ Error # 0
BY EchoAssumption DEF Error, Cells

\* In the initial state the variables have their types.
LEMMA InitType == Init => TypeOK
<1> SUFFICES ASSUME Init PROVE TypeOK
  OBVIOUS
<1> USE DEF Init
<1>1. ControlOK
  BY DEF ControlOK, Before, Places
<1>2. OpOK
  BY ConstType DEF OpOK, Stages
<1>3. SendOK
  BY ConstType DEF SendOK
<1>4. DataOK
  BY ConstType DEF DataOK, Values
<1> QED
  BY <1>1, <1>2, <1>3, <1>4 DEF TypeOK

\* A step that leaves a group of variables alone leaves its types alone.
LEMMA Untouched ==
  ASSUME TypeOK
  PROVE  /\ UNCHANGED <<op, res>> => OpOK'
         /\ UNCHANGED sendVars => SendOK'
         /\ UNCHANGED <<buffer, stream, printed>> => DataOK'
         /\ UNCHANGED <<main, stopped, fin, late, io, freed, net>> => ControlOK'
<1>1. UNCHANGED <<op, res>> => OpOK'
  BY DEF TypeOK, OpOK
<1>2. UNCHANGED sendVars => SendOK'
  BY DEF TypeOK, SendOK, sendVars
<1>3. UNCHANGED <<buffer, stream, printed>> => DataOK'
  BY DEF TypeOK, DataOK
<1>4. UNCHANGED <<main, stopped, fin, late, io, freed, net>> => ControlOK'
  BY DEF TypeOK, ControlOK
<1> QED
  BY <1>1, <1>2, <1>3, <1>4

\* Every step of main() keeps the types.
LEMMA MainType ==
  ASSUME TypeOK, (\E p \in Programs : MainStep(p)) \/ ServerStep
  PROVE  TypeOK'
<1> USE DEF netVars, opVars
<1>1. ASSUME NEW p \in Programs, Setup(p) \/ Run(p) PROVE TypeOK'
  <2>1. ControlOK'
    BY ZenonT(60), <1>1 DEF TypeOK, ControlOK, Setup, Run, Goes, Fails, Before, Places, AllSockets
  <2> QED
    BY <1>1, <2>1, Untouched DEF Setup, Run, TypeOK
<1>2. ASSUME NEW p \in Programs, Start(p) PROVE TypeOK'
  <2>1. ControlOK'
    BY <1>2 DEF TypeOK, ControlOK, Start, Goes, Fails, Before, Places, AllSockets, Unlisten
  <2>2. OpOK'
    BY SMTT(60), <1>2 DEF TypeOK, OpOK, Start, Ops, Stages
  <2> QED
    BY SMTT(60), <1>2, <2>1, <2>2, Untouched DEF Start, TypeOK
<1>4. ASSUME NEW p \in Programs, Close(p) PROVE TypeOK'
  <2>1. ControlOK'
    BY ZenonT(60), <1>4 DEF TypeOK, ControlOK, Close, Goes, Fails, Before, Places, AllSockets
  <2> QED
    BY <1>4, <2>1, Untouched DEF Close, TypeOK
<1>5. ASSUME NEW p \in Programs, Release(p) PROVE TypeOK'
  <2>1. ControlOK'
    BY ZenonT(60), <1>5 DEF TypeOK, ControlOK, Release, Goes, Places, AllSockets
  <2>2. OpOK'
    BY <1>5 DEF TypeOK, OpOK, Release, Stages
  <2>3. SendOK'
    BY <1>5, ConstType DEF TypeOK, SendOK, Release
  <2> QED
    BY <1>5, <2>1, <2>2, <2>3, Untouched DEF Release, TypeOK
<1>6. CASE ServerStep
  <2>1. ControlOK'
    BY ZenonT(60), <1>6 DEF TypeOK, ControlOK, ServerStep, Bind, Listen, AcceptSocket, CloseListener,
                Goes, Fails, Before, Places, AllSockets, Programs, Unlisten
  <2> QED
    BY <1>6, <2>1, Untouched DEF ServerStep, Bind, Listen, AcceptSocket, CloseListener, TypeOK
<1> QED
  BY SMTT(60), <1>1, <1>2, <1>4, <1>5, <1>6 DEF MainStep

\* A completion keeps the types of the operations.
LEMMA CompletesType ==
  ASSUME TypeOK, NEW p \in Programs, NEW k \in Ops, NEW r \in 0 .. Error, Completes(p, k, r)
  PROVE  OpOK' /\ SendOK'
<1>1. OpOK'
  BY DEF Completes, TypeOK, OpOK, Stages
<1> QED
  BY <1>1, Untouched DEF Completes

\* Every completion keeps the types.
LEMMA CompletionType ==
  ASSUME TypeOK, Completion \/ Reset
  PROVE  TypeOK'
<1> USE DEF netVars, opVars
<1>1. CASE Connect \/ Accept \/ Disconnect
  <2>1. OpOK' /\ SendOK'
    BY <1>1, CompletesType, ConstType DEF Connect, Accept, Disconnect, Programs, Ops
  <2>2. ControlOK'
    BY ZenonT(60), <1>1 DEF TypeOK, ControlOK, Connect, Accept, Disconnect, Programs
  <2> QED
    BY <1>1, <2>1, <2>2, Untouched DEF Connect, Accept, Disconnect, TypeOK
<1>2. ASSUME NEW p \in Programs, Recv(p) PROVE TypeOK'
  <2>1. OpOK' /\ SendOK'
    BY <1>2, CompletesType, ConstType DEF Recv, Ops
  <2>2. DataOK'
    <3>1. Peer(p) \in Programs
      BY DEF Peer, Programs
    <3>2. CASE UNCHANGED <<buffer, stream>>
      BY SMTT(60), <3>2, <1>2, Untouched DEF Recv
    <3>3. ASSUME NEW n \in Cells, n <= Len(stream[Peer(p)]),
                 buffer' = [buffer EXCEPT ![p] =
                              [i \in Cells |-> IF i <= n THEN stream[Peer(p)][i] ELSE @[i]]],
                 stream' = [stream EXCEPT ![Peer(p)] =
                              SubSeq(stream[Peer(p)], n + 1, Len(stream[Peer(p)]))]
          PROVE  DataOK'
      <4>1. stream[Peer(p)] \in Seq(Values) /\ buffer[p] \in [Cells -> Values]
        BY <3>1 DEF TypeOK, DataOK
      <4>2. SubSeq(stream[Peer(p)], n + 1, Len(stream[Peer(p)])) \in Seq(Values)
        BY <4>1, ConstType DEF Cells
      <4>3. \A i \in Cells : i <= n => stream[Peer(p)][i] \in Values
        BY <4>1, <3>3, ConstType DEF Cells
      <4>4. buffer' \in [Programs -> [Cells -> Values]]
        BY <4>1, <4>3, <3>3 DEF TypeOK, DataOK
      <4> QED
        BY SMTT(60), <4>2, <4>4, <3>1, <3>3, <1>2 DEF TypeOK, DataOK, Recv
    <3> QED
      BY <1>2, <3>2, <3>3 DEF Recv
  <2>3. ControlOK'
    BY SMTT(60), <1>2 DEF TypeOK, ControlOK, Recv
  <2> QED
    BY <2>1, <2>2, <2>3 DEF TypeOK
<1>3. ASSUME NEW p \in Programs, Send(p) PROVE TypeOK'
  <2>1. SendOK'
    <3>0. sending \in [Programs -> Nat] /\ sent \in [Programs -> 0 .. Size - 1]
          /\ sends \in [Programs -> Nat] /\ failures \in [Programs -> Nat]
      BY DEF TypeOK, SendOK
    <3>1. sending' \in [Programs -> Nat]
      BY SMTT(60), <1>3, <3>0 DEF Send, sendVars
    <3>2. sent' \in [Programs -> 0 .. Size - 1]
      BY SMTT(60), <1>3, <3>0, ConstType DEF Send, sendVars
    <3>3. sends' \in [Programs -> Nat] /\ failures' \in [Programs -> Nat]
      BY SMTT(60), <1>3, <3>0 DEF Send, sendVars
    <3> QED
      BY <3>1, <3>2, <3>3 DEF SendOK
  <2>2. DataOK'
    <3>1. buffer[p][sent[p] + 1] \in Values /\ stream[p] \in Seq(Values)
      BY SMTT(60), ConstType DEF TypeOK, DataOK, SendOK, Cells
    <3>2. Append(stream[p], buffer[p][sent[p] + 1]) \in Seq(Values)
      BY <3>1
    <3> QED
      BY ZenonT(60), <3>2, <1>3 DEF TypeOK, DataOK, Send
  <2>3. ControlOK'
    BY <1>3 DEF TypeOK, ControlOK, Send
  <2> QED
    BY <1>3, <2>1, <2>2, <2>3, Untouched DEF Send, TypeOK
<1>4. CASE Reset
  <2>1. ControlOK'
    BY <1>4 DEF TypeOK, ControlOK, Reset
  <2> QED
    BY <1>4, <2>1, Untouched DEF Reset, TypeOK
<1> QED
  BY <1>1, <1>2, <1>3, <1>4 DEF Completion

\* What the updates of op are
LEMMA OpUpdates ==
  ASSUME OpOK, NEW p \in Programs, NEW h \in Ops, NEW k \in Ops, NEW v \in Stages, NEW w \in Stages
  PROVE  /\ [op EXCEPT ![p][h] = v] \in [Programs -> [Ops -> Stages]]
         /\ [op EXCEPT ![p] = [@ EXCEPT ![h] = v, ![k] = w]] \in [Programs -> [Ops -> Stages]]
         /\ [res EXCEPT ![p][k] = 0] \in [Programs -> [Ops -> 0 .. Error]]
<1>1. op[p] \in [Ops -> Stages] /\ res[p] \in [Ops -> 0 .. Error]
  BY DEF OpOK
<1>2. [op[p] EXCEPT ![h] = v] \in [Ops -> Stages]
  BY <1>1
<1>3. [op[p] EXCEPT ![h] = v, ![k] = w] \in [Ops -> Stages]
  BY <1>1
<1>4. [res[p] EXCEPT ![k] = 0] \in [Ops -> 0 .. Error]
  BY <1>1, ConstType
<1> QED
  BY <1>2, <1>3, <1>4 DEF OpOK

\* A handler keeps the types of the operations and of the control, whatever it starts.
LEMMA StartsType ==
  ASSUME TypeOK, NEW p \in Programs, NEW h \in Ops
  PROVE  /\ StartFails(p, h) => OpOK' /\ SendOK' /\ stopped' \subseteq Programs /\ late' \subseteq Programs
         /\ op' = [op EXCEPT ![p][h] = "done"] /\ UNCHANGED <<res, sendVars>> => OpOK' /\ SendOK'
         /\ Stops(p, h) => OpOK' /\ SendOK' /\ stopped' \subseteq Programs /\ late' \subseteq Programs
         /\ \A k \in Ops, next \in Stages :
              Starts(p, h, next, k) => OpOK' /\ SendOK' /\ stopped' \subseteq Programs /\ late' \subseteq Programs
         /\ CopiesAndSends(p, h) =>
              /\ OpOK' /\ SendOK' /\ stopped' \subseteq Programs /\ late' \subseteq Programs
              /\ buffer' \in [Programs -> [Cells -> Values]]
<1> DEFINE Done == op' = [op EXCEPT ![p][h] = "done"] /\ UNCHANGED <<res, sendVars>>
<1>1. Done => OpOK' /\ SendOK'
  BY Untouched DEF TypeOK, OpOK, Stages
<1>2. stopped \subseteq Programs /\ late \subseteq Programs
  BY DEF TypeOK, ControlOK
<1>3. StartFails(p, h) => OpOK' /\ SendOK' /\ stopped' \subseteq Programs /\ late' \subseteq Programs
  BY <1>1, <1>2 DEF StartFails
<1>4. Stops(p, h) => OpOK' /\ SendOK' /\ stopped' \subseteq Programs /\ late' \subseteq Programs
  BY <1>1, <1>2 DEF Stops
<1>5. ASSUME NEW k \in Ops, NEW next \in Stages, Starts(p, h, next, k)
      PROVE  OpOK' /\ SendOK' /\ stopped' \subseteq Programs /\ late' \subseteq Programs
  <2>1. CASE StartFails(p, h)
    BY <2>1, <1>3
  <2>2. CASE ~StartFails(p, h)
    <3>0. OpOK /\ "pending" \in Stages
      BY DEF TypeOK, Stages
    <3>1. OpOK'
      <4>1. [op EXCEPT ![p] = [@ EXCEPT ![h] = next, ![k] = "pending"]] \in [Programs -> [Ops -> Stages]]
            /\ [res EXCEPT ![p][k] = 0] \in [Programs -> [Ops -> 0 .. Error]]
        BY ONLY <3>0, OpUpdates, p \in Programs, h \in Ops, k \in Ops, next \in Stages
      <4> QED
        BY SMTT(60), <4>1, <1>5, <2>2 DEF Starts, OpOK
    <3> QED
      BY <1>5, <2>2, <1>2, <3>1, Untouched DEF Starts
  <2> QED
    BY <2>1, <2>2
<1>6. ASSUME CopiesAndSends(p, h)
      PROVE  /\ OpOK' /\ SendOK' /\ stopped' \subseteq Programs /\ late' \subseteq Programs
             /\ buffer' \in [Programs -> [Cells -> Values]]
  <2>1. buffer' \in [Programs -> [Cells -> Values]]
    BY <1>6 DEF CopiesAndSends, TypeOK, DataOK, Values
  <2>2. CASE StartFails(p, h)
    BY <2>1, <2>2, <1>3
  <2>3. CASE ~StartFails(p, h)
    <3>0. OpOK /\ "started" \in Stages
      BY DEF TypeOK, Stages
    <3>1. OpOK'
      <4>1. [op EXCEPT ![p][h] = "started"] \in [Programs -> [Ops -> Stages]]
        BY ONLY ZenonT(60), <3>0, OpUpdates, p \in Programs, h \in Ops
      <4> QED
        BY ZenonT(60), <4>1, <3>0, <1>6, <2>3 DEF CopiesAndSends, OpOK
    <3>2. SendOK'
      BY <1>6, <2>3 DEF CopiesAndSends, TypeOK, SendOK
    <3> QED
      BY <1>6, <2>3, <2>1, <1>2, <3>1, <3>2 DEF CopiesAndSends
  <2> QED
    BY <2>2, <2>3
<1> QED
  BY <1>1, <1>3, <1>4, <1>5, <1>6

\* Every handler keeps the types.
LEMMA HandlerType ==
  ASSUME TypeOK, Handler
  PROVE  TypeOK'
<1> USE DEF netVars, opVars
<1>1. ASSUME UNCHANGED <<main, io, netVars, freed>>, OpOK', SendOK', stopped' \subseteq Programs,
             late' \subseteq Programs, buffer' \in [Programs -> [Cells -> Values]],
             printed' \in [Programs -> [count : 0 .. Size, cells : [Cells -> Values]]]
      PROVE  TypeOK'
  BY <1>1 DEF TypeOK, ControlOK, DataOK
<1>2. stopped \subseteq Programs /\ late \subseteq Programs /\ buffer \in [Programs -> [Cells -> Values]]
      /\ printed \in [Programs -> [count : 0 .. Size, cells : [Cells -> Values]]]
  BY DEF TypeOK, ControlOK, DataOK
<1>3. "server" \in Programs /\ "client" \in Programs /\ Ops = {"accept", "connect", "recv", "disconnect"}
      /\ "done" \in Stages /\ "pending" \in Stages /\ "started" \in Stages
  BY DEF Programs, Ops, Stages
<1>4. CASE on_accept_complete
  BY SMTT(60), <1>1, <1>2, <1>3, <1>4, StartsType DEF on_accept_complete, Stops
<1>5. CASE on_connect_complete
  BY SMTT(60), <1>1, <1>2, <1>3, <1>5, StartsType DEF on_connect_complete, Stops
<1>6. CASE on_disconnect_complete
  <2>1. OpOK' /\ SendOK'
    BY <1>3, <1>6, StartsType DEF on_disconnect_complete
  <2> QED
    BY SMTT(60), <1>1, <1>2, <1>3, <1>6, <2>1 DEF on_disconnect_complete, Stops
<1>7. ASSUME NEW p \in Programs, on_recv_complete(p) PROVE TypeOK'
  <2>1. CASE ~Prints(p)
    BY SMTT(60), <1>1, <1>2, <1>3, <1>7, <2>1, StartsType DEF on_recv_complete, Stops, ServerReplies, ClientDisconnects, Programs
  <2>2. CASE res[p]["recv"] \in Cells /\ Prints(p)
    <3>1. printed' \in [Programs -> [count : 0 .. Size, cells : [Cells -> Values]]]
      BY SMTT(60), <1>2, <2>2, ConstType DEF Prints, Cells
    <3>2. OpOK' /\ SendOK' /\ stopped' \subseteq Programs /\ late' \subseteq Programs
      BY SMTT(60), <1>2, <1>3, <1>7, StartsType DEF on_recv_complete, ServerReplies, ClientDisconnects
    <3>3. buffer' \in [Programs -> [Cells -> Values]]
      BY <1>2, <1>3, <1>7, StartsType DEF on_recv_complete, Stops, ServerReplies, ClientDisconnects
    <3> QED
      BY SMTT(60), <1>1, <1>7, <3>1, <3>2, <3>3 DEF on_recv_complete
  <2>3. CASE res[p]["recv"] \notin Cells \/ UNCHANGED printed
    BY SMTT(60), <1>1, <1>2, <1>3, <1>7, <2>3, StartsType DEF on_recv_complete, Stops, ServerReplies, ClientDisconnects
  <2> QED
    BY SMTT(60), <2>1, <2>2, <2>3
<1>8. ASSUME NEW p \in Programs, on_send_complete(p) PROVE TypeOK'
  <2>1. SendOK'
    BY <1>8 DEF on_send_complete, TypeOK, SendOK
  <2>2. OpOK'
    BY <1>8, Untouched DEF on_send_complete
  <2> QED
    BY SMTT(60), <1>1, <1>2, <1>8, <2>1, <2>2 DEF on_send_complete
<1> QED
  BY <1>4, <1>5, <1>6, <1>7, <1>8 DEF Handler

\* The types are kept.
LEMMA NextType == TypeOK /\ [Next]_vars => TypeOK'
<1> SUFFICES ASSUME TypeOK, [Next]_vars PROVE TypeOK'
  OBVIOUS
<1>1. CASE UNCHANGED vars
  BY <1>1, Untouched DEF vars, opVars, netVars, TypeOK
<1> QED
  BY <1>1, MainType, CompletionType, HandlerType DEF Next

--------------------------------------------------------------------------------
(* When handlers start operations *)

\* In the initial state there is nothing to stop or to close.
LEMMA InitClose == Init => CloseInv
<1> SUFFICES ASSUME Init PROVE CloseInv
  OBVIOUS
<1>1. NoUseAfterClose
  BY SMTT(60) DEF Init, NoUseAfterClose
<1>2. ASSUME NEW p \in Programs PROVE Life(p) /\ LastStop(p)
  BY SMTT(60) DEF Init, Life, LastStop, Failed, Programs, Ops, Before, Opener, Through
<1> QED
  BY <1>1, <1>2 DEF CloseInv

\* A step that concerns neither the operations nor the socket of a program.
LEMMA OthersClose ==
  ASSUME TypeOK, NEW q \in Programs, Life(q), LastStop(q),
         main'[q] = main[q], q \in stopped' <=> q \in stopped, op'[q] = op[q], res'[q] = res[q],
         sending'[q] = sending[q], failures'[q] = failures[q],
         Connection(q) \in io' <=> Connection(q) \in io,
         net = "reset" => net' = "reset"
  PROVE  Life(q)' /\ LastStop(q)'
BY DEF Life, LastStop, Failed, Through, Connection, On, Opener

\* While a handler has something to start, main() has not closed the socket, and nobody
\* has stopped the core, unless the connection is reset.
LEMMA StillOpen ==
  ASSUME TypeOK, NEW p \in Programs, Life(p), LastStop(p), NEW h \in {Opener(p), "recv"},
         op[p][h] \in {"queued", "started", "pending"}, net # "reset"
  PROVE  Connection(p) \in io /\ p \notin stopped
<1>1. p \notin stopped
  BY DEF LastStop, Through, Opener
<1>2. main[p] \in Places /\ h \in Ops
  BY SMTT(60) DEF TypeOK, ControlOK, Opener, Ops
<1> QED
  BY <1>1, <1>2 DEF Life, Places

\* Steps of main() keep the invariant.
LEMMA MainClose ==
  ASSUME TypeOK, CloseInv, (\E p \in Programs : MainStep(p)) \/ ServerStep
  PROVE  CloseInv'
<1> USE DEF netVars, opVars, sendVars
<1> DEFINE Quiet(q) == /\ main'[q] = main[q] /\ (q \in stopped' <=> q \in stopped)
                       /\ op'[q] = op[q] /\ res'[q] = res[q]
                       /\ sending'[q] = sending[q] /\ failures'[q] = failures[q]
                       /\ (Connection(q) \in io' <=> Connection(q) \in io)
<1>1. ASSUME NEW p \in Programs, MainStep(p)
      PROVE  /\ net = "reset" => net' = "reset"
             /\ \A q \in Programs \ {p} : Quiet(q)
             /\ NoUseAfterClose'
             /\ Life(p)' /\ LastStop(p)'
  <2>1. net = "reset" => net' = "reset"
    BY <1>1 DEF MainStep, Setup, Start, Run, Close, Release, Unlisten
  <2>2. ASSUME NEW q \in Programs \ {p} PROVE Quiet(q)
    BY ZenonT(60), <1>1 DEF MainStep, Setup, Start, Run, Close, Release, Unlisten, Connection, On, SocketsOf, Programs,
                Goes, Fails, TypeOK, ControlOK, OpOK, SendOK
  <2>3. NoUseAfterClose'
    BY ZenonT(60), <1>1, <2>1 DEF MainStep, Setup, Start, Run, Close, Release, NoUseAfterClose, CloseInv, Life,
                Connection, On, SocketsOf, Programs
  <2>4. Life(p)'
    <3>1. Life(p) /\ main \in [Programs -> Places]
      BY DEF CloseInv, TypeOK, ControlOK
    <3>2. CASE Setup(p) \/ Start(p)
      BY SMTT(60), <3>1, <3>2 DEF Setup, Start, Life, Goes, Fails, Before, Connection, On, SocketsOf, Programs
    <3>3. CASE Run(p) \/ Close(p)
      BY SMTT(60), <3>1, <3>3 DEF Run, Close, Life, Goes, Fails, Before, Connection, On, Programs
    <3>4. CASE Release(p)
      BY <3>1, <3>4 DEF Release, Life, Goes, Before, Connection, On, SocketsOf, Programs, TypeOK, OpOK
    <3> QED
      BY <1>1, <3>2, <3>3, <3>4 DEF MainStep
  <2>5. LastStop(p)'
    <3>1. LastStop(p) /\ Life(p)
      BY SMTT(60) DEF CloseInv
    <3>2. CASE Setup(p) \/ Run(p) \/ Close(p)
      BY SMTT(60), <3>1, <3>2 DEF Setup, Run, Close, LastStop, Through, Opener, Failed
    <3>3. CASE Start(p)
      BY SMTT(60), <3>1, <3>3 DEF Start, LastStop, Life, Through, Opener, Failed, Before, TypeOK, OpOK, Ops
    <3>4. CASE Release(p)
      BY SMTT(60), <3>1, <3>4 DEF Release, LastStop, Through, Opener, Failed, TypeOK, OpOK, SendOK, Ops
    <3> QED
      BY <1>1, <3>2, <3>3, <3>4 DEF MainStep
  <2> QED
    BY SMTT(60), <2>1, <2>2, <2>3, <2>4, <2>5
<1>2. CASE ServerStep
  <2>1. net = "reset" => net' = "reset"
    BY ZenonT(60), <1>2 DEF ServerStep, Bind, Listen, AcceptSocket, CloseListener, Unlisten
  <2>2. Quiet("client")
    BY ZenonT(60), <1>2 DEF ServerStep, Bind, Listen, AcceptSocket, CloseListener, Connection, On, Programs,
                Goes, Fails, TypeOK, ControlOK
  <2>3. NoUseAfterClose'
    BY ZenonT(60), <1>2, <2>1 DEF ServerStep, Bind, Listen, AcceptSocket, CloseListener, NoUseAfterClose, CloseInv
  <2>4. Life("server")'
    BY SMTT(60), <1>2 DEF ServerStep, Bind, Listen, AcceptSocket, CloseListener, Life, CloseInv, Goes, Fails, Before,
                Connection, On, Programs, TypeOK, ControlOK
  <2>5. LastStop("server")'
    BY ZenonT(60), <1>2, <2>1 DEF ServerStep, Bind, Listen, AcceptSocket, CloseListener, LastStop, CloseInv, Through, Opener,
                Failed, Programs
  <2> QED
    BY ZenonT(60), <2>1, <2>2, <2>3, <2>4, <2>5, OthersClose DEF CloseInv, Programs
<1> QED
  BY ZenonT(60), <1>1, <1>2, OthersClose DEF CloseInv

\* Completions keep the invariant.
LEMMA CompletionClose ==
  ASSUME TypeOK, CloseInv, Completion \/ Reset
  PROVE  CloseInv'
<1> USE DEF netVars, opVars, sendVars
<1>1. UNCHANGED <<main, stopped, io, late, freed>> /\ (net = "reset" => net' = "reset")
  BY ZenonT(60) DEF Completion, Connect, Accept, Disconnect, Recv, Send, Reset
<1>2. NoUseAfterClose'
  BY <1>1 DEF NoUseAfterClose, CloseInv
<1>3. ASSUME NEW p \in Programs, NEW k \in Ops, NEW r \in 0 .. Error, Completes(p, k, r), op[p][k] = "pending",
             r = Error /\ k \in {"accept", "disconnect"} => net' = "reset"
      PROVE  \A q \in Programs : Life(q)' /\ LastStop(q)'
  <2>1. \A q \in Programs \ {p} : op'[q] = op[q] /\ res'[q] = res[q]
    BY <1>3 DEF Completes, TypeOK, OpOK
  <2>2. /\ op'[p][k] = "queued" /\ res'[p][k] = r
        /\ \A l \in Ops \ {k} : op'[p][l] = op[p][l] /\ res'[p][l] = res[p][l]
    BY SMTT(60), <1>3 DEF Completes, TypeOK, OpOK
  <2>3. Life(p)'
    BY SMTT(60), <1>1, <1>3, <2>2 DEF Life, CloseInv, Connection, On
  <2>4. LastStop(p)'
    BY <1>1, <1>3, <2>2 DEF LastStop, CloseInv, Completes, Failed, Through, Opener, Ops
  <2> QED
    BY SMTT(60), <1>1, <1>3, <2>1, <2>3, <2>4, OthersClose DEF CloseInv, Completes
<1>4. CASE Connect \/ Accept \/ Disconnect
  <2>1. "client" \in Programs /\ "server" \in Programs /\ {"connect", "accept", "disconnect"} \subseteq Ops
    BY SMTT(60) DEF Programs, Ops
  <2>2. CASE Connect
    BY SMTT(60), <1>2, <1>3, <2>1, <2>2, ConstType DEF Connect, CloseInv
  <2>3. CASE Accept
    BY SMTT(60), <1>2, <1>3, <2>1, <2>3, ConstType DEF Accept, CloseInv
  <2>4. CASE Disconnect
    BY SMTT(60), <1>2, <1>3, <2>1, <2>4, ConstType DEF Disconnect, CloseInv
  <2> QED
    BY <1>4, <2>2, <2>3, <2>4
<1>5. ASSUME NEW p \in Programs, Recv(p) PROVE CloseInv'
  BY <1>2, <1>3, <1>5, ConstType DEF Recv, Ops, CloseInv
<1>6. ASSUME NEW p \in Programs, Send(p) PROVE CloseInv'
  <2>1. UNCHANGED <<op, res>> /\ \A q \in Programs :
          \/ sending'[q] = sending[q] /\ failures'[q] = failures[q]
          \/ sending[q] > 0 /\ (failures'[q] = failures[q] \/ net' = "reset")
    BY SMTT(60), <1>6 DEF Send, TypeOK, SendOK
  <2>2. ASSUME NEW q \in Programs PROVE Life(q)' /\ LastStop(q)'
    BY SMTT(60), <1>1, <2>1 DEF CloseInv, Life, LastStop, Failed, Through, Connection, On, Opener
  <2> QED
    BY SMTT(60), <1>2, <2>2 DEF CloseInv
<1>7. CASE Reset
  BY SMTT(60), <1>1, <1>2, <1>7, OthersClose DEF Reset, CloseInv
<1> QED
  BY SMTT(60), <1>4, <1>5, <1>6, <1>7 DEF Completion

\* What a handler of program p has to keep
LEMMA HandlerFrame ==
  ASSUME TypeOK, CloseInv, NEW p \in Programs, NEW k \in Ops, op[p][k] # "none",
         UNCHANGED <<main, io, net, freed>>,
         \A q \in Programs \ {p} :
           op'[q] = op[q] /\ res'[q] = res[q] /\ sending'[q] = sending[q] /\ failures'[q] = failures[q],
         stopped' \in {stopped, stopped \cup {p}},
         late' = late \/ net = "reset",
         LastStop(p)'
  PROVE  CloseInv'
<1>1. NoUseAfterClose'
  BY DEF CloseInv, NoUseAfterClose
<1>2. Life(p)'
  BY ZenonT(60) DEF CloseInv, Life, Connection, On
<1>3. \A q \in Programs \ {p} : Life(q)' /\ LastStop(q)'
  BY ZenonT(60), OthersClose DEF CloseInv
<1> QED
  BY SMTT(60), <1>1, <1>2, <1>3 DEF CloseInv

\* The handler of the accept, the connect or the receive is through: it stops the core, it
\* cannot start another operation, or it has nothing more to do.
LEMMA EndsClose ==
  ASSUME TypeOK, CloseInv, NEW p \in Programs, NEW h \in {Opener(p), "recv"},
         op[p][h] \in {"queued", "started"}, UNCHANGED <<main, io, net, freed>>,
         op' = [op EXCEPT ![p][h] = "done"], UNCHANGED <<res, sendVars>>,
         stopped' \in {stopped, stopped \cup {p}}, late' = late \/ Connection(p) \notin io
  PROVE  CloseInv'
<1>1. h \in Ops /\ Opener(p) \in Ops /\ op[p] \in [Ops -> Stages] /\ Life(p) /\ LastStop(p)
  BY DEF Opener, Ops, TypeOK, OpOK, CloseInv
<1>2. op'[p] = [op[p] EXCEPT ![h] = "done"] /\ \A q \in Programs \ {p} : op'[q] = op[q]
  BY DEF TypeOK, OpOK
<1>3. Through(p)'
  BY SMTT(60), <1>1, <1>2 DEF Through, LastStop, Opener, Ops
<1>4. LastStop(p)'
  BY <1>1, <1>2, <1>3 DEF LastStop, Failed, Opener, Ops, sendVars
<1>5. late' = late \/ net = "reset"
  BY <1>1, StillOpen
<1> QED
  BY SMTT(60), <1>1, <1>2, <1>4, <1>5, HandlerFrame DEF sendVars

\* A handler that starts the operation it goes on to
LEMMA StartsClose ==
  ASSUME TypeOK, CloseInv, NEW p \in Programs, NEW h \in {Opener(p), "recv"},
         op[p][h] \in {"queued", "started"}, UNCHANGED <<main, io, net, freed>>,
         NEW next, NEW k, Starts(p, h, next, k),
         \/ h = Opener(p) /\ next = "done" /\ k = "recv"
         \/ h = "recv" /\ next = "started" /\ k = "disconnect"
         \/ h = "recv" /\ next = "pending" /\ k = "recv"
  PROVE  CloseInv'
<1>1. h \in Ops /\ Opener(p) \in Ops /\ op[p] \in [Ops -> Stages] /\ Life(p) /\ LastStop(p)
  BY DEF Opener, Ops, TypeOK, OpOK, CloseInv
<1>2. CASE StartFails(p, h)
  BY ZenonT(60), <1>2, EndsClose DEF StartFails
<1>3. CASE ~StartFails(p, h)
  <2>1. op' = [op EXCEPT ![p] = [@ EXCEPT ![h] = next, ![k] = "pending"]] /\ res' = [res EXCEPT ![p][k] = 0]
        /\ UNCHANGED <<sendVars, stopped, late>>
    BY <1>3 DEF Starts
  <2>2. op'[p] = [op[p] EXCEPT ![h] = next, ![k] = "pending"]
        /\ \A q \in Programs \ {p} : op'[q] = op[q] /\ res'[q] = res[q]
    BY <2>1 DEF TypeOK, OpOK
  <2>3. res[p] \in [Ops -> 0 .. Error] /\ res'[p] = [res[p] EXCEPT ![k] = 0]
    BY SMTT(60), <2>1 DEF TypeOK, OpOK
  <2>4. p \in stopped => net = "reset"
    BY SMTT(60), <1>1, StillOpen
  <2>5. LastStop(p)'
    BY <1>1, <2>1, <2>2, <2>3, <2>4 DEF LastStop, Failed, Opener, Ops, sendVars
  <2> QED
    BY SMTT(60), <1>1, <2>1, <2>2, <2>5, HandlerFrame DEF sendVars
<1> QED
  BY <1>2, <1>3

\* A handler that sends its program's string
LEMMA SendsClose ==
  ASSUME TypeOK, CloseInv, NEW p \in Programs, NEW h \in {Opener(p), "recv"},
         op[p][h] = "queued", UNCHANGED <<main, io, net, freed>>, CopiesAndSends(p, h)
  PROVE  CloseInv'
<1>1. h \in Ops /\ Opener(p) \in Ops /\ op[p] \in [Ops -> Stages] /\ Life(p) /\ LastStop(p)
  BY DEF Opener, Ops, TypeOK, OpOK, CloseInv
<1>2. CASE StartFails(p, h)
  BY ZenonT(60), <1>2, EndsClose DEF StartFails
<1>3. CASE ~StartFails(p, h)
  <2>1. op' = [op EXCEPT ![p][h] = "started"] /\ UNCHANGED <<res, failures, stopped, late>>
        /\ sending' = [sending EXCEPT ![p] = @ + 1] /\ sending \in [Programs -> Nat]
    BY <1>3 DEF CopiesAndSends, TypeOK, SendOK
  <2>2. op'[p] = [op[p] EXCEPT ![h] = "started"] /\ \A q \in Programs \ {p} : op'[q] = op[q]
    BY SMTT(60), <2>1 DEF TypeOK, OpOK
  <2>3. p \in stopped => net = "reset"
    BY SMTT(60), <1>1, StillOpen
  <2>4. LastStop(p)'
    BY <1>1, <2>1, <2>2, <2>3 DEF LastStop, Failed, Opener, Ops
  <2> QED
    BY SMTT(60), <1>1, <2>1, <2>2, <2>4, HandlerFrame
<1> QED
  BY SMTT(60), <1>2, <1>3

\* Handlers keep the invariant.
LEMMA HandlerClose ==
  ASSUME TypeOK, CloseInv, Handler
  PROVE  CloseInv'
<1> USE DEF netVars
<1>0. /\ "server" \in Programs /\ "client" \in Programs
      /\ Opener("server") = "accept" /\ Opener("client") = "connect"
  BY SMTT(60) DEF Programs, Opener
<1>1. CASE on_accept_complete
  BY SMTT(60), <1>0, <1>1, EndsClose, StartsClose DEF on_accept_complete, Stops
<1>2. CASE on_connect_complete
  BY SMTT(60), <1>0, <1>2, EndsClose, StartsClose, SendsClose DEF on_connect_complete, Stops, Failed
<1>3. ASSUME NEW p \in Programs, on_recv_complete(p) PROVE CloseInv'
  <2>1. UNCHANGED <<main, io, net, freed>>
    BY <1>3 DEF on_recv_complete
  <2>2. CASE Stops(p, "recv")
    BY ZenonT(60), <1>3, <2>1, <2>2, EndsClose DEF on_recv_complete, Stops
  <2>3. CASE op[p]["recv"] = "queued" /\ p = "server" /\ ServerReplies
    BY SMTT(60), <2>1, <2>3, SendsClose DEF ServerReplies
  <2>4. CASE op[p]["recv"] = "queued" /\ p = "client" /\ ClientDisconnects
    BY <2>1, <2>4, EndsClose, StartsClose DEF ClientDisconnects
  <2>5. CASE op[p]["recv"] = "started" /\ Starts(p, "recv", "pending", "recv")
    BY <2>1, <2>5, StartsClose
  <2> QED
    BY SMTT(60), <1>3, <2>2, <2>3, <2>4, <2>5 DEF on_recv_complete, Programs
<1>4. CASE on_disconnect_complete
  <2>1. "client" \in Programs /\ op \in [Programs -> [Ops -> Stages]] /\ LastStop("client")
    BY <1>0 DEF TypeOK, OpOK, CloseInv
  <2>2. op' = [op EXCEPT !["client"]["disconnect"] = "done"] /\ UNCHANGED <<main, io, net, freed, res, sendVars, late>>
        /\ op["client"]["disconnect"] = "queued" /\ (stopped' = stopped \/ (stopped' = stopped \cup {"client"} /\ net = "reset"))
    <3>1. Failed("client", "disconnect") => net = "reset"
      BY SMTT(60), <2>1 DEF LastStop
    <3> QED
      BY <1>4, <3>1 DEF on_disconnect_complete, Stops
  <2>3. LastStop("client")'
    BY <1>0, <2>1, <2>2 DEF LastStop, Through, Failed, Ops, sendVars
  <2> QED
    BY <2>1, <2>2, <2>3, HandlerFrame DEF Ops, sendVars
<1>5. ASSUME NEW p \in Programs, on_send_complete(p) PROVE CloseInv'
  <2>1. failures \in [Programs -> Nat] /\ UNCHANGED <<main, io, net, freed, op, res, sending, late>>
    BY <1>5 DEF on_send_complete, TypeOK, SendOK
  <2>2. /\ \A q \in Programs : failures'[q] = failures[q] \/ (q = p /\ failures[p] > 0)
        /\ stopped' = stopped \/ (stopped' = stopped \cup {p} /\ failures[p] > 0)
    BY SMTT(60), <1>5, <2>1 DEF on_send_complete
  <2>3. stopped' = stopped \/ (stopped' = stopped \cup {p} /\ net = "reset")
    BY SMTT(60), <2>2 DEF CloseInv, LastStop
  <2>4. LastStop(p)'
    BY SMTT(60), <2>1, <2>2, <2>3 DEF CloseInv, LastStop, Through, Failed, Opener
  <2>5. Life(p)'
    BY <2>1, <2>2, <2>3 DEF CloseInv, Life, Connection, On
  <2> QED
    <3>1. \A q \in Programs \ {p} : failures'[q] = failures[q]
      BY SMTT(60), <2>2
    <3>2. \A q \in Programs \ {p} : Life(q)' /\ LastStop(q)'
      BY SMTT(60), <2>1, <2>3, <3>1, OthersClose DEF CloseInv
    <3> QED
      BY SMTT(60), <2>1, <2>4, <2>5, <3>2 DEF CloseInv, NoUseAfterClose
<1> QED
  BY <1>1, <1>2, <1>3, <1>4, <1>5 DEF Handler

\* Both are kept together.
LEMMA NextClose == TypeOK /\ CloseInv /\ [Next]_vars => CloseInv'
<1> SUFFICES ASSUME TypeOK, CloseInv, [Next]_vars PROVE CloseInv'
  OBVIOUS
<1>1. CASE UNCHANGED vars
  <2>1. UNCHANGED <<main, stopped, io, op, res, sending, failures, net, late, freed>>
    BY SMTT(60), <1>1 DEF vars, opVars, sendVars, netVars
  <2>2. \A q \in Programs : Life(q)' /\ LastStop(q)'
    BY <2>1, OthersClose DEF CloseInv
  <2> QED
    BY <2>1, <2>2 DEF CloseInv, NoUseAfterClose
<1> QED
  BY <1>1, MainClose, CompletionClose, HandlerClose DEF Next

(***************************************************************************)
(* For every size of the buffers, and whichever calls fail: no handler of  *)
(* the echo programs starts an operation on a socket that main() has       *)
(* closed, unless the connection is reset.                                 *)
(***************************************************************************)
THEOREM EchoClosesLast == Spec => []NoUseAfterClose
<1>1. Init => TypeOK /\ CloseInv
  BY InitType, InitClose
<1>2. TypeOK /\ CloseInv /\ [Next]_vars => (TypeOK /\ CloseInv)'
  BY NextType, NextClose
<1>3. CloseInv => NoUseAfterClose
  BY DEF CloseInv
<1> QED
  BY <1>1, <1>2, <1>3, PTL DEF Spec

--------------------------------------------------------------------------------
(* What the buffers hold *)

\* Nothing has been sent or received initially.
LEMMA InitData == Init => DataInv
<1> SUFFICES ASSUME Init PROVE DataInv
  OBVIOUS
<1>1. CountInv
  BY DEF Init, CountInv, Programs, Ops
<1>2. /\ printed["server"] = [count |-> 0, cells |-> [i \in Cells |-> "zero"]]
      /\ printed["client"] = [count |-> 0, cells |-> [i \in Cells |-> "zero"]]
      /\ op["client"]["recv"] = "none" /\ op["server"]["recv"] = "none"
      /\ stream["client"] = <<>> /\ stream["server"] = <<>> /\ sending["client"] = 0 /\ sending["server"] = 0
      /\ \A i \in Cells : buffer["client"][i] = "zero"
  BY SMTT(60) DEF Init, Programs, Ops
<1>3. ClientInv
  BY SMTT(60), <1>2, ConstType DEF ClientInv, Got, Prefix
<1>4. WholeInv /\ ReplyIntact
  BY <1>2, ConstType DEF WholeInv, ReplyIntact
<1> QED
  BY SMTT(60), <1>1, <1>3, <1>4 DEF DataInv

\* A step that moves no data: nothing is received, at most a send is given up.
DataQuiet ==
  /\ UNCHANGED <<buffer, stream, printed>>
  /\ Unsent' => Unsent
  /\ \A p \in Programs :
       /\ Fresh(p)' => Fresh(p)
       /\ Got(p)' => Got(p) /\ res'[p]["recv"] = res[p]["recv"]
       /\ op'[p]["recv"] = "started" => op[p]["recv"] = "started"
       /\ \/ sending'[p] = sending[p] /\ sent'[p] = sent[p]
          \/ sending'[p] = 0 /\ sent'[p] = 0
          \/ sending[p] > 1 /\ sent'[p] = 0

\* Such a step keeps what is known of the buffers and of what is on its way.
LEMMA QuietData ==
  ASSUME TypeOK, DataInv, DataQuiet
  PROVE  DataInv'
<1>0. "client" \in Programs /\ "server" \in Programs
  BY SMTT(60) DEF Programs
<1>1. CountInv'
  BY SMTT(60) DEF DataInv, CountInv, DataQuiet, TypeOK, SendOK
<1>2. ASSUME NEW p \in Programs, Prefix(p) PROVE Prefix(p)'
  BY SMTT(60), <1>2 DEF DataQuiet, Prefix, TypeOK, SendOK
<1>3. NoMore => NoMore'
  BY <1>0 DEF DataQuiet, NoMore
<1>4. \A p \in Programs, n \in Nat : Received(p, n) => Received(p, n)'
  BY ZenonT(60) DEF DataQuiet, Received
<1>5. \A p \in Programs : Got(p)' => res'[p]["recv"] \in Nat
  BY ConstType DEF Got, Cells
<1>6. ClientInv'
  <2>0. printed' = printed /\ buffer' = buffer /\ stream' = stream /\ ClientInv
    BY SMTT(60) DEF DataQuiet, DataInv
  <2>1. Unsent' => /\ sending'["client"] = 0 /\ stream'["client"] = <<>>
                   /\ \A i \in Cells : buffer'["client"][i] = "zero"
    BY SMTT(60), <1>0, <2>0 DEF ClientInv, DataQuiet
  <2>2. printed'["server"].count = 0 =>
          sending'["server"] = 0 /\ stream'["server"] = <<>> /\ printed'["client"].count = 0 /\ ~Got("client")'
    BY <1>0, <2>0 DEF ClientInv, DataQuiet
  <2>3. Fresh("server")' => Prefix("client")'
    BY ZenonT(60), <1>0, <1>2, <2>0 DEF ClientInv, DataQuiet
  <2>4. Got("server")' /\ printed'["server"].count = 0 =>
          Received("server", res["server"]["recv"])' /\ (res'["server"]["recv"] = Size => NoMore')
    <3> SUFFICES ASSUME Got("server")', printed'["server"].count = 0
                 PROVE  Received("server", res["server"]["recv"])' /\ (res'["server"]["recv"] = Size => NoMore')
      OBVIOUS
    <3>1. Got("server") /\ res'["server"]["recv"] = res["server"]["recv"]
      BY ZenonT(60), <1>0 DEF DataQuiet
    <3>2. Received("server", res["server"]["recv"]) /\ (res["server"]["recv"] = Size => NoMore)
      BY <2>0, <3>1 DEF ClientInv
    <3>3. Received("server", res["server"]["recv"])'
      BY ZenonT(60), <2>0, <3>1, <3>2 DEF Received, Message, Cells
    <3> QED
      BY SMTT(60), <1>3, <3>1, <3>2, <3>3
  <2> QED
    BY ZenonT(60), <2>1, <2>2, <2>3, <2>4 DEF ClientInv
<1>7. WholeInv'
  <2> SUFFICES ASSUME printed["server"].count' = Size
               PROVE  /\ NoMore' /\ ~Got("server")' /\ buffer'["server"] = Message("server")
                      /\ Fresh("client")' => Prefix("server")'
                      /\ Got("client")' /\ printed'["client"].count = 0 =>
                           Received("client", res["client"]["recv"])'
    BY DEF WholeInv, Message, Cells
  <2>1. printed' = printed /\ buffer' = buffer
    BY SMTT(60) DEF DataQuiet
  <2>2. /\ NoMore /\ ~Got("server") /\ buffer["server"] = Message("server")
        /\ Fresh("client") => Prefix("server")
        /\ Got("client") /\ printed["client"].count = 0 => Received("client", res["client"]["recv"])
    BY <2>1 DEF DataInv, WholeInv
  <2>3. NoMore' /\ ~Got("server")' /\ (Fresh("client")' => Fresh("client"))
    BY ZenonT(60), <1>0, <1>3, <2>2 DEF DataQuiet
  <2>4. Got("client")' => Got("client") /\ res'["client"]["recv"] = res["client"]["recv"]
    BY ZenonT(60), <1>0 DEF DataQuiet
  <2>5. Got("client")' /\ printed'["client"].count = 0 => Received("client", res["client"]["recv"])'
    <3> SUFFICES ASSUME Got("client")', printed'["client"].count = 0
                 PROVE  Received("client", res["client"]["recv"])'
      BY SMTT(60)
    <3>1. Received("client", res["client"]["recv"])
      BY SMTT(60), <2>1, <2>2, <2>4
    <3> QED
      BY ZenonT(60), <2>1, <2>4, <3>1 DEF Received, Message, Cells
  <2> QED
    BY SMTT(60), <1>0, <1>2, <2>1, <2>2, <2>3, <2>5
<1>8. ReplyIntact'
  BY SMTT(60) DEF DataInv, ReplyIntact, DataQuiet
<1> QED
  BY <1>1, <1>6, <1>7, <1>8 DEF DataInv

\* Steps of main() move no data.
LEMMA MainData ==
  ASSUME TypeOK, CloseInv, (\E p \in Programs : MainStep(p)) \/ ServerStep
  PROVE  DataQuiet
<1> USE DEF netVars, opVars, sendVars
<1>1. UNCHANGED <<buffer, stream, printed, res>>
  BY SMTT(60) DEF MainStep, Setup, Start, Run, Close, Release, ServerStep, Bind, Listen, AcceptSocket, CloseListener
<1>2. ASSUME NEW p \in Programs, NEW k \in Ops
      PROVE  \/ op'[p][k] = op[p][k] \/ op'[p][k] = "done"
             \/ op'[p][k] = "pending" /\ op[p][k] = "none" /\ k = Opener(p)
  <2>1. CASE UNCHANGED op
    BY SMTT(60), <2>1
  <2>2. ASSUME NEW q \in Programs, Start(q), op' # op
        PROVE  op' = [op EXCEPT ![q][Opener(q)] = "pending"] /\ op[q][Opener(q)] = "none"
    BY <2>2 DEF Start, Opener, CloseInv, Life, Before, Ops
  <2>3. ASSUME NEW q \in Programs, Release(q)
        PROVE  op' = [op EXCEPT ![q] = [j \in Ops |-> IF op[q][j] = "none" THEN "none" ELSE "done"]]
    BY <2>3 DEF Release
  <2>4. op \in [Programs -> [Ops -> Stages]] /\ \A q \in Programs : Opener(q) \in Ops
    BY SMTT(60) DEF TypeOK, OpOK, Opener, Ops
  <2>5. \/ UNCHANGED op \/ (\E q \in Programs : Start(q)) \/ (\E q \in Programs : Release(q))
    BY DEF MainStep, Setup, Run, Close, ServerStep, Bind, Listen, AcceptSocket, CloseListener
  <2>6. ASSUME NEW q \in Programs, Start(q), op' # op
        PROVE  \/ op'[p][k] = op[p][k] \/ op'[p][k] = "done"
               \/ op'[p][k] = "pending" /\ op[p][k] = "none" /\ k = Opener(p)
    BY <2>2, <2>4, <2>6
  <2>7. ASSUME NEW q \in Programs, Release(q)
        PROVE  op'[p][k] = op[p][k] \/ op'[p][k] = "done"
    BY SMTT(60), <2>3, <2>4, <2>7
  <2> QED
    BY SMTT(60), <2>1, <2>5, <2>6, <2>7
<1>3. ASSUME NEW p \in Programs
      PROVE  \/ sending'[p] = sending[p] /\ sent'[p] = sent[p]
             \/ sending'[p] = 0 /\ sent'[p] = 0
  BY SMTT(60) DEF MainStep, Setup, Start, Run, Close, Release, ServerStep, Bind, Listen, AcceptSocket, CloseListener,
         TypeOK, SendOK
<1>4. Unsent' => Unsent
  BY SMTT(60), <1>2 DEF Unsent, Programs, Ops
<1>5. ASSUME NEW p \in Programs
      PROVE  (Fresh(p)' => Fresh(p)) /\ (Got(p)' => Got(p)) /\ (op'[p]["recv"] = "started" => op[p]["recv"] = "started")
  <2>1. \/ op'[p]["recv"] = op[p]["recv"] \/ op'[p]["recv"] = "done"
        \/ op'[p]["recv"] = "pending" /\ op[p]["recv"] = "none"
    BY ZenonT(60), <1>2 DEF Ops
  <2> QED
    BY ZenonT(60), <1>1, <2>1 DEF Fresh, Got
<1> QED
  BY SMTT(60), <1>1, <1>3, <1>4, <1>5 DEF DataQuiet

\* An operation that completes without data
LEMMA CompletesQuiet ==
  ASSUME TypeOK, NEW p \in Programs, NEW k \in Ops, NEW r \in {0, Error},
         op[p][k] = "pending", Completes(p, k, r), UNCHANGED <<buffer, stream, printed>>
  PROVE  DataQuiet
<1>1. op'[p][k] = "queued" /\ res'[p][k] = r
  BY DEF Completes, TypeOK, OpOK
<1>2. \A q \in Programs, l \in Ops :
        <<q, l>> # <<p, k>> => op'[q][l] = op[q][l] /\ res'[q][l] = res[q][l]
  BY SMTT(60) DEF Completes, TypeOK, OpOK
<1>3. Unsent' => Unsent
  BY SMTT(60), <1>1, <1>2 DEF Unsent, Programs, Ops
<1>4. ASSUME NEW q \in Programs
      PROVE  /\ Fresh(q)' => Fresh(q)
             /\ Got(q)' => Got(q) /\ res'[q]["recv"] = res[q]["recv"]
             /\ op'[q]["recv"] = "started" => op[q]["recv"] = "started"
  BY SMTT(60), <1>1, <1>2, ConstType DEF Fresh, Got, Ops
<1> QED
  BY <1>3, <1>4 DEF DataQuiet, Completes, sendVars

\* A completion either moves no data, or it is a send or a receive that does.
LEMMA CompletionData ==
  ASSUME TypeOK, Completion \/ Reset
  PROVE  \/ DataQuiet
         \/ \E p \in Programs : Send(p) /\ net = "connected" /\ ~HasClosed(Peer(p))
         \/ \E p \in Programs : Recv(p) /\ \E n \in Cells : Completes(p, "recv", n)
<1> USE DEF netVars, opVars
<1>0. "client" \in Programs /\ "server" \in Programs /\ {"connect", "accept", "disconnect", "recv"} \subseteq Ops
  BY DEF Programs, Ops
<1>1. CASE Connect
  BY SMTT(60), <1>0, <1>1, CompletesQuiet DEF Connect
<1>2. CASE Accept
  BY SMTT(60), <1>0, <1>2, CompletesQuiet DEF Accept
<1>3. CASE Disconnect
  BY SMTT(60), <1>0, <1>3, CompletesQuiet DEF Disconnect
<1>4. CASE Reset
  BY <1>4 DEF Reset, DataQuiet, sendVars, Unsent, Fresh, Got
<1>5. ASSUME NEW p \in Programs, Recv(p), ~\E n \in Cells : Completes(p, "recv", n) PROVE DataQuiet
  BY ZenonT(60), <1>0, <1>5, CompletesQuiet DEF Recv
<1>6. ASSUME NEW p \in Programs, Send(p), ~(net = "connected" /\ ~HasClosed(Peer(p))) PROVE DataQuiet
  <2>1. UNCHANGED <<op, res, buffer, stream, printed>>
    BY SMTT(60), <1>6 DEF Send
  <2>2. \A q \in Programs : \/ sending'[q] = sending[q] /\ sent'[q] = sent[q]
                            \/ sending'[q] = 0 /\ sent'[q] = 0
                            \/ sending[q] > 1 /\ sent'[q] = 0
    <3>1. CASE UNCHANGED sendVars
      BY <3>1 DEF sendVars
    <3>2. CASE sending[p] > 0 /\ sent' = [sent EXCEPT ![p] = 0] /\ sending' = [sending EXCEPT ![p] = @ - 1]
      BY SMTT(60), <3>2 DEF TypeOK, SendOK
    <3> QED
      BY SMTT(60), <1>6, <3>1, <3>2 DEF Send
  <2> QED
    BY SMTT(60), <2>1, <2>2 DEF DataQuiet, Unsent, Fresh, Got
<1> QED
  BY <1>1, <1>2, <1>3, <1>4, <1>5, <1>6 DEF Completion

\* A handler that is through, or that starts an operation, without touching the data
LEMMA HandlerQuiet ==
  ASSUME TypeOK, CloseInv, DataInv, NEW p \in Programs, NEW h \in Ops, op[p][h] \in {"queued", "started"},
         UNCHANGED <<buffer, stream, printed, sendVars>>,
         \/ op' = [op EXCEPT ![p][h] = "done"] /\ UNCHANGED res
         \/ h = Opener(p) /\ Starts(p, h, "done", "recv")
         \/ h = "recv" /\ op[p][h] = "started" /\ Starts(p, h, "pending", "recv")
  PROVE  DataQuiet
<1>0. "recv" \in Ops /\ "connect" \in Ops /\ "client" \in Programs /\ op \in [Programs -> [Ops -> Stages]]
      /\ res \in [Programs -> [Ops -> 0 .. Error]]
  BY SMTT(60) DEF Ops, Programs, TypeOK, OpOK
<1>1. CASE op' = [op EXCEPT ![p][h] = "done"] /\ UNCHANGED res
  <2>1. \A q \in Programs, k \in Ops : op'[q][k] = op[q][k] \/ op'[q][k] = "done"
    BY SMTT(60), <1>0, <1>1
  <2>2. Unsent' => Unsent
    BY SMTT(60), <1>0, <2>1 DEF Unsent
  <2>3. ASSUME NEW q \in Programs
        PROVE  (Fresh(q)' => Fresh(q)) /\ (Got(q)' => Got(q))
               /\ (op'[q]["recv"] = "started" => op[q]["recv"] = "started")
    BY SMTT(60), <1>0, <1>1, <2>1 DEF Fresh, Got
  <2> QED
    BY <1>1, <2>2, <2>3 DEF DataQuiet, sendVars
<1>2. CASE /\ op' = [op EXCEPT ![p] = [@ EXCEPT ![h] = "done", !["recv"] = "pending"]]
           /\ res' = [res EXCEPT ![p]["recv"] = 0] /\ h = Opener(p)
  <2>1. op[p]["recv"] = "none"
    BY SMTT(60), <1>2 DEF CloseInv, LastStop
  <2>2. op'[p]["recv"] = "pending"
        /\ \A q \in Programs \ {p} : op'[q]["recv"] = op[q]["recv"] /\ res'[q]["recv"] = res[q]["recv"]
    BY SMTT(60), <1>0, <1>2
  <2>3. Unsent' => Unsent
    BY SMTT(60), <1>0, <1>2 DEF Unsent, Opener, Ops
  <2>4. ASSUME NEW q \in Programs
        PROVE  (Fresh(q)' => Fresh(q)) /\ (Got(q)' => Got(q) /\ res'[q]["recv"] = res[q]["recv"])
               /\ (op'[q]["recv"] = "started" => op[q]["recv"] = "started")
    BY SMTT(60), <2>1, <2>2 DEF Fresh, Got
  <2> QED
    BY SMTT(60), <1>2, <2>3, <2>4 DEF DataQuiet, sendVars
<1>3. CASE /\ op' = [op EXCEPT ![p] = [@ EXCEPT ![h] = "pending", !["recv"] = "pending"]]
           /\ res' = [res EXCEPT ![p]["recv"] = 0] /\ h = "recv" /\ op[p][h] = "started"
  <2>1. printed[p].count # 0
    BY SMTT(60), <1>3, ConstType DEF DataInv, CountInv
  <2>2. op'[p]["recv"] = "pending" /\ op'["client"]["connect"] = op["client"]["connect"]
        /\ \A q \in Programs \ {p} : op'[q]["recv"] = op[q]["recv"] /\ res'[q]["recv"] = res[q]["recv"]
    BY <1>0, <1>3 
  <2>3. Unsent' => Unsent
    BY SMTT(60), <2>2 DEF Unsent
  <2>4. ASSUME NEW q \in Programs
        PROVE  (Fresh(q)' => Fresh(q)) /\ (Got(q)' => Got(q) /\ res'[q]["recv"] = res[q]["recv"])
               /\ (op'[q]["recv"] = "started" => op[q]["recv"] = "started")
    BY SMTT(60), <2>1, <2>2 DEF Fresh, Got
  <2> QED
    BY SMTT(60), <1>3, <2>3, <2>4 DEF DataQuiet, sendVars
<1> QED
  BY SMTT(60), <1>1, <1>2, <1>3 DEF Starts, StartFails

\* What Append does to a stream
LEMMA AppendCell ==
  ASSUME NEW s \in Seq(Values), NEW v \in Values
  PROVE  /\ Len(Append(s, v)) = Len(s) + 1 /\ Append(s, v)[Len(s) + 1] = v
         /\ \A i \in 1 .. Len(s) : Append(s, v)[i] = s[i]
BY SMTT(60)

\* A cell goes out: of the one message, the one after those that went before.
LEMMA SendData ==
  ASSUME TypeOK, DataInv, NEW p \in Programs, Send(p), net = "connected", ~HasClosed(Peer(p))
  PROVE  DataInv'
<1>0. "client" \in Programs /\ "server" \in Programs /\ stream \in [Programs -> Seq(Values)]
      /\ sending \in [Programs -> Nat] /\ sent \in [Programs -> 0 .. Size - 1]
  BY SMTT(60) DEF Programs, TypeOK, DataOK, SendOK
<1>1. /\ UNCHANGED <<op, res, buffer, printed>>
      /\ sending[p] > 0 /\ stream'[p] = Append(stream[p], buffer[p][sent[p] + 1])
      /\ \A q \in Programs \ {p} : stream'[q] = stream[q] /\ sending'[q] = sending[q] /\ sent'[q] = sent[q]
  BY SMTT(60), <1>0 DEF Send
<1>2. \/ sent[p] + 1 < Size /\ sent'[p] = sent[p] + 1 /\ sending'[p] = sending[p]
      \/ sent[p] + 1 = Size /\ sent'[p] = 0 /\ sending'[p] = sending[p] - 1
  BY SMTT(60), <1>0 DEF Send
<1>3. Prefix(p) => Prefix(p)'
  <2> SUFFICES ASSUME Prefix(p) PROVE Prefix(p)'
    BY SMTT(60)
  <2>1. sending[p] = 1 /\ Len(stream[p]) = sent[p] /\ buffer[p] = Message(p) /\ stream[p] \in Seq(Values)
        /\ sent[p] \in 0 .. Size - 1
    BY <1>0, <1>1 DEF Prefix
  <2>2. Len(stream'[p]) = sent[p] + 1 /\ stream'[p][sent[p] + 1] = Message(p)[sent[p] + 1]
        /\ \A i \in 1 .. sent[p] : stream'[p][i] = stream[p][i]
    <3>1. buffer[p][sent[p] + 1] \in Values /\ buffer[p][sent[p] + 1] = Message(p)[sent[p] + 1]
      BY <2>1, ConstType DEF TypeOK, DataOK, Cells
    <3>a. stream[p] \in Seq(Values)
      BY <2>1
    <3> DEFINE t == Append(stream[p], buffer[p][sent[p] + 1])
    <3>2. /\ Len(t) = Len(stream[p]) + 1 /\ t[Len(stream[p]) + 1] = buffer[p][sent[p] + 1]
          /\ \A i \in 1 .. Len(stream[p]) : t[i] = stream[p][i]
      BY ONLY ZenonT(60), <3>a, <3>1, AppendCell
    <3>3. stream'[p] = t /\ Len(stream[p]) = sent[p]
      BY ZenonT(60), <1>1, <2>1
    <3> QED
      BY ONLY ZenonT(60), <3>1, <3>2, <3>3
  <2>3. ASSUME NEW i \in 1 .. Len(stream'[p]) PROVE stream'[p][i] = Message(p)[i]
    <3>1. CASE i = sent[p] + 1
      BY <2>2, <3>1
    <3>2. CASE i # sent[p] + 1
      <4>1. i \in 1 .. sent[p]
        BY <2>1, <2>2, <3>2
      <4> QED
        BY ZenonT(60), <2>1, <2>2, <4>1 DEF Prefix
    <3> QED
      BY <3>1, <3>2
  <2>4. \/ sending'[p] = 0
        \/ sending'[p] = 1 /\ sent'[p] = sent[p] + 1 /\ buffer'[p] = Message(p)
    <3>1. buffer'[p] = Message(p) /\ sending[p] = 1
      BY ZenonT(60), <1>1, <2>1
    <3>2. CASE sent'[p] = sent[p] + 1 /\ sending'[p] = sending[p]
      BY ONLY ZenonT(60), <3>1, <3>2
    <3>3. CASE sending'[p] = sending[p] - 1
      BY ONLY <3>1, <3>3
    <3> QED
      BY ZenonT(60), <1>2, <3>2, <3>3
  <2>5. Message(p)' = Message(p)
    BY DEF Message, Cells
  <2> QED
    BY SMTT(60), <2>1, <2>2, <2>3, <2>4, <2>5, ConstType DEF Prefix
<1>4. CountInv'
  <2>1. sending'[p] = 0 => sent'[p] = 0
    BY <1>0, <1>1, <1>2
  <2> QED
    BY ZenonT(60), <1>1, <2>1 DEF DataInv, CountInv
<1>5. (NoMore => p = "server") /\ (p = "server" => (NoMore => NoMore'))
  BY SMTT(60), <1>0, <1>1 DEF NoMore, Programs, Unsent
<1>6. ClientInv'
  <2>1. p = "client" => ~Unsent
    BY <1>1 DEF DataInv, ClientInv
  <2>2. p = "server" => printed["server"].count # 0
    BY <1>1 DEF DataInv, ClientInv
  <2> QED
    BY SMTT(60), <1>0, <1>1, <1>3, <1>5, <2>1, <2>2 DEF DataInv, ClientInv, Programs, Unsent, Got, Fresh, Received
<1>7. WholeInv'
  BY <1>0, <1>1, <1>3, <1>5 DEF DataInv, WholeInv, Got, Fresh, Received
<1> QED
  BY SMTT(60), <1>1, <1>4, <1>6, <1>7 DEF DataInv, ReplyIntact

\* n cells are received, the first of what has been sent.
LEMMA RecvData ==
  ASSUME TypeOK, CloseInv, DataInv, NEW p \in Programs, Recv(p), NEW n \in Cells, Completes(p, "recv", n)
  PROVE  DataInv'
<1> DEFINE s == stream[Peer(p)]
<1>0. /\ "client" \in Programs /\ "server" \in Programs /\ Peer("server") = "client" /\ Peer("client") = "server"
      /\ Peer(p) \in Programs /\ Peer(p) # p /\ "recv" \in Ops /\ "connect" \in Ops
  BY DEF Programs, Peer, Ops
<1>1. /\ op[p]["recv"] = "pending" /\ op'[p]["recv"] = "queued" /\ res'[p]["recv"] = n
      /\ op'["client"]["connect"] = op["client"]["connect"]
      /\ \A q \in Programs \ {p} : op'[q]["recv"] = op[q]["recv"] /\ res'[q]["recv"] = res[q]["recv"]
  BY <1>0 DEF Recv, Completes, TypeOK, OpOK
<1>2. UNCHANGED <<sending, sent, printed>>
  BY DEF Recv, Completes, sendVars
<1>3. /\ n <= Len(s)
      /\ buffer' = [buffer EXCEPT ![p] = [i \in Cells |-> IF i <= n THEN s[i] ELSE @[i]]]
      /\ stream' = [stream EXCEPT ![Peer(p)] = SubSeq(s, n + 1, Len(s))]
  <2>1. \A r : Completes(p, "recv", r) => r = n
    BY <1>0, <1>1 DEF Completes, TypeOK, OpOK
  <2>2. ~Completes(p, "recv", 0) /\ ~Completes(p, "recv", Error)
    BY <2>1, ConstType
  <2> QED
    BY SMTT(60), <2>1, <2>2 DEF Recv
<1>4. s \in Seq(Values) /\ Len(s) \in Nat /\ n \in 1 .. Size /\ buffer \in [Programs -> [Cells -> Values]]
      /\ stream \in [Programs -> Seq(Values)]
  BY SMTT(60), <1>0 DEF TypeOK, DataOK, Cells
<1>5. s # <<>> /\ buffer'[Peer(p)] = buffer[Peer(p)] /\ stream'[p] = stream[p]
  BY SMTT(60), <1>0, <1>3, <1>4
<1>6. Prefix(Peer(p)) => Received(p, n)'
  <2> SUFFICES ASSUME Prefix(Peer(p)), NEW i \in 1 .. n PROVE buffer'[p][i] = Message(Peer(p))[i]
    BY SMTT(60) DEF Received, Message, Cells
  <2>1. i \in Cells /\ i <= n /\ i \in 1 .. Len(s)
    BY SMTT(60), <1>3, <1>4, ConstType DEF Cells
  <2>2. buffer'[p][i] = s[i]
    BY SMTT(60), <1>3, <1>4, <2>1
  <2> QED
    BY SMTT(60), <2>1, <2>2 DEF Prefix
<1>7. CountInv' /\ ReplyIntact'
  BY <1>1, <1>2 DEF DataInv, CountInv, ReplyIntact
<1>8. CASE p = "server"
  <2>1. ~Unsent /\ ~Unsent' /\ printed["server"].count # Size
    BY ZenonT(60), <1>0, <1>1, <1>5, <1>8 DEF DataInv, ClientInv, WholeInv, NoMore, Unsent
  <2>2. ASSUME printed["server"].count = 0, n = Size PROVE NoMore'
    <3>1. Prefix("client")
      BY ZenonT(60), <1>1, <1>8, <2>2 DEF DataInv, ClientInv, Fresh
    <3>2. Len(s) = Size /\ sending["client"] = 0
      BY SMTT(60), <1>0, <1>3, <1>4, <1>8, <2>2, <3>1 DEF Prefix, TypeOK, SendOK
    <3>3. stream'["client"] = <<>>
      BY SMTT(60), <1>0, <1>3, <1>4, <1>8, <2>2, <3>2
    <3> QED
      BY <1>2, <2>1, <3>2, <3>3 DEF NoMore
  <2>3. ClientInv'
    BY SMTT(60), <1>0, <1>1, <1>2, <1>5, <1>6, <1>8, <2>1, <2>2 DEF DataInv, ClientInv, Fresh, Got
  <2>4. WholeInv'
    BY <1>2, <2>1 DEF WholeInv
  <2> QED
    BY <1>7, <2>3, <2>4 DEF DataInv
<1>9. CASE p = "client"
  <2>1. ~Unsent /\ ~Unsent' /\ printed["server"].count # 0
    BY ZenonT(60), <1>0, <1>1, <1>5, <1>9 DEF DataInv, ClientInv, Unsent, CloseInv, LastStop, Opener
  <2>2. ClientInv'
    BY <1>2, <2>1 DEF ClientInv, Fresh
  <2>3. WholeInv'
    BY ZenonT(60), <1>0, <1>1, <1>2, <1>5, <1>6, <1>9, <2>1 DEF DataInv, WholeInv, NoMore, Fresh, Got
  <2> QED
    BY <1>7, <2>2, <2>3 DEF DataInv
<1> QED
  BY <1>8, <1>9 DEF Programs

\* The client's handler copies its string into a buffer that holds nothing else.
LEMMA ConnectData ==
  ASSUME TypeOK, CloseInv, DataInv, op["client"]["connect"] = "queued", CopiesAndSends("client", "connect"),
         UNCHANGED <<stream, printed>>
  PROVE  DataInv'
<1>0. "client" \in Programs /\ "server" \in Programs /\ "recv" \in Ops /\ "connect" \in Ops /\ "connect" # "recv"
      /\ op \in [Programs -> [Ops -> Stages]] /\ sending \in [Programs -> Nat]
      /\ buffer \in [Programs -> [Cells -> Values]]
  BY ZenonT(60) DEF Programs, Ops, TypeOK, OpOK, SendOK, DataOK
<1>1. Unsent /\ sending["client"] = 0 /\ sent["client"] = 0 /\ stream["client"] = <<>>
      /\ \A i \in Cells : buffer["client"][i] = "zero"
  BY ZenonT(60), <1>0 DEF Unsent, DataInv, ClientInv, CountInv
<1>2. buffer'["client"] = Message("client") /\ buffer'["server"] = buffer["server"]
  BY SMTT(60), <1>0, <1>1 DEF CopiesAndSends, Message
<1>3. UNCHANGED <<res, sent>> /\ (op' = [op EXCEPT !["client"]["connect"] = "started"] \/ op' = [op EXCEPT !["client"]["connect"] = "done"])
      /\ (UNCHANGED sending \/ sending' = [sending EXCEPT !["client"] = @ + 1])
  BY DEF CopiesAndSends, StartFails, sendVars
<1>4. ~Unsent' /\ \A q \in Programs : op'[q]["recv"] = op[q]["recv"]
  <2>1. op'["client"]["connect"] \in {"started", "done"}
    BY SMTT(60), <1>0, <1>3
  <2>2. \A q \in Programs : op'[q]["recv"] = op[q]["recv"]
    BY SMTT(60), <1>0, <1>3
  <2> QED
    BY SMTT(60), <2>1, <2>2 DEF Unsent
<1>5. sending'["client"] \in {0, 1} /\ sending'["server"] = sending["server"]
  BY SMTT(60), <1>0, <1>1, <1>3
<1>6. CountInv'
  BY SMTT(60), <1>1, <1>3, <1>4, <1>5 DEF DataInv, CountInv, Programs
<1>7. Prefix("client")'
  BY SMTT(60), <1>1, <1>2, <1>3, <1>5, ConstType DEF Prefix, Message, Cells
<1>8. ClientInv'
  BY ZenonT(60), <1>0, <1>1, <1>2, <1>3, <1>4, <1>5, <1>7 DEF DataInv, ClientInv, NoMore, Fresh, Got, Received
<1>9. WholeInv' /\ ReplyIntact'
  BY <1>1 DEF DataInv, WholeInv, NoMore, ReplyIntact
<1> QED
  BY <1>6, <1>8, <1>9 DEF DataInv

\* The server prints what it received, and answers with its string.
LEMMA RepliesData ==
  ASSUME TypeOK, CloseInv, DataInv, Got("server"), ServerReplies, UNCHANGED stream
  PROVE  DataInv'
<1>0. "client" \in Programs /\ "server" \in Programs /\ "recv" \in Ops /\ "connect" \in Ops
      /\ op \in [Programs -> [Ops -> Stages]] /\ sending \in [Programs -> Nat]
      /\ buffer \in [Programs -> [Cells -> Values]]
      /\ printed \in [Programs -> [count : 0 .. Size, cells : [Cells -> Values]]]
  BY ZenonT(60) DEF Programs, Ops, TypeOK, OpOK, SendOK, DataOK
<1>1. /\ buffer'["client"] = buffer["client"]
      /\ buffer'["server"] = [i \in Cells |-> IF i <= Text THEN "server" ELSE buffer["server"][i]]
  BY SMTT(60), <1>0 DEF ServerReplies, CopiesAndSends
<1>2. UNCHANGED <<res, sent>> /\ (op' = [op EXCEPT !["server"]["recv"] = "started"] \/ op' = [op EXCEPT !["server"]["recv"] = "done"])
      /\ (UNCHANGED sending \/ sending' = [sending EXCEPT !["server"] = @ + 1])
  BY SMTT(60) DEF ServerReplies, CopiesAndSends, StartFails, sendVars
<1>3. /\ op'["client"] = op["client"] /\ op'["server"]["recv"] \in {"started", "done"}
      /\ sending'["client"] = sending["client"] /\ sending'["server"] \in {sending["server"], sending["server"] + 1}
  BY SMTT(60), <1>0, <1>2
<1>4. /\ printed'["client"] = printed["client"]
      /\ printed["server"].count # 0 => printed'["server"] = printed["server"]
      /\ printed["server"].count = 0 => printed'["server"] = [count |-> res["server"]["recv"], cells |-> buffer["server"]]
  BY SMTT(60), <1>0 DEF ServerReplies, Prints
<1>5. printed'["server"].count > 0
  BY SMTT(60), <1>0, <1>4, ConstType DEF Got, Cells
<1>6. CountInv'
  BY SMTT(60), <1>0, <1>2, <1>3, <1>4, <1>5 DEF DataInv, CountInv, Programs
<1>7. ClientInv'
  BY <1>1, <1>3, <1>5 DEF DataInv, ClientInv, Fresh, Unsent
<1>8. CASE printed["server"].count # 0
  <2>1. printed["server"].count # Size
    BY SMTT(60) DEF DataInv, WholeInv
  <2>2. WholeInv' /\ ReplyIntact'
    BY <1>4, <1>8, <2>1 DEF DataInv, WholeInv, ReplyIntact
  <2> QED
    BY <1>6, <1>7, <2>2 DEF DataInv
<1>9. CASE printed["server"].count = 0
  <2>1. /\ sending["server"] = 0 /\ sent["server"] = 0 /\ stream["server"] = <<>>
        /\ printed["client"].count = 0 /\ ~Got("client")
        /\ Received("server", res["server"]["recv"]) /\ (res["server"]["recv"] = Size => NoMore)
    BY ZenonT(60), <1>0, <1>9 DEF DataInv, ClientInv, CountInv
  <2>2. printed'["server"].count = res["server"]["recv"] /\ printed'["server"].cells = buffer["server"]
    BY SMTT(60), <1>4, <1>9
  <2>3. ReplyIntact'
    BY SMTT(60), <1>4, <2>1, <2>2, ConstType DEF ReplyIntact, Received, Peer, Message
  <2>4. ASSUME res["server"]["recv"] = Size PROVE buffer'["server"] = Message("server")
    BY SMTT(60), <1>1, <2>1, <2>4 DEF Received, Peer, Message, Cells
  <2>5. ASSUME res["server"]["recv"] = Size PROVE Prefix("server")'
    BY SMTT(60), <1>2, <1>3, <2>1, <2>4, <2>5, ConstType DEF Prefix, Message, Cells
  <2>6. WholeInv'
    BY SMTT(60), <1>2, <1>3, <2>1, <2>2, <2>4, <2>5 DEF WholeInv, NoMore, Got, Unsent, Message, Cells
  <2> QED
    BY <1>6, <1>7, <2>3, <2>6 DEF DataInv
<1> QED
  BY <1>8, <1>9

\* The client prints what it received.
LEMMA DisconnectsData ==
  ASSUME TypeOK, CloseInv, DataInv, Got("client"), ClientDisconnects, UNCHANGED stream
  PROVE  DataInv'
<1>0. "client" \in Programs /\ "server" \in Programs /\ Ops = {"accept", "connect", "recv", "disconnect"}
      /\ op \in [Programs -> [Ops -> Stages]] /\ res \in [Programs -> [Ops -> 0 .. Error]]
      /\ printed \in [Programs -> [count : 0 .. Size, cells : [Cells -> Values]]]
  BY SMTT(60) DEF Programs, Ops, TypeOK, OpOK, DataOK
<1>1. UNCHANGED <<buffer, sending, sent>> /\ printed["server"].count # 0
  BY SMTT(60) DEF ClientDisconnects, Starts, StartFails, sendVars, DataInv, ClientInv
<1>2. /\ op'["server"] = op["server"] /\ res'["server"] = res["server"]
      /\ op'["client"]["recv"] \in {"started", "done"} /\ op'["client"]["connect"] = op["client"]["connect"]
  BY SMTT(60), <1>0 DEF ClientDisconnects, Starts, StartFails
<1>3. /\ printed'["server"] = printed["server"]
      /\ printed["client"].count # 0 => printed'["client"] = printed["client"]
      /\ printed["client"].count = 0 => printed'["client"] = [count |-> res["client"]["recv"], cells |-> buffer["client"]]
  BY SMTT(60), <1>0 DEF ClientDisconnects, Prints
<1>4. printed'["client"].count > 0
  BY SMTT(60), <1>0, <1>3, ConstType DEF Got, Cells
<1>5. CountInv'
  BY SMTT(60), <1>1, <1>2, <1>3, <1>4 DEF DataInv, CountInv, Programs
<1>6. ClientInv'
  BY <1>1, <1>2, <1>3 DEF DataInv, ClientInv, Fresh, Unsent
<1>7. WholeInv'
  BY ZenonT(60), <1>1, <1>2, <1>3, <1>4 DEF DataInv, WholeInv, Fresh, Got, NoMore, Unsent
<1>8. ReplyIntact'
  <2>1. \A i \in 1 .. printed'["server"].count : printed'["server"].cells[i] = Message("client")[i]
    BY SMTT(60), <1>3 DEF DataInv, ReplyIntact
  <2>2. ASSUME printed["server"].count = Size, NEW i \in 1 .. printed'["client"].count
        PROVE  printed'["client"].cells[i] = Message("server")[i]
    <3>1. CASE printed["client"].count = 0
      <4>1. Received("client", res["client"]["recv"])
        BY SMTT(60), <2>2, <3>1 DEF DataInv, WholeInv
      <4>2. printed'["client"].count = res["client"]["recv"] /\ printed'["client"].cells = buffer["client"]
        BY SMTT(60), <1>3, <3>1
      <4> QED
        BY SMTT(60), <4>1, <4>2 DEF Received, Peer
    <3>2. CASE printed["client"].count # 0
      BY <1>3, <2>2, <3>2 DEF DataInv, ReplyIntact
    <3> QED
      BY SMTT(60), <3>1, <3>2
  <2> QED
    BY ZenonT(60), <1>3, <2>1, <2>2 DEF ReplyIntact, Message, Cells
<1> QED
  BY SMTT(60), <1>5, <1>6, <1>7, <1>8 DEF DataInv

\* Handlers keep the invariant.
LEMMA HandlerData ==
  ASSUME TypeOK, CloseInv, DataInv, Handler
  PROVE  DataInv'
<1> USE DEF netVars
<1>0. /\ "server" \in Programs /\ "client" \in Programs /\ Ops = {"accept", "connect", "recv", "disconnect"}
      /\ Opener("server") = "accept" /\ Opener("client") = "connect"
  BY SMTT(60) DEF Programs, Opener, Ops
<1>1. CASE on_accept_complete
  <2>1. UNCHANGED <<buffer, stream, printed, sendVars>>
    BY SMTT(60), <1>1 DEF on_accept_complete, Stops, Starts, StartFails
  <2> QED
    BY SMTT(60), <1>0, <1>1, <2>1, HandlerQuiet, QuietData DEF on_accept_complete, Stops
<1>2. CASE on_connect_complete
  <2>1. CASE op["client"]["connect"] = "queued" /\ CopiesAndSends("client", "connect") /\ UNCHANGED printed
    BY <1>2, <2>1, ConnectData DEF on_connect_complete
  <2>2. CASE op["client"]["connect"] = "queued" /\ Stops("client", "connect")
    BY ZenonT(60), <1>0, <1>2, <2>2, HandlerQuiet, QuietData DEF on_connect_complete, Stops
  <2>3. CASE op["client"]["connect"] = "started" /\ Starts("client", "connect", "done", "recv")
             /\ UNCHANGED <<buffer, printed>>
    BY SMTT(60), <1>0, <1>2, <2>3, HandlerQuiet, QuietData DEF on_connect_complete, Starts, StartFails
  <2> QED
    BY SMTT(60), <1>2, <2>1, <2>2, <2>3 DEF on_connect_complete, Failed
<1>3. CASE on_disconnect_complete
  BY SMTT(60), <1>0, <1>3, HandlerQuiet, QuietData DEF on_disconnect_complete, Stops
<1>4. ASSUME NEW p \in Programs, on_recv_complete(p) PROVE DataInv'
  <2>1. UNCHANGED stream
    BY <1>4 DEF on_recv_complete
  <2>2. CASE op[p]["recv"] = "queued" /\ Stops(p, "recv")
    BY ZenonT(60), <1>0, <2>1, <2>2, HandlerQuiet, QuietData DEF Stops
  <2>3. CASE op[p]["recv"] = "started" /\ Starts(p, "recv", "pending", "recv") /\ UNCHANGED <<buffer, printed>>
    BY SMTT(60), <1>0, <2>1, <2>3, HandlerQuiet, QuietData DEF Starts, StartFails
  <2>4. CASE p = "server" /\ Got(p) /\ ServerReplies
    BY <2>1, <2>4, RepliesData
  <2>5. CASE p = "client" /\ Got(p) /\ ClientDisconnects
    BY <2>1, <2>5, DisconnectsData
  <2> QED
    BY SMTT(60), <1>4, <2>2, <2>3, <2>4, <2>5 DEF on_recv_complete, Got, Programs
<1>5. ASSUME NEW p \in Programs, on_send_complete(p) PROVE DataInv'
  <2>1. DataQuiet
    BY ZenonT(60), <1>5 DEF on_send_complete, DataQuiet, Unsent, Fresh, Got
  <2> QED
    BY <2>1, QuietData
<1> QED
  BY <1>1, <1>2, <1>3, <1>4, <1>5 DEF Handler

\* Every step keeps the buffers' invariant.
LEMMA NextData == TypeOK /\ CloseInv /\ DataInv /\ [Next]_vars => DataInv'
<1> SUFFICES ASSUME TypeOK, CloseInv, DataInv, [Next]_vars PROVE DataInv'
  OBVIOUS
<1>1. CASE UNCHANGED vars
  <2>1. DataQuiet
    BY ZenonT(60), <1>1 DEF vars, opVars, sendVars, netVars, DataQuiet, Unsent, Fresh, Got
  <2> QED
    BY <2>1, QuietData
<1>2. CASE (\E p \in Programs : MainStep(p)) \/ ServerStep
  BY SMTT(60), <1>2, MainData, QuietData
<1>3. CASE Completion \/ Reset
  BY <1>3, CompletionData, QuietData, SendData, RecvData
<1>4. CASE Handler
  BY <1>4, HandlerData
<1> QED
  BY <1>1, <1>2, <1>3, <1>4 DEF Next

(***************************************************************************)
(* For every size of the buffers and of the strings, and wherever the      *)
(* network cuts the messages: what a program prints first is what its peer *)
(* meant to send, although each uses one buffer for all its operations;    *)
(* for the reply, if the server received the message in one piece.         *)
(***************************************************************************)
THEOREM EchoReplies == Spec => []ReplyIntact
<1>1. Init => IInv
  BY InitType, InitClose, InitData DEF IInv
<1>2. IInv /\ [Next]_vars => IInv'
  BY NextType, NextClose, NextData DEF IInv
<1>3. IInv => ReplyIntact
  BY DEF IInv, DataInv
<1> QED
  BY <1>1, <1>2, <1>3, PTL DEF Spec
================================================================================
