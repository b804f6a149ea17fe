------------------------------ MODULE AsyncSocket ------------------------------
(***************************************************************************)
(* The asynchronous half of WinSocket: an operation started with start_*   *)
(* allocates an IOData, hands it to the kernel, is completed on a thread   *)
(* of the IO pool (socket_io_routine), and has its handler run on a thread *)
(* of the user pool, which frees the IOData.  Sockets are shared_ptr       *)
(* objects: every IOData owns a reference to its socket, and the thread    *)
(* that drops the last reference runs ~WinSocket.                          *)
(*                                                                         *)
(* Four kinds of thread take steps: application threads (Clients), IO pool *)
(* threads, user pool threads and the kernel.  None of the code modelled   *)
(* here takes a lock, so every shared access is a step of its own; private *)
(* computation is folded into the step before it.                          *)
(*                                                                         *)
(* An operation o in Ops stands for one IOData and for the one completion  *)
(* callback that StartThreadpoolIo announces.  The two have separate       *)
(* lives: mem[o] is the heap cell, cb[o] the callback (and, before the     *)
(* system call, the start_* call), work[o] the closure in the user pool.   *)
(***************************************************************************)
EXTENDS Naturals, FiniteSets

CONSTANTS
  Sockets,       \* WinSocket objects
  Ops,           \* IOData allocations; bound on the operations started
  Clients,       \* application threads outside the two pools
  NoSocket,      \* an empty shared_ptr<Socket>
  NoCaller,
  Kinds,         \* the start_* functions the program calls
  Env,           \* what the program and the system may do, see EnvOptions
  IoThreads,     \* conf_.io_threadpool_max_threads_
  UserThreads    \* conf_.user_threadpool_max_threads_

AllKinds ==
  {"accept", "connect", "recv", "recv_from", "send", "send_to", "disconnect"}

(***************************************************************************)
(* no_handler     operations may be started with an empty handler          *)
(* chains         a handler may start operations on the sockets it is given*)
(* handler_closes a handler may close() them                               *)
(* close_races    a handler may start an operation while, or after, the    *)
(*                socket is closed by another thread                       *)
(* unspecified    sockets may be opened with AddressFamily::Unspecified    *)
(* setup_fails    the implicit bind() of start_connect may fail            *)
(* post_fails     TrySubmitThreadpoolCallback may fail                     *)
(* core_expires   the program may drop its IOCore while sockets live       *)
(***************************************************************************)
EnvOptions ==
  {"no_handler", "chains", "handler_closes", "close_races", "unspecified",
   "setup_fails", "post_fails", "core_expires"}

ASSUME ConstantsAssumption ==
  /\ NoSocket \notin Sockets
  /\ NoCaller \notin Clients \cup Ops
  /\ Clients \cap Ops = {}
  /\ Kinds \subseteq AllKinds
  /\ Env \subseteq EnvOptions
  /\ IoThreads \in Nat /\ UserThreads \in Nat

VARIABLES
  \* the WinSocket objects
  obj,         \* "none" | "live" | "dying" (in ~WinSocket) | "dead"
  dtor,        \* the thread that runs, or ran, ~WinSocket
  held,        \* <<x, s>>: caller x has a shared_ptr to s in its variables
  tpio,        \* socket_io_handle_: "null" | "open"
  valid,       \* socket_ is an open native socket
  supported,   \* addr_family_ is one that endpoint_to_sockaddr converts to
  bound,       \* is_bound_
  closing,     \* per caller: the close() it is in
  \* the IOData objects and the calls that carry them
  mem,         \* "none" | "alloc" | "freed"
  owner,       \* IOData::socket_; also names the PTP_IO the operation runs on
  accepted,    \* IOData::accept_socket_
  context,     \* the alternative in IOData::user_handler_: accept or connect, or another
  handler,     \* bool(handler)
  error_code,  \* IOData::error_code_
  by,          \* the caller of start_*
  cb,          \* progress of start_* and of the completion callback
  work,        \* progress of the closure posted to the user pool
  \* history and environment
  result,      \* io_result of the completion
  update,      \* the first error of the context update in the routine
  calls,       \* times the user's handler was called
  core,        \* "up" | "expired": io_core_.lock()
  fault        \* "none", or the undefined use that ended the program

refVars == <<obj, dtor, held>>
handleVars == <<tpio, valid, supported, bound>>
callVars == <<owner, context, handler, by>>
heapVars == <<mem, accepted, error_code>>
historyVars == <<result, update, calls>>
envVars == <<core, fault>>
vars == <<refVars, handleVars, closing, callVars, heapVars, cb, work, historyVars, envVars>>

Callers == Clients \cup Ops
Handles == Sockets \cup {NoSocket}
Threads == ({"io", "user"} \X Ops) \cup ({"client"} \X Clients) \cup {<<"nobody", NoCaller>>}

InStart == {"started", "failed", "undo"}
InRoutine == {"entered", "inline", "freeing", "return"}
\* StartThreadpoolIo was called and neither CancelThreadpoolIo nor the end of
\* the callback has balanced it yet.
Outstanding == InStart \cup {"pending", "packet"} \cup InRoutine
CbState == Outstanding \cup {"idle", "done", "cancelled"}
WorkState == {"none", "queued", "running", "freeing", "return", "done"}
Errors == {"Success", "io", "context", "post"}
CloseState == [sock : Handles, at : {"idle", "wait", "closeio", "closesocket"}]

TypeOK ==
  /\ obj \in [Sockets -> {"none", "live", "dying", "dead"}]
  /\ dtor \in [Sockets -> Threads]
  /\ held \subseteq Callers \X Sockets
  /\ tpio \in [Sockets -> {"null", "open"}]
  /\ valid \in [Sockets -> BOOLEAN]
  /\ supported \in [Sockets -> BOOLEAN]
  /\ bound \in [Sockets -> BOOLEAN]
  /\ closing \in [Callers -> CloseState]
  /\ mem \in [Ops -> {"none", "alloc", "freed"}]
  /\ owner \in [Ops -> Handles]
  /\ accepted \in [Ops -> Handles]
  /\ context \in [Ops -> BOOLEAN]
  /\ handler \in [Ops -> BOOLEAN]
  /\ error_code \in [Ops -> Errors]
  /\ by \in [Ops -> Callers \cup {NoCaller}]
  /\ cb \in [Ops -> CbState]
  /\ work \in [Ops -> WorkState]
  /\ result \in [Ops -> Errors]
  /\ update \in [Ops -> Errors]
  /\ calls \in [Ops -> Nat]
  /\ core \in {"up", "expired"}
  /\ fault \in {"none", "null_io", "dead_this"}

Init ==
  /\ obj = [s \in Sockets |-> "none"]
  /\ dtor = [s \in Sockets |-> <<"nobody", NoCaller>>]
  /\ held = {}
  /\ tpio = [s \in Sockets |-> "null"]
  /\ valid = [s \in Sockets |-> FALSE]
  /\ supported = [s \in Sockets |-> FALSE]
  /\ bound = [s \in Sockets |-> FALSE]
  /\ closing = [x \in Callers |-> [sock |-> NoSocket, at |-> "idle"]]
  /\ mem = [o \in Ops |-> "none"]
  /\ owner = [o \in Ops |-> NoSocket]
  /\ accepted = [o \in Ops |-> NoSocket]
  /\ context = [o \in Ops |-> FALSE]
  /\ handler = [o \in Ops |-> FALSE]
  /\ error_code = [o \in Ops |-> "Success"]
  /\ by = [o \in Ops |-> NoCaller]
  /\ cb = [o \in Ops |-> "idle"]
  /\ work = [o \in Ops |-> "none"]
  /\ result = [o \in Ops |-> "Success"]
  /\ update = [o \in Ops |-> "Success"]
  /\ calls = [o \in Ops |-> 0]
  /\ core = "up"
  /\ fault = "none"

--------------------------------------------------------------------------------
(* References and callers *)

\* The operations that WaitForThreadpoolIoCallbacks(s) waits for.
OutstandingOn(s) == {o \in Ops : owner[o] = s /\ cb[o] \in Outstanding}

\* A handler is running, on the user pool or by hand on the IO thread.
Handling(o) == work[o] = "running" \/ cb[o] = "inline"

\* The thread that executes caller x: a running handler is named by its operation.
ThreadOf(x) ==
  <<IF x \in Clients THEN "client" ELSE IF cb[x] = "inline" THEN "io" ELSE "user", x>>

\* The destructors thread t started have returned.
Destroyed(t) == \A s \in Sockets : dtor[s] = t => obj[s] # "dying"

\* x runs application code: it is not inside close(), start_* or a destructor.
Idle(x) ==
  /\ x \in Ops => Handling(x)
  /\ closing[x].at = "idle"
  /\ \A o \in Ops : by[o] = x => cb[o] \notin InStart
  /\ Destroyed(ThreadOf(x))

CloseInProgress(s) == \E x \in Callers : closing[x].sock = s

\* IODatas hold a plain pointer to their socket.
Referenced_Weakly(s, m, a, h) == \E x \in Callers : <<x, s>> \in h

\* Some shared_ptr to s remains, given the heap m, the IODatas' accept sockets a
\* and the callers' pointers h.
Referenced(s, m, a, h) ==
  \/ \E x \in Callers : <<x, s>> \in h
  \/ \E o \in Ops : m[o] = "alloc" /\ s \in {owner[o], a[o]}

\* The sockets whose last reference disappears are destroyed by thread t.
Destroy(t, m, a, h) ==
  LET last == {s \in Sockets : obj[s] = "live" /\ ~Referenced(s, m, a, h)}
  IN  /\ obj' = [s \in Sockets |-> IF s \in last THEN "dying" ELSE obj[s]]
      /\ dtor' = [s \in Sockets |-> IF s \in last THEN t ELSE dtor[s]]

Delete_Forgotten(o, t) == UNCHANGED <<mem, obj, dtor>>

\* delete io_data, by thread t
Delete(o, t) ==
  /\ mem' = [mem EXCEPT ![o] = "freed"]
  /\ Destroy(t, [mem EXCEPT ![o] = "freed"], accepted, held)

\* The call handler(io_data->socket_, std::move(io_data->accept_socket_), ...): the
\* handler's by-value parameters share the one and take over the other.
CallHandler(o) ==
  /\ held' = held \cup ({o} \X ({owner[o], accepted[o]} \cap Sockets))
  /\ accepted' = [accepted EXCEPT ![o] = NoSocket]
  /\ calls' = [calls EXCEPT ![o] = @ + 1]

\* The handler returns: its parameters and locals are destroyed.
HandlerReturns(o) ==
  /\ Idle(o)
  /\ held' = held \ ({o} \X Sockets)
  /\ Destroy(ThreadOf(o), mem, accepted, held \ ({o} \X Sockets))

--------------------------------------------------------------------------------
(* Synchronous calls of the application *)

\* Socket::create
create(x, s) ==
  /\ obj[s] = "none"
  /\ core = "up"
  /\ Idle(x)
  /\ x \in Ops => "chains" \in Env
  /\ obj' = [obj EXCEPT ![s] = "live"]
  /\ held' = held \cup {<<x, s>>}
  /\ UNCHANGED <<dtor, handleVars, closing, callVars, heapVars, cb, work, historyVars, envVars>>

\* The effect of a successful WinSocket::socket(); f: whether the family is supported.
\* When WSASocketW, io_core_.lock() or CreateThreadpoolIo fails the object stays as it
\* was.  The program calls it on closed sockets only.
OpenSocket(s, f) ==
  /\ tpio[s] = "null" /\ ~valid[s] /\ ~CloseInProgress(s) /\ OutstandingOn(s) = {}
  /\ core = "up"
  /\ tpio' = [tpio EXCEPT ![s] = "open"]
  /\ valid' = [valid EXCEPT ![s] = TRUE]
  /\ supported' = [supported EXCEPT ![s] = f]

socket(x, s) ==
  /\ <<x, s>> \in held
  /\ Idle(x)
  /\ x \in Ops => "chains" \in Env
  /\ \E f \in BOOLEAN : (f \/ "unspecified" \in Env) /\ OpenSocket(s, f)
  /\ UNCHANGED <<refVars, bound, closing, callVars, heapVars, cb, work, historyVars, envVars>>

\* A handler leaves a copy of its shared_ptr where client c finds it.
Share(x, c, s) ==
  /\ x \in Ops
  /\ <<x, s>> \in held
  /\ Idle(x)
  /\ held' = held \cup {<<c, s>>}
  /\ UNCHANGED <<obj, dtor, handleVars, closing, callVars, heapVars, cb, work, historyVars, envVars>>

\* A client resets, or runs out of scope of, its shared_ptr to s.
DropReference(c, s) ==
  /\ <<c, s>> \in held
  /\ Idle(c)
  /\ held' = held \ {<<c, s>>}
  /\ Destroy(<<"client", c>>, mem, accepted, held \ {<<c, s>>})
  /\ UNCHANGED <<handleVars, closing, callVars, heapVars, cb, work, historyVars, envVars>>

\* The program's last shared_ptr<IOCore> goes; sockets only hold a weak_ptr.
DropCore ==
  /\ "core_expires" \in Env
  /\ core = "up"
  /\ core' = "expired"
  /\ UNCHANGED <<refVars, handleVars, closing, callVars, heapVars, cb, work, historyVars, fault>>

--------------------------------------------------------------------------------
(* close() and ~WinSocket *)

\* close() without the wait.
close_NoWait(x, s) ==
  /\ <<x, s>> \in held
  /\ Idle(x)
  /\ x \in Ops => "handler_closes" \in Env
  /\ ~CloseInProgress(s)
  /\ closing' = [closing EXCEPT ![x] =
                   [sock |-> s, at |-> IF tpio[s] = "open" THEN "closeio" ELSE "closesocket"]]
  /\ UNCHANGED <<refVars, handleVars, callVars, heapVars, cb, work, historyVars, envVars>>

\* if (socket_io_handle_ != nullptr)
close(x, s) ==
  /\ <<x, s>> \in held
  /\ Idle(x)
  /\ x \in Ops => "handler_closes" \in Env
  /\ ~CloseInProgress(s)
  /\ closing' = [closing EXCEPT ![x] =
                   [sock |-> s, at |-> IF tpio[s] = "open" THEN "wait" ELSE "closesocket"]]
  /\ UNCHANGED <<refVars, handleVars, callVars, heapVars, cb, work, historyVars, envVars>>

\* The wait includes the handlers of the operations.
CloseWait_ForHandlers(x) ==
  /\ closing[x].at = "wait"
  /\ \A o \in Ops : mem[o] = "alloc" => owner[o] # closing[x].sock
  /\ closing' = [closing EXCEPT ![x].at = "closeio"]
  /\ UNCHANGED <<refVars, handleVars, callVars, heapVars, cb, work, historyVars, envVars>>

\* WaitForThreadpoolIoCallbacks(socket_io_handle_, FALSE)
CloseWait(x) ==
  /\ closing[x].at = "wait"
  /\ OutstandingOn(closing[x].sock) = {}
  /\ closing' = [closing EXCEPT ![x].at = "closeio"]
  /\ UNCHANGED <<refVars, handleVars, callVars, heapVars, cb, work, historyVars, envVars>>

\* CloseThreadpoolIo(socket_io_handle_); socket_io_handle_ = nullptr
CloseIo(x) ==
  /\ closing[x].at = "closeio"
  /\ closing' = [closing EXCEPT ![x].at = "closesocket"]
  /\ tpio' = [tpio EXCEPT ![closing[x].sock] = "null"]
  /\ UNCHANGED <<refVars, valid, supported, bound, callVars, heapVars, cb, work, historyVars, envVars>>

\* closesocket(socket_) and the resets; the members are reset even if it fails
CloseSocket(x) ==
  /\ closing[x].at = "closesocket"
  /\ valid' = [valid EXCEPT ![closing[x].sock] = FALSE]
  /\ supported' = [supported EXCEPT ![closing[x].sock] = FALSE]
  /\ bound' = [bound EXCEPT ![closing[x].sock] = FALSE]
  /\ closing' = [closing EXCEPT ![x] = [sock |-> NoSocket, at |-> "idle"]]
  /\ UNCHANGED <<refVars, tpio, callVars, heapVars, cb, work, historyVars, envVars>>

\* ~WinSocket: wait for the callbacks and close the PTP_IO; socket_ is not closed
Destructor(s) ==
  /\ obj[s] = "dying"
  /\ tpio[s] = "open" => OutstandingOn(s) = {}
  /\ obj' = [obj EXCEPT ![s] = "dead"]
  /\ tpio' = [tpio EXCEPT ![s] = "null"]
  /\ UNCHANGED <<dtor, held, valid, supported, bound, closing, callVars, heapVars, cb, work, historyVars, envVars>>

--------------------------------------------------------------------------------
(* start_*: allocate, StartThreadpoolIo, system call, and the error path *)

\* What the program must respect when x calls start_* on s.  Application threads
\* serialise it with close(); handlers do unless close_races.
MayStart(x, s) ==
  /\ <<x, s>> \in held
  /\ Idle(x)
  /\ x \in Ops => "chains" \in Env
  /\ (x \in Clients \/ "close_races" \notin Env) => tpio[s] = "open" /\ ~CloseInProgress(s)

\* new IOData{}; socket_ = shared_from_this(); user_handler_ = std::move(handler)
NewIOData(x, s, a, o, k, h) ==
  /\ mem[o] = "none"
  /\ k \in Kinds
  /\ ~h => "no_handler" \in Env
  /\ mem' = [mem EXCEPT ![o] = "alloc"]
  /\ owner' = [owner EXCEPT ![o] = s]
  /\ accepted' = [accepted EXCEPT ![o] = a]
  /\ context' = [context EXCEPT ![o] = k \in {"accept", "connect"}]
  /\ handler' = [handler EXCEPT ![o] = h]
  /\ by' = [by EXCEPT ![o] = x]
  /\ UNCHANGED error_code

\* StartThreadpoolIo(socket_io_handle_) on whatever the member now holds
StartThreadpoolIo(s, o) ==
  \/ /\ tpio[s] = "open"
     /\ cb' = [cb EXCEPT ![o] = "started"]
     /\ UNCHANGED fault
  \/ /\ tpio[s] = "null"
     /\ fault' = "null_io"
     /\ UNCHANGED cb

\* The start_* functions that neither convert an address nor touch the socket.
StartPlain(x, s, o, k, h) ==
  /\ NewIOData(x, s, NoSocket, o, k, h)
  /\ MayStart(x, s)
  /\ StartThreadpoolIo(s, o)
  /\ UNCHANGED <<refVars, handleVars, closing, work, historyVars, core>>

start_recv(x, s, o, h) == StartPlain(x, s, o, "recv", h)
start_recv_from(x, s, o, h) == StartPlain(x, s, o, "recv_from", h)
start_send(x, s, o, h) == StartPlain(x, s, o, "send", h)
start_disconnect(x, s, o, h) == StartPlain(x, s, o, "disconnect", h)

\* if (!accept_socket->is_valid()) accept_socket->socket(...); the call returns
\* the error, and changes nothing, when that fails
start_accept(x, s, a, o, h) ==
  /\ NewIOData(x, s, a, o, "accept", h)
  /\ MayStart(x, s)
  /\ a # s
  /\ <<x, a>> \in held
  /\ ~CloseInProgress(a)
  /\ IF valid[a] THEN UNCHANGED <<tpio, valid, supported>>
     ELSE valid[s] /\ OpenSocket(a, supported[s])
  /\ StartThreadpoolIo(s, o)
  /\ UNCHANGED <<refVars, bound, closing, work, historyVars, core>>

\* The socket is bound to the any-address first.  A family endpoint_to_sockaddr does not
\* support, that of a closed socket among them, or a failing bind() returns the error and
\* leaves the IOData behind.
start_connect(x, s, o, h) ==
  /\ NewIOData(x, s, NoSocket, o, "connect", h)
  /\ MayStart(x, s)
  /\ \/ /\ supported[s]
        /\ bound' = [bound EXCEPT ![s] = TRUE]
        /\ StartThreadpoolIo(s, o)
     \/ /\ ~supported[s] \/ (~bound[s] /\ "setup_fails" \in Env)
        /\ UNCHANGED <<bound, cb, fault>>
  /\ UNCHANGED <<refVars, tpio, valid, supported, closing, work, historyVars, core>>

\* An unsupported family returns the error and leaves the IOData behind.
start_send_to(x, s, o, h) ==
  /\ NewIOData(x, s, NoSocket, o, "send_to", h)
  /\ MayStart(x, s)
  /\ IF supported[s] THEN StartThreadpoolIo(s, o) ELSE UNCHANGED <<cb, fault>>
  /\ UNCHANGED <<refVars, handleVars, closing, work, historyVars, core>>

\* AcceptEx, ConnectEx, WSARecv, ... succeed or report ERROR_IO_PENDING: start_*
\* returns Success and never touches the IOData again.
SystemCall(o) ==
  /\ cb[o] = "started"
  /\ valid[owner[o]]
  /\ cb' = [cb EXCEPT ![o] = "pending"]
  /\ UNCHANGED <<refVars, handleVars, closing, callVars, heapVars, work, historyVars, envVars>>

\* ... or fail at once
SystemCallFails(o) ==
  /\ cb[o] = "started"
  /\ cb' = [cb EXCEPT ![o] = "failed"]
  /\ UNCHANGED <<refVars, handleVars, closing, callVars, heapVars, work, historyVars, envVars>>

\* delete io_data, before CancelThreadpoolIo; run by the caller of start_*
DeleteFailed(o) ==
  /\ cb[o] = "failed"
  /\ cb' = [cb EXCEPT ![o] = "undo"]
  /\ Delete(o, ThreadOf(by[o]))
  /\ UNCHANGED <<held, handleVars, closing, callVars, accepted, error_code, work, historyVars, envVars>>

\* CancelThreadpoolIo(socket_io_handle_): reads the member again, through this
CancelThreadpoolIo(o) ==
  /\ cb[o] = "undo"
  /\ Destroyed(ThreadOf(by[o]))
  /\ cb' = [cb EXCEPT ![o] = "cancelled"]
  /\ fault' = IF obj[owner[o]] # "live" THEN "dead_this"
              ELSE IF tpio[owner[o]] = "null" THEN "null_io" ELSE "none"
  /\ UNCHANGED <<refVars, handleVars, closing, callVars, heapVars, work, historyVars, core>>

--------------------------------------------------------------------------------
(* The kernel and socket_io_routine on an IO pool thread *)

\* The kernel completes the operation; it aborts it when the socket was closed.
Complete(o, r) ==
  /\ cb[o] = "pending"
  /\ r = "io" \/ valid[owner[o]]
  /\ cb' = [cb EXCEPT ![o] = "packet"]
  /\ result' = [result EXCEPT ![o] = r]
  /\ UNCHANGED <<refVars, handleVars, closing, callVars, heapVars, work, update, calls, envVars>>

FirstError_Overwritten(e, later) == IF later = "Success" THEN e ELSE later

\* "Let's not overwrite if there is an IO/Socket related error"
FirstError(e, later) == IF e = "Success" THEN later ELSE e

IoThreadFree == Cardinality({o \in Ops : cb[o] \in InRoutine}) < IoThreads

\* The routine stores the result and updates the socket context: after an
\* accept update_accept_socket_context, get_acceptex_sockaddrs and sockaddr_to_endpoint,
\* after a connect update_connect_socket_context.  A later error does not replace an
\* earlier one.
RoutineEnter(o, ctx) ==
  /\ cb[o] = "packet"
  /\ IoThreadFree
  /\ ctx # "Success" => context[o]
  /\ cb' = [cb EXCEPT ![o] = "entered"]
  /\ error_code' = [error_code EXCEPT ![o] = FirstError(result[o], ctx)]
  /\ update' = [update EXCEPT ![o] = ctx]
  /\ UNCHANGED <<refVars, handleVars, closing, callVars, mem, accepted, work, result, calls, envVars>>

\* The lambda forgets to return true: the routine frees what it has posted.
RoutinePost_ThenFrees(o) ==
  /\ cb[o] = "entered"
  /\ handler[o]
  /\ core = "up"
  /\ work' = [work EXCEPT ![o] = "queued"]
  /\ cb' = [cb EXCEPT ![o] = "freeing"]
  /\ UNCHANGED <<refVars, handleVars, closing, callVars, heapVars, historyVars, envVars>>

\* post_user_work succeeds: the closure owns the IOData from here on, and may
\* run before this callback returns.
RoutinePost(o) ==
  /\ cb[o] = "entered"
  /\ handler[o]
  /\ core = "up"
  /\ work' = [work EXCEPT ![o] = "queued"]
  /\ cb' = [cb EXCEPT ![o] = "return"]
  /\ UNCHANGED <<refVars, handleVars, closing, callVars, heapVars, historyVars, envVars>>

\* post_user_work fails: the handler is called by hand on this IO thread.
RoutineInline(o) ==
  /\ "post_fails" \in Env
  /\ cb[o] = "entered"
  /\ handler[o]
  /\ core = "up"
  /\ cb' = [cb EXCEPT ![o] = "inline"]
  /\ error_code' = [error_code EXCEPT ![o] = FirstError(@, "post")]
  /\ CallHandler(o)
  /\ UNCHANGED <<obj, dtor, handleVars, closing, callVars, mem, work, result, update, envVars>>

\* The handler called by hand returns.
InlineReturn(o) ==
  /\ cb[o] = "inline"
  /\ HandlerReturns(o)
  /\ cb' = [cb EXCEPT ![o] = "freeing"]
  /\ UNCHANGED <<handleVars, closing, callVars, heapVars, work, historyVars, envVars>>

\* The test for a handler is inverted.
RoutineSkip_Inverted(o) ==
  /\ cb[o] = "entered"
  /\ handler[o] \/ core = "expired"
  /\ cb' = [cb EXCEPT ![o] = "freeing"]
  /\ UNCHANGED <<refVars, handleVars, closing, callVars, heapVars, work, historyVars, envVars>>

\* No handler, or no core to post it to: the handler is not called.
RoutineSkip(o) ==
  /\ cb[o] = "entered"
  /\ ~handler[o] \/ core = "expired"
  /\ cb' = [cb EXCEPT ![o] = "freeing"]
  /\ UNCHANGED <<refVars, handleVars, closing, callVars, heapVars, work, historyVars, envVars>>

\* delete io_data at the end of the routine
RoutineDelete(o) ==
  /\ cb[o] = "freeing"
  /\ Destroyed(<<"io", o>>)
  /\ cb' = [cb EXCEPT ![o] = "return"]
  /\ Delete(o, <<"io", o>>)
  /\ UNCHANGED <<held, handleVars, closing, callVars, accepted, error_code, work, historyVars, envVars>>

\* The callback returns to the thread pool, once the destructors it ran are through.
RoutineReturn(o) ==
  /\ cb[o] = "return"
  /\ Destroyed(<<"io", o>>)
  /\ cb' = [cb EXCEPT ![o] = "done"]
  /\ UNCHANGED <<refVars, handleVars, closing, callVars, heapVars, work, historyVars, envVars>>

--------------------------------------------------------------------------------
(* The closure on a user pool thread *)

UserThreadFree ==
  Cardinality({o \in Ops : work[o] \in {"running", "freeing", "return"}}) < UserThreads

UserCall(o) ==
  /\ work[o] = "queued"
  /\ UserThreadFree
  /\ work' = [work EXCEPT ![o] = "running"]
  /\ CallHandler(o)
  /\ UNCHANGED <<obj, dtor, handleVars, closing, callVars, mem, error_code, cb, result, update, envVars>>

UserHandlerReturn(o) ==
  /\ work[o] = "running"
  /\ HandlerReturns(o)
  /\ work' = [work EXCEPT ![o] = "freeing"]
  /\ UNCHANGED <<handleVars, closing, callVars, heapVars, cb, historyVars, envVars>>

\* delete io_data at the end of the closure
UserDelete(o) ==
  /\ work[o] = "freeing"
  /\ Destroyed(<<"user", o>>)
  /\ work' = [work EXCEPT ![o] = "return"]
  /\ Delete(o, <<"user", o>>)
  /\ UNCHANGED <<held, handleVars, closing, callVars, accepted, error_code, cb, historyVars, envVars>>

UserReturn(o) ==
  /\ work[o] = "return"
  /\ Destroyed(<<"user", o>>)
  /\ work' = [work EXCEPT ![o] = "done"]
  /\ UNCHANGED <<refVars, handleVars, closing, callVars, heapVars, cb, historyVars, envVars>>

--------------------------------------------------------------------------------
(* The specification *)

StartSome(x, s, o, h) ==
  \/ start_recv(x, s, o, h)
  \/ start_recv_from(x, s, o, h)
  \/ start_send(x, s, o, h)
  \/ start_send_to(x, s, o, h)
  \/ start_connect(x, s, o, h)
  \/ start_disconnect(x, s, o, h)
  \/ \E a \in Sockets : start_accept(x, s, a, o, h)

StartStep(o) ==
  \/ SystemCall(o) \/ SystemCallFails(o) \/ DeleteFailed(o) \/ CancelThreadpoolIo(o)

RoutineStep(o) ==
  \/ \E ctx \in {"Success", "context"} : RoutineEnter(o, ctx)
  \/ RoutinePost(o) \/ RoutineInline(o) \/ InlineReturn(o) \/ RoutineSkip(o)
  \/ RoutineDelete(o) \/ RoutineReturn(o)

UserStep(o) == UserCall(o) \/ UserHandlerReturn(o) \/ UserDelete(o) \/ UserReturn(o)

CloseStep(x) == CloseWait(x) \/ CloseIo(x) \/ CloseSocket(x)

Next ==
  /\ fault = "none"
  /\ \/ \E x \in Callers, s \in Sockets : create(x, s) \/ socket(x, s) \/ close(x, s)
     \/ \E c \in Clients, s \in Sockets : DropReference(c, s)
     \/ \E x \in Callers, c \in Clients, s \in Sockets : Share(x, c, s)
     \/ \E x \in Callers : CloseStep(x)
     \/ \E x \in Callers, s \in Sockets, o \in Ops, h \in BOOLEAN : StartSome(x, s, o, h)
     \/ \E o \in Ops : StartStep(o) \/ RoutineStep(o) \/ UserStep(o)
     \/ \E o \in Ops, r \in {"Success", "io"} : Complete(o, r)
     \/ \E s \in Sockets : Destructor(s)
     \/ DropCore

Spec == Init /\ [][Next]_vars

(***************************************************************************)
(* Threads that can run do run: a call that was entered goes on, a queued  *)
(* packet or closure is picked up by a pool thread.  Handlers return, also *)
(* one that opens and closes a socket any number of times first (strong    *)
(* fairness).  The kernel owes an operation nothing until its socket is    *)
(* closed: a peer may stay silent for ever.                                *)
(***************************************************************************)
Fairness ==
  /\ \A o \in Ops : /\ WF_vars(StartStep(o) /\ fault = "none")
                    /\ WF_vars(RoutineStep(o) /\ fault = "none")
                    /\ WF_vars(UserStep(o) /\ fault = "none")
                    /\ SF_vars((UserHandlerReturn(o) \/ InlineReturn(o)) /\ fault = "none")
                    /\ WF_vars(Complete(o, "io") /\ ~valid[owner[o]] /\ fault = "none")
  /\ \A x \in Callers : WF_vars(CloseStep(x) /\ fault = "none")
  /\ \A s \in Sockets : WF_vars(Destructor(s) /\ fault = "none")

FairSpec == Spec /\ Fairness

--------------------------------------------------------------------------------
(* Safety *)

(***************************************************************************)
(* No IOData is used or freed twice after its delete: from its allocation  *)
(* until the step that frees it, whoever is about to touch it (start_*, the*)
(* kernel, socket_io_routine or the posted closure) finds it allocated, and*)
(* the routine and the closure are never both about to delete it.          *)
(***************************************************************************)
IoDataSafe ==
  \A o \in Ops :
    /\ cb[o] \in Outstanding \ {"undo", "return"} => mem[o] = "alloc" /\ work[o] = "none"
    /\ work[o] \in {"queued", "running", "freeing"} => mem[o] = "alloc"

(***************************************************************************)
(* "be sure to double check that io data gets released accordingly": every *)
(* IOData still allocated is on its way to one of the three deletes.       *)
(***************************************************************************)
NoOrphan ==
  \A o \in Ops : mem[o] = "alloc" =>
    \/ cb[o] \in Outstanding \ {"undo", "return"}
    \/ work[o] \in {"queued", "running", "freeing"}

(***************************************************************************)
(* A socket is alive while a call, the kernel, a callback or a handler     *)
(* still works on it.  Only a callback that has nothing left to do but     *)
(* return may be outstanding when ~WinSocket waits, so the destructor never*)
(* waits for the network.                                                  *)
(***************************************************************************)
SocketOutlivesOps ==
  \A o \in Ops :
    cb[o] \in Outstanding \ {"return"} \/ work[o] \in {"queued", "running", "freeing"}
      => obj[owner[o]] = "live"

(***************************************************************************)
(* ~WinSocket does not run inside a callback it waits for: freeing the     *)
(* IOData on the user pool keeps the IO thread out of the destructor.      *)
(***************************************************************************)
NoSelfWait ==
  \A s \in Sockets, o \in Ops :
    obj[s] = "dying" /\ dtor[s] = <<"io", o>> => o \notin OutstandingOn(s)

(***************************************************************************)
(* A handler is called at most once, never when start_* reported an error, *)
(* and exactly once when the operation is over, unless the program gave    *)
(* none or dropped the core.                                               *)
(***************************************************************************)
HandlerOnce ==
  \A o \in Ops :
    /\ calls[o] <= IF cb[o] = "cancelled" \/ ~handler[o] THEN 0 ELSE 1
    /\ cb[o] = "done" /\ work[o] \in {"none", "done"} /\ handler[o] /\ core = "up" => calls[o] = 1

\* The first error of operation o: its own, that of the context update, or that of
\* the failed post which made the routine call the handler itself
FirstOf(o) ==
  IF result[o] # "Success" THEN result[o]
  ELSE IF update[o] # "Success" THEN update[o]
  ELSE IF cb[o] = "inline" THEN "post" ELSE "Success"

(***************************************************************************)
(* The error a handler sees is the first one of the operation, and Success *)
(* only if there was none: neither the context update nor a failed post    *)
(* overwrites an error before it, and none of the three is lost.           *)
(***************************************************************************)
FirstErrorReported == \A o \in Ops : Handling(o) => error_code[o] = FirstOf(o)

\* Where an operation stands for the program that started it.
Stage(o) ==
  CASE mem[o] = "none" -> "idle"
    [] mem[o] = "freed" -> "over"
    [] mem[o] = "alloc" /\ Handling(o) -> "handling"
    [] mem[o] = "alloc" /\ ~Handling(o) /\ calls[o] = 0 -> "pending"
    [] OTHER -> "handled"

A == INSTANCE AsyncOp WITH stage <- [o \in Ops |-> Stage(o)]

(***************************************************************************)
(* start_*, socket_io_routine and the posted closure together implement the*)
(* abstract operation: whatever fails and races, the handler is called     *)
(* after start_* and at most once, and the IOData is released once, after  *)
(* the handler has returned and not while it runs.                         *)
(***************************************************************************)
ImplementsAsyncOp == A!Spec

(***************************************************************************)
(* StartThreadpoolIo and CancelThreadpoolIo are never called with a null   *)
(* or closed PTP_IO, nor through a destroyed socket.                       *)
(***************************************************************************)
NoFault == fault = "none"

(***************************************************************************)
(* CloseThreadpoolIo runs, in close() and in ~WinSocket, only when no      *)
(* operation is outstanding on the PTP_IO: "Waits for all unfinished async *)
(* socket operations to complete, closes the threadpool IO".               *)
(***************************************************************************)
QuiescentCloseIo ==
  [][\A s \in Sockets : tpio[s] = "open" /\ tpio'[s] = "null" => OutstandingOn(s) = {}]_vars

--------------------------------------------------------------------------------
(* The inductive invariant *)

\* The stages at which a call or a thread pool owns the IOData.
CbOwns == Outstanding \ {"undo", "return"}
WorkOwns == {"queued", "running", "freeing"}

\* Heap cell, callback and closure keep step.
OpInv ==
  \A o \in Ops :
    /\ cb[o] \in CbOwns => mem[o] = "alloc" /\ work[o] = "none"
    /\ work[o] \in WorkOwns => mem[o] = "alloc"
    /\ cb[o] \in {"undo", "cancelled"} => mem[o] = "freed"
    /\ work[o] # "none" => cb[o] \in {"return", "done"}
    /\ mem[o] = "none" => cb[o] = "idle"
    /\ mem[o] # "none" => owner[o] \in Sockets /\ by[o] \in Callers

\* The reference count is right: a socket is alive as long as a reference to it is.
RefInv == \A s \in Sockets : obj[s] = "live" <=> Referenced(s, mem, accepted, held)

\* A thread inside start_* or close() keeps its own reference to the socket.
CallerInv ==
  /\ \A o \in Ops : cb[o] \in InStart => <<by[o], owner[o]>> \in held
  /\ \A x \in Callers : closing[x].at # "idle" => <<x, closing[x].sock>> \in held

\* One thread at a time closes a socket.  Past the wait nothing is outstanding and,
\* while anything is, the PTP_IO is open; this is what racing handlers break.
CloseInv ==
  /\ \A x \in Callers : closing[x].at = "idle" <=> closing[x].sock = NoSocket
  /\ \A x, y \in Callers :
       closing[x].at # "idle" /\ closing[x].sock = closing[y].sock => x = y
  /\ "close_races" \notin Env =>
       /\ \A s \in Sockets : OutstandingOn(s) # {} => tpio[s] = "open"
       /\ \A x \in Callers :
            closing[x].at \in {"closeio", "closesocket"} => OutstandingOn(closing[x].sock) = {}
       /\ fault = "none"

(***************************************************************************)
(* The strengthening that makes the safety properties inductive: heap cell,*)
(* callback and closure of an operation agree, reference counts are exact, *)
(* callers keep what they work on alive, and close() is exclusive.         *)
(***************************************************************************)
IInv == TypeOK /\ OpInv /\ RefInv /\ CallerInv /\ CloseInv

\* How far the handler is, and the error it will see.
DeliveryOf(o) ==
  /\ calls[o] = 0 \/ (calls[o] = 1 /\ handler[o])
  /\ calls[o] = 1 => cb[o] \in {"inline", "freeing", "return", "done"}
  /\ cb[o] = "inline" => calls[o] = 1
  /\ work[o] = "queued" => calls[o] = 0 /\ handler[o]
  /\ work[o] \in {"running", "freeing", "return", "done"} => calls[o] = 1
  /\ cb[o] \in {"freeing", "return", "done"} /\ work[o] = "none" /\ handler[o] /\ core = "up"
       => calls[o] = 1
  /\ cb[o] \in {"entered", "inline"} \/ work[o] \in {"queued", "running"} => error_code[o] = FirstOf(o)

DeliveryInv == \A o \in Ops : DeliveryOf(o)

--------------------------------------------------------------------------------
(* Liveness *)

\* Every operation the kernel accepted completes.
PeersAnswer == \A o \in Ops : cb[o] = "pending" ~> cb[o] # "pending"

(***************************************************************************)
(* close() returns, from application threads and from handlers, if the     *)
(* operations it waits for complete: it is not started anew, not blocked by*)
(* its own handler and not starved by busy pools.                          *)
(***************************************************************************)
CloseReturns ==
  PeersAnswer => \A x \in Callers : closing[x].at # "idle" ~> closing[x].at = "idle"

(***************************************************************************)
(* A completed operation has its handler called, even with all pool threads*)
(* busy in handlers that close sockets.                                    *)
(***************************************************************************)
HandlerCalled ==
  PeersAnswer => \A o \in Ops : cb[o] = "packet" /\ handler[o] ~> calls[o] = 1

\* Every IOData is released in the end.
IoDataReleased ==
  PeersAnswer => \A o \in Ops : mem[o] = "alloc" ~> mem[o] = "freed"

\* ~WinSocket returns, whatever the peers do.
DestructorReturns == \A s \in Sockets : obj[s] = "dying" ~> obj[s] = "dead"
================================================================================
