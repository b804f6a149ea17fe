# firelink-net: TLA+ specifications and proofs

firelink-net is a C++ library for asynchronous sockets on Windows. This directory models the library and
its two example programs: the core that sleeps until it is stopped, the two thread pools it owns, the
path of an asynchronous operation from `start_*` to its handler, the synchronous calls, the address
conversions, and the order in which a program shuts all of it down. TLC checks the models on small
instances; TLAPS proves the safety properties for every number of threads, sockets, operations, calls
and addresses, and for every size of a buffer.

## The system

| Part | State | Operations | Where |
|---|---|---|---|
| IOCore, run/stop | `stop_requested_`, `srw_run_`, `cv_run_` | `run`, `stop`, `Socket::stop_io_context`, flag reset in `initialize` | `win_io_core.cpp:133-154` |
| IOCore, resources | two pools, two cleanup groups, `io_rollback_`, `user_rollback_`, Winsock | `IOCore::create`, `initialize`, `release` | `win_io_core.cpp:5-81,161-366`, `io_core.cpp` |
| Work posting | closures queued in a pool | `post_user_work`, `post_io_work` | `win_io_core.cpp:83-131` |
| WinSocket, asynchronous | `socket_`, `socket_io_handle_`, `is_bound_`, one `IOData` per operation | seven `start_*` functions, `socket_io_routine`, the posted closure | `win_socket.cpp:361-661,733-1024` |
| WinSocket, lifetime | `shared_ptr`s in the program and in every `IOData` | `Socket::create`, `socket`, `close`, `~WinSocket` | `win_socket.cpp:21-148`, `socket.cpp` |
| WinSocket, synchronous | `socket_`, `socket_io_handle_`, `addr_family_`, `is_bound_` | `socket`, `bind`, `listen`, `accept`, `connect`, `send_to`, `recv_from`, `disconnect`, name queries | `win_socket.cpp:83-356,666-731` |
| Endpoints | an untagged union | sockaddr and text conversions | `win_socket.cpp:1029-1293`, `endpoint.cpp` |
| Echo server and client | global buffers, their sockets | handlers and `main` | `examples/` |

How they interact. The program creates an `IOCore`, creates sockets that hold a weak reference to it,
starts operations and calls `run()`. The kernel reports a completed operation to a thread of the IO
pool, which runs `socket_io_routine`. The routine posts a closure to the user pool; the closure calls
the program's handler and deletes the `IOData`. A handler may start more operations, close sockets or
stop the core. When `run()` returns the program closes its sockets and releases the core.

What makes it hard:

- the stop flag is written outside the lock that guards the condition variable;
- no lock protects a socket or an `IOData`; ownership passes from the caller of `start_*` to the kernel,
  to an IO thread, to a user thread, and each hand-over can fail;
- whichever thread drops the last `shared_ptr` runs `~WinSocket`, which waits for callbacks;
- `close()` and the destructor wait for callbacks while handlers may be starting new ones;
- `initialize()` and `release()` are sequences of calls each of which can fail, and `release()` gives up
  waiting after a timeout;
- the user pool, which runs the handlers, is torn down before the IO pool that feeds it;
- an `Endpoint` does not know its family, and addresses cross between byte orders, signed and unsigned
  integers, and text;
- the examples use one buffer for all their operations, and close sockets while handlers still run.

## Modules

| Module | Models |
|---|---|
| `Latch` | what `run()` and `stop()` promise, without locks |
| `RunStop` | `run()` and `stop()`, a step per statement another thread can observe |
| `AsyncOp` | what an asynchronous operation promises, without pools or reference counts |
| `AsyncSocket` | asynchronous operations and socket lifetime |
| `IOCore` | `initialize()` and `release()` |
| `Shutdown` | `IOCore` with sockets: the callbacks in its pools are routines and handlers |
| `Endpoint` | endpoints, sockaddrs, texts, and the conversions between them, as operators |
| `Disconnect` | the timed loop of `disconnect()` |
| `SyncSocket` | the synchronous calls, over `Endpoint` and `Disconnect` |
| `Echo` | both example programs on one TCP connection |
| `...Proofs` | theorems: `RunStopProofs`, `AsyncSocketProofs`, `DeliveryProofs` (also about `AsyncSocket`), `IOCoreProofs`, `ShutdownProofs`, `SyncPartsProofs` (about `Endpoint` and `Disconnect`), `SyncSocketProofs`, `EchoProofs` |
| `MC...` | the instances TLC checks |

`PROJECT.json` maps every definition to the source lines it stands for. Operators whose names end in a
suffix such as `_NoWait` or `_Breaks` are deliberately wrong variants of the definition that follows
them. Putting one in the place of the original makes TLC report a violation; every checked property has
such a variant that breaks it. They are not part of any specification.

### RunStop and Latch

`pc[t]` is where thread `t` is in `run()` or `stop()`. `srw_run` is the owner of the lock and `waiting` the queue of
the condition variable. `SleepConditionVariableSRW` is two steps: `RunSleep` releases the lock and joins
the queue at once, `RunWoken` takes the lock again. A sleeper may wake without cause (`SpuriousWake`).
`stop(t)` sets the flag; `StopLock`, `StopWake` and `StopUnlock` follow. `initialize` is the flag reset;
it may happen at any time, between the two halves of a `stop()` as well.

`Latch` has two variables: is it open, and who is inside. `RunStop` implements it under the mapping
`opened <- stop_requested = 1`, `inside <-` the threads that have not yet left the loop of `run()`. An
`initialize()` closes the latch again, also on threads that have been told to leave and have not: such a
`stop()` is lost (`win_io_core.cpp:59`), and `StopEndsRun` promises an end only while the request stands.

### AsyncSocket

An operation `o` stands for one `IOData` and its completion callback. Three variables follow it, since
their lives overlap:

- `mem[o]`: the heap cell;
- `cb[o]`: `start_*`, then the kernel, then `socket_io_routine` on an IO thread;
- `work[o]`: the closure on a user thread.

`held` says which thread or handler has a `shared_ptr` to which socket. A socket is destroyed by the
step that removes the last reference (`Destroy`), and `dtor` records the thread. `~WinSocket` is a step
of its own, since it waits; the thread that runs it goes no further meanwhile (`Destroyed`).
`close()` is four steps: entry, the wait, `CloseThreadpoolIo`, `closesocket` with the resets.
`IoThreads` and `UserThreads` bound how many callbacks and handlers run at once.

Data is abstracted: buffers, addresses and byte counts are gone, and an error is one of its three
origins (`io`, `context`, `post`). Of the family of a socket it matters whether `endpoint_to_sockaddr` accepts it
(`supported`): it does not on a socket opened with `AddressFamily::Unspecified`, and then `start_connect` and
`start_send_to` return early. `result` and `update` record the errors of the operation and of the context
update, so that the one the handler sees can be compared with them. The constant `Env` switches on what the program and the system may
do: `no_handler`, `chains`, `handler_closes`, `close_races`, `unspecified`, `setup_fails`, `post_fails`,
`core_expires` (explained in the module). The theorems say which of them they exclude.

Assumed of Windows, from how the code uses it: `WaitForThreadpoolIoCallbacks(io, FALSE)` returns when
every `StartThreadpoolIo` has been balanced by `CancelThreadpoolIo` or by the end of a callback; closing
a socket aborts its operations; handlers receive their `shared_ptr`s by value. Assumed of the program:
`socket()` is called on closed sockets, one thread at a time closes a socket, and application threads do
not start an operation on a socket while it is being closed.

`AsyncOp` is the user's view of one operation: idle, pending, handling, handled, over. `AsyncSocket`
implements it under a mapping (`Stage`) that reads the stage off the heap cell, the number of handler
calls and whether the handler is still running; what the kernel and the pools do in between is a stutter.

### IOCore

`pc` is where the calling thread is in `initialize()` or `release()`. `rollback` and `handle` are the
members of the core. `pools`, `groups` and `wsa` are what really exists. The n-th pool and its
cleanup group share the number n, so a handle that is overwritten stays visible as a number nobody
holds. `cleaner[n]` is the helper thread that drains group n, `running` the pools with a callback in
progress, `abandoned` the groups whose helper `release()` gave up on. Two history variables record what a
second `initialize()` takes from `release()`: `leaked`, the pools whose handle it has overwritten, and
`startups`, the `WSAStartup` calls that were already unbalanced when the latest one was made.
A callback may start in any group that is still open or abandoned, those of leaked pools included.

A failing step returns with the level it has reached. Inside `create()` that destroys the object
(`core = "gone"`); on a released core that is initialized again it leaves the program with something to
release. The constructor does not set the levels, so they start arbitrary. `create()` hands out only
cores whose `initialize()` has set both, and no theorem needs more.

`Env` switches on `fails` (any acquiring call and `WSACleanup` may fail), `gives_up` (`CreateThread` or
the wait fails, or the wait times out) and `reinit` (a second `initialize()` without `release()`).

### Shutdown

An operation goes from `pending` through its `routine` in the IO pool to `posted` and its `handler` in the
user pool. `group[o]` is the cleanup group it belongs to at the moment, and `member[s]` the group of a
socket's `PTP_IO`. Starting and ending a callback are the `CallbackStarts` and `CallbackReturns` of `IOCore`, which
counts pools with a callback in progress; all other steps of the core are `IOCore`'s own, and
`initialize()` is called while no socket is open (`InitializeAfterClose`), a second time without
`release()` included. When a helper
thread has drained a group (`Cleanup`) its `PTP_IO`s are closed and what has not started is cancelled.
`fault` is set when a routine posts to a user pool that is gone or being cleaned up, or a `PTP_IO` is
closed twice. The program closes every socket before it calls `release()`, as the examples do on their
normal way out.

`close()` is two steps, `WaitForThreadpoolIoCallbacks` and `CloseThreadpoolIo`, and handlers and other threads start
operations on an open socket at any time, also between the two (`win_socket.cpp:130-131`). Such an operation outlives
the `close()`: its `PTP_IO` has left the cleanup group, so nothing waits for it, and its routine may post while
`release()` tears the user pool down. This is the race of the run `async_close_race`, met again here. `raced` holds the
operations that came through the window, and the properties name them as their only exception; with
`NoLateUse == fault = {}` TLC reports a violation after a few steps. A start on a socket that is already closed is left
to `AsyncSocket` (`close_races`), where it is a fault.

### Endpoint

An address is its bytes and a port. The union of `Endpoint` is modelled as memory cells: building
one from an IPv4 address leaves the bytes beyond it indeterminate (`Junk`), and reading the other member
reads those cells: any byte of `Stale` may be found there (`Settled`). `sockaddr_to_endpoint` shifts an IPv4 address out of a signed 32-bit value, so
`Int32` and `ShiftedByte` keep the sign. `htons` swaps the bytes of a 16-bit port, and a parsed port is
taken modulo 2^16.

Text is abstracted to what the parsers look for: the host (an address of a family, or a name with or
without a dot), brackets around it, and what follows the colon (nothing, a number in the range of
`int`, a larger one, no number). Not covered by the abstraction: numbers with leading zeros or trailing
characters, and IPv6 addresses with a port but no brackets.

### Disconnect

`at` is the place in the loop, `spent` the milliseconds since the call began. Data arrives, another
thread may read it (`Steal`), and the clock ticks between any two steps. The widths of `int`, `long` and
`ULONGLONG` are constants; the tick count may wrap during the call.

### SyncSocket

One application thread calls the synchronous API on several sockets. `native` and `tpio` are what Winsock
and the thread pool have open, the other variables the members of the C++ objects. Each call fails
wherever it can, `closesocket` included: `close()` returns its error and forgets the handle all the same
(`win_socket.cpp:137-141`), and the places that close a handle they have just got ignore it (`LeftOpen`). `lost` records
handles that nobody owns any more, `overwritten` the sockets that were opened while open. `socket()` may be called with
`AddressFamily::Unspecified`: Winsock picks the family, and `addr_family_` keeps the value for which every conversion
fails.

`ep` is the program's `Endpoint`, filled by a query, a receive or the parser, or never, and passed to `bind`, `connect`
or `send_to`; `text` is what the parser is given. Nothing ties the family of the endpoint to that of the socket: what
reaches Winsock is the member of the union that `addr_family_` selects (`Converted`), whatever is in it.

`Bounds` names the bounds on the program that keep the run small (below). Each is a guard of the form
`"name" \in Bounds => ...`; the theorems hold for every value of `Bounds`, so also for `{}`, where the program calls
what it likes.

### Echo

`main[p]` is where `main()` of program `p` is, `op[p][k]` the stage of an operation and its handler. The
buffer of a program has `Size` cells, and the test string is copied to the first `Text` of them. A send reads
the buffer cell by cell while it is in progress, and a receive writes as many cells as have arrived. Sends
are counted, since a server that receives a message in pieces starts one for each: in progress
(`sending`, `sent`), succeeded (`sends`) and failed (`failures`) with the handler queued. A handler that
starts two operations does so in two steps (`CopiesAndSends`, then `Starts`), and each start may fail
(`StartFails`). The library appears as the other modules establish it:
`run()` returns after `stop()` (`Latch`), a handler is called once (`AsyncOp`), `close()` waits for what is
pending (`AsyncSocket`), `release()` cancels queued handlers and waits for running ones (`Shutdown`).
`Env` switches on failing calls in `main()` and resets of the connection.

## Runs

| Run | Instance | Distinct states | Shows |
|---|---|---|---|
| `run_stop` | 3 threads, 4 calls, 2 spurious wake-ups, `initialize()` at any time | 4,999 | no lost wake-up, `stop()` ends every `run()`, the latch is implemented |
| `async_contract` | 2 sockets, 2 operations, 1 client, accept and recv | 813,886 | no leak, no self-wait, the `PTP_IO` is used while open and closed when idle |
| `async_failures` | 1 socket, 2 operations, six kinds, every `Env` option | 366,582 | no use after free, sockets outlive operations, handlers run once and see the first error, `AsyncOp` is implemented |
| `async_live` | 1 socket, 2 operations, 1 thread per pool | 4,410 | `close()` and `~WinSocket` return, handlers are called, memory is released |
| `io_core` | 2 `initialize()` calls, with or without `release()` between them, anything fails or times out | 61,973 | levels are exact, Success means all freed that was not leaked, groups are closed idle, `release()` returns |
| `shutdown` | 2 sockets, 1 operation each, 2 cycles of `initialize()` and `release()`, timeouts | 353,307 | nothing is used after it is torn down, nothing is left, no IO is cancelled, handlers are called or cancelled |
| `sync_socket` | 2 sockets, 3 handles, 9 texts, 2 peers, 4 timeouts, 2 tick counts | 264,920 | handles are accounted for, members and names agree, endpoints survive conversions, `disconnect()` keeps its deadline |
| `echo` | the two programs, buffers of 2 cells, a string of 1, every `Env` option | 278,989 | replies survive the shared buffer, no use after close, both programs end |

What the properties say that need a word of explanation:

- `NoLateUse`, `QuietAfterRelease`: if the sockets are closed first, the order in which `release()` tears
  down the pools is harmless, and afterwards no `PTP_IO`, routine or handler is left, except in a group
  that `release()` gave up on or that a second `initialize()` leaked, and except operations started between the two
  halves of `close()`. Handlers that have not started are cancelled (`HandlerOrCancel`); there is no
  cancel callback, so their closures and `IOData` stay allocated. `NoIoCancelled`: no operation of the IO pool is.
- `FirstErrorReported`: of the error of the operation, that of the context update and that of a failed post, the
  handler sees the first; it sees Success only if there was none.
- `RollbackAccurate`, `ReleaseFreesRest`: the rollback levels account for exactly the pools and groups that
  exist and are not leaked; a `release()` that returns Success leaves the leaked ones, and the `WSAStartup`
  calls older than the latest, and nothing else. That nothing at all is left (`ReleaseFreesAll`) is true of
  programs that pair the calls (`PairedRelease`) and violated in `io_core_reinit`.
- `Accounted`: every open native socket and `PTP_IO` has exactly one owner, however calls fail; only opening
  or destroying an open socket, and a `closesocket` that fails, lose them. `MembersAgree`: `addr_family_` is the
  family of the native socket, or `Unspecified` on one that can then never be bound or connected; and
  `is_bound_` is never set on a socket without a name, unless it was opened while open.
- `NameFaithful`, `EndpointSurvives`, `ParsersAgree`: `bind` hands Winsock an address of the family of the socket, and,
  if the endpoint was filled for that family, the one that was asked for, byte by byte. (With an endpoint of
  the other family, or an empty one, the bytes are what happens to be in the union.) An endpoint survives the conversion to sockaddr and to both forms of text and back; whatever the strict
  parser of `WinSocket` accepts, `inet_pton` reads as the same address. The converse fails: `inet_pton`
  reads port 70000 as 4464, and throws on a port that is no number.
- `DeadlineKept`, `TimedOutHonest`, `DisconnectReturns`: with a positive timeout each `select()` gets exactly
  the time that is left, and the call returns although data keeps arriving, unless another thread reads
  what `select()` had announced (`win_socket.cpp:337` then blocks). A negative timeout never times out.
- `ReplyIntact`: the server prints the client's string, and the client the server's if the server received
  the message in one piece. If it arrives in pieces, the second receive overwrites the reply that is
  being sent, so that condition cannot be dropped. `NoUseAfterClose`: a handler starts an operation on a closed
  socket only after a reset, and the core is released with a socket open only after a failing `bind()` or
  `close()` of the server. `EchoEnds` exempts a program in which a handler used a closed socket.

Why the bounds are enough. In `RunStop` two runners asleep while two stops overlap needs three threads
and four calls. In `AsyncSocket` two operations give every order of two hand-overs, a handler that
starts the second operation while the first is being freed, and a pool of one thread that is exhausted;
a second socket is what an accept needs. In `IOCore` two calls give a first cycle and one that fails half
way on the stale handles of the first and is released in turn, and an `initialize()` that leaks what
another acquired. In `Shutdown` two sockets let one be closed
while the other's routine posts, and a second cycle meets closures abandoned in the first. In
`SyncSocket` an accept needs two sockets, and a third handle is one that was lost or is refused. All five
`Bounds` are set in its run, and limit how much of the product of independent parts is explored:
handles are lost in one call (`loses_once`); text is parsed while no socket is open (`reads_closed`); objects are
made before sockets are opened (`objects_first`); while there are two objects they are passed only the
plain endpoints of `Peers`, a single one any endpoint (`pairs_plain`); and the only socket is disconnected, just
after it was connected, and then closed (`disconnects_last`). In `Shutdown` what fails inside `initialize()` and
`release()`, and a second `initialize()`, are left to `io_core` and to the proofs, which cover every `Env`. The addresses have bytes above 127 and ports whose two bytes
differ. The integers are scaled (2^11 for 2^31, 2^24 for 2^64) with a tick count that wraps. `Echo` is
bounded by the size of its buffers alone: two cells let a message arrive in pieces and cause two replies.
The safety properties are also proved, for all values of the constants that set these bounds: of `AsyncSocket`
any sets of sockets, operations and threads, of `SyncSocket` an empty `Bounds`. What stays is a bound that is a
constant, finite or not: operations ever started (`Ops`), calls (`MaxInits`), handles open at a time (`Handles`). Symmetry is used in the two larger safety runs of
`AsyncSocket`, which check no liveness.

The runs switch off deadlock checking where a program may stop calling the library, end, or wait in
`run()` for ever because nobody calls `stop()`; `sync_socket` checks it.

### Fairness

- `RunStop`: a thread inside `run()` or `stop()` that can take a step eventually does, a free lock
  included. Nobody is obliged to call anything, and sleepers need not wake spuriously.
- `AsyncSocket`: a thread inside the library goes on, and a queued packet or closure is picked up when a
  pool thread is free (weak fairness). Handlers return, also one that opens and closes sockets many
  times first (strong fairness). The kernel completes an operation by itself only once the socket is
  closed. `CloseReturns`, `HandlerCalled` and `IoDataReleased` therefore assume `PeersAnswer`: `close()`
  waits before it closes the native socket, so a silent peer does block it. `DestructorReturns` needs
  no such assumption.
- `IOCore`: the calling thread and the helper threads run. Nothing is assumed of callbacks.
- `Shutdown`: in addition the user pool runs what is queued and handlers return; no IO has to complete.
- `SyncSocket`, `Disconnect`: the calling thread is scheduled and time goes on. The peer owes nothing.
- `Echo`: both mains, the pools and TCP make progress; handlers return. Nothing has to be reset.

### Disagreements between the code and what it says

Each of these runs checks one property that a comment, an example or the repository's README states, and
TLC finds it violated.

| Run | The code |
|---|---|
| `async_leak` | `start_connect` and `start_send_to` return some errors without freeing the `IOData` (`win_socket.cpp:414,423,432,594`) |
| `async_self_wait` | without a handler, the routine may run `~WinSocket` inside the callback it waits for (`:1022`) |
| `async_close_race` | a handler can start an operation between the wait and `CloseThreadpoolIo` (`:131`) |
| `io_core_reinit` | the examples initialize twice; `release()` leaves the first set of pools behind (`async_echo_server.cpp:151`) |

Some limits are visible in the models without a run of their own. Adding the named option to the `Env` of
`MCAsyncLive.cfg` makes TLC report the first two.

- `post_fails`: a handler that cannot be posted is called on the IO thread (`win_socket.cpp:884`), not on the
  user pool, and if it closes its socket it waits for its own callback (`CloseReturns`).
- `core_expires`: a completion after the core has gone is dropped without calling its handler (`:865`,
  `HandlerCalled`).
- After a timeout `release_threadpool()` closes the group while the helper thread is still draining it
  (`win_io_core.cpp:256`). `abandoned` records these groups and `GroupClosedIdle` exempts them.
- When `initialize()` fails inside `create()`, what it acquired stays acquired (`core = "gone"`).
- `~WinSocket` does not close the native socket, and `socket()` or `accept()` into an open socket overwrites
  its handles (`win_socket.cpp:32,46`; variable `lost`).
- With `close_races` in the `Env` of `MCAsyncContract.cfg` an operation is started on a socket that was closed, and uses
  its null `PTP_IO` (`win_socket.cpp:474`, `NoFault`).
- If another thread takes the data that `select()` has announced, `disconnect()` stays in `recv()` (`:337`), the one
  place where `DisconnectReturns` lets it stay.
- After a reset the examples may start an operation on a socket that `main()` has closed (variable `late`).

## Proofs

| Theorem | States | Assumes |
|---|---|---|
| `RunStopProofs!Invariance` | `Spec => []IInv` | |
| `RunStopProofs!NoLostWakeupTheorem` | `Spec => []NoLostWakeup` | |
| `RunStopProofs!LatchRefinement` | `RunStop` implements the safety part of `Latch` | |
| `AsyncSocketProofs!Invariance` | `Spec => []IInv` | |
| `AsyncSocketProofs!IoDataSafety` | `Spec => []IoDataSafe` | |
| `AsyncSocketProofs!SocketLifetime` | `Spec => []SocketOutlivesOps` | |
| `AsyncSocketProofs!FaultFreedom` | `Spec => []NoFault` | no `close_races` |
| `AsyncSocketProofs!QuiescentClose` | `Spec => QuiescentCloseIo` | no `close_races` |
| `AsyncSocketProofs!NoSelfWaitTheorem` | `Spec => []NoSelfWait` | handlers are given and can be posted |
| `DeliveryProofs!HandlerOnceTheorem` | `Spec => []HandlerOnce` | |
| `DeliveryProofs!ErrorReported` | `Spec => []FirstErrorReported` | |
| `DeliveryProofs!AsyncOpRefinement` | `AsyncSocket` implements `AsyncOp` | |
| `DeliveryProofs!NoLostIoData` | `Spec => []NoOrphan` | no `setup_fails`, `unspecified`, `close_races` |
| `IOCoreProofs!Invariance` | `Spec => []IInv` | |
| `IOCoreProofs!RollbackAccuracy` | `Spec => []RollbackAccurate` | |
| `IOCoreProofs!ReleaseTheorem` | `Spec => []ReleaseFreesRest` | |
| `IOCoreProofs!DrainTheorem` | `Spec => []GroupClosedIdle` | |
| `IOCoreProofs!PairedRelease` | `Spec => []ReleaseFreesAll` | no `reinit` |
| `ShutdownProofs!NoLateUseTheorem` | `ShutdownSpec => []NoLateUse` | |
| `ShutdownProofs!QuietTheorem` | `ShutdownSpec => []QuietAfterRelease` | |
| `ShutdownProofs!NoIoCancelledTheorem` | `ShutdownSpec => NoIoCancelled` | |
| `SyncPartsProofs!SockaddrRoundTrip` | endpoint to sockaddr and back | |
| `SyncPartsProofs!TextRoundTrip` | endpoint to text and back | |
| `SyncPartsProofs!ParserAgreement` | the strict parser accepts less, and the same addresses | |
| `SyncPartsProofs!DeadlineTheorem` | `DisconnectSpec => []DeadlineKept` | |
| `SyncPartsProofs!TimedOutTheorem` | `DisconnectSpec => TimedOutHonest` | |
| `SyncSocketProofs!SocketDeadline`, `SocketTimedOut` | the same for `SyncSocket` | |
| `SyncSocketProofs!AccountedTheorem` | `Spec => []Accounted` | |
| `SyncSocketProofs!MembersTheorem` | `Spec => []MembersAgree` | |
| `SyncSocketProofs!NameTheorem` | `Spec => []NameFaithful` | |
| `SyncSocketProofs!EndpointTheorem` | `Spec => []EndpointSurvives` | |
| `SyncSocketProofs!ParsersTheorem` | `Spec => []ParsersAgree` | |
| `EchoProofs!EchoClosesLast` | `Spec => []NoUseAfterClose` | |
| `EchoProofs!EchoReplies` | `Spec => []ReplyIntact` | |

The assumptions on constants are named in the modules that declare them and evaluated by TLC in every
run: that placeholders are no members of the sets they stand beside, that counts are natural numbers,
and, in `Disconnect`, that a call takes less than 2^64 milliseconds.

The arguments.

- **RunStop.** `NoLostWakeup` alone is not inductive: a runner that has read the flag as 0 may go to
  sleep after the flag is set. The invariant adds who holds the lock (`LockInv`) and that, if the flag is
  set while a runner has decided to sleep, the `stop()` that set it has not yet got the lock
  (`SleepDecision`). The lock then orders the sleep before the wake-up.
- **AsyncSocket.** `OpInv` says which of heap cell, callback and closure owns an operation at each stage;
  `RefInv` that the reference counts are exact; `CallerInv` that a thread inside `start_*` or `close()`
  keeps its own reference, which is why deleting the `IOData` before `CancelThreadpoolIo` does no harm;
  `CloseInv` that one thread closes a socket and, without racing handlers, finds nothing outstanding after
  its wait. `NoSelfWait` uses one more invariant, `PoolInv`: an IO thread never deletes anything when
  every handler is posted.
- **IOCore.** `OwnInv` says that handles and levels own exactly what exists and is not leaked, and that a
  stale handle names a closed pool; `PcInv` with which level each statement is reached; `CountInv` that
  `release()` undoes the latest `WSAStartup`. `Unset` covers the levels that `create()` has not reached.
  `DrainInv` adds that `release()` waits for the helper and the helper for callbacks, except for the groups
  that `release()` gave up on. `PairedInv`: without `reinit`, `initialize()` finds no pool to overwrite.
- **Delivery.** `DeliveryInv` relates the number of handler calls to the stage of callback and closure, and
  the error of an operation to the errors that have happened to it. With `IInv` it gives `HandlerOnce` and
  `FirstErrorReported`, and shows that each step moves an operation along `AsyncOp` or leaves it. `NoOrphan` also
  needs `OpenInv`: an open `PTP_IO` belongs to an open socket, of a family that endpoints can be converted for.
- **Shutdown.** On top of the invariants of `IOCore`, `SocketInv` says that an open socket keeps the core up
  and idle, and that an operation in the IO pool keeps its socket open and `close()` from getting past its wait,
  or is one of `raced`; so while any other routine can still post, `release()` has not begun. `CallbackInv` identifies the callbacks of `IOCore` with routines and handlers,
  `HelperInv` says for which groups a helper may have been started, `QueueInv` that a queued closure is in a
  group that has not been cleaned up.
- **Endpoint.** Byte order and sign are arithmetic: `htons` is its own inverse on 16 bits, and the four
  shifts give back the bytes of a signed 32-bit number. The rest is case analysis over the families.
- **Disconnect.** The difference of two tick counts is the time that passed although the clock may wrap; a
  negative timeout, read as unsigned, exceeds any time that can pass; what is left of a positive one fits
  a `long`. The invariant says when the running `select()` was set up and with how much.
- **SyncSocket.** Ownership, members and data need one another: the name of a socket is what the program
  asked for because `addr_family_` is the family of the native socket, and that because nobody else holds
  the handle. The invariant is `SInv`: types, `OwnerInv` (`Accounted`, handle by handle), `MembersAgree`, and that
  the `Endpoint` of the program holds an address of the family it was filled for, and bytes or `Junk` otherwise
  (`DataInv`). A socket of family `Unspecified` fits in since no conversion for it succeeds (`PassedAddr`).

- **Echo.** `NoUseAfterClose` needs to know where `main()` is when a handler may still start something.
  `Life` ties the socket and the stop request to the place in `main()`; `LastStop` says that the handler
  that stops a program is the last with anything to start (`Through`), or the connection is reset.
  `ReplyIntact` is not inductive since the shared buffer is read long after it was filled. `ClientInv`
  follows the client's one message: what is in the stream is a prefix of it, and while it is being sent the
  buffer still holds it, because nothing can arrive before the server has printed. `WholeInv` does the same for a reply
  to a message that came in one piece: the client sends no more (`NoMore`), so the receive the server
  starts next cannot overwrite its reply. The argument is for any `Size` and any `Text` up to it.

Only model-checked: the liveness properties (`StopEndsRun`, `CloseReturns`, `DestructorReturns`,
`HandlerCalled`, `IoDataReleased`, `ReleaseReturns`, `HandlerOrCancel`, `DisconnectReturns`, `EchoEnds`,
`ReplyArrives`) and the fairness of the latch, since liveness is outside the prover's reach.

## Not modelled

- `recv`, `send`, `shutdown`, `set_socket_option` and `get_socket_option`: each hands its arguments to one
  Winsock call and changes no state of the library.
- `post_io_work`: no caller.
- The values of options, socket types, protocols and error codes; the models keep only the distinctions
  the code branches on.
- In `Echo`, the contents of messages beyond whose string a cell holds, more than one connection, and two receives
  outstanding on one socket.
- What Windows does with a group that is closed while the helper thread still drains it; the model lets its
  callbacks start and return as before.
- The empty Linux class, build scripts, and everything Windows does that the code does not observe.
