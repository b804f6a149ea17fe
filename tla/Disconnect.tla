------------------------------- MODULE Disconnect -------------------------------
(***************************************************************************)
(* WinSocket::disconnect(timeout_ms): shut the sending side down, then read*)
(* and scrap what the peer still sends until it closes, fails, or the time *)
(* is up.  The time left is computed anew for every select(), in unsigned  *)
(* 64-bit milliseconds from an int, and narrowed to a long of seconds.     *)
(*                                                                         *)
(* The peer, the clock and a second thread that reads from the same socket *)
(* run between the steps of the loop.  The integer widths are constants;   *)
(* 2^31, 2^32 and 2^64 in the build.                                       *)
(***************************************************************************)
EXTENDS Integers

CONSTANTS
  IntBound,    \* an int is in -IntBound .. IntBound - 1, and so is a long
  ULongLong,   \* unsigned 64-bit arithmetic is modulo this
  Timeouts,    \* the values of timeout_ms
  TickCounts,  \* the values GetTickCount64() may have when the call starts
  Quantum,     \* milliseconds the clock advances in a step
  MaxSpent     \* bound: milliseconds one call may take

ASSUME WidthAssumption ==
  /\ IntBound \in Nat \ {0}
  /\ Timeouts \subseteq -IntBound .. IntBound - 1
  /\ Quantum \in Nat \ {0}
  /\ MaxSpent \in Nat
  /\ ULongLong \in Nat
  /\ MaxSpent + Quantum + IntBound < ULongLong
  /\ TickCounts \subseteq 0 .. ULongLong - 1

VARIABLES
  at,          \* "idle", or the place in the loop
  timeout_ms,
  operation_start_time,
  time_val,    \* the TIMEVAL: [sec, usec]
  spent,       \* milliseconds since the call began
  since,       \* spent when the running select() was set up
  readable,    \* data, the peer's FIN or an error is there to be received
  outcome      \* of the last disconnect()

disconnectVars ==
  <<at, timeout_ms, operation_start_time, time_val, spent, since, readable, outcome>>

NoTime == [sec |-> 0, usec |-> 0]

DisconnectType ==
  /\ at \in {"idle", "top", "select", "recv"}
  /\ timeout_ms \in -IntBound .. IntBound - 1
  /\ operation_start_time \in 0 .. ULongLong - 1
  /\ time_val \in [sec : Int, usec : Int]
  /\ spent \in 0 .. MaxSpent + Quantum
  /\ since \in 0 .. spent
  /\ readable \in BOOLEAN
  /\ outcome \in {"none", "Success", "TimedOut", "error"}

DisconnectInit ==
  /\ at = "idle"
  /\ timeout_ms = 0
  /\ operation_start_time = 0
  /\ time_val = NoTime
  /\ spent = 0
  /\ since = 0
  /\ readable = FALSE
  /\ outcome = "none"

--------------------------------------------------------------------------------
(* Machine arithmetic *)

\* a - b on unsigned 64-bit values
Minus(a, b) == IF a >= b THEN a - b ELSE a - b + ULongLong

\* The comparison is made on signed values.
AsULongLong_Signed(n) == n

\* static_cast<ULONGLONG>(int)
AsULongLong(n) == IF n >= 0 THEN n ELSE n + ULongLong

\* static_cast<long>(ULONGLONG)
AsLong(n) ==
  IF n < IntBound THEN n
  ELSE LET m == n % (2 * IntBound) IN IF m < IntBound THEN m ELSE m - 2 * IntBound

\* The tick count wraps as well.
GetTickCount64 ==
  LET t == operation_start_time + spent IN IF t < ULongLong THEN t ELSE t - ULongLong

--------------------------------------------------------------------------------
(* The loop *)

\* The locals of a finished call are forgotten.
DisconnectReturn(e) ==
  /\ at' = "idle"
  /\ outcome' = e
  /\ timeout_ms' = 0
  /\ operation_start_time' = 0
  /\ time_val' = NoTime
  /\ spent' = 0
  /\ since' = 0

\* shutdown(SD_SEND) and GetTickCount64(); the clock is read inside the call only, so
\* it may have any value when the call starts.
disconnect(t) ==
  /\ at = "idle"
  /\ \/ /\ at' = "top"
        /\ timeout_ms' = t
        /\ operation_start_time' \in TickCounts
        /\ UNCHANGED <<time_val, spent, since, readable, outcome>>
     \/ DisconnectReturn("error") /\ UNCHANGED readable

\* Every select() gets the whole timeout.
SetTimeout_Restarts ==
  /\ at = "top"
  /\ LET elapsed == Minus(GetTickCount64, operation_start_time)
         new_timeout == AsULongLong(timeout_ms)
     IN  IF timeout_ms # 0 /\ elapsed >= AsULongLong(timeout_ms)
         THEN DisconnectReturn("TimedOut") /\ UNCHANGED readable
         ELSE /\ at' = "select"
              /\ time_val' = [sec |-> AsLong(new_timeout \div 1000),
                              usec |-> (new_timeout % 1000) * 1000]
              /\ since' = spent
              /\ UNCHANGED <<timeout_ms, operation_start_time, spent, readable, outcome>>

\* The time is only tested after select() has reported a timeout.
SetTimeout_Unchecked ==
  /\ at = "top"
  /\ LET elapsed == Minus(GetTickCount64, operation_start_time)
         new_timeout == Minus(AsULongLong(timeout_ms), elapsed)
     IN  /\ at' = "select"
         /\ time_val' = [sec |-> AsLong(new_timeout \div 1000),
                         usec |-> (new_timeout % 1000) * 1000]
         /\ since' = spent
         /\ UNCHANGED <<timeout_ms, operation_start_time, spent, readable, outcome>>

\* elapsed, the test for the timeout and the TIMEVAL for what is left
SetTimeout ==
  /\ at = "top"
  /\ LET elapsed == Minus(GetTickCount64, operation_start_time)
         new_timeout == Minus(AsULongLong(timeout_ms), elapsed)
     IN  IF timeout_ms # 0 /\ elapsed >= AsULongLong(timeout_ms)
         THEN DisconnectReturn("TimedOut") /\ UNCHANGED readable
         ELSE /\ at' = "select"
              /\ time_val' = [sec |-> AsLong(new_timeout \div 1000),
                              usec |-> (new_timeout % 1000) * 1000]
              /\ since' = spent
              /\ UNCHANGED <<timeout_ms, operation_start_time, spent, readable, outcome>>

\* The limit of the running select(), in milliseconds
Limit == time_val.sec * 1000 + time_val.usec \div 1000

\* select() waits for ever if timeout_ms == 0, and refuses a negative TIMEVAL.
Select ==
  /\ at = "select"
  /\ \/ /\ readable
        /\ time_val.sec >= 0 \/ timeout_ms = 0
        /\ at' = "recv"
        /\ UNCHANGED <<timeout_ms, operation_start_time, time_val, spent, since, readable, outcome>>
     \/ /\ timeout_ms # 0
        /\ time_val.sec >= 0
        /\ spent - since >= Limit
        /\ at' = "top"
        /\ UNCHANGED <<timeout_ms, operation_start_time, time_val, spent, since, readable, outcome>>
     \/ /\ timeout_ms # 0
        /\ time_val.sec < 0
        /\ DisconnectReturn("error") /\ UNCHANGED readable

\* select() may fail, but nothing makes it fail.
SelectFails ==
  /\ at = "select"
  /\ DisconnectReturn("error") /\ UNCHANGED readable

\* recv() into the scrap buffer; it blocks when there is nothing to receive
Recv ==
  /\ at = "recv"
  /\ readable
  /\ \/ at' = "top" /\ readable' \in BOOLEAN     \* data, and maybe more of it
        /\ UNCHANGED <<timeout_ms, operation_start_time, time_val, spent, since, outcome>>
     \/ DisconnectReturn("Success") /\ UNCHANGED readable
     \/ DisconnectReturn("error") /\ UNCHANGED readable

--------------------------------------------------------------------------------
(* The world around it *)

Arrive ==
  /\ at # "idle"
  /\ ~readable
  /\ readable' = TRUE
  /\ UNCHANGED <<at, timeout_ms, operation_start_time, time_val, spent, since, outcome>>

\* Another thread receives from the same socket.
Steal ==
  /\ at # "idle"
  /\ readable
  /\ readable' = FALSE
  /\ UNCHANGED <<at, timeout_ms, operation_start_time, time_val, spent, since, outcome>>

Tick ==
  /\ at # "idle"
  /\ spent < MaxSpent
  /\ spent' = spent + Quantum
  /\ UNCHANGED <<at, timeout_ms, operation_start_time, time_val, since, readable, outcome>>

\* The caller has seen the outcome and closes the socket.
Forget ==
  /\ at = "idle"
  /\ outcome' = "none"
  /\ readable' = FALSE
  /\ UNCHANGED <<at, timeout_ms, operation_start_time, time_val, spent, since>>

LoopStep == SetTimeout \/ Select \/ Recv

DisconnectNext ==
  \/ \E t \in Timeouts : disconnect(t)
  \/ LoopStep \/ SelectFails \/ Arrive \/ Steal \/ Tick \/ Forget

DisconnectSpec == DisconnectInit /\ [][DisconnectNext]_disconnectVars

\* The calling thread is scheduled and time goes on; nothing is owed by the peer.
DisconnectFairness == WF_disconnectVars(LoopStep) /\ WF_disconnectVars(Tick)

--------------------------------------------------------------------------------
(* Properties *)

(***************************************************************************)
(* With a positive timeout_ms each select() of disconnect() gets exactly   *)
(* the time that is left, as a well-formed TIMEVAL: no unsigned subtraction*)
(* wraps, no narrowing to long loses bits, and data that keeps coming never*)
(* pushes the deadline back.                                               *)
(***************************************************************************)
DeadlineKept ==
  at = "select" /\ timeout_ms > 0 =>
    /\ time_val.sec >= 0
    /\ time_val.usec >= 0 /\ time_val.usec < 1000 * 1000
    /\ Limit > 0
    /\ since + Limit = timeout_ms

(***************************************************************************)
(* disconnect() reports TimedOut only to a caller who set a positive       *)
(* timeout, and only when that much time has passed.                       *)
(***************************************************************************)
TimedOutHonest ==
  [][at = "top" /\ at' = "idle" => timeout_ms > 0 /\ spent >= timeout_ms]_disconnectVars

(***************************************************************************)
(* disconnect() with a positive timeout returns, also when the peer never  *)
(* stops sending or never answers, unless another thread takes away the    *)
(* data that select() had announced: then disconnect() is left in recv()   *)
(* with nothing to receive, and no timeout.                                *)
(***************************************************************************)
DisconnectReturns == at # "idle" /\ timeout_ms > 0 ~> at = "idle" \/ (at = "recv" /\ ~readable)
================================================================================
