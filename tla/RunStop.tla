-------------------------------- MODULE RunStop --------------------------------
(***************************************************************************)
(* WinIOCore::run() and WinIOCore::stop(): the main thread sleeps on a     *)
(* condition variable guarded by an SRW lock until some completion handler *)
(* calls Socket::stop_io_context().  The flag stop_requested_ is written   *)
(* OUTSIDE the lock; only the wake-up is sent inside it.                   *)
(*                                                                         *)
(* One step per statement that other threads can observe.  The SRW lock    *)
(* and the condition variable are Windows primitives: sleeping releases    *)
(* the lock and joins the waiters in one step, a woken thread takes the    *)
(* lock again before it returns from the sleep, and a sleeper may wake up  *)
(* without having been woken.                                              *)
(***************************************************************************)
EXTENDS Naturals

CONSTANTS
  Threads,      \* threads that call run() or stop()
  Nobody,       \* the SRW lock's owner when it is free
  MaxCalls,     \* bound: calls of run() and stop()
  MaxSpurious   \* bound: spurious wake-ups

ASSUME NobodyAssumption == Nobody \notin Threads
ASSUME BoundsAssumption == MaxCalls \in Nat /\ MaxSpurious \in Nat

VARIABLES
  stop_requested,  \* LONG volatile stop_requested_, 0 or 1
  srw_run,         \* owner of srw_run_
  waiting,         \* threads queued on cv_run_
  pc,              \* where each thread is
  calls,           \* calls made so far
  spurious         \* spurious wake-ups so far

vars == <<stop_requested, srw_run, waiting, pc, calls, spurious>>

\* Inside run() and able to block there; a thread at "run_unlock" is past the loop.
Blockable == {"run_lock", "run_check", "run_sleep", "run_asleep"}
InRun == Blockable \cup {"run_unlock"}
\* The wake-up of a stop() call that has set the flag is still to come.
WakePending == {"stop_lock", "stop_wake"}
LockHolding == {"run_check", "run_sleep", "run_unlock", "stop_wake", "stop_unlock"}
Location == InRun \cup WakePending \cup {"idle", "stop_unlock"}

TypeOK ==
  /\ stop_requested \in {0, 1}
  /\ srw_run \in Threads \cup {Nobody}
  /\ waiting \subseteq Threads
  /\ pc \in [Threads -> Location]
  /\ calls \in Nat
  /\ spurious \in Nat

Init ==
  /\ stop_requested = 0
  /\ srw_run = Nobody
  /\ waiting = {}
  /\ pc = [t \in Threads |-> "idle"]
  /\ calls = 0
  /\ spurious = 0

Goto(t, from, to) ==
  /\ pc[t] = from
  /\ pc' = [pc EXCEPT ![t] = to]

AcquireSRWLockExclusive(t) ==
  /\ srw_run = Nobody
  /\ srw_run' = t

ReleaseSRWLockExclusive == srw_run' = Nobody

Call ==
  /\ calls < MaxCalls
  /\ calls' = calls + 1

--------------------------------------------------------------------------------
(* run() *)

run(t) ==
  /\ Goto(t, "idle", "run_lock")
  /\ Call
  /\ UNCHANGED <<stop_requested, srw_run, waiting, spurious>>

RunLock(t) ==
  /\ Goto(t, "run_lock", "run_check")
  /\ AcquireSRWLockExclusive(t)
  /\ UNCHANGED <<stop_requested, waiting, calls, spurious>>

\* A loop that trusts a wake-up without testing the flag again.
RunCheck_TrustsWake(t) ==
  /\ Goto(t, "run_check", IF stop_requested = 0 /\ spurious = 0 THEN "run_sleep" ELSE "run_unlock")
  /\ UNCHANGED <<stop_requested, srw_run, waiting, calls, spurious>>

\* while (InterlockedCompareExchange(&stop_requested_, 0, 0) == 0)
RunCheck(t) ==
  /\ Goto(t, "run_check", IF stop_requested = 0 THEN "run_sleep" ELSE "run_unlock")
  /\ UNCHANGED <<stop_requested, srw_run, waiting, calls, spurious>>

\* SleepConditionVariableSRW, first half: release the lock and wait.
RunSleep(t) ==
  /\ Goto(t, "run_sleep", "run_asleep")
  /\ ReleaseSRWLockExclusive
  /\ waiting' = waiting \cup {t}
  /\ UNCHANGED <<stop_requested, calls, spurious>>

\* SleepConditionVariableSRW, second half: woken, take the lock and return.
RunWoken(t) ==
  /\ t \notin waiting
  /\ Goto(t, "run_asleep", "run_check")
  /\ AcquireSRWLockExclusive(t)
  /\ UNCHANGED <<stop_requested, waiting, calls, spurious>>

SpuriousWake(t) ==
  /\ t \in waiting
  /\ spurious < MaxSpurious
  /\ spurious' = spurious + 1
  /\ waiting' = waiting \ {t}
  /\ UNCHANGED <<stop_requested, srw_run, pc, calls>>

RunReturn(t) ==
  /\ Goto(t, "run_unlock", "idle")
  /\ ReleaseSRWLockExclusive
  /\ UNCHANGED <<stop_requested, waiting, calls, spurious>>

--------------------------------------------------------------------------------
(* stop(), reached from a handler through Socket::stop_io_context() *)

\* stop_io_context() locks the weak_ptr first; a thread in run() keeps the core
\* alive, so the lock succeeds and stop() sets the flag.
stop(t) ==
  /\ Goto(t, "idle", "stop_lock")
  /\ Call
  /\ stop_requested' = 1
  /\ UNCHANGED <<srw_run, waiting, spurious>>

\* stop() without AcquireSRWLockExclusive before the wake-up.
StopLock_Skipped(t) ==
  /\ Goto(t, "stop_lock", "stop_wake")
  /\ UNCHANGED <<stop_requested, srw_run, waiting, calls, spurious>>

StopLock(t) ==
  /\ Goto(t, "stop_lock", "stop_wake")
  /\ AcquireSRWLockExclusive(t)
  /\ UNCHANGED <<stop_requested, waiting, calls, spurious>>

\* WakeConditionVariable in place of WakeAllConditionVariable.
StopWake_One(t) ==
  /\ Goto(t, "stop_wake", "stop_unlock")
  /\ \/ waiting = {} /\ UNCHANGED waiting
     \/ \E w \in waiting : waiting' = waiting \ {w}
  /\ UNCHANGED <<stop_requested, srw_run, calls, spurious>>

\* WakeAllConditionVariable
StopWake(t) ==
  /\ Goto(t, "stop_wake", "stop_unlock")
  /\ waiting' = {}
  /\ UNCHANGED <<stop_requested, srw_run, calls, spurious>>

StopUnlock(t) ==
  /\ Goto(t, "stop_unlock", "idle")
  /\ ReleaseSRWLockExclusive
  /\ UNCHANGED <<stop_requested, waiting, calls, spurious>>

\* The last statement of initialize() clears the flag, without the lock and whoever
\* is inside run() or stop().
initialize ==
  /\ stop_requested' = 0
  /\ UNCHANGED <<srw_run, waiting, pc, calls, spurious>>

--------------------------------------------------------------------------------

RunStep(t) ==
  \/ RunLock(t) \/ RunCheck(t) \/ RunSleep(t) \/ RunWoken(t) \/ RunReturn(t)

StopStep(t) ==
  \/ StopLock(t) \/ StopWake(t) \/ StopUnlock(t)

Next ==
  \/ \E t \in Threads :
       run(t) \/ stop(t) \/ RunStep(t) \/ StopStep(t) \/ SpuriousWake(t)
  \/ initialize

Spec == Init /\ [][Next]_vars

\* A runnable thread is eventually scheduled, and a free lock is eventually
\* granted.  Nothing obliges a program to call run() or stop(), nor a sleeper
\* to wake up spuriously.
Fairness ==
  \A t \in Threads : WF_vars(RunStep(t)) /\ WF_vars(StopStep(t))

FairSpec == Spec /\ Fairness

--------------------------------------------------------------------------------
(* Properties *)

\* The lock protects what the code believes it protects: the holder is the one
\* thread between an acquire and the matching release, also across the sleep.
LockInv ==
  \A t \in Threads : pc[t] \in LockHolding <=> srw_run = t

\* A thread is queued on cv_run_ only while it is inside the sleep of run().
WaitersSleep ==
  \A t \in waiting : pc[t] = "run_asleep"

\* The flag may be set between a runner's test and its sleep; then the stop()
\* call that set it cannot have passed the lock.
SleepDecision ==
  \A t \in Threads :
    pc[t] = "run_sleep" /\ stop_requested = 1 =>
      \E u \in Threads : pc[u] = "stop_lock"

\* No lost wake-up: whenever a thread sleeps in run() although stop was
\* requested, some stop() call has its WakeAllConditionVariable still to come.
NoLostWakeup ==
  stop_requested = 1 /\ waiting # {} =>
    \E u \in Threads : pc[u] \in WakePending

\* The inductive strengthening of NoLostWakeup.
IInv == TypeOK /\ LockInv /\ WaitersSleep /\ SleepDecision /\ NoLostWakeup

\* stop() ends run(): once stop is requested every thread in run() returns, unless
\* initialize() withdraws the request first.
StopEndsRun ==
  \A t \in Threads :
    (stop_requested = 1 /\ pc[t] \in InRun) ~> (pc[t] \notin InRun \/ stop_requested = 0)

\* run(), stop() and initialize() implement the latch: a thread leaves run() only when
\* stop was requested, and does leave if the request stands.
L == INSTANCE Latch WITH
       opened <- stop_requested = 1,
       inside <- {t \in Threads : pc[t] \in Blockable}

ImplementsLatch == L!FairSpec
LatchSafety == L!Spec
================================================================================
