----------------------------- MODULE RunStopProofs -----------------------------
(***************************************************************************)
(* The proofs about RunStop: no wake-up is lost, for any number of threads *)
(* and any number of calls, and run()/stop() implement the latch.          *)
(*                                                                         *)
(* NoLostWakeup is not inductive: a runner that has read the flag as 0 and *)
(* is about to sleep (run_sleep) may see the flag set under it.  IInv adds *)
(* that this runner holds the lock (LockInv), so that the stop() call is   *)
(* still in front of its own acquire (SleepDecision) and the wake-up comes *)
(* after the sleep.                                                        *)
(***************************************************************************)
EXTENDS RunStop, TLAPS

USE NobodyAssumption DEF Location, LockHolding, InRun, Blockable, WakePending

\* The constructor's values satisfy the inductive invariant.
LEMMA InitIInv == Init => IInv
BY SMTT(60), BoundsAssumption DEF Init, IInv, TypeOK, LockInv, WaitersSleep, SleepDecision, NoLostWakeup

\* Every statement of run(), stop() and initialize() keeps the inductive invariant.
LEMMA StepIInv == IInv /\ [Next]_vars => IInv'
<1> SUFFICES ASSUME IInv, [Next]_vars
             PROVE  IInv'
  OBVIOUS
<1> USE DEF IInv, TypeOK, LockInv, WaitersSleep, SleepDecision, NoLostWakeup, Goto
<1>1. ASSUME NEW t \in Threads, run(t)
      PROVE  IInv'
  BY <1>1 DEF run, Call
<1>2. ASSUME NEW t \in Threads, stop(t)
      PROVE  IInv'
  BY <1>2 DEF stop, Call
<1>3. ASSUME NEW t \in Threads, RunLock(t)
      PROVE  IInv'
  BY <1>3 DEF RunLock, AcquireSRWLockExclusive
<1>4. ASSUME NEW t \in Threads, RunCheck(t)
      PROVE  IInv'
  BY <1>4 DEF RunCheck
<1>5. ASSUME NEW t \in Threads, RunSleep(t)
      PROVE  IInv'
  BY <1>5 DEF RunSleep, ReleaseSRWLockExclusive
<1>6. ASSUME NEW t \in Threads, RunWoken(t)
      PROVE  IInv'
  BY <1>6 DEF RunWoken, AcquireSRWLockExclusive
<1>7. ASSUME NEW t \in Threads, RunReturn(t)
      PROVE  IInv'
  BY <1>7 DEF RunReturn, ReleaseSRWLockExclusive
<1>8. ASSUME NEW t \in Threads, StopLock(t)
      PROVE  IInv'
  BY <1>8 DEF StopLock, AcquireSRWLockExclusive
<1>9. ASSUME NEW t \in Threads, StopWake(t)
      PROVE  IInv'
  BY <1>9 DEF StopWake
<1>10. ASSUME NEW t \in Threads, StopUnlock(t)
       PROVE  IInv'
  BY <1>10 DEF StopUnlock, ReleaseSRWLockExclusive
<1>11. ASSUME NEW t \in Threads, SpuriousWake(t)
       PROVE  IInv'
  BY <1>11 DEF SpuriousWake
<1>12. CASE initialize
  BY <1>12 DEF initialize
<1>13. CASE UNCHANGED vars
  BY <1>13 DEF vars
<1>14. QED
  BY <1>1, <1>2, <1>3, <1>4, <1>5, <1>6, <1>7, <1>8, <1>9, <1>10, <1>11, <1>12, <1>13
     DEF Next, RunStep, StopStep

\* The inductive invariant holds throughout.
THEOREM Invariance == Spec => []IInv
BY InitIInv, StepIInv, PTL DEF Spec

\* No thread sleeps in run() after stop was requested unless a wake-up is still to
\* come: the flag outside the lock loses no wake-up.
THEOREM NoLostWakeupTheorem == Spec => []NoLostWakeup
<1>1. IInv => NoLostWakeup
  BY DEF IInv
<1>2. QED
  BY <1>1, Invariance, PTL

--------------------------------------------------------------------------------

\* Every step of the code is a step of the latch or leaves it as it is.
LEMMA StepLatch == IInv /\ [Next]_vars => [L!Next]_(L!vars)
<1> SUFFICES ASSUME IInv, [Next]_vars
             PROVE  [L!Next]_(L!vars)
  OBVIOUS
<1> USE DEF IInv, TypeOK, Goto, L!vars
<1>1. ASSUME NEW t \in Threads, run(t)
      PROVE  L!Enter(t)
  BY <1>1 DEF run, L!Enter
<1>2. ASSUME NEW t \in Threads, stop(t)
      PROVE  L!Open
  BY <1>2 DEF stop, L!Open
<1>3. ASSUME NEW t \in Threads, RunCheck(t)
      PROVE  L!Leave(t) \/ UNCHANGED L!vars
  BY <1>3 DEF RunCheck, L!Leave
<1>4. ASSUME NEW t \in Threads,
             RunLock(t) \/ RunSleep(t) \/ RunWoken(t) \/ RunReturn(t) \/ StopStep(t) \/ SpuriousWake(t)
      PROVE  UNCHANGED L!vars
  BY <1>4 DEF RunLock, RunSleep, RunWoken, RunReturn, StopStep, StopLock, StopWake,
              StopUnlock, SpuriousWake
<1>5. CASE initialize
  BY <1>5 DEF initialize, L!Close, L!Next
<1>6. CASE UNCHANGED vars
  BY <1>6 DEF vars
<1>7. QED
  BY <1>1, <1>2, <1>3, <1>4, <1>5, <1>6 DEF Next, RunStep, L!Next

\* run() and stop() implement the latch: a thread leaves run() only after stop().
THEOREM LatchRefinement == Spec => LatchSafety
<1>1. Init => L!Init
  BY DEF Init, L!Init
<1>2. QED
  BY <1>1, StepLatch, Invariance, PTL DEF Spec, LatchSafety, L!Spec
================================================================================
