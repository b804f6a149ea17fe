SPECIFICATION FairSpec
CONSTANTS
  Threads = {t1, t2, t3}
  Nobody = Nobody
  MaxCalls = 4
  MaxSpurious = 2
INVARIANTS
  IInv
  NoLostWakeup
PROPERTIES
  StopEndsRun
  ImplementsLatch
\* The program may stop: no thread need call run() or stop() again, and a
\* thread in run() waits for ever when nobody calls stop().
CHECK_DEADLOCK FALSE
