--------------------------------- MODULE Latch ---------------------------------
(***************************************************************************)
(* What IOCore::run() and IOCore::stop() promise together, without locks   *)
(* or condition variables: run() is a latch.  A thread that enters stays   *)
(* inside until the latch is opened, and an opened latch lets every thread *)
(* out.  Initialising the core closes the latch again, on the threads that *)
(* have not left it as well.                                               *)
(***************************************************************************)
CONSTANT Threads

VARIABLES
  opened,   \* TRUE once stop() was called since the last initialize()
  inside    \* the threads blocked in run()

vars == <<opened, inside>>

TypeOK ==
  /\ opened \in BOOLEAN
  /\ inside \subseteq Threads

Init ==
  /\ opened = FALSE
  /\ inside = {}

Enter(t) ==
  /\ t \notin inside
  /\ inside' = inside \cup {t}
  /\ UNCHANGED opened

Leave(t) ==
  /\ t \in inside
  /\ opened
  /\ inside' = inside \ {t}
  /\ UNCHANGED opened

Open ==
  /\ opened' = TRUE
  /\ UNCHANGED inside

Close ==
  /\ opened' = FALSE
  /\ UNCHANGED inside

Next ==
  \/ \E t \in Threads : Enter(t) \/ Leave(t)
  \/ Open
  \/ Close

Spec == Init /\ [][Next]_vars

FairSpec == Spec /\ \A t \in Threads : WF_vars(Leave(t))
================================================================================
