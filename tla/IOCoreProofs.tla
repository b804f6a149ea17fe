------------------------------ MODULE IOCoreProofs ------------------------------
(***************************************************************************)
(* Proofs about IOCore, for any number of initialize()/release() cycles:   *)
(* the rollback levels account for what exists, release() frees everything *)
(* it has not lost to a further initialize(), and a group that release()   *)
(* waited for is closed only when it is idle.                              *)
(***************************************************************************)
EXTENDS IOCore, TLAPS

(***************************************************************************)
(* Init establishes the invariant, whatever the constructor left in the    *)
(* rollback levels.                                                        *)
(***************************************************************************)
LEMMA InitIInv == Init => IInv
BY IOCoreAssumption
DEF Init, IInv, TypeOK, OwnInv, PcInv, CountInv, Pools, Levels, Ids, InInitialize, InRelease,
    HasPool, HasGroup, PoolHeld, GroupHeld, Unset

(***************************************************************************)
(* Every step preserves the invariant, the failing ones and an initialize()*)
(* of a core that has not been released included.                          *)
(***************************************************************************)
LEMMA StepIInv == IInv /\ [Next]_vars => IInv'
<1> SUFFICES ASSUME IInv, [Next]_vars PROVE IInv'
    OBVIOUS
<1> USE IOCoreAssumption
    DEF IInv, TypeOK, OwnInv, PcInv, CountInv, Pools, Levels, Ids, InInitialize, InRelease,
        HasPool, HasGroup, PoolHeld, GroupHeld, Unset, memberVars, resourceVars, wsaVars
<1>1. CASE initialize
  <2>1. /\ pc = "idle" /\ core # "gone" /\ inits < MaxInits /\ inits' = inits + 1
        /\ \/ wsa' = wsa + 1 /\ startups' = wsa /\ pc' = "functions" /\ core' = core
           \/ UNCHANGED <<wsa, startups>> /\ pc' = "idle" /\ core' = (IF core = "none" THEN "gone" ELSE "up")
           \/ wsa' = wsa + 1 /\ startups' = wsa /\ pc' = "idle" /\ core' = (IF core = "none" THEN "gone" ELSE "up")
        /\ UNCHANGED <<which, rollback, handle, pools, groups, leaked, created, cleaner, running, abandoned>>
    BY <1>1 DEF initialize, Fail, Return
  <2>2. TypeOK'
    BY SMTT(60), <1>1, <2>1 DEF initialize, Fail, Return
  <2>3. OwnInv'
    BY <2>1
  <2>4. PcInv'
    BY <2>1
  <2>5. CountInv'
    BY <2>1
  <2> QED
    BY ZenonT(60), <2>2, <2>3, <2>4, <2>5
<1>2. CASE get_extended_socket_functions
  BY SMTT(60), <1>2 DEF get_extended_socket_functions, Fail, Return
<1>3. CASE CreateThreadpool
  <2>1. created + 1 \in Ids /\ created' \in 0 .. 2 * MaxInits
    BY <1>3 DEF CreateThreadpool
  <2>a. pc = "threadpool" /\ core # "gone" /\ leaked' = leaked \cup (pools \cap {handle[which]})
        /\ leaked' \subseteq pools
    BY ZenonT(60), <1>3 DEF CreateThreadpool
  <2>2. CASE pc' = "group"
    <3>1. /\ created' = created + 1
          /\ pools' = pools \cup {created + 1}
          /\ handle' = [handle EXCEPT ![which] = created + 1]
          /\ rollback' = [rollback EXCEPT ![which] = "CreateThreadpool"]
          /\ UNCHANGED <<core, result, which, groups, wsa, startups, cleaner, running, abandoned, inits>>
      BY <1>3, <2>2 DEF CreateThreadpool, Fail, Return
    <3>2. created + 1 \notin pools \cup groups
      BY SMTT(60), <2>a
    <3>3. TypeOK'
      <4>0. pools \subseteq Ids
        OBVIOUS
      <4>1. pools' \subseteq Ids /\ leaked' \subseteq Ids
        BY ONLY ZenonT(60), <2>1, <2>a, <3>1, <4>0
      <4> QED
        BY SMTT(60), <2>1, <2>2, <3>1, <4>1
    <3>4. OwnInv'
      <4>1. CASE which = "io"
        BY SMTT(60), <2>1, <2>2, <2>a, <3>1, <3>2, <4>1
      <4>2. CASE which = "user"
        BY SMTT(60), <2>1, <2>2, <2>a, <3>1, <3>2, <4>2
      <4> QED
        BY SMTT(60), <4>1, <4>2
    <3>5. PcInv' /\ CountInv'
      BY <2>2, <2>a, <3>1, <3>2
    <3> QED
      BY ZenonT(60), <3>3, <3>4, <3>5
  <2>3. CASE pc' = "idle"
    <3>1. /\ core' = IF core = "none" THEN "gone" ELSE "up"
          /\ result' = "error"
          /\ rollback' = [rollback EXCEPT ![which] = "InitEnviron"]
          /\ handle' = [handle EXCEPT ![which] = 0]
          /\ UNCHANGED <<created, pools, which, groups, wsa, startups, cleaner, running, abandoned, inits>>
      BY <1>3, <2>3 DEF CreateThreadpool, Fail, Return
    <3>3. TypeOK' /\ PcInv' /\ CountInv'
      BY ZenonT(60), <2>3, <2>a, <3>1
    <3>4. OwnInv'
      <4>1. CASE which = "io"
        BY SMTT(60), <2>3, <2>a, <3>1, <4>1
      <4>2. CASE which = "user"
        BY SMTT(60), <2>3, <2>a, <3>1, <4>2
      <4> QED
        BY <4>1, <4>2
    <3> QED
      BY ZenonT(60), <3>3, <3>4
  <2>4. pc' = "group" \/ pc' = "idle"
    BY ZenonT(60), <1>3 DEF CreateThreadpool, Fail, Return
  <2> QED
    BY ZenonT(60), <2>2, <2>3, <2>4
<1>4. CASE CreateCleanupGroup
  <2>1. pc = "group" /\ core # "gone" /\ handle[which] \in pools \ leaked /\ HasPool(which)
    BY SMTT(60), <1>4 DEF CreateCleanupGroup
  <2>a. UNCHANGED <<handle, pools, leaked, created, wsa, startups, cleaner, running, abandoned, inits>>
    BY <1>4 DEF CreateCleanupGroup
  <2>b. groups \cup {handle[which]} \subseteq Ids
    <3>1. groups \subseteq Ids /\ pools \subseteq Ids
      BY SMTT(60)
    <3> QED
      BY ONLY ZenonT(60), <2>1, <3>1
  <2>2. CASE rollback' = [rollback EXCEPT ![which] = "CreateCleanupGroup"]
             /\ groups' = groups \cup {handle[which]} /\ which' = "user"
             /\ IF which = "io" THEN pc' = "threadpool" /\ UNCHANGED <<core, result>>
                                ELSE Return("Success")
    <3>1. TypeOK'
      BY SMTT(60), <2>2, <2>a, <2>b DEF Return
    <3>2. OwnInv'
      <4>1. CASE which = "io"
        BY SMTT(60), <2>1, <2>2, <2>a, <4>1
      <4>2. CASE which = "user"
        BY SMTT(60), <2>1, <2>2, <2>a, <4>2 DEF Return
      <4> QED
        BY <4>1, <4>2
    <3>3. PcInv'
      BY SMTT(60), <2>1, <2>2, <2>a DEF Return
    <3>4. CountInv'
      BY SMTT(60), <2>1, <2>2, <2>a DEF Return
    <3> QED
      BY ZenonT(60), <3>1, <3>2, <3>3, <3>4
  <2>3. CASE Fail /\ UNCHANGED <<groups, rollback, which>>
    BY SMTT(60), <1>4, <2>1, <2>3 DEF CreateCleanupGroup, Fail, Return
  <2> QED
    BY ZenonT(60), <1>4, <2>2, <2>3 DEF CreateCleanupGroup
<1>5. CASE release
  BY SMTT(60), <1>5 DEF release
<1>6. CASE Switch
  <2>1. GroupHeld(which) => handle[which] \in Ids
    BY <1>6 DEF Switch
  <2>2. abandoned' \subseteq Ids /\ cleaner' \in [Ids -> {"none", "closing", "done"}]
    <3>1. abandoned \subseteq Ids /\ cleaner \in [Ids -> {"none", "closing", "done"}]
      BY SMTT(60)
    <3>2. abandoned' = abandoned \/ (GroupHeld(which) /\ abandoned' = abandoned \cup {handle[which]})
      BY SMTT(60), <1>6 DEF Switch
    <3>3. \/ cleaner' = cleaner
          \/ GroupHeld(which) /\ cleaner' = [cleaner EXCEPT ![handle[which]] = "closing"]
      BY <1>6 DEF Switch
    <3>4. abandoned' \subseteq Ids
      BY ONLY ZenonT(60), <2>1, <3>1, <3>2
    <3>5. cleaner' \in [Ids -> {"none", "closing", "done"}]
      BY ONLY SMTT(60), <2>1, <3>1, <3>3
    <3> QED
      BY ONLY SMTT(60), <3>4, <3>5
  <2>3. UNCHANGED <<core, which, rollback, handle, pools, groups, leaked, created, wsa, startups, running, inits>>
    BY SMTT(60), <1>6 DEF Switch
  <2> QED
    BY SMTT(60), <1>6, <2>2, <2>3 DEF Switch
<1>7. CASE Wait
  <2>1. handle[which] \in Ids
    BY <1>7 DEF Wait
  <2>2. abandoned' \subseteq Ids /\ result' \in {"none", "Success", "error"}
    BY ZenonT(60), <1>7, <2>1 DEF Wait
  <2>3. UNCHANGED <<core, which, rollback, handle, pools, groups, leaked, created, wsa, startups, cleaner, running, inits>>
    BY <1>7 DEF Wait
  <2> QED
    BY SMTT(60), <1>7, <2>2, <2>3 DEF Wait
<1>8. CASE CloseThreadpoolCleanupGroup
  <2>1. TypeOK'
    BY ZenonT(60), <1>8 DEF CloseThreadpoolCleanupGroup
  <2>2. OwnInv'
    BY SMTT(60), <1>8 DEF CloseThreadpoolCleanupGroup
  <2>3. PcInv'
    BY SMTT(60), <1>8 DEF CloseThreadpoolCleanupGroup
  <2>4. CountInv'
    BY SMTT(60), <1>8 DEF CloseThreadpoolCleanupGroup
  <2> QED
    BY ZenonT(60), <2>1, <2>2, <2>3, <2>4
<1>9. CASE CloseThreadpool
  <2>1. TypeOK'
    BY ZenonT(60), <1>9 DEF CloseThreadpool
  <2>2. OwnInv'
    BY SMTT(60), <1>9 DEF CloseThreadpool
  <2>3. PcInv'
    BY SMTT(60), <1>9 DEF CloseThreadpool
  <2>4. CountInv'
    BY SMTT(60), <1>9 DEF CloseThreadpool
  <2> QED
    BY ZenonT(60), <2>1, <2>2, <2>3, <2>4
<1>10. CASE NextPool
  BY SMTT(60), <1>10 DEF NextPool
<1>11. CASE WSACleanup
  BY SMTT(60), <1>11 DEF WSACleanup
<1>12. ASSUME NEW n \in Ids, CallbackStarts(n) \/ CallbackReturns(n) \/ CleanerDone(n) PROVE IInv'
  <2>1. running' \subseteq Ids /\ cleaner' \in [Ids -> {"none", "closing", "done"}]
    <3>1. CASE CallbackStarts(n)
      BY SMTT(60), <1>12, <3>1 DEF CallbackStarts
    <3>2. CASE CallbackReturns(n)
      BY SMTT(60), <3>2 DEF CallbackReturns
    <3>3. CASE CleanerDone(n)
      BY SMTT(60), <3>3 DEF CleanerDone
    <3> QED
      BY SMTT(60), <1>12, <3>1, <3>2, <3>3
  <2>2. UNCHANGED <<core, pc, which, result, rollback, handle, pools, groups, leaked, created, wsa, startups,
                  abandoned, inits>>
    BY SMTT(60), <1>12 DEF CallbackStarts, CallbackReturns, CleanerDone
  <2> QED
    BY SMTT(60), <2>1, <2>2
<1>13. CASE UNCHANGED vars
  BY SMTT(60), <1>13 DEF vars
<1> QED
  BY ZenonT(60), <1>1, <1>2, <1>3, <1>4, <1>5, <1>6, <1>7, <1>8, <1>9, <1>10, <1>11, <1>12, <1>13
  DEF Next, InitializeStep, ReleaseStep

(***************************************************************************)
(* The invariant holds in every reachable state.                           *)
(***************************************************************************)
THEOREM Invariance == Spec => []IInv
BY InitIInv, StepIInv, PTL DEF Spec

(***************************************************************************)
(* At every step of initialize() and release(), the rollback levels account*)
(* for exactly the pools and cleanup groups that exist and that no further *)
(* initialize() has overwritten.                                           *)
(***************************************************************************)
THEOREM RollbackAccuracy == Spec => []RollbackAccurate
<1>1. IInv => RollbackAccurate
  <2> SUFFICES ASSUME IInv, core \in {"up", "released"}
               PROVE  /\ leaked \subseteq pools
                      /\ \A n \in Ids :
                           /\ n \in pools \ leaked <=> \E p \in Pools : PoolHeld(p) /\ handle[p] = n
                           /\ n \in groups \ leaked <=> \E p \in Pools : GroupHeld(p) /\ handle[p] = n
    BY DEF RollbackAccurate
  <2>1. \A p \in Pools : (HasPool(p) <=> PoolHeld(p)) /\ (HasGroup(p) <=> GroupHeld(p)) /\ (HasGroup(p) => HasPool(p))
    BY DEF HasPool, HasGroup, Unset, PoolHeld, GroupHeld
  <2> QED
    BY <2>1 DEF IInv, OwnInv
<1> QED
  BY <1>1, Invariance, PTL

(***************************************************************************)
(* Once release() has returned Success nothing is left but what a further  *)
(* initialize() took from it, after any number of failed calls and retries.*)
(***************************************************************************)
THEOREM ReleaseTheorem == Spec => []ReleaseFreesRest
<1>1. IInv => ReleaseFreesRest
  <2> SUFFICES ASSUME IInv, core = "released", pc = "idle"
               PROVE  pools = leaked /\ groups \subseteq leaked /\ wsa <= startups
    BY DEF ReleaseFreesRest
  <2>1. ~HasPool("io") /\ ~HasPool("user") /\ ~HasGroup("io") /\ ~HasGroup("user")
    BY DEF IInv, PcInv, HasPool, HasGroup, PoolHeld, GroupHeld
  <2>2. pools = leaked /\ groups \subseteq leaked
    BY <2>1 DEF IInv, OwnInv, Pools
  <2> QED
    BY <2>2 DEF IInv, CountInv
<1> QED
  BY <1>1, Invariance, PTL

--------------------------------------------------------------------------------
(* Draining a cleanup group *)

\* release() waits for the helper, and the helper for the callbacks.
DrainInv ==
  /\ \A n \in Ids \ abandoned : cleaner[n] = "closing" => pc = "wait" /\ n = handle[which]
  /\ \A n \in Ids : cleaner[n] = "done" => n \notin running
  /\ running \subseteq groups \cup abandoned
  /\ pc = "close_group" /\ handle[which] \notin abandoned => cleaner[handle[which]] = "done"

(***************************************************************************)
(* Init establishes the drain invariant: there are no callbacks yet.       *)
(***************************************************************************)
LEMMA InitDrain == Init => DrainInv
BY SMTT(60) DEF Init, DrainInv

(***************************************************************************)
(* Every step preserves the drain invariant, the steps in which release()  *)
(* gives up included.                                                      *)
(***************************************************************************)
LEMMA StepDrain == IInv /\ DrainInv /\ [Next]_vars => DrainInv'
<1> SUFFICES ASSUME IInv, DrainInv, [Next]_vars PROVE DrainInv'
    OBVIOUS
<1>a. /\ pc \in {"wait", "close_group"} => rollback[which] = "CreateCleanupGroup"
      /\ pc \in {"wait", "close_group"} => core = "up"
      /\ which \in Pools /\ groups \subseteq Ids
      /\ cleaner \in [Ids -> {"none", "closing", "done"}]
  BY DEF IInv, TypeOK, PcInv, InRelease
<1>b. \A p \in Pools : core = "up" /\ rollback[p] = "CreateCleanupGroup" => handle[p] \in groups
  BY DEF IInv, OwnInv, HasGroup, GroupHeld, Unset
<1> USE DEF DrainInv, memberVars, resourceVars, wsaVars
<1>1. CASE initialize
  BY <1>1 DEF initialize, Fail, Return
<1>2. CASE get_extended_socket_functions
  BY <1>2 DEF get_extended_socket_functions, Fail, Return
<1>3. CASE CreateThreadpool
  BY <1>3 DEF CreateThreadpool, Fail, Return
<1>4. CASE CreateCleanupGroup
  BY <1>4 DEF CreateCleanupGroup, Fail, Return
<1>5. CASE release
  BY <1>5 DEF release
<1>6. CASE Switch
  BY <1>6, <1>a, <1>b DEF Switch
<1>7. CASE Wait
  BY <1>7, <1>a, <1>b DEF Wait
<1>8. CASE CloseThreadpoolCleanupGroup
  BY <1>8, <1>a, <1>b DEF CloseThreadpoolCleanupGroup
<1>9. CASE CloseThreadpool
  BY <1>9 DEF CloseThreadpool
<1>10. CASE NextPool
  BY <1>10 DEF NextPool
<1>11. CASE WSACleanup
  BY <1>11 DEF WSACleanup
<1>12. ASSUME NEW n \in Ids, CallbackStarts(n) PROVE DrainInv'
  BY <1>12, <1>a DEF CallbackStarts
<1>13. ASSUME NEW n \in Ids, CallbackReturns(n) PROVE DrainInv'
  BY <1>13 DEF CallbackReturns
<1>14. ASSUME NEW n \in Ids, CleanerDone(n) PROVE DrainInv'
  BY SMTT(60), <1>14, <1>a DEF CleanerDone
<1>15. CASE UNCHANGED vars
  BY <1>15 DEF vars
<1> QED
  BY ZenonT(60), <1>1, <1>2, <1>3, <1>4, <1>5, <1>6, <1>7, <1>8, <1>9, <1>10, <1>11, <1>12, <1>13, <1>14, <1>15
  DEF Next, InitializeStep, ReleaseStep

(***************************************************************************)
(* A cleanup group that release() did not give up on is closed only when no*)
(* callback of it runs and the helper thread has finished with it.         *)
(***************************************************************************)
THEOREM DrainTheorem == Spec => []GroupClosedIdle
<1>1. IInv /\ DrainInv => GroupClosedIdle
  <2> SUFFICES ASSUME IInv, DrainInv, NEW n \in 1 .. created, n \notin groups \cup abandoned
               PROVE  cleaner[n] # "closing" /\ n \notin running
    BY DEF GroupClosedIdle
  <2>1. n \in Ids
    BY IOCoreAssumption DEF IInv, TypeOK, Ids
  <2>2. n \notin running
    BY DEF DrainInv
  <2>3. ASSUME cleaner[n] = "closing" PROVE FALSE
    <3>1. pc = "wait" /\ n = handle[which]
      BY <2>1, <2>3 DEF DrainInv
    <3>2. HasGroup(which) /\ core = "up" /\ which \in Pools
      BY SMTT(60), <3>1 DEF IInv, TypeOK, PcInv, HasGroup, GroupHeld, Unset, InRelease
    <3> QED
      BY <3>1, <3>2 DEF IInv, OwnInv
  <2> QED
    BY <2>2, <2>3
<1> QED
  BY <1>1, Invariance, InitDrain, StepDrain, PTL DEF Spec

--------------------------------------------------------------------------------
(* Programs that release a core before they initialize it again *)

\* initialize() is not called on a core that has not been released.
Paired == "reinit" \notin Env

\* Then initialize() finds no pool to overwrite, and no WSAStartup to add to.
PairedInv ==
  /\ leaked = {} /\ startups = 0
  /\ pc \in InInitialize => core # "up"
  /\ pc = "threadpool" => ~HasPool(which)
  /\ pc \in {"threadpool", "group"} /\ which = "io" => ~HasPool("user")

(***************************************************************************)
(* Without a further initialize() nothing is leaked, whatever fails.       *)
(***************************************************************************)
LEMMA StepPaired == Paired /\ IInv /\ PairedInv /\ [Next]_vars => PairedInv'
<1> SUFFICES ASSUME Paired, IInv, PairedInv, [Next]_vars PROVE PairedInv'
    OBVIOUS
<1>a. TypeOK /\ OwnInv /\ PcInv /\ wsa \in Nat
      /\ (core \in {"none", "released"} /\ pc = "idle" => wsa <= startups)
  BY SMTT(60) DEF IInv, TypeOK, CountInv
<1> USE DEF PairedInv, InInitialize, HasPool, PoolHeld, Unset, Pools, memberVars, resourceVars, wsaVars
<1>1. CASE initialize
  BY SMTT(60), <1>1, <1>a DEF initialize, Fail, Return, Paired, PcInv
<1>2. CASE get_extended_socket_functions
  <2>1. pc = "functions" /\ core \in {"none", "released"}
    BY <1>2, <1>a DEF get_extended_socket_functions, TypeOK, PcInv
  <2> QED
    BY SMTT(60), <1>2, <1>a, <2>1 DEF get_extended_socket_functions, Fail, Return, PcInv
<1>3. CASE CreateThreadpool
  <2>1. handle[which] \notin pools /\ pc = "threadpool" /\ core # "up" /\ which \in Pools
    BY <1>3, <1>a DEF CreateThreadpool, OwnInv, PcInv, TypeOK
  <2>2. leaked' = {} /\ UNCHANGED <<startups, which>> /\ pc' \in {"group", "idle"}
    BY SMTT(60), <1>3, <2>1 DEF CreateThreadpool, Fail, Return
  <2>3. pc' = "group" => core' = core /\ rollback' = [rollback EXCEPT ![which] = "CreateThreadpool"]
    BY SMTT(60), <1>3 DEF CreateThreadpool, Fail, Return
  <2> QED
    BY SMTT(60), <1>a, <2>1, <2>2, <2>3 DEF TypeOK
<1>4. CASE CreateCleanupGroup
  BY SMTT(60), <1>4, <1>a DEF CreateCleanupGroup, Fail, Return, TypeOK, PcInv
<1>5. CASE release \/ ReleaseStep
  BY SMTT(60), <1>5 DEF release, ReleaseStep, Switch, Wait, CloseThreadpoolCleanupGroup, CloseThreadpool, NextPool, WSACleanup
<1>6. ASSUME NEW n \in Ids, CallbackStarts(n) \/ CallbackReturns(n) \/ CleanerDone(n) PROVE PairedInv'
  BY <1>6 DEF CallbackStarts, CallbackReturns, CleanerDone
<1>7. CASE UNCHANGED vars
  BY <1>7 DEF vars
<1> QED
  BY <1>1, <1>2, <1>3, <1>4, <1>5, <1>6, <1>7 DEF Next, InitializeStep

(***************************************************************************)
(* If the program releases a core before it initializes it again, nothing  *)
(* at all is left once release() has returned Success, after any number of *)
(* failed calls and retries.                                               *)
(***************************************************************************)
THEOREM PairedRelease == Paired /\ Spec => []ReleaseFreesAll
<1>1. Init => PairedInv
  BY DEF Init, PairedInv, InInitialize
<1>2. IInv /\ PairedInv /\ ReleaseFreesRest => ReleaseFreesAll
  BY DEF IInv, TypeOK, PairedInv, ReleaseFreesRest, ReleaseFreesAll
<1>3. ASSUME Paired PROVE Spec => []ReleaseFreesAll
  BY <1>1, <1>2, <1>3, StepPaired, Invariance, ReleaseTheorem, PTL DEF Spec
<1> QED
  BY <1>3
================================================================================
