----------------------------- MODULE ShutdownProofs -----------------------------
(***************************************************************************)
(* Proofs about Shutdown, for any number of sockets, of operations on them *)
(* and of initialize()/release() cycles: the sockets use the pools the way *)
(* IOCore assumes, nothing is used after it was torn down, and nothing is  *)
(* left when release() has returned Success, but for operations started    *)
(* after close() had waited.                                               *)
(***************************************************************************)
EXTENDS Shutdown, IOCoreProofs

--------------------------------------------------------------------------------
(* The inductive invariant, on top of those of IOCore *)

\* IOCore's callbacks are the routines and handlers of operations.
CallbackInv == running = {group[o] : o \in {q \in Ops : op[q] \in InCallback}} \ {0}

\* An open socket keeps the core from being released, and operations in the IO pool keep
\* their socket from being closed, unless they were started after the wait.
SocketInv ==
  /\ \A s \in Sockets : member[s] # 0 =>
       core = "up" /\ pc = "idle" /\ GroupHeld("io") /\ GroupHeld("user") /\ member[s] = handle["io"]
  /\ live = {s \in Sockets : member[s] # 0}
  /\ \A o \in Ops : op[o] \in {"pending", "routine"} =>
       \/ group[o] = 0 /\ o \in raced
       \/ member[o[1]] # 0 /\ group[o] = member[o[1]] /\ o[1] \notin closing
  /\ \A s \in closing : member[s] # 0 /\ closing = {s}

\* Operations exist only in a core that was created, and what was posted late is lost.
OpInv ==
  \A o \in Ops :
    /\ op[o] # "none" => core \in {"up", "released"}
    /\ o \in fault => op[o] = "cancelled"

\* A helper has been started only for the group release() works on, and for closed ones.
HelperInv ==
  /\ \A p \in Pools :
       core # "gone" /\ HasPool(p) /\ ~(which = p /\ pc \in {"wait", "close_group", "close_pool"}) =>
         cleaner[handle[p]] = "none"
  /\ \A n \in Ids : n > created => cleaner[n] = "none"

\* A closure is in a group that has not been cleaned up.
QueueInv ==
  \A o \in Ops :
    /\ op[o] = "posted" => cleaner[group[o]] # "done" /\ group[o] \in groups \cup abandoned
    /\ op[o] = "handler" => group[o] # 0

(***************************************************************************)
(* What NoLateUse and QuietAfterRelease follow from.                       *)
(***************************************************************************)
ShutdownInv ==
  ShutdownType /\ CallbackInv /\ SocketInv /\ OpInv /\ HelperInv /\ QueueInv /\ NoLateUse

\* All three invariants
AllInv == IInv /\ DrainInv /\ ShutdownInv

--------------------------------------------------------------------------------
(* The sockets keep to IOCore *)

(***************************************************************************)
(* A callback that starts is one of IOCore's, or joins one that runs.      *)
(***************************************************************************)
LEMMA EntersIsCore ==
  ASSUME IInv, NEW o, NEW stage, Enters(o, stage)
  PROVE  [Next]_vars
<1>1. CASE CallbackStarts(group[o])
  <2>1. group[o] \in Ids
    BY <1>1 DEF CallbackStarts, IInv, TypeOK
  <2> QED
    BY <1>1, <2>1 DEF Next
<1> QED
  BY <1>1 DEF Enters

(***************************************************************************)
(* A callback that ends is one of IOCore's, or leaves others running.      *)
(***************************************************************************)
LEMMA LeavesIsCore ==
  ASSUME CallbackInv, IInv, NEW o \in Ops, op[o] \in InCallback, Leaves(o)
  PROVE  [Next]_vars
<1>1. group[o] # 0 => group[o] \in running
  BY DEF CallbackInv
<1>2. group[o] # 0 => group[o] \in Ids
  BY <1>1 DEF IInv, TypeOK
<1> QED
  BY <1>2 DEF Leaves, Next

(***************************************************************************)
(* Every step of the sockets and the core is a step of IOCore or leaves it *)
(* alone.                                                                  *)
(***************************************************************************)
LEMMA StepIsCore == AllInv /\ [ShutdownNext]_allVars => [Next]_vars
<1> SUFFICES ASSUME AllInv, [ShutdownNext]_allVars PROVE [Next]_vars
    OBVIOUS
<1> USE DEF AllInv, ShutdownInv
<1>1. ASSUME NEW s \in Sockets, socket(s) \/ WaitForThreadpoolIoCallbacks(s) \/ CloseThreadpoolIo(s)
      PROVE  [Next]_vars
  BY <1>1 DEF socket, WaitForThreadpoolIoCallbacks, CloseThreadpoolIo
<1>2. ASSUME NEW o \in Ops, start(o) PROVE [Next]_vars
  BY <1>2 DEF start
<1>3. ASSUME NEW o \in Ops, RoutineStarts(o) PROVE [Next]_vars
  BY <1>3, EntersIsCore DEF RoutineStarts
<1>4. ASSUME NEW o \in Ops, post_user_work(o) PROVE [Next]_vars
  BY <1>4, LeavesIsCore DEF post_user_work, InCallback
<1>5. ASSUME NEW o \in Ops, HandlerStarts(o) PROVE [Next]_vars
  BY <1>5, EntersIsCore DEF HandlerStarts
<1>6. ASSUME NEW o \in Ops, HandlerReturns(o) PROVE [Next]_vars
  BY <1>6, LeavesIsCore DEF HandlerReturns, InCallback
<1>7. ASSUME NEW n \in Ids, Cleanup(n) PROVE [Next]_vars
  BY <1>7 DEF Cleanup, Next
<1>8. CASE InitializeAfterClose \/ ReleaseAfterClose \/ CoreStep
  BY <1>8 DEF InitializeAfterClose, ReleaseAfterClose, CoreStep, Next
<1>9. CASE UNCHANGED allVars
  BY <1>9 DEF allVars
<1> QED
  BY <1>1, <1>2, <1>3, <1>4, <1>5, <1>6, <1>7, <1>8, <1>9 DEF ShutdownNext

--------------------------------------------------------------------------------
(* The core's steps keep the invariant *)

(***************************************************************************)
(* A handle of a level that says there is a pool is one of the pools made. *)
(***************************************************************************)
LEMMA HandleRange ==
  ASSUME IInv, core # "gone", NEW p \in Pools, HasPool(p)
  PROVE  handle[p] \in Ids /\ handle[p] <= created
<1>1. handle[p] \in pools /\ handle[p] <= created
  BY DEF IInv, OwnInv
<1> QED
  BY <1>1 DEF IInv, TypeOK

(***************************************************************************)
(* initialize() and release() start a helper thread only for the group they*)
(* are about to close.                                                     *)
(***************************************************************************)
LEMMA CoreHelper ==
  ASSUME IInv, HelperInv, initialize \/ InitializeStep \/ release \/ ReleaseStep
  PROVE  HelperInv'
<1>a. TypeOK /\ PcInv /\ OwnInv
  BY DEF IInv
<1>b. \A p \in Pools : core # "gone" /\ HasPool(p) => handle[p] \in Ids /\ handle[p] <= created
  BY HandleRange
<1> USE IOCoreAssumption DEF memberVars, resourceVars, wsaVars
<1>1. CASE initialize
  BY <1>1, <1>a DEF initialize, Fail, Return, HelperInv, HasPool, PoolHeld, Unset, Pools, PcInv
<1>2. CASE get_extended_socket_functions
  BY <1>2, <1>a DEF get_extended_socket_functions, Fail, Return, HelperInv, HasPool, PoolHeld, Unset, Pools, PcInv, InInitialize
<1>3. CASE CreateThreadpool
  <2>1. created + 1 \in Ids /\ created \in Nat
    BY <1>3 DEF CreateThreadpool, IInv, TypeOK, CountInv, Pools, Ids
  <2>2. pc = "threadpool" /\ which \in Pools /\ core # "gone" /\ UNCHANGED <<which, cleaner>>
        /\ handle \in [Pools -> Ids \cup {0}] /\ rollback \in [Pools -> Levels]
    BY <1>3, <1>a DEF CreateThreadpool, TypeOK, PcInv, InInitialize
  <2>3. CASE /\ created' = created + 1 /\ pc' = "group" /\ core' = core
             /\ handle' = [handle EXCEPT ![which] = created + 1]
             /\ rollback' = [rollback EXCEPT ![which] = "CreateThreadpool"]
    <3>1. cleaner[created + 1] = "none"
      BY <2>1 DEF HelperInv
    <3>2. ASSUME NEW p \in Pools, HasPool(p)' PROVE cleaner'[handle'[p]] = "none"
      <4>1. CASE p = which
        BY <2>2, <2>3, <3>1, <4>1
      <4>2. CASE p # which
        BY <2>2, <2>3, <3>2, <4>2 DEF HelperInv, HasPool, PoolHeld, Unset
      <4> QED
        BY <4>1, <4>2
    <3>3. \A n \in Ids : n > created' => cleaner'[n] = "none"
      BY <2>1, <2>2, <2>3 DEF HelperInv, Ids
    <3> QED
      BY <3>2, <3>3 DEF HelperInv
  <2>4. CASE /\ Fail /\ created' = created
             /\ handle' = [handle EXCEPT ![which] = 0]
             /\ rollback' = [rollback EXCEPT ![which] = "InitEnviron"]
    BY <1>a, <2>2, <2>4 DEF Fail, Return, HelperInv, HasPool, PoolHeld, Unset, Pools, PcInv
  <2> QED
    BY SMTT(60), <1>3, <2>3, <2>4 DEF CreateThreadpool
<1>4. CASE CreateCleanupGroup
  BY <1>4, <1>a DEF CreateCleanupGroup, Fail, Return, HelperInv, HasPool, PoolHeld, Unset, Pools, PcInv, InInitialize, TypeOK, Levels
<1>5. CASE release
  BY SMTT(60), <1>5 DEF release, HelperInv, HasPool, PoolHeld, Unset
<1>6. CASE Switch
  <2>1. /\ pc = "switch" /\ core = "up" /\ which \in Pools
        /\ UNCHANGED <<core, which, rollback, handle, created>>
        /\ cleaner \in [Ids -> {"none", "closing", "done"}] /\ handle \in [Pools -> Ids \cup {0}]
        /\ created \in Nat
    BY <1>6, <1>a DEF Switch, TypeOK, PcInv, InRelease
  <2>2. CASE /\ rollback[which] = "CreateCleanupGroup" /\ pc' = "wait"
             /\ cleaner' = [cleaner EXCEPT ![handle[which]] = "closing"]
    <3>1. HasPool(which) /\ handle[which] \in Ids /\ handle[which] <= created
      BY <1>b, <2>1, <2>2 DEF HasPool, PoolHeld, Unset
    <3>2. ASSUME NEW p \in Pools, p # which, HasPool(p)' PROVE cleaner'[handle'[p]] = "none"
      <4>1. HasPool(p) /\ handle[p] # handle[which]
        BY <1>a, <2>1, <3>1, <3>2 DEF OwnInv, HasPool, PoolHeld, Unset, Pools
      <4>2. cleaner[handle[p]] = "none" /\ handle[p] \in Ids
        BY <1>b, <2>1, <3>2, <4>1 DEF HelperInv
      <4> QED
        BY SMTT(60), <2>1, <2>2, <3>1, <4>1, <4>2
    <3>3. \A n \in Ids : n > created' => cleaner'[n] = "none"
      BY <2>1, <2>2, <3>1 DEF HelperInv, Ids
    <3> QED
      BY <2>1, <2>2, <3>2, <3>3 DEF HelperInv
  <2>3. CASE cleaner' = cleaner
    BY <2>1, <2>3 DEF HelperInv, HasPool, PoolHeld, Unset
  <2> QED
    BY <1>6, <2>2, <2>3 DEF Switch
<1>7. CASE Wait
  BY SMTT(60), <1>7, <1>a DEF Wait, HelperInv, HasPool, PoolHeld, Unset
<1>8. CASE CloseThreadpoolCleanupGroup
  BY <1>8, <1>a DEF CloseThreadpoolCleanupGroup, HelperInv, HasPool, PoolHeld, Unset, Pools, TypeOK, PcInv, InRelease
<1>9. CASE CloseThreadpool
  BY SMTT(60), <1>9, <1>a DEF CloseThreadpool, HelperInv, HasPool, PoolHeld, Unset, Pools, TypeOK, PcInv, InRelease
<1>10. CASE NextPool
  BY <1>10, <1>a DEF NextPool, HelperInv, HasPool, PoolHeld, Unset, Pools, TypeOK, PcInv, InRelease
<1>11. CASE WSACleanup
  BY <1>11, <1>a DEF WSACleanup, HelperInv, HasPool, PoolHeld, Unset, PcInv, InRelease
<1> QED
  BY <1>1, <1>2, <1>3, <1>4, <1>5, <1>6, <1>7, <1>8, <1>9, <1>10, <1>11 DEF InitializeStep, ReleaseStep

(***************************************************************************)
(* No group is closed with a closure queued in it unless release() gave up *)
(* waiting for the group's helper.                                         *)
(***************************************************************************)
LEMMA CoreQueue ==
  ASSUME AllInv, initialize \/ InitializeStep \/ release \/ ReleaseStep, UNCHANGED socketVars
  PROVE  QueueInv'
<1>a. /\ QueueInv /\ DrainInv /\ HelperInv /\ ShutdownType /\ UNCHANGED <<op, group>>
      /\ cleaner \in [Ids -> {"none", "closing", "done"}]
  BY DEF AllInv, ShutdownInv, IInv, TypeOK, socketVars
<1>1. CASE CloseThreadpoolCleanupGroup
  BY <1>1, <1>a DEF CloseThreadpoolCleanupGroup, QueueInv, DrainInv
<1>2. CASE Switch
  <2>1. groups' = groups /\ abandoned \subseteq abandoned'
    BY <1>2 DEF Switch, resourceVars
  <2>2. cleaner' = cleaner \/ cleaner' = [cleaner EXCEPT ![handle[which]] = "closing"]
    BY <1>2 DEF Switch
  <2>3. \A n \in Ids : cleaner'[n] = "done" => cleaner[n] = "done"
    BY <1>a, <2>2
  <2>4. groups \cup abandoned \subseteq Ids
    BY DEF AllInv, IInv, TypeOK
  <2> QED
    BY <1>a, <2>1, <2>3, <2>4 DEF QueueInv
<1>3. CASE cleaner' = cleaner /\ groups \subseteq groups' /\ abandoned \subseteq abandoned'
  BY SMTT(60), <1>3, <1>a DEF QueueInv
<1>4. \/ CloseThreadpoolCleanupGroup \/ Switch
      \/ cleaner' = cleaner /\ groups \subseteq groups' /\ abandoned \subseteq abandoned'
  BY DEF initialize, InitializeStep, get_extended_socket_functions, CreateThreadpool, CreateCleanupGroup,
         release, ReleaseStep, Wait, CloseThreadpool, NextPool, WSACleanup, resourceVars
<1> QED
  BY <1>1, <1>2, <1>3, <1>4

(***************************************************************************)
(* initialize() and release() leave the sockets' invariant alone: they run *)
(* only while no socket is open.                                           *)
(***************************************************************************)
LEMMA CoreStepInv ==
  ASSUME AllInv, InitializeAfterClose \/ ReleaseAfterClose \/ CoreStep
  PROVE  ShutdownInv'
<1>1. UNCHANGED <<member, live, closing, op, group, raced, fault>>
  BY DEF InitializeAfterClose, ReleaseAfterClose, CoreStep, socketVars
<1>2. initialize \/ InitializeStep \/ release \/ ReleaseStep
  BY DEF InitializeAfterClose, ReleaseAfterClose, CoreStep
<1>3. ShutdownType' /\ NoLateUse'
  BY SMTT(60), <1>1 DEF AllInv, ShutdownInv, ShutdownType, NoLateUse
<1>4. CallbackInv'
  <2>1. running' = running
    BY SMTT(60), <1>2 DEF initialize, InitializeStep, get_extended_socket_functions, CreateThreadpool, CreateCleanupGroup,
         release, ReleaseStep, Switch, Wait, CloseThreadpoolCleanupGroup, CloseThreadpool, NextPool, WSACleanup
  <2> QED
    BY SMTT(60), <1>1, <2>1 DEF AllInv, ShutdownInv, CallbackInv
<1>5. SocketInv'
  <2>1. \A s \in Sockets : member[s] = 0
    <3>1. CASE InitializeAfterClose \/ ReleaseAfterClose
      BY <3>1 DEF InitializeAfterClose, ReleaseAfterClose
    <3>2. CASE CoreStep
      <4>1. ~(core = "up" /\ pc = "idle")
        BY ZenonT(60), <3>2 DEF CoreStep, InitializeStep, get_extended_socket_functions, CreateThreadpool,
           CreateCleanupGroup, ReleaseStep, Switch, Wait, CloseThreadpoolCleanupGroup, CloseThreadpool,
           NextPool, WSACleanup
      <4> QED
        BY <4>1 DEF AllInv, ShutdownInv, SocketInv
    <3> QED
      BY <3>1, <3>2
  <2> QED
    BY <1>1, <2>1 DEF AllInv, ShutdownInv, SocketInv
<1>6. HelperInv'
  BY <1>2, CoreHelper DEF AllInv, ShutdownInv
<1>7. QueueInv'
  BY <1>1, <1>2, CoreQueue DEF socketVars
<1>8. OpInv'
  <2>1. core \in {"up", "released"} => core' \in {"up", "released"}
    BY ZenonT(60), <1>2 DEF initialize, InitializeStep, get_extended_socket_functions, CreateThreadpool, CreateCleanupGroup,
         release, ReleaseStep, Switch, Wait, CloseThreadpoolCleanupGroup, CloseThreadpool, NextPool, WSACleanup,
         Fail, Return
  <2> QED
    BY <1>1, <2>1 DEF AllInv, ShutdownInv, OpInv
<1> QED
  BY <1>3, <1>4, <1>5, <1>6, <1>7, <1>8 DEF ShutdownInv

--------------------------------------------------------------------------------
(* The sockets' steps keep the invariant *)

(***************************************************************************)
(* A callback that starts makes its group one with a callback running, and *)
(* changes nothing else of the core.                                       *)
(***************************************************************************)
LEMMA EntersInv ==
  ASSUME ShutdownType, CallbackInv, NEW o \in Ops, NEW stage \in InCallback,
         Enters(o, stage), group' = group
  PROVE  /\ CallbackInv'
         /\ UNCHANGED <<core, pc, which, rollback, handle, groups, cleaner, abandoned, created>>
<1>1. op' = [op EXCEPT ![o] = stage] /\ op \in [Ops -> {"none", "pending", "routine", "posted", "handler", "cancelled"}]
  BY DEF Enters, ShutdownType
<1>2. running' = running \cup ({group[o]} \ {0})
  <2>1. CASE group[o] \in running \cup {0}
    <3>1. running' = running
      BY ZenonT(60), <2>1 DEF Enters, vars
    <3> QED
      BY <2>1, <3>1
  <2>2. CASE group[o] \notin running \cup {0}
    <3>1. running' = running \cup {group[o]}
      BY ZenonT(60), <2>2 DEF Enters, CallbackStarts
    <3> QED
      BY <2>2, <3>1
  <2> QED
    BY <2>1, <2>2
<1>3. CallbackInv'
  BY <1>1, <1>2 DEF CallbackInv
<1> QED
  BY ZenonT(60), <1>3 DEF Enters, CallbackStarts, vars, memberVars, resourceVars, wsaVars

(***************************************************************************)
(* The last callback of a group to end leaves the group without one.       *)
(***************************************************************************)
LEMMA LeavesInv ==
  ASSUME ShutdownType, CallbackInv, NEW o \in Ops, op[o] \in InCallback, Leaves(o),
         NEW x, x \notin InCallback, op' = [op EXCEPT ![o] = x],
         NEW g, group' = [group EXCEPT ![o] = g]
  PROVE  /\ CallbackInv'
         /\ UNCHANGED <<core, pc, which, rollback, handle, groups, cleaner, abandoned, created>>
<1>1. DOMAIN op = Ops /\ DOMAIN group = Ops
  BY DEF ShutdownType
<1>2. \A q \in Ops \ {o} : group'[q] = group[q] /\ op'[q] = op[q]
  BY <1>1
<1>3. op'[o] \notin InCallback
  BY <1>1
<1>4. \A n : n \in running <=> n # 0 /\ \E q \in Ops : op[q] \in InCallback /\ n = group[q]
  BY DEF CallbackInv
<1>5. \A n : n \in running' <=> n # 0 /\ \E q \in Ops : op'[q] \in InCallback /\ n = group'[q]
  <2>1. CASE group[o] = 0 \/ \E q \in Ops \ {o} : op[q] \in InCallback /\ group[q] = group[o]
    <3>1. running' = running
      BY <2>1 DEF Leaves, vars
    <3> QED
      BY <1>2, <1>3, <1>4, <2>1, <3>1
  <2>2. CASE group[o] # 0 /\ ~ \E q \in Ops \ {o} : op[q] \in InCallback /\ group[q] = group[o]
    <3>1. running' = running \ {group[o]}
      BY <2>2 DEF Leaves, CallbackReturns
    <3> QED
      BY <1>2, <1>3, <1>4, <2>2, <3>1
  <2> QED
    BY <2>1, <2>2
<1>6. UNCHANGED <<core, pc, which, rollback, handle, groups, cleaner, abandoned, created>>
  BY DEF Leaves, CallbackReturns, vars, memberVars, resourceVars, wsaVars
<1>7. CallbackInv'
  BY <1>5 DEF CallbackInv
<1> QED
  BY <1>6, <1>7

(***************************************************************************)
(* While a socket is open the user pool's group exists and is not being    *)
(* cleaned up, so post_user_work() may be called.                          *)
(***************************************************************************)
LEMMA OpenSocket ==
  ASSUME AllInv, NEW s \in Sockets, member[s] # 0
  PROVE  /\ GroupHeld("user") /\ cleaner[handle["user"]] = "none" /\ handle["user"] \in groups
         /\ cleaner[handle["io"]] = "none" /\ member[s] = handle["io"] /\ handle["user"] \in Ids
<1>1. core = "up" /\ pc = "idle" /\ GroupHeld("io") /\ GroupHeld("user") /\ member[s] = handle["io"]
  BY DEF AllInv, ShutdownInv, SocketInv
<1>2. HasGroup("io") /\ HasGroup("user") /\ HasPool("io") /\ HasPool("user")
  BY <1>1 DEF GroupHeld, HasPool, HasGroup, PoolHeld, Unset
<1>3. cleaner[handle["io"]] = "none" /\ cleaner[handle["user"]] = "none"
  BY <1>1, <1>2 DEF AllInv, ShutdownInv, HelperInv, Pools
<1>4. handle["user"] \in groups /\ groups \subseteq Ids
  BY <1>1, <1>2 DEF AllInv, IInv, TypeOK, OwnInv, Pools
<1> QED
  BY <1>1, <1>3, <1>4

(***************************************************************************)
(* socket() and close(), on the thread that also calls initialize() and    *)
(* release(), keep the invariant: the PTP_IO that close() closes is live.  *)
(***************************************************************************)
LEMMA SocketStepInv ==
  ASSUME AllInv, NEW s \in Sockets,
         socket(s) \/ WaitForThreadpoolIoCallbacks(s) \/ CloseThreadpoolIo(s)
  PROVE  ShutdownInv'
<1>a. ShutdownType /\ CallbackInv /\ SocketInv /\ OpInv /\ HelperInv /\ QueueInv /\ NoLateUse
  BY DEF AllInv, ShutdownInv
<1>b. handle \in [Pools -> Ids \cup {0}] /\ "io" \in Pools /\ member \in [Sockets -> Ids \cup {0}]
  BY SMTT(60), <1>a DEF AllInv, IInv, TypeOK, Pools, ShutdownType
<1>c. UNCHANGED <<core, pc, which, rollback, handle, groups, cleaner, running, abandoned, created, op, group, raced>>
  BY DEF socket, WaitForThreadpoolIoCallbacks, CloseThreadpoolIo, vars, memberVars, resourceVars, wsaVars
<1>d. Ops \in SUBSET (Sockets \X (1 .. OpsPerSocket)) /\ \A o \in Ops : o[1] \in Sockets
  BY DEF Ops
<1>1. CallbackInv' /\ HelperInv' /\ QueueInv'
  BY <1>a, <1>c DEF CallbackInv, HelperInv, QueueInv, HasPool, PoolHeld, Unset
<1>e. ASSUME fault' = fault PROVE OpInv' /\ NoLateUse'
  BY <1>a, <1>c, <1>e DEF OpInv, NoLateUse
<1>2. CASE socket(s)
  <2>1. /\ core = "up" /\ pc = "idle" /\ GroupHeld("io") /\ GroupHeld("user")
        /\ member[s] = 0 /\ member' = [member EXCEPT ![s] = handle["io"]]
        /\ live' = live \cup {s} /\ fault' = fault /\ closing = {} /\ closing' = {}
    BY <1>2 DEF socket, Pools
  <2>2. handle["io"] # 0
    <3>1. HasPool("io")
      BY <2>1 DEF HasPool, PoolHeld, GroupHeld, Unset
    <3>2. handle["io"] \in Ids
      BY SMTT(60), <1>b, <2>1, <3>1, HandleRange DEF AllInv
    <3> QED
      BY <3>2, IOCoreAssumption DEF Ids
  <2>3. ShutdownType'
    BY SMTT(60), <1>a, <1>b, <1>c, <2>1 DEF ShutdownType
  <2>4. SocketInv'
    BY SMTT(60), <1>a, <1>b, <1>c, <1>d, <2>1, <2>2 DEF SocketInv, GroupHeld
  <2> QED
    BY <1>1, <1>e, <2>1, <2>3, <2>4 DEF ShutdownInv
<1>3. CASE WaitForThreadpoolIoCallbacks(s)
  <2>1. /\ member[s] # 0 /\ closing' = {s} /\ UNCHANGED <<member, live, fault>>
        /\ \A o \in Ops : o[1] = s /\ op[o] \in {"pending", "routine"} => group[o] = 0
    BY SMTT(60), <1>3 DEF WaitForThreadpoolIoCallbacks
  <2>2. ShutdownType'
    BY SMTT(60), <1>a, <1>c, <2>1 DEF ShutdownType
  <2>3. SocketInv'
    <3>1. \A o \in Ops : op'[o] \in {"pending", "routine"} =>
            \/ group'[o] = 0 /\ o \in raced'
            \/ member'[o[1]] # 0 /\ group'[o] = member'[o[1]] /\ o[1] # s
      <4> SUFFICES ASSUME NEW o \in Ops, op[o] \in {"pending", "routine"}
                   PROVE  \/ group[o] = 0 /\ o \in raced
                          \/ member[o[1]] # 0 /\ group[o] = member[o[1]] /\ o[1] # s
        BY <1>c, <2>1
      <4>1. \/ group[o] = 0 /\ o \in raced
            \/ member[o[1]] # 0 /\ group[o] = member[o[1]]
        BY Zenon, <1>a DEF SocketInv
      <4> QED
        BY ONLY Zenon, o \in Ops, op[o] \in {"pending", "routine"}, <2>1, <4>1
    <3>2. /\ \A x \in Sockets : member'[x] # 0 =>
               /\ core' = "up" /\ pc' = "idle" /\ GroupHeld("io")' /\ GroupHeld("user")'
               /\ member'[x] = handle'["io"]
          /\ live' = {x \in Sockets : member'[x] # 0}
      <4>1. GroupHeld("io")' = GroupHeld("io") /\ GroupHeld("user")' = GroupHeld("user")
        BY Zenon, <1>c DEF GroupHeld
      <4>2. /\ \A x \in Sockets : member[x] # 0 =>
                 /\ core = "up" /\ pc = "idle" /\ GroupHeld("io") /\ GroupHeld("user")
                 /\ member[x] = handle["io"]
            /\ live = {x \in Sockets : member[x] # 0}
        BY Zenon, <1>a DEF SocketInv
      <4> QED
        BY ONLY ZenonT(60), <1>c, <2>1, <4>1, <4>2
    <3>3. \A x \in closing' : member'[x] # 0 /\ closing' = {x}
      BY <2>1
    <3>4. \A o \in Ops : o[1] # s => o[1] \notin closing'
      BY <2>1
    <3> QED
      BY ZenonT(60), <3>1, <3>2, <3>3, <3>4 DEF SocketInv
  <2> QED
    BY <1>1, <1>e, <2>1, <2>2, <2>3 DEF ShutdownInv
<1>4. CASE CloseThreadpoolIo(s)
  <2>1. /\ s \in closing /\ closing' = {} /\ member' = [member EXCEPT ![s] = 0]
        /\ live' = live \ {s} /\ fault' = fault \cup ({s} \ live)
    BY SMTT(60), <1>4 DEF CloseThreadpoolIo
  <2>2. s \in live
    BY <1>a, <2>1 DEF SocketInv
  <2>3. fault' = fault
    BY <2>1, <2>2
  <2>4. ShutdownType'
    BY SMTT(60), <1>a, <1>b, <1>c, <2>1, <2>3 DEF ShutdownType
  <2>5. SocketInv'
    <3>1. GroupHeld("io")' = GroupHeld("io") /\ GroupHeld("user")' = GroupHeld("user")
      BY Zenon, <1>c DEF GroupHeld
    <3>2. /\ \A x \in Sockets : member'[x] # 0 =>
               /\ core' = "up" /\ pc' = "idle" /\ GroupHeld("io")' /\ GroupHeld("user")'
               /\ member'[x] = handle'["io"]
          /\ live' = {x \in Sockets : member'[x] # 0}
      BY ONLY SMTT(60), s \in Sockets, <1>a, <1>b, <1>c, <2>1, <3>1 DEF SocketInv
    <3>3. \A o \in Ops : op'[o] \in {"pending", "routine"} =>
            \/ group'[o] = 0 /\ o \in raced'
            \/ member'[o[1]] # 0 /\ group'[o] = member'[o[1]] /\ o[1] \notin closing'
      BY ONLY SMTT(60), s \in Sockets, <1>a, <1>b, <1>c, <1>d, <2>1 DEF SocketInv
    <3> QED
      BY ZenonT(60), <2>1, <3>2, <3>3 DEF SocketInv
  <2> QED
    BY <1>1, <1>e, <2>3, <2>4, <2>5 DEF ShutdownInv
<1> QED
  BY <1>2, <1>3, <1>4

(***************************************************************************)
(* Operations keep the invariant from start_*() to the end of the handler. *)
(***************************************************************************)
LEMMA OpStepInv ==
  ASSUME AllInv, NEW o \in Ops,
         \/ start(o) \/ RoutineStarts(o) \/ post_user_work(o) \/ HandlerStarts(o) \/ HandlerReturns(o)
  PROVE  ShutdownInv'
<1>a. ShutdownType /\ CallbackInv /\ SocketInv /\ OpInv /\ HelperInv /\ QueueInv /\ NoLateUse
  BY DEF AllInv, ShutdownInv
<1>b. \A q \in Ops : q[1] \in Sockets
  BY DEF Ops
<1>c. member \in [Sockets -> Ids \cup {0}] /\ group \in [Ops -> Ids \cup {0}]
      /\ op \in [Ops -> {"none", "pending", "routine", "posted", "handler", "cancelled"}]
  BY <1>a DEF ShutdownType
<1>d. ASSUME UNCHANGED <<core, which, pc, rollback, handle, cleaner, created>> PROVE HelperInv'
  BY SMTT(60), <1>a, <1>d DEF HelperInv, HasPool, PoolHeld, Unset
<1>e. UNCHANGED <<member, live, closing>>
  BY DEF start, RoutineStarts, post_user_work, HandlerStarts, HandlerReturns
<1>1. CASE start(o)
  <2>1. UNCHANGED <<core, pc, which, rollback, handle, groups, cleaner, running, abandoned, created, fault>>
    BY SMTT(60), <1>1 DEF start, vars, memberVars, resourceVars, wsaVars
  <2>2. /\ op[o] = "none" /\ op' = [op EXCEPT ![o] = "pending"] /\ member[o[1]] # 0
        /\ \/ group' = [group EXCEPT ![o] = 0] /\ raced' = raced \cup {o}
           \/ group' = [group EXCEPT ![o] = member[o[1]]] /\ raced' = raced /\ o[1] \notin closing
    BY Zenon, <1>1 DEF start
  <2>3. ShutdownType' /\ NoLateUse' /\ OpInv'
    <3>1. ShutdownType'
      BY SMTT(60), <1>a, <1>b, <1>c, <1>e, <2>1, <2>2 DEF ShutdownType
    <3>2. NoLateUse'
      BY SMTT(60), <1>a, <2>1, <2>2 DEF NoLateUse
    <3>3. core = "up"
      BY SMTT(60), <1>a, <1>b, <2>2 DEF SocketInv
    <3>4. OpInv'
      BY SMTT(60), <1>a, <1>c, <2>1, <2>2, <3>3 DEF OpInv
    <3> QED
      BY <3>1, <3>2, <3>4
  <2>4. CallbackInv'
    <3>1. \A q \in Ops : op[q] \in InCallback \/ op'[q] \in InCallback => op'[q] = op[q] /\ group'[q] = group[q]
      BY SMTT(60), <1>c, <2>2 DEF InCallback
    <3> QED
      BY SMTT(60), <1>a, <2>1, <3>1 DEF CallbackInv
  <2>5. SocketInv'
    BY SMTT(60), <1>a, <1>b, <1>c, <1>e, <2>1, <2>2 DEF SocketInv, GroupHeld
  <2>6. QueueInv'
    BY SMTT(60), <1>a, <1>c, <2>1, <2>2 DEF QueueInv
  <2> QED
    BY SMTT(60), <1>d, <2>1, <2>3, <2>4, <2>5, <2>6 DEF ShutdownInv
<1>2. CASE RoutineStarts(o)
  <2>1. /\ op[o] = "pending" /\ Enters(o, "routine") /\ UNCHANGED <<group, raced, fault>>
        /\ op' = [op EXCEPT ![o] = "routine"]
    BY ZenonT(60), <1>2 DEF RoutineStarts, Enters
  <2>2. /\ CallbackInv'
        /\ UNCHANGED <<core, pc, which, rollback, handle, groups, cleaner, abandoned, created>>
    BY <1>a, <2>1, EntersInv DEF InCallback
  <2>3. ShutdownType' /\ NoLateUse'
    BY SMTT(60), <1>a, <1>e, <2>1 DEF ShutdownType, NoLateUse
  <2>4. SocketInv' /\ OpInv'
    BY SMTT(60), <1>a, <1>b, <1>c, <1>e, <2>1, <2>2 DEF SocketInv, OpInv, GroupHeld
  <2>5. QueueInv'
    BY SMTT(60), <1>a, <1>c, <2>1, <2>2 DEF QueueInv
  <2> QED
    BY SMTT(60), <1>d, <2>2, <2>3, <2>4, <2>5 DEF ShutdownInv
<1>3. CASE post_user_work(o)
  <2>1. op[o] = "routine" /\ Leaves(o) /\ o[1] \in Sockets /\ o \notin fault /\ core \in {"up", "released"}
    BY SMTT(60), <1>3, <1>a, <1>b DEF post_user_work, OpInv
  <2>2. o \in raced \/ (GroupHeld("user") /\ cleaner[handle["user"]] = "none")
    <3>1. o \in raced \/ member[o[1]] # 0
      BY <1>a, <2>1 DEF SocketInv
    <3> QED
      BY <2>1, <3>1, OpenSocket
  <2>3. GroupHeld("user") => handle["user"] \in groups /\ handle["user"] \in Ids
    <3>1. GroupHeld("user") => HasGroup("user")
      BY <2>1 DEF HasGroup, Unset
    <3> QED
      BY SMTT(60), <2>1, <3>1 DEF AllInv, IInv, OwnInv, TypeOK, Pools
  <2>4. \/ /\ op' = [op EXCEPT ![o] = "posted"] /\ group' = [group EXCEPT ![o] = handle["user"]]
           /\ GroupHeld("user") /\ cleaner[handle["user"]] = "none" /\ UNCHANGED <<raced, fault>>
        \/ /\ op' = [op EXCEPT ![o] = "cancelled"] /\ group' = [group EXCEPT ![o] = 0]
           /\ o \in raced /\ raced' = raced /\ fault' = fault \cup {o}
        \/ /\ op' = [op EXCEPT ![o] = "none"] /\ group' = [group EXCEPT ![o] = 0]
           /\ raced' = raced \ {o} /\ fault' = fault
    BY ZenonT(60), <1>3, <2>2 DEF post_user_work
  <2>5. /\ CallbackInv'
        /\ UNCHANGED <<core, pc, which, rollback, handle, groups, cleaner, abandoned, created>>
    BY ZenonT(60), <1>a, <2>1, <2>4, LeavesInv DEF InCallback
  <2>6. ShutdownType' /\ NoLateUse'
    BY SMTT(60), <1>a, <1>c, <1>e, <2>1, <2>3, <2>4 DEF ShutdownType, NoLateUse
  <2>7. SocketInv'
    BY SMTT(60), <1>a, <1>b, <1>c, <1>e, <2>4, <2>5 DEF SocketInv, GroupHeld
  <2>8. OpInv'
    BY SMTT(60), <1>a, <1>c, <2>1, <2>4, <2>5 DEF OpInv
  <2>9. QueueInv'
    BY SMTT(60), <1>a, <1>c, <2>3, <2>4, <2>5 DEF QueueInv
  <2> QED
    BY SMTT(60), <1>d, <2>5, <2>6, <2>7, <2>8, <2>9 DEF ShutdownInv
<1>4. CASE HandlerStarts(o)
  <2>1. /\ op[o] = "posted" /\ Enters(o, "handler") /\ UNCHANGED <<group, raced, fault>>
        /\ op' = [op EXCEPT ![o] = "handler"]
    BY ZenonT(60), <1>4 DEF HandlerStarts, Enters
  <2>2. /\ CallbackInv'
        /\ UNCHANGED <<core, pc, which, rollback, handle, groups, cleaner, abandoned, created>>
    BY <1>a, <2>1, EntersInv DEF InCallback
  <2>3. ShutdownType' /\ NoLateUse'
    BY SMTT(60), <1>a, <1>e, <2>1 DEF ShutdownType, NoLateUse
  <2>4. SocketInv' /\ OpInv'
    BY SMTT(60), <1>a, <1>b, <1>c, <1>e, <2>1, <2>2 DEF SocketInv, OpInv, GroupHeld
  <2>5. QueueInv'
    <3>1. groups \cup abandoned \subseteq Ids /\ 0 \notin Ids
      BY IOCoreAssumption DEF AllInv, IInv, TypeOK, Ids
    <3> QED
      BY SMTT(60), <1>a, <1>c, <2>1, <2>2, <3>1 DEF QueueInv
  <2> QED
    BY <1>d, <2>2, <2>3, <2>4, <2>5 DEF ShutdownInv
<1>5. CASE HandlerReturns(o)
  <2>1. /\ op[o] = "handler" /\ Leaves(o) /\ fault' = fault /\ raced' = raced \ {o}
        /\ op' = [op EXCEPT ![o] = "none"] /\ group' = [group EXCEPT ![o] = 0]
    BY <1>5 DEF HandlerReturns
  <2>2. /\ CallbackInv'
        /\ UNCHANGED <<core, pc, which, rollback, handle, groups, cleaner, abandoned, created>>
    BY ZenonT(60), <1>a, <2>1, LeavesInv DEF InCallback
  <2>3. ShutdownType'
    BY SMTT(60), <1>a, <1>e, <2>1 DEF ShutdownType
  <2>4. SocketInv' /\ OpInv' /\ NoLateUse'
    BY SMTT(60), <1>a, <1>b, <1>c, <1>e, <2>1, <2>2 DEF SocketInv, OpInv, NoLateUse, GroupHeld
  <2>5. QueueInv'
    BY SMTT(60), <1>a, <1>c, <2>1, <2>2 DEF QueueInv
  <2> QED
    BY <1>d, <2>2, <2>3, <2>4, <2>5 DEF ShutdownInv
<1> QED
  BY <1>1, <1>2, <1>3, <1>4, <1>5

(***************************************************************************)
(* The helper thread keeps the invariant: it cancels what is queued in the *)
(* group, and no open socket has its PTP_IO in it.                         *)
(***************************************************************************)
LEMMA CleanupInv ==
  ASSUME AllInv, NEW n \in Ids, Cleanup(n)
  PROVE  ShutdownInv'
<1>a. ShutdownType /\ CallbackInv /\ SocketInv /\ OpInv /\ HelperInv /\ QueueInv /\ NoLateUse
  BY DEF AllInv, ShutdownInv
<1>b. /\ UNCHANGED <<core, pc, which, rollback, handle, groups, running, abandoned, created, member, closing, group, raced, fault>>
      /\ cleaner[n] = "closing" /\ cleaner' = [cleaner EXCEPT ![n] = "done"]
      /\ live' = {s \in live : member[s] # n}
      /\ op' = [o \in Ops |-> IF group[o] = n /\ op[o] \in {"pending", "posted"} THEN "cancelled" ELSE op[o]]
  BY ZenonT(60) DEF Cleanup, CleanerDone, CloseThreadpoolCleanupGroupMembers, memberVars, resourceVars
<1>c. /\ cleaner \in [Ids -> {"none", "closing", "done"}] /\ groups \cup abandoned \subseteq Ids
      /\ op \in [Ops -> {"none", "pending", "routine", "posted", "handler", "cancelled"}]
  BY SMTT(60), <1>a DEF AllInv, IInv, TypeOK, ShutdownType
<1>1. ShutdownType' /\ NoLateUse'
  BY SMTT(60), <1>a, <1>b, <1>c DEF ShutdownType, NoLateUse
<1>2. CallbackInv'
  <2>1. \A o \in Ops : op[o] \in InCallback \/ op'[o] \in InCallback => op'[o] = op[o]
    BY SMTT(60), <1>b, <1>c DEF InCallback
  <2> QED
    BY SMTT(60), <1>a, <1>b, <2>1 DEF CallbackInv
<1>3. SocketInv'
  <2>1. \A s \in live : member[s] # n
    <3>1. \A s \in live : s \in Sockets /\ member[s] # 0
      BY <1>a DEF SocketInv
    <3>2. \A s \in live : member[s] = handle["io"] /\ cleaner[handle["io"]] = "none"
      BY SMTT(60), <3>1, OpenSocket
    <3> QED
      BY <1>b, <3>2
  <2>2. live' = live
    BY SMTT(60), <1>b, <2>1
  <2>3. \A o \in Ops : op'[o] \in {"pending", "routine"} => op'[o] = op[o]
    BY SMTT(60), <1>b, <1>c
  <2> QED
    BY SMTT(60), <1>a, <1>b, <2>2, <2>3 DEF SocketInv, GroupHeld
<1>4. HelperInv'
  BY SMTT(60), <1>a, <1>b, <1>c DEF HelperInv, HasPool, PoolHeld, Unset
<1>5. QueueInv'
  BY <1>a, <1>b, <1>c DEF QueueInv
<1>6. OpInv'
  BY SMTT(60), <1>a, <1>b, <1>c DEF OpInv
<1> QED
  BY <1>1, <1>2, <1>3, <1>4, <1>5, <1>6 DEF ShutdownInv

--------------------------------------------------------------------------------
(* The theorems *)

(***************************************************************************)
(* The invariants hold before create() is called.                          *)
(***************************************************************************)
LEMMA InitAll == ShutdownInit => AllInv
<1> SUFFICES ASSUME ShutdownInit PROVE AllInv
    OBVIOUS
<1>1. IInv /\ DrainInv
  BY InitIInv, InitDrain DEF ShutdownInit
<1>2. ShutdownType /\ NoLateUse
  BY ZenonT(60) DEF ShutdownInit, ShutdownType, NoLateUse
<1>3. \A o \in Ops : op[o] = "none"
  BY SMTT(60) DEF ShutdownInit
<1>4. CallbackInv
  BY <1>3 DEF ShutdownInit, Init, CallbackInv, InCallback
<1>5. SocketInv /\ OpInv
  BY <1>3 DEF ShutdownInit, SocketInv, OpInv
<1>6. QueueInv
  BY <1>3 DEF QueueInv
<1>7. HelperInv
  BY DEF ShutdownInit, Init, HelperInv, HasPool, Unset, Pools
<1> QED
  BY <1>1, <1>2, <1>4, <1>5, <1>6, <1>7 DEF AllInv, ShutdownInv

(***************************************************************************)
(* Every step keeps the three invariants.                                  *)
(***************************************************************************)
LEMMA StepAll == AllInv /\ [ShutdownNext]_allVars => AllInv'
<1> SUFFICES ASSUME AllInv, [ShutdownNext]_allVars PROVE AllInv'
    OBVIOUS
<1>1. IInv' /\ DrainInv'
  BY StepIsCore, StepIInv, StepDrain DEF AllInv
<1>2. ShutdownInv'
  <2>1. CASE ShutdownNext
    BY <2>1, SocketStepInv, OpStepInv, CleanupInv, CoreStepInv DEF ShutdownNext
  <2>2. CASE UNCHANGED allVars
    <3>1. UNCHANGED vars /\ UNCHANGED socketVars
      BY <2>2 DEF allVars
    <3>2. UNCHANGED <<member, live, closing, op, group, raced, fault, core, pc, which, rollback, handle, pools, groups, cleaner,
                      running, abandoned, created>>
      BY SMTT(60), <3>1 DEF vars, socketVars, memberVars, resourceVars, wsaVars
    <3>3. ShutdownType' /\ NoLateUse' /\ CallbackInv'
      BY SMTT(60), <3>2 DEF AllInv, ShutdownInv, ShutdownType, NoLateUse, CallbackInv
    <3>4. SocketInv' /\ OpInv' /\ QueueInv'
      BY SMTT(60), <3>2 DEF AllInv, ShutdownInv, SocketInv, OpInv, QueueInv, GroupHeld
    <3>5. HelperInv'
      BY <3>2 DEF AllInv, ShutdownInv, HelperInv, HasPool, PoolHeld, GroupHeld, Unset
    <3> QED
      BY <3>3, <3>4, <3>5 DEF ShutdownInv
  <2> QED
    BY <2>1, <2>2
<1> QED
  BY <1>1, <1>2 DEF AllInv

(***************************************************************************)
(* The three invariants hold in every reachable state.                     *)
(***************************************************************************)
LEMMA AllInvariance == ShutdownSpec => []AllInv
<1>1. AllInv /\ [ShutdownNext]_allVars => AllInv'
  BY StepAll
<1> QED
  BY <1>1, InitAll, PTL DEF ShutdownSpec

(***************************************************************************)
(* If the sockets are closed before release(), no IO routine posts to a    *)
(* user pool that is being torn down, and no PTP_IO is closed twice, for   *)
(* any number of sockets and operations; operations started after close()  *)
(* has waited are the exception.                                           *)
(***************************************************************************)
THEOREM NoLateUseTheorem == ShutdownSpec => []NoLateUse
<1>1. AllInv => NoLateUse
  BY DEF AllInv, ShutdownInv
<1> QED
  BY <1>1, AllInvariance, PTL

(***************************************************************************)
(* When release() has returned Success no PTP_IO is open and no routine or *)
(* handler is queued or running, except in a group it gave up waiting for  *)
(* or had lost to a further initialize(), and for an operation started     *)
(* after its socket's close() had waited.                                  *)
(***************************************************************************)
THEOREM QuietTheorem == ShutdownSpec => []QuietAfterRelease
<1>1. AllInv => QuietAfterRelease
  <2> SUFFICES ASSUME AllInv, core = "released", pc = "idle"
               PROVE  /\ live = {}
                      /\ \A o \in Ops : \/ op[o] \in {"none", "cancelled"}
                                        \/ op[o] \in {"posted", "handler"} /\ group[o] \in abandoned \cup leaked
                                        \/ op[o] \in {"pending", "routine"} /\ o \in raced
    BY DEF QuietAfterRelease
  <2>1. \A s \in Sockets : member[s] = 0
    BY DEF AllInv, ShutdownInv, SocketInv
  <2>2. live = {}
    BY <2>1 DEF AllInv, ShutdownInv, SocketInv
  <2>3. groups \subseteq leaked
    <3>1. ~HasGroup("io") /\ ~HasGroup("user")
      BY DEF AllInv, IInv, PcInv, HasPool, HasGroup, PoolHeld, GroupHeld
    <3> QED
      BY SMTT(60), <3>1 DEF AllInv, IInv, OwnInv, Pools
  <2>4. running \subseteq abandoned \cup leaked
    BY <2>3 DEF AllInv, DrainInv
  <2>5. ASSUME NEW o \in Ops
        PROVE  \/ op[o] \in {"none", "cancelled"}
               \/ op[o] \in {"posted", "handler"} /\ group[o] \in abandoned \cup leaked
               \/ op[o] \in {"pending", "routine"} /\ o \in raced
    <3>1. op[o] \in {"pending", "routine"} => o \in raced
      BY <2>1 DEF AllInv, ShutdownInv, SocketInv, Ops
    <3>2. op[o] = "posted" => group[o] \in abandoned \cup leaked
      BY <2>3 DEF AllInv, ShutdownInv, QueueInv
    <3>3. op[o] = "handler" => group[o] \in abandoned \cup leaked
      BY <2>4 DEF AllInv, ShutdownInv, QueueInv, CallbackInv, InCallback
    <3>4. op[o] \in {"none", "pending", "routine", "posted", "handler", "cancelled"}
      BY DEF AllInv, ShutdownInv, ShutdownType
    <3> QED
      BY <3>1, <3>2, <3>3, <3>4
  <2> QED
    BY <2>2, <2>5
<1> QED
  BY <1>1, AllInvariance, PTL

(***************************************************************************)
(* The helper threads of release() find no IO to cancel, however many      *)
(* sockets were closed before it and whatever was started meanwhile, so    *)
(* release() loses no io data.                                             *)
(***************************************************************************)
THEOREM NoIoCancelledTheorem == ShutdownSpec => NoIoCancelled
<1> DEFINE Kept == \A o \in Ops : op[o] = "pending" => op'[o] # "cancelled"
<1>1. ASSUME AllInv, [ShutdownNext]_allVars PROVE [Kept]_allVars
  <2> SUFFICES ASSUME NEW o \in Ops, op[o] = "pending" PROVE op'[o] # "cancelled"
      OBVIOUS
  <2>a. op \in [Ops -> {"none", "pending", "routine", "posted", "handler", "cancelled"}]
    BY <1>1 DEF AllInv, ShutdownInv, ShutdownType
  <2>1. ASSUME NEW s \in Sockets, socket(s) \/ WaitForThreadpoolIoCallbacks(s) \/ CloseThreadpoolIo(s)
        PROVE  op' = op
    BY <2>1 DEF socket, WaitForThreadpoolIoCallbacks, CloseThreadpoolIo
  <2>2. ASSUME NEW q \in Ops,
               start(q) \/ RoutineStarts(q) \/ post_user_work(q) \/ HandlerStarts(q) \/ HandlerReturns(q)
        PROVE  op'[o] # "cancelled"
    <3>1. PICK x : op' = [op EXCEPT ![q] = x] /\ (x = "cancelled" => op[q] = "routine")
      BY SMTT(60), <2>2 DEF start, RoutineStarts, post_user_work, HandlerStarts, HandlerReturns, Enters
    <3> QED
      BY SMTT(60), <2>a, <3>1
  <2>3. ASSUME NEW n \in Ids, Cleanup(n) PROVE op'[o] = op[o]
    <3>1. /\ cleaner[n] = "closing"
          /\ op' = [q \in Ops |-> IF group[q] = n /\ op[q] \in {"pending", "posted"} THEN "cancelled" ELSE op[q]]
      BY ZenonT(60), <2>3 DEF Cleanup, CleanerDone, CloseThreadpoolCleanupGroupMembers
    <3>2. o[1] \in Sockets /\ 0 \notin Ids
      BY IOCoreAssumption DEF Ops, Ids
    <3>3. group[o] = 0 \/ (member[o[1]] # 0 /\ group[o] = member[o[1]])
      BY <1>1 DEF AllInv, ShutdownInv, SocketInv
    <3>4. group[o] = 0 \/ cleaner[group[o]] = "none"
      BY <1>1, <3>2, <3>3, OpenSocket
    <3>5. group[o] # n
      BY <3>1, <3>2, <3>4
    <3> QED
      BY SMTT(60), <3>1, <3>5
  <2>4. CASE InitializeAfterClose \/ ReleaseAfterClose \/ CoreStep
    BY <2>4 DEF InitializeAfterClose, ReleaseAfterClose, CoreStep, socketVars
  <2>5. CASE UNCHANGED allVars
    BY <2>5 DEF allVars, socketVars
  <2> QED
    BY <1>1, <2>1, <2>2, <2>3, <2>4, <2>5 DEF ShutdownNext
<1>2. ShutdownSpec => [][Kept]_allVars
  BY <1>1, AllInvariance, PTL DEF ShutdownSpec
<1> QED
  BY <1>2 DEF NoIoCancelled
================================================================================
