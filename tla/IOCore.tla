--------------------------------- MODULE IOCore ---------------------------------
(***************************************************************************)
(* The resources of a WinIOCore: Winsock and, for each of the two thread   *)
(* pools, a TP_POOL and a cleanup group.  initialize() acquires them one by*)
(* one and records in a ThreadpoolRollback level how far it got;  release()*)
(* walks the levels back down.  Draining a cleanup group happens on a      *)
(* helper thread so that release() can give up waiting for it.             *)
(*                                                                         *)
(* The thread that calls initialize() and release(), the helper threads and*)
(* the callbacks in the pools interleave.  The n-th pool created, and its  *)
(* cleanup group, are both called n.                                       *)
(***************************************************************************)
EXTENDS Naturals, FiniteSets

CONSTANTS
  MaxInits,   \* bound on calls of initialize(), the one in IOCore::create included
  Env         \* what the program and the system may do

(***************************************************************************)
(* reinit   initialize() is called on a core that has not been released    *)
(* fails    a call that acquires a resource, or WSACleanup, may fail       *)
(* gives_up CreateThread or WaitForSingleObject may fail, or time out      *)
(***************************************************************************)
EnvOptions == {"reinit", "fails", "gives_up"}

ASSUME IOCoreAssumption == MaxInits \in Nat \ {0} /\ Env \subseteq EnvOptions

VARIABLES
  core,      \* the object of create(): "none" yet, "up", "released", or "gone"
  pc,        \* where the thread inside initialize() or release() is
  which,     \* "io" | "user": the pool it works on
  result,    \* of the last call: "none" | "Success" | "error"
  rollback,  \* io_rollback_, user_rollback_
  handle,    \* io_threadpool_, user_threadpool_ and the group of the same number
  pools,     \* TP_POOLs not closed
  groups,    \* cleanup groups not closed
  wsa,       \* WSAStartup calls not balanced by WSACleanup
  cleaner,   \* helper thread per group: "none" | "closing" | "done"
  running,   \* pools with a callback running
  abandoned, \* groups release() gave up waiting for; history
  leaked,    \* pools whose handle initialize() has overwritten; history
  startups,  \* WSAStartup calls already unbalanced at the latest one; history
  created,   \* pools created so far
  inits      \* calls of initialize() so far

resourceVars == <<pools, groups, leaked, created>>
memberVars == <<rollback, handle>>
wsaVars == <<wsa, startups>>
vars == <<core, pc, which, result, memberVars, resourceVars, wsaVars, cleaner, running, abandoned, inits>>

Pools == {"io", "user"}
Ids == 1 .. 2 * MaxInits
Levels == {"None", "InitEnviron", "CreateThreadpool", "CreateCleanupGroup"}
InInitialize == {"functions", "threadpool", "group"}
InRelease == {"switch", "wait", "close_group", "close_pool", "next", "wsa_cleanup"}

TypeOK ==
  /\ core \in {"none", "up", "released", "gone"}
  /\ pc \in {"idle"} \cup InInitialize \cup InRelease
  /\ which \in Pools
  /\ result \in {"none", "Success", "error"}
  /\ rollback \in [Pools -> Levels]
  /\ handle \in [Pools -> Ids \cup {0}]
  /\ pools \subseteq Ids
  /\ groups \subseteq Ids
  /\ leaked \subseteq Ids
  /\ wsa \in 0 .. MaxInits
  /\ startups \in 0 .. MaxInits
  /\ cleaner \in [Ids -> {"none", "closing", "done"}]
  /\ running \subseteq Ids
  /\ abandoned \subseteq Ids
  /\ created \in 0 .. 2 * MaxInits
  /\ inits \in 0 .. MaxInits

\* The constructor leaves the levels uninitialized, but create() discards an object
\* whose initialize() did not set them.
Init ==
  /\ core = "none"
  /\ pc = "idle"
  /\ which = "io"
  /\ result = "none"
  /\ rollback \in [Pools -> Levels]
  /\ handle = [p \in Pools |-> 0]
  /\ pools = {}
  /\ groups = {}
  /\ leaked = {}
  /\ wsa = 0
  /\ startups = 0
  /\ cleaner = [n \in Ids |-> "none"]
  /\ running = {}
  /\ abandoned = {}
  /\ created = 0
  /\ inits = 0

--------------------------------------------------------------------------------
(* initialize() *)

\* initialize() returns e; when create() made the call an error destroys the object,
\* and ~WinIOCore releases nothing.
Return(e) ==
  /\ pc' = "idle"
  /\ result' = e
  /\ core' = IF core = "none" /\ e = "error" THEN "gone" ELSE "up"

Fail == "fails" \in Env /\ Return("error")

\* WSAStartup and the version check; from create(), after release(), or once more
initialize ==
  /\ pc = "idle" /\ inits < MaxInits
  /\ core \in {"none", "released"} \/ (core = "up" /\ "reinit" \in Env)
  /\ inits' = inits + 1
  /\ \/ wsa' = wsa + 1 /\ startups' = wsa /\ pc' = "functions" /\ UNCHANGED <<core, result>>
     \/ UNCHANGED wsaVars /\ Fail
     \/ wsa' = wsa + 1 /\ startups' = wsa /\ Fail          \* wVersion differs
  /\ UNCHANGED <<which, memberVars, resourceVars, cleaner, running, abandoned>>

get_extended_socket_functions ==
  /\ pc = "functions"
  /\ \/ pc' = "threadpool" /\ which' = "io" /\ UNCHANGED <<core, result>>
     \/ Fail /\ UNCHANGED which
  /\ UNCHANGED <<memberVars, resourceVars, wsaVars, cleaner, running, abandoned, inits>>

\* InitializeThreadpoolEnvironment and CreateThreadpool, whose result overwrites the handle
CreateThreadpool ==
  /\ pc = "threadpool"
  /\ \/ /\ created' = created + 1
        /\ pools' = pools \cup {created + 1}
        /\ handle' = [handle EXCEPT ![which] = created + 1]
        /\ rollback' = [rollback EXCEPT ![which] = "CreateThreadpool"]
        /\ pc' = "group"
        /\ UNCHANGED <<core, result>>
     \/ /\ Fail
        /\ rollback' = [rollback EXCEPT ![which] = "InitEnviron"]
        /\ handle' = [handle EXCEPT ![which] = 0]
        /\ UNCHANGED <<created, pools>>
  /\ leaked' = leaked \cup (pools \cap {handle[which]})
  /\ UNCHANGED <<which, groups, wsaVars, cleaner, running, abandoned, inits>>

\* SetThreadpoolThreadMinimum and CreateThreadpoolCleanupGroup; then the other pool
CreateCleanupGroup ==
  /\ pc = "group"
  /\ \/ /\ groups' = groups \cup {handle[which]}
        /\ rollback' = [rollback EXCEPT ![which] = "CreateCleanupGroup"]
        /\ which' = "user"
        /\ IF which = "io" THEN pc' = "threadpool" /\ UNCHANGED <<core, result>>
                           ELSE Return("Success")
     \/ Fail /\ UNCHANGED <<groups, rollback, which>>
  /\ UNCHANGED <<handle, pools, leaked, created, wsaVars, cleaner, running, abandoned, inits>>

--------------------------------------------------------------------------------
(* Callbacks in the pools *)

\* A callback posted with post_io_work or post_user_work, or an IO completion, runs; once
\* its group is being cleaned up, queued callbacks are cancelled.  A pool that release()
\* does not know of, or whose callbacks it gave up cancelling, still runs them.
CallbackStarts(n) ==
  /\ \/ core = "up" /\ n \in groups \cup abandoned
     \/ core = "released" /\ n \in (groups \cap leaked) \cup abandoned
  /\ cleaner[n] = "none"
  /\ n \notin running
  /\ running' = running \cup {n}
  /\ UNCHANGED <<core, pc, which, result, memberVars, resourceVars, wsaVars, cleaner, abandoned, inits>>

CallbackReturns(n) ==
  /\ n \in running
  /\ running' = running \ {n}
  /\ UNCHANGED <<core, pc, which, result, memberVars, resourceVars, wsaVars, cleaner, abandoned, inits>>

\* The helper thread: CloseThreadpoolCleanupGroupMembers waits for running callbacks.
CleanerDone(n) ==
  /\ cleaner[n] = "closing"
  /\ n \notin running
  /\ cleaner' = [cleaner EXCEPT ![n] = "done"]
  /\ UNCHANGED <<core, pc, which, result, memberVars, resourceVars, wsaVars, running, abandoned, inits>>

--------------------------------------------------------------------------------
(* release() *)

\* The program releases a core once, and again only after an error.
release ==
  /\ pc = "idle" /\ core = "up"
  /\ pc' = "switch"
  /\ which' = "user"
  /\ result' = "Success"
  /\ UNCHANGED <<core, memberVars, resourceVars, wsaVars, cleaner, running, abandoned, inits>>

\* switch (*rollback), and CreateThread for the helper
Switch ==
  /\ pc = "switch"
  /\ \/ /\ rollback[which] = "CreateCleanupGroup"
        /\ cleaner' = [cleaner EXCEPT ![handle[which]] = "closing"]
        /\ pc' = "wait"
        /\ UNCHANGED <<result, abandoned>>
     \/ /\ rollback[which] = "CreateCleanupGroup" /\ "gives_up" \in Env
        /\ pc' = "close_group"
        /\ result' = "error"
        /\ abandoned' = abandoned \cup {handle[which]}
        /\ UNCHANGED cleaner
     \/ /\ rollback[which] \in {"CreateThreadpool", "InitEnviron"}
        /\ pc' = "close_pool"
        /\ UNCHANGED <<cleaner, result, abandoned>>
     \/ /\ rollback[which] = "None"
        /\ pc' = "next"
        /\ UNCHANGED <<cleaner, result, abandoned>>
  /\ UNCHANGED <<core, which, memberVars, resourceVars, wsaVars, running, inits>>

\* WaitForSingleObject without a timeout
Wait_Infinite ==
  /\ pc = "wait"
  /\ cleaner[handle[which]] = "done"
  /\ pc' = "close_group"
  /\ UNCHANGED <<core, which, result, memberVars, resourceVars, wsaVars, cleaner, running, abandoned, inits>>

\* WaitForSingleObject with a timeout of 0
Wait_Polls ==
  /\ pc = "wait"
  /\ pc' = "close_group"
  /\ UNCHANGED <<core, which, result, memberVars, resourceVars, wsaVars, cleaner, running, abandoned, inits>>

\* WaitForSingleObject(cleanup_thread, timeout): a timeout counts as success
Wait ==
  /\ pc = "wait"
  /\ \/ cleaner[handle[which]] = "done" /\ UNCHANGED <<result, abandoned>>
     \/ /\ "gives_up" \in Env
        /\ result' \in {result, "error"}
        /\ abandoned' = abandoned \cup {handle[which]}
  /\ pc' = "close_group"
  /\ UNCHANGED <<core, which, memberVars, resourceVars, wsaVars, cleaner, running, inits>>

\* Without the fallthrough to the pool
CloseThreadpoolCleanupGroup_Breaks ==
  /\ pc = "close_group"
  /\ groups' = groups \ {handle[which]}
  /\ rollback' = [rollback EXCEPT ![which] = "None"]
  /\ pc' = "next"
  /\ UNCHANGED <<core, which, result, handle, pools, leaked, created, wsaVars, cleaner, running, abandoned, inits>>

CloseThreadpoolCleanupGroup ==
  /\ pc = "close_group"
  /\ groups' = groups \ {handle[which]}
  /\ rollback' = [rollback EXCEPT ![which] = "CreateThreadpool"]
  /\ pc' = "close_pool"
  /\ UNCHANGED <<core, which, result, handle, pools, leaked, created, wsaVars, cleaner, running, abandoned, inits>>

\* Without the last *rollback = None
CloseThreadpool_KeepsLevel ==
  /\ pc = "close_pool"
  /\ pools' = IF rollback[which] = "CreateThreadpool" THEN pools \ {handle[which]} ELSE pools
  /\ pc' = "next"
  /\ UNCHANGED <<core, which, result, memberVars, groups, leaked, created, wsaVars, cleaner, running, abandoned, inits>>

\* CloseThreadpool, if there is one, and DestroyThreadpoolEnvironment
CloseThreadpool ==
  /\ pc = "close_pool"
  /\ pools' = IF rollback[which] = "CreateThreadpool" THEN pools \ {handle[which]} ELSE pools
  /\ rollback' = [rollback EXCEPT ![which] = "None"]
  /\ pc' = "next"
  /\ UNCHANGED <<core, which, result, handle, groups, leaked, created, wsaVars, cleaner, running, abandoned, inits>>

\* if (result != Success) return result; then the IO pool, then Winsock
NextPool ==
  /\ pc = "next"
  /\ IF result = "error" THEN pc' = "idle" /\ UNCHANGED which
     ELSE /\ IF which = "user" THEN pc' = "switch" ELSE pc' = "wsa_cleanup"
          /\ which' = "io"
  /\ UNCHANGED <<core, result, memberVars, resourceVars, wsaVars, cleaner, running, abandoned, inits>>

\* Without a WSAStartup to undo it fails.
WSACleanup ==
  /\ pc = "wsa_cleanup"
  /\ pc' = "idle"
  /\ \/ wsa > 0 /\ wsa' = wsa - 1 /\ core' = "released" /\ UNCHANGED result
     \/ (wsa = 0 \/ "fails" \in Env) /\ result' = "error" /\ UNCHANGED <<wsa, core>>
  /\ UNCHANGED <<which, memberVars, resourceVars, startups, cleaner, running, abandoned, inits>>

--------------------------------------------------------------------------------
InitializeStep == get_extended_socket_functions \/ CreateThreadpool \/ CreateCleanupGroup

ReleaseStep ==
  \/ Switch \/ Wait \/ CloseThreadpoolCleanupGroup \/ CloseThreadpool \/ NextPool \/ WSACleanup

Next ==
  \/ initialize \/ InitializeStep \/ release \/ ReleaseStep
  \/ \E n \in Ids : CallbackStarts(n) \/ CallbackReturns(n) \/ CleanerDone(n)

Spec == Init /\ [][Next]_vars

(***************************************************************************)
(* The calling thread and the helpers are ordinary threads.  Nothing is    *)
(* assumed of callbacks: the user's may block for ever.                    *)
(***************************************************************************)
Fairness ==
  /\ WF_vars(InitializeStep) /\ WF_vars(ReleaseStep)
  /\ \A n \in Ids : WF_vars(CleanerDone(n))

FairSpec == Spec /\ Fairness

--------------------------------------------------------------------------------
(* Properties *)

PoolHeld(p) == rollback[p] \in {"CreateThreadpool", "CreateCleanupGroup"}

GroupHeld(p) == rollback[p] = "CreateCleanupGroup"

(***************************************************************************)
(* In a core the program can reach, the rollback levels account for exactly*)
(* the pools and groups that exist, at every step of initialize() and      *)
(* release(), failing ones included, except for the pools that an          *)
(* initialize() of a core not released has overwritten, which stay:        *)
(* release() closes nothing twice, overlooks nothing it has a handle of,   *)
(* however often it is retried.                                            *)
(***************************************************************************)
RollbackAccurate ==
  core \in {"up", "released"} =>
    /\ leaked \subseteq pools
    /\ \A n \in Ids :
         /\ n \in pools \ leaked <=> \E p \in Pools : PoolHeld(p) /\ handle[p] = n
         /\ n \in groups \ leaked <=> \E p \in Pools : GroupHeld(p) /\ handle[p] = n

(***************************************************************************)
(* When release() has returned Success, what is left is what a further     *)
(* initialize() took from it: the overwritten pools and their groups, and  *)
(* the WSAStartup calls made before the latest.  Nothing that failed in an *)
(* earlier call adds to it.                                                *)
(***************************************************************************)
ReleaseFreesRest ==
  core = "released" /\ pc = "idle" =>
    pools = leaked /\ groups \subseteq leaked /\ wsa <= startups

(***************************************************************************)
(* When release() has returned Success, no pool, no cleanup group and no   *)
(* WSAStartup is left, whatever failed in earlier calls.                   *)
(***************************************************************************)
ReleaseFreesAll ==
  core = "released" /\ pc = "idle" => pools = {} /\ groups = {} /\ wsa = 0

(***************************************************************************)
(* A cleanup group is closed only after its members: no callback of it runs*)
(* and the helper thread of release_threadpool() is not inside             *)
(* CloseThreadpoolCleanupGroupMembers, unless release() could not wait for *)
(* the helper or its timeout passed.                                       *)
(***************************************************************************)
GroupClosedIdle ==
  \A n \in 1 .. created :
    n \notin groups \cup abandoned => cleaner[n] # "closing" /\ n \notin running

(***************************************************************************)
(* release() returns although a callback in a pool blocks for ever: the    *)
(* point of the helper thread and its timeout.                             *)
(***************************************************************************)
ReleaseReturns == pc \in InRelease ~> pc = "idle"

--------------------------------------------------------------------------------
(* The inductive invariant *)

\* Inside create(), the level of a pool that initialize() has not come to
Unset(p) ==
  core = "none" /\ ~(p = which /\ pc = "group") /\ ~(p = "io" /\ which = "user")

HasPool(p) == PoolHeld(p) /\ ~Unset(p)

HasGroup(p) == GroupHeld(p) /\ ~Unset(p)

\* What exists is what the levels say, or leaked, and the two pools are different ones.
\* A handle whose level names no pool is stale: the pool it named is closed.
OwnInv ==
  core # "gone" =>
    /\ \A p \in Pools : HasPool(p) <=> handle[p] \in pools
    /\ \A p \in Pools : HasPool(p) => handle[p] \notin leaked
    /\ \A p \in Pools : HasGroup(p) => handle[p] \in groups
    /\ HasPool("io") /\ HasPool("user") => handle["io"] # handle["user"]
    /\ \A n \in pools \ leaked : \E p \in Pools : HasPool(p) /\ handle[p] = n
    /\ \A n \in groups \ leaked : \E p \in Pools : HasGroup(p) /\ handle[p] = n
    /\ \A n \in pools \cup groups : n <= created
    /\ \A p \in Pools : handle[p] <= created
    /\ leaked \subseteq pools

\* Where initialize() and release() are, and what they have got or given back
PcInv ==
  /\ core = "none" /\ pc = "idle" => which = "io" /\ created = 0 /\ inits = 0
  /\ pc \in InInitialize => core # "gone" /\ inits > 0
  /\ pc \in InRelease => core = "up"
  /\ pc = "functions" /\ core = "none" => which = "io"
  /\ pc \in {"threadpool", "group"} /\ which = "user" => HasGroup("io")
  /\ pc = "group" => rollback[which] = "CreateThreadpool"
  /\ pc \in {"wait", "close_group"} => rollback[which] = "CreateCleanupGroup"
  /\ pc = "close_pool" => rollback[which] \in {"CreateThreadpool", "InitEnviron"}
  /\ pc = "next" => rollback[which] = "None"
  /\ pc \in InRelease /\ which = "io" => rollback["user"] = "None"
  /\ pc = "wsa_cleanup" => which = "io" /\ rollback["io"] = "None"
  /\ core = "released" /\ pc \in {"idle", "functions"} => ~HasPool("io") /\ ~HasPool("user")

\* One WSAStartup since the latest that was not undone at most, and at most two pools for
\* every initialize()
CountInv ==
  /\ core \in {"none", "released"} /\ pc = "idle" => wsa <= startups
  /\ core # "gone" => wsa <= startups + 1
  /\ wsa <= inits
  /\ created <= 2 * inits
  /\ pc = "functions" => created + 2 <= 2 * inits
  /\ pc = "threadpool" => created + (IF which = "io" THEN 2 ELSE 1) <= 2 * inits
  /\ pc = "group" /\ which = "io" => created + 1 <= 2 * inits

(***************************************************************************)
(* The strengthening that makes RollbackAccurate and ReleaseFreesRest      *)
(* inductive: the levels and the handles own exactly what exists and is not*)
(* leaked, each statement of initialize() and release() is reached with the*)
(* level it expects, and release() undoes the latest WSAStartup.           *)
(***************************************************************************)
IInv == TypeOK /\ OwnInv /\ PcInv /\ CountInv
================================================================================
