-------------------------------- MODULE Shutdown --------------------------------
(***************************************************************************)
(* Sockets with outstanding operations on a core that is being released.   *)
(* A completed operation travels through both thread pools: its IO routine *)
(* runs in the IO pool and posts the handler to the user pool, and         *)
(* release() tears the user pool down first.  IOCore gives the pools and   *)
(* the steps of initialize() and release(); here its callbacks are the     *)
(* routines and handlers of operations, and its cleanup groups have        *)
(* members: PTP_IOs, and closures posted by post_user_work().              *)
(*                                                                         *)
(* The program closes its sockets before it calls release(), on the thread *)
(* that does both, and opens none before the last initialize().  Handlers, *)
(* and other threads, start operations on an open socket at any time: also *)
(* while close() is between its wait and CloseThreadpoolIo.  What start_*()*)
(* does to a closed socket is in AsyncSocket; it ends the program.         *)
(***************************************************************************)
EXTENDS IOCore

CONSTANTS
  Sockets,
  OpsPerSocket   \* bound: operations outstanding on a socket

Ops == Sockets \X (1 .. OpsPerSocket)

VARIABLES
  member,   \* socket_io_handle_: the cleanup group its PTP_IO is in, or 0
  live,     \* sockets whose PTP_IO has not been closed
  closing,  \* the socket whose close() is past its wait, if any
  op,       \* "none" | "pending" | "routine" | "posted" | "handler" | "cancelled"
  group,    \* the cleanup group of an operation's PTP_IO, then of its closure; 0 for none
  raced,    \* operations started after the wait of their socket's close(), until they end; history
  fault     \* what used a pool, a group or a PTP_IO after it was closed; history

socketVars == <<member, live, closing, op, group, raced, fault>>
allVars == <<vars, socketVars>>

ShutdownType ==
  /\ member \in [Sockets -> Ids \cup {0}]
  /\ live \subseteq Sockets
  /\ closing \subseteq Sockets
  /\ op \in [Ops -> {"none", "pending", "routine", "posted", "handler", "cancelled"}]
  /\ group \in [Ops -> Ids \cup {0}]
  /\ raced \subseteq Ops
  /\ fault \subseteq Sockets \cup Ops

ShutdownInit ==
  /\ Init
  /\ member = [s \in Sockets |-> 0]
  /\ live = {}
  /\ closing = {}
  /\ op = [o \in Ops |-> "none"]
  /\ group = [o \in Ops |-> 0]
  /\ raced = {}
  /\ fault = {}

--------------------------------------------------------------------------------
(* Callbacks, which IOCore counts by pool *)

InCallback == {"routine", "handler"}

\* A callback of operation o starts: nothing new starts in a group that is being cleaned
\* up, and nobody keeps back the routine of a PTP_IO that is in no group.
Enters(o, stage) ==
  /\ op' = [op EXCEPT ![o] = stage]
  /\ group[o] # 0 => cleaner[group[o]] = "none"
  /\ IF group[o] \in running \cup {0} THEN UNCHANGED vars
     ELSE CallbackStarts(group[o])

\* Operation o leaves its callback.
Leaves(o) ==
  IF group[o] = 0 \/ \E q \in Ops \ {o} : op[q] \in InCallback /\ group[q] = group[o]
  THEN UNCHANGED vars
  ELSE CallbackReturns(group[o])

--------------------------------------------------------------------------------
(* The sockets *)

\* socket() and associate_handle(), on a core whose initialize() succeeded
socket(s) ==
  /\ pc = "idle" /\ core = "up" /\ \A p \in Pools : GroupHeld(p)
  /\ member[s] = 0 /\ closing = {}
  /\ member' = [member EXCEPT ![s] = handle["io"]]
  /\ live' = live \cup {s}
  /\ UNCHANGED <<vars, closing, op, group, raced, fault>>

\* start_*() on an open socket, up to StartThreadpoolIo.  The PTP_IO that close() no longer
\* waits for is taken out of its group by CloseThreadpoolIo, which is all that follows.
start(o) ==
  /\ member[o[1]] # 0
  /\ op[o] = "none"
  /\ op' = [op EXCEPT ![o] = "pending"]
  /\ IF o[1] \in closing
     THEN raced' = raced \cup {o} /\ group' = [group EXCEPT ![o] = 0]
     ELSE raced' = raced /\ group' = [group EXCEPT ![o] = member[o[1]]]
  /\ UNCHANGED <<vars, member, live, closing, fault>>

RoutineStarts(o) ==
  /\ op[o] = "pending"
  /\ Enters(o, "routine")
  /\ UNCHANGED <<member, live, closing, group, raced, fault>>

\* The end of the routine.  Without a handler, or when the work cannot be posted and the
\* routine has called the handler itself, the operation ends here.  A closure posted to a
\* user pool that is being torn down is not followed any further.
post_user_work(o) ==
  /\ op[o] = "routine"
  /\ \/ /\ GroupHeld("user") /\ cleaner[handle["user"]] = "none"
        /\ op' = [op EXCEPT ![o] = "posted"]
        /\ group' = [group EXCEPT ![o] = handle["user"]]
        /\ UNCHANGED <<raced, fault>>
     \/ /\ ~(GroupHeld("user") /\ cleaner[handle["user"]] = "none")
        /\ op' = [op EXCEPT ![o] = "cancelled"]
        /\ group' = [group EXCEPT ![o] = 0]
        /\ fault' = fault \cup {o}
        /\ UNCHANGED raced
     \/ /\ op' = [op EXCEPT ![o] = "none"]
        /\ group' = [group EXCEPT ![o] = 0]
        /\ raced' = raced \ {o}
        /\ UNCHANGED fault
  /\ Leaves(o)
  /\ UNCHANGED <<member, live, closing>>

HandlerStarts(o) ==
  /\ op[o] = "posted"
  /\ Enters(o, "handler")
  /\ UNCHANGED <<member, live, closing, group, raced, fault>>

HandlerReturns(o) ==
  /\ op[o] = "handler"
  /\ op' = [op EXCEPT ![o] = "none"]
  /\ group' = [group EXCEPT ![o] = 0]
  /\ raced' = raced \ {o}
  /\ Leaves(o)
  /\ UNCHANGED <<member, live, closing, fault>>

\* close() does not wait.
WaitForThreadpoolIoCallbacks_Skipped(s) ==
  /\ pc = "idle" /\ member[s] # 0 /\ closing = {}
  /\ closing' = {s}
  /\ UNCHANGED <<vars, member, live, op, group, raced, fault>>

\* close() waits for the IO callbacks of the socket's PTP_IO, not for its handlers.
WaitForThreadpoolIoCallbacks(s) ==
  /\ pc = "idle" /\ member[s] # 0 /\ closing = {}
  /\ \A o \in Ops : o[1] = s /\ op[o] \in {"pending", "routine"} => group[o] = 0
  /\ closing' = {s}
  /\ UNCHANGED <<vars, member, live, op, group, raced, fault>>

\* The rest of close()
CloseThreadpoolIo(s) ==
  /\ s \in closing
  /\ closing' = {}
  /\ member' = [member EXCEPT ![s] = 0]
  /\ live' = live \ {s}
  /\ fault' = fault \cup ({s} \ live)
  /\ UNCHANGED <<vars, op, group, raced>>

--------------------------------------------------------------------------------
(* The core *)

\* The closures are no members of the group.
CloseThreadpoolCleanupGroupMembers_IoOnly(n) ==
  /\ live' = {s \in live : member[s] # n}
  /\ op' = [o \in Ops |-> IF group[o] = n /\ op[o] = "pending" THEN "cancelled" ELSE op[o]]
  /\ UNCHANGED <<member, closing, group, raced, fault>>

\* What is done to the members of group n when none of its callbacks runs: PTP_IOs are
\* closed, and what has not started is cancelled.  There is no cancel callback, so the
\* closures and io data of cancelled operations are never deleted.
CloseThreadpoolCleanupGroupMembers(n) ==
  /\ live' = {s \in live : member[s] # n}
  /\ op' = [o \in Ops |-> IF group[o] = n /\ op[o] \in {"pending", "posted"} THEN "cancelled" ELSE op[o]]
  /\ UNCHANGED <<member, closing, group, raced, fault>>

Cleanup(n) == CleanerDone(n) /\ CloseThreadpoolCleanupGroupMembers(n)

ReleaseAfterClose ==
  /\ \A s \in Sockets : member[s] = 0
  /\ release
  /\ UNCHANGED socketVars

\* Programs that initialize a core twice do it before they open a socket.
InitializeAfterClose ==
  /\ \A s \in Sockets : member[s] = 0
  /\ initialize
  /\ UNCHANGED socketVars

CoreStep == (InitializeStep \/ ReleaseStep) /\ UNCHANGED socketVars

ShutdownNext ==
  \/ \E s \in Sockets : socket(s) \/ WaitForThreadpoolIoCallbacks(s) \/ CloseThreadpoolIo(s)
  \/ \E o \in Ops :
       \/ start(o) \/ RoutineStarts(o) \/ post_user_work(o) \/ HandlerStarts(o) \/ HandlerReturns(o)
  \/ \E n \in Ids : Cleanup(n)
  \/ InitializeAfterClose \/ ReleaseAfterClose \/ CoreStep

(***************************************************************************)
(* The pools run what is queued, the helper thread is scheduled, and the   *)
(* user's handlers return.  No IO is assumed to complete.                  *)
(***************************************************************************)
ShutdownFairness ==
  /\ WF_allVars(CoreStep)
  /\ \A n \in Ids : WF_allVars(Cleanup(n))
  /\ \A o \in Ops : WF_allVars(HandlerStarts(o)) /\ WF_allVars(HandlerReturns(o))

ShutdownSpec == ShutdownInit /\ [][ShutdownNext]_allVars /\ ShutdownFairness

--------------------------------------------------------------------------------
(* Properties *)

(***************************************************************************)
(* Closing the sockets before release() is enough: no IO routine posts to a*)
(* user pool that release() has begun to tear down, although that pool goes*)
(* first, and no PTP_IO is closed by both close() and the cleanup group.   *)
(* The exception is an operation started after close() has waited: nothing *)
(* holds its routine back.                                                 *)
(***************************************************************************)
NoLateUse == fault \subseteq raced

(***************************************************************************)
(* When release() has returned Success nothing of the sockets is left      *)
(* behind: no PTP_IO, no operation in flight, no routine, and no handler   *)
(* queued or running, except a handler in a group release() gave up waiting*)
(* for or had lost to a further initialize(), and an operation that was    *)
(* started after its socket's close() had waited.                          *)
(***************************************************************************)
QuietAfterRelease ==
  core = "released" /\ pc = "idle" =>
    /\ live = {}
    /\ \A o \in Ops :
         \/ op[o] \in {"none", "cancelled"}
         \/ op[o] \in {"posted", "handler"} /\ group[o] \in abandoned \cup leaked
         \/ op[o] \in {"pending", "routine"} /\ o \in raced

(***************************************************************************)
(* release() cancels handlers that have not started, and never an IO: what *)
(* would be cancelled in the IO pool, its io data lost, has completed in   *)
(* close() or, started after the wait, is no member of the group.          *)
(***************************************************************************)
NoIoCancelled == [][\A o \in Ops : op[o] = "pending" => op'[o] # "cancelled"]_allVars

(***************************************************************************)
(* A handler posted to the user pool is called or, by release(), cancelled;*)
(* none is forgotten in the queue, except in an abandoned group.           *)
(***************************************************************************)
HandlerOrCancel ==
  \A o \in Ops : op[o] = "posted" ~> op[o] # "posted" \/ group[o] \in abandoned
================================================================================
