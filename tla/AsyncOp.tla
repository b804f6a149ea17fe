-------------------------------- MODULE AsyncOp --------------------------------
(***************************************************************************)
(* What an asynchronous socket operation promises its user, without thread *)
(* pools, completion packets or reference counts: after start_* the        *)
(* operation is pending; its handler is called at most once, on one thread,*)
(* and its resources are given back exactly once, never before the handler *)
(* has returned.  An operation that start_* refuses, or whose handler is   *)
(* missing, is released without a call.                                    *)
(***************************************************************************)
CONSTANT Ops

VARIABLE stage   \* per operation

vars == stage

Stages == {"idle", "pending", "handling", "handled", "over"}

TypeOK == stage \in [Ops -> Stages]

Init == stage = [o \in Ops |-> "idle"]

Move(o, from, to) ==
  /\ stage[o] = from
  /\ stage' = [stage EXCEPT ![o] = to]

Start(o) == Move(o, "idle", "pending")

Call(o) == Move(o, "pending", "handling")

Return(o) == Move(o, "handling", "handled")

Release(o) == Move(o, "handled", "over")

\* Refused by the system, or nobody to tell
Drop(o) == Move(o, "pending", "over")

Next == \E o \in Ops : Start(o) \/ Call(o) \/ Return(o) \/ Release(o) \/ Drop(o)

Spec == Init /\ [][Next]_vars
================================================================================
