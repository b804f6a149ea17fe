---------------------------- MODULE DeliveryProofs ----------------------------
(***************************************************************************)
(* What AsyncSocket delivers to the user of an operation: one call of the  *)
(* handler, the right error, and the release of the IOData.  For any number*)
(* of sockets, operations, clients and threads.                            *)
(***************************************************************************)
EXTENDS AsyncSocketProofs

USE DEF refVars, handleVars, callVars, heapVars, historyVars, envVars

--------------------------------------------------------------------------------
(* The handler and the error it sees *)

\* Nothing is delivered before anything was started.
LEMMA InitDelivery == Init => DeliveryInv
BY SMT DEF Init, DeliveryInv, DeliveryOf

\* What a step leaves alone when it delivers nothing but operation o
Others(o) ==
  /\ core' = core
  /\ \A q \in Ops \ {o} :
       /\ cb'[q] = cb[q] /\ work'[q] = work[q] /\ calls'[q] = calls[q]
       /\ handler'[q] = handler[q] /\ result'[q] = result[q] /\ update'[q] = update[q]
       /\ error_code'[q] = error_code[q]

\* The delivery of an operation is disturbed only by a step of its own.
LEMMA DeliveryFrame ==
  ASSUME DeliveryInv, NEW o \in Ops, Others(o), DeliveryOf(o)' PROVE DeliveryInv'
<1> SUFFICES ASSUME NEW q \in Ops PROVE DeliveryOf(q)'
  BY DEF DeliveryInv
<1>1. CASE q = o
  BY <1>1
<1>2. CASE q # o
  <2>1. DeliveryOf(q)
    BY SMTT(60) DEF DeliveryInv
  <2>2. /\ core' = core /\ cb'[q] = cb[q] /\ work'[q] = work[q] /\ calls'[q] = calls[q]
        /\ handler'[q] = handler[q] /\ result'[q] = result[q] /\ update'[q] = update[q]
        /\ error_code'[q] = error_code[q]
    BY ZenonT(60), <1>2 DEF Others
  <2> QED
    BY ZenonT(60), <1>2, <2>1, <2>2 DEF DeliveryOf, FirstOf
<1> QED
  BY <1>1, <1>2

\* A step that moves only the callback of o
LEMMA CallbackFrame ==
  ASSUME TypeOK, NEW o \in Ops, NEW x, cb' = [cb EXCEPT ![o] = x],
         UNCHANGED <<work, calls, handler, result, update, error_code, core>>
  PROVE  Others(o) /\ cb'[o] = x
BY SMTT(60) DEF Others, TypeOK

\* A step that moves only the closure of o
LEMMA ClosureFrame ==
  ASSUME TypeOK, NEW o \in Ops, NEW x, work' = [work EXCEPT ![o] = x],
         UNCHANGED <<cb, calls, handler, result, update, error_code, core>>
  PROVE  Others(o) /\ work'[o] = x
BY SMTT(60) DEF Others, TypeOK

\* Every step keeps the number of calls in line with callback and closure.
LEMMA StepDelivery == TypeOK /\ OpInv /\ DeliveryInv /\ [Next]_vars => DeliveryInv'
<1> SUFFICES ASSUME TypeOK, OpInv, DeliveryInv, [Next]_vars PROVE DeliveryInv'
  OBVIOUS
<1>a. \A o \in Ops : DeliveryOf(o)
  BY SMTT(60) DEF DeliveryInv
<1>b. \A o \in Ops :
        /\ work[o] # "none" => cb[o] \in {"return", "done"}
        /\ cb[o] = "idle" => work[o] = "none"
  BY ZenonT(60) DEF OpInv
<1>1. CASE UNCHANGED <<cb, work, calls, handler, result, update, error_code>> /\ (core' = core \/ core' = "expired")
  BY ZenonT(60), <1>1 DEF DeliveryInv, DeliveryOf, FirstOf
<1>2. ASSUME NEW x \in Callers, NEW s \in Sockets, NEW o \in Ops, NEW h \in BOOLEAN,
             StartSome(x, s, o, h)
      PROVE DeliveryInv'
  <2>1. PICK a \in Handles, k \in AllKinds : NewIOData(x, s, a, o, k, h)
    BY Zenon, <1>2, StartNew
  <2>2. cb' = [cb EXCEPT ![o] = "started"] \/ UNCHANGED cb
    BY SMTT(60), <1>2, StartEffect DEF StartThreadpoolIo
  <2>3. handler' = [handler EXCEPT ![o] = h] /\ UNCHANGED <<work, result, update, calls, core, error_code>>
    BY SMTT(60), <1>2, <2>1, StartEffect DEF NewIOData
  <2>4. cb[o] = "idle" /\ work[o] = "none" /\ calls[o] = 0
    BY SMTT(60), <1>a, <1>b, <2>1 DEF NewIOData, OpInv, DeliveryOf
  <2>5. Others(o)
    BY SMTT(60), <2>2, <2>3 DEF Others, TypeOK
  <2>6. cb'[o] \in {"started", "idle"} /\ work'[o] = "none" /\ calls'[o] = 0 /\ calls'[o] # 1
    BY SMTT(60), <2>2, <2>3, <2>4 DEF TypeOK
  <2>7. DeliveryOf(o)'
    BY ZenonT(60), <2>6 DEF DeliveryOf, FirstOf
  <2> QED
    BY <2>5, <2>7, DeliveryFrame
<1>3. ASSUME NEW o \in Ops, StartStep(o) PROVE DeliveryInv'
  <2>1. PICK c \in {"pending", "failed", "undo", "cancelled"} : cb' = [cb EXCEPT ![o] = c]
    BY SMTT(60), <1>3 DEF StartStep, SystemCall, SystemCallFails, DeleteFailed, CancelThreadpoolIo
  <2>2. cb[o] \in {"started", "failed", "undo"} /\ UNCHANGED <<work, calls, handler, result, update, error_code, core>>
    BY <1>3 DEF StartStep, SystemCall, SystemCallFails, DeleteFailed, CancelThreadpoolIo,
                callVars, heapVars, historyVars, envVars
  <2>3. Others(o) /\ cb'[o] = c
    BY ZenonT(60), <2>1, <2>2, CallbackFrame
  <2>4. DeliveryOf(o)'
    BY ZenonT(60), <1>a, <1>b, <2>2, <2>3 DEF DeliveryOf, FirstOf
  <2> QED
    BY SMTT(60), <2>3, <2>4, DeliveryFrame
<1>4. ASSUME NEW o \in Ops, RoutineStep(o) PROVE DeliveryInv'
  <2>1. ASSUME NEW ctx \in {"Success", "context"}, RoutineEnter(o, ctx) PROVE DeliveryInv'
    <3>1. /\ cb[o] = "packet" /\ cb' = [cb EXCEPT ![o] = "entered"]
          /\ error_code' = [error_code EXCEPT ![o] = FirstError(result[o], ctx)]
          /\ update' = [update EXCEPT ![o] = ctx]
          /\ UNCHANGED <<work, calls, handler, result, core>>
      BY ZenonT(60), <2>1 DEF RoutineEnter, callVars, historyVars, envVars
    <3>2. /\ Others(o) /\ cb'[o] = "entered" /\ update'[o] = ctx
          /\ error_code'[o] = FirstError(result[o], ctx)
      BY SMTT(60), <3>1 DEF Others, TypeOK
    <3>3. DeliveryOf(o)'
      BY ZenonT(60), <1>a, <1>b, <3>1, <3>2 DEF DeliveryOf, FirstOf, FirstError
    <3> QED
      BY <3>2, <3>3, DeliveryFrame
  <2>2. CASE RoutinePost(o)
    <3>1. /\ cb[o] = "entered" /\ handler[o] /\ cb' = [cb EXCEPT ![o] = "return"]
          /\ work' = [work EXCEPT ![o] = "queued"]
          /\ UNCHANGED <<calls, handler, result, update, error_code, core>>
      BY ZenonT(60), <2>2 DEF RoutinePost, callVars, heapVars, historyVars, envVars
    <3>2. Others(o) /\ cb'[o] = "return" /\ work'[o] = "queued"
      BY SMTT(60), <3>1 DEF Others, TypeOK
    <3>3. DeliveryOf(o)'
      BY ZenonT(60), <1>a, <1>b, <3>1, <3>2 DEF DeliveryOf, FirstOf
    <3> QED
      BY <3>2, <3>3, DeliveryFrame
  <2>3. CASE RoutineInline(o)
    <3>1. /\ cb[o] = "entered" /\ handler[o] /\ cb' = [cb EXCEPT ![o] = "inline"]
          /\ error_code' = [error_code EXCEPT ![o] = FirstError(@, "post")]
          /\ calls' = [calls EXCEPT ![o] = @ + 1]
          /\ UNCHANGED <<work, handler, result, update, core>>
      BY ZenonT(60), <2>3 DEF RoutineInline, CallHandler, callVars, envVars
    <3>2. /\ Others(o) /\ cb'[o] = "inline" /\ calls'[o] = calls[o] + 1
          /\ error_code'[o] = FirstError(error_code[o], "post")
      BY SMTT(60), <3>1 DEF Others, TypeOK
    <3>3. calls[o] = 0 /\ work[o] = "none"
      BY ZenonT(60), <1>a, <1>b, <3>1 DEF DeliveryOf, FirstOf
    <3>4. calls'[o] = 1
      BY <3>2, <3>3
    <3>5. DeliveryOf(o)'
      BY ZenonT(60), <1>a, <3>1, <3>2, <3>3, <3>4 DEF DeliveryOf, FirstOf, FirstError
    <3> QED
      BY <3>2, <3>5, DeliveryFrame
  <2>4. CASE RoutineSkip(o) \/ InlineReturn(o)
    <3>1. /\ cb[o] = "inline" \/ (cb[o] = "entered" /\ (~handler[o] \/ core = "expired"))
          /\ cb' = [cb EXCEPT ![o] = "freeing"]
          /\ UNCHANGED <<work, calls, handler, result, update, error_code, core>>
      BY ZenonT(60), <2>4 DEF RoutineSkip, InlineReturn, callVars, heapVars, historyVars, envVars
    <3>2. Others(o) /\ cb'[o] = "freeing"
      BY ZenonT(60), <3>1, CallbackFrame
    <3>3. DeliveryOf(o)'
      BY ZenonT(60), <1>a, <1>b, <3>1, <3>2 DEF DeliveryOf, FirstOf
    <3> QED
      BY <3>2, <3>3, DeliveryFrame
  <2>5. CASE RoutineDelete(o) \/ RoutineReturn(o)
    <3>1. PICK c \in {"return", "done"} : cb' = [cb EXCEPT ![o] = c]
      BY ZenonT(60), <2>5 DEF RoutineDelete, RoutineReturn
    <3>2. cb[o] \in {"freeing", "return"} /\ UNCHANGED <<work, calls, handler, result, update, error_code, core>>
      BY ZenonT(60), <2>5 DEF RoutineDelete, RoutineReturn, callVars, heapVars, historyVars, envVars
    <3>3. Others(o) /\ cb'[o] = c
      BY ZenonT(60), <3>1, <3>2, CallbackFrame
    <3>4. DeliveryOf(o)'
      BY ZenonT(60), <1>a, <1>b, <3>2, <3>3 DEF DeliveryOf, FirstOf
    <3> QED
      BY <3>3, <3>4, DeliveryFrame
  <2> QED
    BY ZenonT(60), <1>4, <2>1, <2>2, <2>3, <2>4, <2>5 DEF RoutineStep
<1>5. ASSUME NEW o \in Ops, UserStep(o) PROVE DeliveryInv'
  <2>1. CASE UserCall(o)
    <3>1. /\ work[o] = "queued" /\ work' = [work EXCEPT ![o] = "running"]
          /\ calls' = [calls EXCEPT ![o] = @ + 1]
          /\ UNCHANGED <<cb, handler, result, update, error_code, core>>
      BY ZenonT(60), <2>1 DEF UserCall, CallHandler, callVars, envVars
    <3>2. Others(o) /\ work'[o] = "running" /\ calls'[o] = calls[o] + 1
      BY SMTT(60), <3>1 DEF Others, TypeOK
    <3>3. calls[o] = 0 /\ handler[o] /\ cb[o] \in {"return", "done"}
      BY ZenonT(60), <1>a, <1>b, <3>1 DEF DeliveryOf, FirstOf
    <3>4. calls'[o] = 1
      BY <3>2, <3>3
    <3>5. DeliveryOf(o)'
      BY ZenonT(60), <1>a, <3>1, <3>2, <3>3, <3>4 DEF DeliveryOf, FirstOf
    <3> QED
      BY <3>2, <3>5, DeliveryFrame
  <2>2. CASE UserHandlerReturn(o) \/ UserDelete(o) \/ UserReturn(o)
    <3>1. PICK w \in {"freeing", "return", "done"} : work' = [work EXCEPT ![o] = w]
      BY ZenonT(60), <2>2 DEF UserHandlerReturn, UserDelete, UserReturn
    <3>2. work[o] \in {"running", "freeing", "return"} /\ UNCHANGED <<cb, calls, handler, result, update, error_code, core>>
      BY ZenonT(60), <2>2 DEF UserHandlerReturn, UserDelete, UserReturn, callVars, heapVars, historyVars, envVars
    <3>3. Others(o) /\ work'[o] = w
      BY ZenonT(60), <3>1, <3>2, ClosureFrame
    <3>4. DeliveryOf(o)'
      BY ZenonT(60), <1>a, <1>b, <3>2, <3>3 DEF DeliveryOf, FirstOf
    <3> QED
      BY <3>3, <3>4, DeliveryFrame
  <2> QED
    BY ZenonT(60), <1>5, <2>1, <2>2 DEF UserStep
<1>6. ASSUME NEW o \in Ops, NEW r \in {"Success", "io"}, Complete(o, r) PROVE DeliveryInv'
  <2>1. /\ cb[o] = "pending" /\ cb' = [cb EXCEPT ![o] = "packet"]
        /\ result' = [result EXCEPT ![o] = r]
        /\ UNCHANGED <<work, calls, handler, update, error_code, core>>
    BY ZenonT(60), <1>6 DEF Complete, callVars, heapVars, envVars
  <2>2. Others(o) /\ cb'[o] = "packet"
    BY SMTT(60), <2>1 DEF Others, TypeOK
  <2>3. DeliveryOf(o)'
    BY ZenonT(60), <1>a, <1>b, <2>1, <2>2 DEF DeliveryOf, FirstOf
  <2> QED
    BY <2>2, <2>3, DeliveryFrame
<1> QED
  BY ZenonT(60), <1>1, <1>2, <1>3, <1>4, <1>5, <1>6
     DEF Next, vars, create, socket, close, DropReference, Share, CloseStep, CloseWait,
         CloseIo, CloseSocket, Destructor, DropCore

\* Callback, closure, number of calls and stored error agree throughout.
LEMMA Delivery == Spec => []DeliveryInv
<1>1. IInv /\ DeliveryInv /\ [Next]_vars => DeliveryInv'
  BY StepDelivery DEF IInv
<1> QED
  BY <1>1, InitDelivery, Invariance, PTL DEF Spec

(***************************************************************************)
(* A handler is called at most once, never after start_* reported an error,*)
(* and has been called when the operation is over and there was somebody to*)
(* tell; whatever fails, and however handlers and close() race.            *)
(***************************************************************************)
THEOREM HandlerOnceTheorem == Spec => []HandlerOnce
<1>1. IInv /\ DeliveryInv => HandlerOnce
  BY DEF DeliveryInv, DeliveryOf, HandlerOnce, IInv, TypeOK
<1> QED
  BY <1>1, Delivery, Invariance, PTL

(***************************************************************************)
(* A handler sees the first error of its operation: the operation's own,   *)
(* else that of the context update in the completion routine, else that of *)
(* the failed post; and Success only when none of the three failed.        *)
(***************************************************************************)
THEOREM ErrorReported == Spec => []FirstErrorReported
<1>1. DeliveryInv => FirstErrorReported
  BY ZenonT(60) DEF DeliveryInv, DeliveryOf, FirstErrorReported, Handling
<1> QED
  BY <1>1, Delivery, PTL

--------------------------------------------------------------------------------
(* The abstract operation *)

\* A step that leaves the stage of all operations but o alone, and moves o.
LEMMA StageMove ==
  ASSUME NEW o \in Ops, NEW from, NEW to,
         Stage(o) = from, Stage(o)' = to,
         \A p \in Ops \ {o} : Stage(p)' = Stage(p)
  PROVE  A!Move(o, from, to)
BY ZenonT(60) DEF A!Move

\* An operation's stage depends on its own state alone.
LEMMA StageLocal ==
  ASSUME NEW p \in Ops, mem'[p] = mem[p], cb'[p] = cb[p], work'[p] = work[p], calls'[p] = calls[p]
  PROVE  Stage(p)' = Stage(p)
BY DEF Stage, Handling

\* Every step of the code is a step of the abstract operation or leaves it alone.
LEMMA StepAsyncOp == IInv /\ DeliveryInv /\ [Next]_vars => [A!Next]_(A!vars)
<1> SUFFICES ASSUME IInv, DeliveryInv, [Next]_vars PROVE A!Next \/ UNCHANGED [o \in Ops |-> Stage(o)]
  BY DEF A!vars
<1> USE DEF CbOwns, WorkOwns, Outstanding, InStart, InRoutine
<1>0. TypeOK /\ OpInv
  BY DEF IInv
<1>1. CASE UNCHANGED <<cb, work, calls, mem>>
  BY <1>1 DEF Stage, Handling
<1>2. ASSUME NEW x \in Callers, NEW s \in Sockets, NEW o \in Ops, NEW h \in BOOLEAN,
             StartSome(x, s, o, h)
      PROVE A!Start(o)
  <2>1. PICK a \in Handles, k \in AllKinds : NewIOData(x, s, a, o, k, h)
    BY Zenon, <1>2, StartNew
  <2>2. StartThreadpoolIo(s, o) \/ UNCHANGED cb
    BY SMTT(60), <1>0, <1>2, StartEffect
  <2>3. UNCHANGED <<work, calls>>
    BY SMTT(60), <1>0, <1>2, StartEffect
  <2>4. mem[o] = "none" /\ cb[o] = "idle" /\ work[o] = "none" /\ calls[o] = 0
    BY SMTT(60), <1>0, <2>1 DEF NewIOData, OpInv, DeliveryInv, DeliveryOf
  <2>5. mem' = [mem EXCEPT ![o] = "alloc"]
    BY SMTT(60), <2>1 DEF NewIOData
  <2>6. cb'[o] \in {"idle", "started"} /\ \A p \in Ops \ {o} : cb'[p] = cb[p]
    BY <1>0, <2>2, <2>4 DEF StartThreadpoolIo, TypeOK
  <2>7. Stage(o) = "idle" /\ Stage(o)' = "pending"
    BY SMTT(60), <1>0, <2>3, <2>4, <2>5, <2>6 DEF Stage, Handling, TypeOK
  <2>8. \A p \in Ops \ {o} : Stage(p)' = Stage(p)
    BY SMTT(60), <1>0, <2>3, <2>5, <2>6, StageLocal DEF TypeOK
  <2> QED
    BY <2>7, <2>8, StageMove DEF A!Start
<1>3. ASSUME NEW o \in Ops, StartStep(o) \/ RoutineStep(o) \/ UserStep(o) \/ (\E r \in {"Success", "io"} : Complete(o, r))
      PROVE  A!Start(o) \/ A!Call(o) \/ A!Return(o) \/ A!Release(o) \/ A!Drop(o)
             \/ UNCHANGED [p \in Ops |-> Stage(p)]
  <2>1. \A p \in Ops \ {o} : mem'[p] = mem[p] /\ cb'[p] = cb[p] /\ work'[p] = work[p] /\ calls'[p] = calls[p]
    <3>1. CASE StartStep(o)
      BY SMTT(60), <1>0, <3>1 DEF StartStep, SystemCall, SystemCallFails, DeleteFailed, CancelThreadpoolIo, Delete, TypeOK
    <3>2. CASE \E ctx \in {"Success", "context"} : RoutineEnter(o, ctx)
      BY SMTT(60), <1>0, <3>2 DEF RoutineEnter, TypeOK
    <3>3. CASE RoutinePost(o) \/ RoutineInline(o) \/ RoutineSkip(o)
      BY SMTT(60), <1>0, <3>3 DEF RoutinePost, RoutineInline, RoutineSkip, CallHandler, TypeOK
    <3>4. CASE InlineReturn(o) \/ RoutineDelete(o) \/ RoutineReturn(o)
      BY SMTT(60), <1>0, <3>4 DEF InlineReturn, RoutineDelete, RoutineReturn, Delete, TypeOK
    <3>5. CASE UserStep(o)
      BY SMTT(60), <1>0, <3>5 DEF UserStep, UserCall, UserHandlerReturn, UserDelete, UserReturn, Delete, CallHandler, TypeOK
    <3>6. CASE \E r \in {"Success", "io"} : Complete(o, r)
      BY SMTT(60), <1>0, <3>6 DEF Complete, TypeOK
    <3> QED
      BY ZenonT(60), <1>3, <3>1, <3>2, <3>3, <3>4, <3>5, <3>6 DEF RoutineStep
  <2>2. \A p \in Ops \ {o} : Stage(p)' = Stage(p)
    BY <2>1, StageLocal
  <2>3. CASE Stage(o)' = Stage(o)
    BY SMTT(60), <2>2, <2>3
  <2>4. CASE DeleteFailed(o) \/ (RoutineDelete(o) /\ calls[o] = 0)
    <3>1. Stage(o) = "pending" /\ Stage(o)' = "over"
      BY SMTT(60), <1>0, <2>4 DEF DeleteFailed, RoutineDelete, Delete, Stage, Handling, OpInv, DeliveryInv, DeliveryOf, TypeOK
    <3> QED
      BY SMTT(60), <2>2, <3>1, StageMove DEF A!Drop
  <2>5. CASE RoutineInline(o) \/ UserCall(o)
    <3>1. Stage(o) = "pending" /\ Stage(o)' = "handling"
      BY SMTT(60), <1>0, <2>5 DEF RoutineInline, UserCall, CallHandler, Stage, Handling, OpInv, DeliveryInv, DeliveryOf, TypeOK
    <3> QED
      BY <2>2, <3>1, StageMove DEF A!Call
  <2>6. CASE InlineReturn(o) \/ UserHandlerReturn(o)
    <3>1. Stage(o) = "handling" /\ Stage(o)' = "handled"
      BY SMTT(60), <1>0, <2>6 DEF InlineReturn, UserHandlerReturn, Stage, Handling, OpInv, DeliveryInv, DeliveryOf, TypeOK
    <3> QED
      BY SMTT(60), <2>2, <3>1, StageMove DEF A!Return
  <2>7. CASE UserDelete(o) \/ (RoutineDelete(o) /\ calls[o] # 0)
    <3>1. Stage(o) = "handled" /\ Stage(o)' = "over"
      BY SMTT(60), <1>0, <2>7 DEF UserDelete, RoutineDelete, Delete, Stage, Handling, OpInv, DeliveryInv, DeliveryOf, TypeOK
    <3> QED
      BY SMTT(60), <2>2, <3>1, StageMove DEF A!Release
  <2>8. CASE SystemCall(o) \/ SystemCallFails(o) \/ CancelThreadpoolIo(o)
             \/ (\E r \in {"Success", "io"} : Complete(o, r)) \/ UserReturn(o) \/ RoutineReturn(o)
             \/ RoutinePost(o) \/ RoutineSkip(o)
             \/ \E ctx \in {"Success", "context"} : RoutineEnter(o, ctx)
    <3>1. Stage(o)' = Stage(o)
      <4>1. CASE SystemCall(o) \/ SystemCallFails(o) \/ CancelThreadpoolIo(o)
        BY SMTT(60), <1>0, <4>1 DEF SystemCall, SystemCallFails, CancelThreadpoolIo, Stage, Handling, OpInv, TypeOK
      <4>2. CASE (\E r \in {"Success", "io"} : Complete(o, r)) \/ UserReturn(o) \/ RoutineReturn(o)
        BY SMTT(60), <1>0, <4>2 DEF Complete, UserReturn, RoutineReturn, Stage, Handling, OpInv, TypeOK
      <4>3. CASE RoutinePost(o) \/ RoutineSkip(o)
        BY SMTT(60), <1>0, <4>3 DEF RoutinePost, RoutineSkip, Stage, Handling, OpInv, TypeOK
      <4>4. CASE \E ctx \in {"Success", "context"} : RoutineEnter(o, ctx)
        BY <1>0, <4>4 DEF RoutineEnter, Stage, Handling, OpInv, TypeOK
      <4> QED
        BY SMTT(60), <2>8, <4>1, <4>2, <4>3, <4>4
    <3> QED
      BY SMTT(60), <2>3, <3>1
  <2> QED
    BY <1>3, <2>4, <2>5, <2>6, <2>7, <2>8 DEF StartStep, RoutineStep, UserStep
<1>4. ASSUME NEW o \in Ops,
             A!Start(o) \/ A!Call(o) \/ A!Return(o) \/ A!Release(o) \/ A!Drop(o)
      PROVE  A!Next
  BY <1>4 DEF A!Next
<1> QED
  BY ZenonT(60), <1>1, <1>2, <1>3, <1>4
     DEF Next, vars, create, socket, close, DropReference, Share, CloseStep, CloseWait,
         CloseIo, CloseSocket, Destructor, DropCore

(***************************************************************************)
(* The asynchronous part of WinSocket implements the abstract operation:   *)
(* started, handled at most once, released once and only after the handler *)
(* has returned.                                                           *)
(***************************************************************************)
THEOREM AsyncOpRefinement == Spec => ImplementsAsyncOp
<1>1. Init => A!Init
  BY SMTT(60) DEF Init, A!Init, Stage
<1> QED
  BY <1>1, StepAsyncOp, Delivery, Invariance, PTL DEF Spec, ImplementsAsyncOp, A!Spec

--------------------------------------------------------------------------------
(* The IOData *)

\* The program serialises start_* with close(), opens its sockets for IPv4 or IPv6, and
\* the bind() of a connect succeeds.
Prepared == Env \cap {"unspecified", "setup_fails", "close_races"} = {}

\* An open PTP_IO belongs to an open socket, and close() closes them in this order; the
\* family of an open socket is supported.
OpenInv ==
  /\ \A s \in Sockets : tpio[s] = "open" => valid[s]
  /\ \A s \in Sockets : valid[s] => supported[s]
  /\ \A x \in Callers : closing[x].at = "closesocket" => tpio[closing[x].sock] = "null"

\* WinSocket::socket() opens both.
LEMMA OpenSocketOpen ==
  ASSUME TypeOK, CloseInv, OpenInv, NEW s \in Sockets, OpenSocket(s, TRUE), UNCHANGED closing
  PROVE  OpenInv'
<1>1. \A x \in Callers : closing[x].sock # s
  BY ZenonT(60) DEF OpenSocket, CloseInProgress
<1> QED
  BY <1>1 DEF OpenSocket, OpenInv, TypeOK

\* Every step keeps the order.
LEMMA StepOpen ==
  ASSUME Prepared PROVE IInv /\ OpenInv /\ [Next]_vars => OpenInv'
<1> SUFFICES ASSUME IInv, OpenInv, [Next]_vars PROVE OpenInv'
  OBVIOUS
<1>0. TypeOK /\ CloseInv
  BY SMTT(60) DEF IInv
<1>1. CASE UNCHANGED <<tpio, valid, supported, closing>>
  BY SMTT(60), <1>1 DEF OpenInv
<1>2. ASSUME NEW x \in Callers, NEW s \in Sockets, NEW o \in Ops, NEW h \in BOOLEAN,
             StartSome(x, s, o, h)
      PROVE OpenInv'
  <2>1. CASE UNCHANGED <<tpio, valid, supported>>
    <3>1. UNCHANGED closing
      BY <1>0, <1>2, StartEffect
    <3> QED
      BY SMTT(60), <1>1, <2>1, <3>1
  <2>2. ASSUME NEW a \in Sockets, start_accept(x, s, a, o, h) PROVE OpenInv'
    <3>1. /\ UNCHANGED closing
          /\ UNCHANGED <<tpio, valid, supported>> \/ (valid[s] /\ OpenSocket(a, supported[s]))
      BY <2>2 DEF start_accept
    <3>2. CASE valid[s] /\ OpenSocket(a, supported[s])
      <4>1. supported[s] = TRUE
        BY <1>0, <3>2 DEF OpenInv, TypeOK
      <4>2. OpenSocket(a, TRUE)
        BY Zenon, <3>2, <4>1
      <4> QED
        BY <1>0, <3>1, <4>2, OpenSocketOpen
    <3> QED
      BY Zenon, <1>1, <3>1, <3>2
  <2> QED
    BY <1>2, <2>1, <2>2 DEF StartSome, start_recv, start_recv_from, start_send, start_send_to,
                            start_connect, start_disconnect, StartPlain
<1>3. ASSUME NEW x \in Callers, NEW s \in Sockets, socket(x, s) PROVE OpenInv'
  <2>1. UNCHANGED closing /\ OpenSocket(s, TRUE)
    BY Zenon, <1>3 DEF socket, Prepared
  <2> QED
    BY <1>0, <2>1, OpenSocketOpen
<1>4. ASSUME NEW x \in Callers, NEW s \in Sockets, close(x, s) PROVE OpenInv'
  BY <1>0, <1>4 DEF close, OpenInv, TypeOK
<1>5. ASSUME NEW x \in Callers, CloseStep(x) PROVE OpenInv'
  <2>1. CASE CloseWait(x)
    BY <1>0, <2>1 DEF CloseWait, OpenInv, TypeOK
  <2>2. CASE CloseIo(x)
    <3>1. closing[x].sock \in Sockets
      BY SMTT(60), <1>0, <2>2 DEF CloseIo, CloseInv, TypeOK, CloseState, Handles
    <3> QED
      BY <1>0, <2>2, <3>1 DEF CloseIo, OpenInv, TypeOK, CloseState, Handles
  <2>3. CASE CloseSocket(x)
    <3>1. closing[x].sock \in Sockets /\ tpio[closing[x].sock] = "null"
      BY SMTT(60), <1>0, <2>3 DEF CloseSocket, CloseInv, OpenInv, TypeOK, CloseState, Handles
    <3> QED
      BY SMTT(60), <1>0, <2>3, <3>1 DEF CloseSocket, OpenInv, TypeOK
  <2> QED
    BY <1>5, <2>1, <2>2, <2>3 DEF CloseStep
<1>6. ASSUME NEW s \in Sockets, Destructor(s) PROVE OpenInv'
  BY <1>0, <1>6 DEF Destructor, OpenInv, TypeOK, CloseState, Handles
<1> QED
  BY ZenonT(60), <1>1, <1>2, <1>3, <1>4, <1>5, <1>6
     DEF Next, vars, create, DropReference, Share, StartStep, SystemCall, SystemCallFails,
         DeleteFailed, CancelThreadpoolIo, RoutineStep, RoutineEnter, RoutinePost, RoutineInline,
         InlineReturn, RoutineSkip, RoutineDelete, RoutineReturn, UserStep, UserCall,
         UserHandlerReturn, UserDelete, UserReturn, Complete, DropCore

\* Every step keeps the IODatas in somebody's hands.
LEMMA StepNoOrphan ==
  ASSUME Prepared PROVE IInv /\ OpenInv /\ NoOrphan /\ [Next]_vars => NoOrphan'
<1> SUFFICES ASSUME IInv, OpenInv, NoOrphan, [Next]_vars PROVE NoOrphan'
  OBVIOUS
<1> USE DEF Outstanding, InStart, InRoutine
<1>0. TypeOK /\ OpInv /\ CloseInv
  BY SMTT(60) DEF IInv
<1>1. CASE UNCHANGED <<cb, work, mem>>
  BY SMTT(60), <1>1 DEF NoOrphan
<1>2. ASSUME NEW x \in Callers, NEW s \in Sockets, NEW o \in Ops, NEW h \in BOOLEAN,
             StartSome(x, s, o, h)
      PROVE NoOrphan'
  <2>1. PICK a \in Handles, k \in AllKinds : NewIOData(x, s, a, o, k, h)
    BY Zenon, <1>2, StartNew
  <2>2. UNCHANGED work
    BY SMTT(60), <1>0, <1>2, StartEffect
  <2>3. tpio[s] = "open" /\ supported[s]
    <3>1. MayStart(x, s)
      BY Zenon, <1>0, <1>2, StartEffect
    <3>2. "close_races" \notin Env
      BY DEF Prepared
    <3> QED
      BY <3>1, <3>2 DEF MayStart, OpenInv
  <2>4. StartThreadpoolIo(s, o)
    <3>1. ASSUME start_connect(x, s, o, h) PROVE StartThreadpoolIo(s, o)
      <4>1. ~(~supported[s] \/ (~bound[s] /\ "setup_fails" \in Env))
        BY <2>3 DEF Prepared
      <4> QED
        BY Zenon, <3>1, <4>1 DEF start_connect
    <3>2. ASSUME start_send_to(x, s, o, h) PROVE StartThreadpoolIo(s, o)
      BY Zenon, <2>3, <3>2 DEF start_send_to
    <3> QED
      BY Zenon, <1>2, <3>1, <3>2 DEF StartSome, start_recv, start_recv_from, start_send,
                                     start_disconnect, start_accept, StartPlain
  <2>5. cb' = [cb EXCEPT ![o] = "started"]
    BY <2>3, <2>4 DEF StartThreadpoolIo
  <2> QED
    BY <1>0, <2>1, <2>2, <2>5 DEF NewIOData, NoOrphan, TypeOK
<1>3. ASSUME NEW o \in Ops, StartStep(o) PROVE NoOrphan'
  <2>1. CASE SystemCall(o) \/ SystemCallFails(o)
    BY SMTT(60), <1>0, <2>1 DEF SystemCall, SystemCallFails, NoOrphan, TypeOK
  <2>2. CASE DeleteFailed(o)
    BY SMTT(60), <1>0, <2>2 DEF DeleteFailed, Delete, NoOrphan, TypeOK
  <2>3. CASE CancelThreadpoolIo(o)
    BY SMTT(60), <1>0, <2>3 DEF CancelThreadpoolIo, OpInv, NoOrphan, TypeOK
  <2> QED
    BY SMTT(60), <1>3, <2>1, <2>2, <2>3 DEF StartStep
<1>4. ASSUME NEW o \in Ops, RoutineStep(o) PROVE NoOrphan'
  <2>1. CASE \E ctx \in {"Success", "context"} : RoutineEnter(o, ctx)
    BY SMTT(60), <1>0, <2>1 DEF RoutineEnter, NoOrphan, TypeOK
  <2>2. CASE RoutinePost(o)
    BY SMTT(60), <1>0, <2>2 DEF RoutinePost, NoOrphan, TypeOK
  <2>3. CASE RoutineInline(o) \/ RoutineSkip(o) \/ InlineReturn(o)
    BY SMTT(60), <1>0, <2>3 DEF RoutineInline, RoutineSkip, InlineReturn, NoOrphan, TypeOK
  <2>4. CASE RoutineDelete(o)
    BY SMTT(60), <1>0, <2>4 DEF RoutineDelete, Delete, NoOrphan, TypeOK
  <2>5. CASE RoutineReturn(o)
    BY SMTT(60), <1>0, <2>5 DEF RoutineReturn, NoOrphan, TypeOK
  <2> QED
    BY ZenonT(60), <1>4, <2>1, <2>2, <2>3, <2>4, <2>5 DEF RoutineStep
<1>5. ASSUME NEW o \in Ops, UserStep(o) PROVE NoOrphan'
  <2>1. CASE UserCall(o) \/ UserHandlerReturn(o)
    BY SMTT(60), <1>0, <2>1 DEF UserCall, UserHandlerReturn, NoOrphan, TypeOK
  <2>2. CASE UserDelete(o)
    BY SMTT(60), <1>0, <2>2 DEF UserDelete, Delete, NoOrphan, TypeOK
  <2>3. CASE UserReturn(o)
    BY SMTT(60), <1>0, <2>3 DEF UserReturn, OpInv, NoOrphan, TypeOK, WorkOwns, CbOwns
  <2> QED
    BY <1>5, <2>1, <2>2, <2>3 DEF UserStep
<1>6. ASSUME NEW o \in Ops, NEW r \in {"Success", "io"}, Complete(o, r) PROVE NoOrphan'
  BY <1>0, <1>6 DEF Complete, NoOrphan, TypeOK
<1> QED
  BY ZenonT(60), <1>1, <1>2, <1>3, <1>4, <1>5, <1>6
     DEF Next, vars, create, socket, close, DropReference, Share, CloseStep, CloseWait,
         CloseIo, CloseSocket, Destructor, DropCore

(***************************************************************************)
(* No IOData is lost: if start_* does not race with close(), the sockets   *)
(* are opened for IPv4 or IPv6 and the bind() of a connect succeeds, every *)
(* IOData is on its way to one of the three deletes in WinSocket, whatever *)
(* the system calls, the posts and the core do.                            *)
(***************************************************************************)
THEOREM NoLostIoData == ASSUME Prepared PROVE Spec => []NoOrphan
<1>1. Init => OpenInv /\ NoOrphan
  BY DEF Init, OpenInv, NoOrphan
<1>2. IInv /\ OpenInv /\ NoOrphan /\ [Next]_vars => (OpenInv /\ NoOrphan)'
  BY StepOpen, StepNoOrphan
<1> QED
  BY <1>1, <1>2, Invariance, PTL DEF Spec
================================================================================
