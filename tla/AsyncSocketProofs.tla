--------------------------- MODULE AsyncSocketProofs ---------------------------
(***************************************************************************)
(* Proofs about AsyncSocket, for any number of sockets, operations, clients*)
(* and pool threads and for every Env unless a theorem says otherwise.     *)
(***************************************************************************)
EXTENDS AsyncSocket, TLAPS

\* The names of variable groups and caller sets carry no content of their own.
USE DEF refVars, handleVars, callVars, heapVars, historyVars, envVars

--------------------------------------------------------------------------------
(* Types *)

\* A caller's thread, and the threads named in the actions, are threads.
LEMMA ThreadTypes ==
  /\ \A x \in Callers : ThreadOf(x) \in Threads
  /\ \A o \in Ops : <<"io", o>> \in Threads /\ <<"user", o>> \in Threads
  /\ \A c \in Clients : <<"client", c>> \in Threads
BY DEF ThreadOf, Threads, Callers

\* Destroy keeps the types of the variables it sets.
LEMMA DestroyType ==
  ASSUME TypeOK, NEW t \in Threads, NEW m, NEW a, NEW h, Destroy(t, m, a, h)
  PROVE  /\ obj' \in [Sockets -> {"none", "live", "dying", "dead"}]
         /\ dtor' \in [Sockets -> Threads]
BY DEF TypeOK, Destroy

\* All seven start_* functions allocate an IOData; its accept socket, if any, is one
\* the caller holds.
LEMMA StartNew ==
  ASSUME NEW x \in Callers, NEW s \in Sockets, NEW o \in Ops, NEW h \in BOOLEAN,
         StartSome(x, s, o, h)
  PROVE  \E a \in Handles, k \in AllKinds :
           NewIOData(x, s, a, o, k, h) /\ (a = NoSocket \/ <<x, a>> \in held)
<1>1. CASE \E a \in Sockets : start_accept(x, s, a, o, h)
  BY <1>1 DEF start_accept, Handles, AllKinds
<1>2. CASE ~ \E a \in Sockets : start_accept(x, s, a, o, h)
  <2>1. \E k \in AllKinds : NewIOData(x, s, NoSocket, o, k, h)
    BY SMTT(60), <1>2 DEF StartSome, start_recv, start_recv_from, start_send, start_disconnect,
                StartPlain, start_send_to, start_connect, AllKinds
  <2> QED
    BY SMTT(60), <2>1 DEF Handles
<1> QED
  BY Zenon, <1>1, <1>2

\* What else the seven start_* functions have in common.
LEMMA StartEffect ==
  ASSUME TypeOK, NEW x \in Callers, NEW s \in Sockets, NEW o \in Ops, NEW h \in BOOLEAN,
         StartSome(x, s, o, h)
  PROVE  /\ MayStart(x, s)
         /\ StartThreadpoolIo(s, o) \/ UNCHANGED <<cb, fault>>
         /\ tpio' = tpio \/ \E a \in Sockets : tpio' = [tpio EXCEPT ![a] = "open"]
         /\ valid' \in [Sockets -> BOOLEAN] /\ supported' \in [Sockets -> BOOLEAN]
         /\ bound' \in [Sockets -> BOOLEAN]
         /\ UNCHANGED <<refVars, closing, work, historyVars, core>>
<1>1. ASSUME NEW k \in AllKinds, StartPlain(x, s, o, k, h)
      PROVE /\ MayStart(x, s) /\ StartThreadpoolIo(s, o)
            /\ UNCHANGED <<refVars, handleVars, closing, work, historyVars, core>>
  BY <1>1 DEF StartPlain
<1>2. CASE \E k \in AllKinds : StartPlain(x, s, o, k, h)
  BY <1>1, <1>2 DEF TypeOK
<1>3. CASE start_send_to(x, s, o, h)
  BY SMTT(60), <1>3 DEF start_send_to, TypeOK
<1>4. CASE start_connect(x, s, o, h)
  <2>1. bound' \in [Sockets -> BOOLEAN]
    BY Zenon, <1>4 DEF start_connect, TypeOK
  <2> QED
    BY <1>4, <2>1 DEF start_connect, TypeOK
<1>5. ASSUME NEW a \in Sockets, start_accept(x, s, a, o, h)
      PROVE /\ MayStart(x, s) /\ StartThreadpoolIo(s, o)
            /\ UNCHANGED <<tpio, valid, supported>>
               \/ /\ tpio' = [tpio EXCEPT ![a] = "open"]
                  /\ valid' = [valid EXCEPT ![a] = TRUE]
                  /\ supported' = [supported EXCEPT ![a] = supported[s]]
            /\ UNCHANGED <<refVars, bound, closing, work, historyVars, core>>
  BY <1>5 DEF start_accept, OpenSocket
<1>6. ASSUME NEW a \in Sockets, start_accept(x, s, a, o, h)
      PROVE /\ valid' \in [Sockets -> BOOLEAN] /\ supported' \in [Sockets -> BOOLEAN]
            /\ bound' \in [Sockets -> BOOLEAN]
  <2>1. /\ valid \in [Sockets -> BOOLEAN] /\ supported \in [Sockets -> BOOLEAN]
        /\ bound \in [Sockets -> BOOLEAN] /\ supported[s] \in BOOLEAN
    BY SMTT(60) DEF TypeOK
  <2>2. valid' \in [Sockets -> BOOLEAN] /\ supported' \in [Sockets -> BOOLEAN]
    BY Zenon, <1>5, <1>6, <2>1
  <2> QED
    BY Zenon, <1>5, <1>6, <2>1, <2>2
<1>7. CASE \E a \in Sockets : start_accept(x, s, a, o, h)
  BY <1>5, <1>6, <1>7
<1> QED
  BY <1>2, <1>3, <1>4, <1>7
     DEF StartSome, start_recv, start_recv_from, start_send, start_disconnect, AllKinds

\* Initially every variable has its type: nothing is created, nothing started.
LEMMA InitType == Init => TypeOK
BY ConstantsAssumption
   DEF Init, TypeOK, Threads, Callers, Handles, CloseState, CbState, WorkState, Errors

\* Every step keeps the types.
LEMMA StepType == TypeOK /\ OpInv /\ [Next]_vars => TypeOK'
<1> SUFFICES ASSUME TypeOK, OpInv, [Next]_vars PROVE TypeOK'
  OBVIOUS
<1>1. ASSUME NEW x \in Callers, NEW s \in Sockets, create(x, s) PROVE TypeOK'
  BY <1>1 DEF TypeOK, create
<1>2. ASSUME NEW x \in Callers, NEW s \in Sockets, socket(x, s) PROVE TypeOK'
  <2>1. valid' \in [Sockets -> BOOLEAN] /\ supported' \in [Sockets -> BOOLEAN]
    <3>1. valid \in [Sockets -> BOOLEAN] /\ supported \in [Sockets -> BOOLEAN]
      BY Zenon DEF TypeOK
    <3>2. PICK f \in BOOLEAN : OpenSocket(s, f)
      BY Zenon, <1>2 DEF socket
    <3> QED
      BY ONLY ZenonT(60), f \in BOOLEAN, <3>1, <3>2 DEF OpenSocket
  <2>2. tpio' \in [Sockets -> {"null", "open"}]
    BY <1>2 DEF TypeOK, socket, OpenSocket
  <2>3. UNCHANGED <<refVars, bound, closing, callVars, heapVars, cb, work, historyVars, envVars>>
    BY <1>2 DEF socket
  <2> QED
    BY ZenonT(60), <2>1, <2>2, <2>3 DEF TypeOK, refVars, callVars, heapVars, historyVars, envVars
<1>3. ASSUME NEW x \in Callers, NEW s \in Sockets, close(x, s) PROVE TypeOK'
  BY SMTT(60), <1>3 DEF TypeOK, close, CloseState, Handles
<1>4. ASSUME NEW c \in Clients, NEW s \in Sockets, DropReference(c, s) PROVE TypeOK'
  BY <1>4, ThreadTypes, DestroyType DEF TypeOK, DropReference
<1>5. ASSUME NEW x \in Callers, NEW c \in Clients, NEW s \in Sockets, Share(x, c, s)
      PROVE TypeOK'
  BY <1>5 DEF TypeOK, Share, Callers
<1>6. ASSUME NEW x \in Callers, CloseStep(x) PROVE TypeOK'
  <2>1. closing[x] \in CloseState
    BY DEF TypeOK
  <2>2. CASE CloseWait(x)
    BY SMTT(60), <2>1, <2>2 DEF TypeOK, CloseWait, CloseState
  <2>3. CASE CloseIo(x)
    BY Zenon, <2>1, <2>3 DEF TypeOK, CloseIo, CloseState
  <2>4. CASE CloseSocket(x)
    <3>1. /\ valid' \in [Sockets -> BOOLEAN] /\ supported' \in [Sockets -> BOOLEAN]
          /\ bound' \in [Sockets -> BOOLEAN]
      BY Zenon, <2>4 DEF TypeOK, CloseSocket
    <3>2. closing' \in [Callers -> CloseState]
      BY SMTT(60), <2>4 DEF TypeOK, CloseSocket, CloseState, Handles
    <3> QED
      BY <2>4, <3>1, <3>2 DEF TypeOK, CloseSocket
  <2> QED
    BY <1>6, <2>2, <2>3, <2>4 DEF CloseStep
<1>7. ASSUME NEW x \in Callers, NEW s \in Sockets, NEW o \in Ops, NEW h \in BOOLEAN,
             StartSome(x, s, o, h)
      PROVE TypeOK'
  <2>1. PICK a \in Handles, k \in AllKinds : NewIOData(x, s, a, o, k, h)
    BY Zenon, <1>7, StartNew
  <2>2. /\ mem' \in [Ops -> {"none", "alloc", "freed"}]
        /\ owner' \in [Ops -> Handles]
        /\ accepted' \in [Ops -> Handles]
        /\ context' \in [Ops -> BOOLEAN]
        /\ handler' \in [Ops -> BOOLEAN]
        /\ error_code' \in [Ops -> Errors]
        /\ by' \in [Ops -> Callers \cup {NoCaller}]
    BY <2>1 DEF NewIOData, TypeOK, Handles
  <2>3. cb' \in [Ops -> CbState] /\ fault' \in {"none", "null_io", "dead_this"}
    <3>1. StartThreadpoolIo(s, o) \/ UNCHANGED <<cb, fault>>
      BY <1>7, StartEffect
    <3> QED
      BY <3>1 DEF TypeOK, StartThreadpoolIo, CbState, Outstanding, InStart
  <2>4. tpio' \in [Sockets -> {"null", "open"}]
    <3>1. tpio' = tpio \/ \E b \in Sockets : tpio' = [tpio EXCEPT ![b] = "open"]
      BY <1>7, StartEffect
    <3> QED
      BY <3>1 DEF TypeOK
  <2> QED
    BY <1>7, <2>2, <2>3, <2>4, StartEffect DEF TypeOK
<1>8. ASSUME NEW o \in Ops, StartStep(o) PROVE TypeOK'
  <2> USE DEF CbState, Outstanding, InStart
  <2>1. CASE SystemCall(o) \/ SystemCallFails(o) \/ CancelThreadpoolIo(o)
    BY SMTT(60), <2>1 DEF TypeOK, SystemCall, SystemCallFails, CancelThreadpoolIo
  <2>2. CASE DeleteFailed(o)
    <3>1. ThreadOf(by[o]) \in Threads
      BY <2>2, ThreadTypes DEF DeleteFailed, OpInv, CbOwns
    <3> QED
      BY SMTT(60), <2>2, <3>1, DestroyType DEF TypeOK, DeleteFailed, Delete
  <2> QED
    BY SMTT(60), <1>8, <2>1, <2>2 DEF StartStep
<1>9. ASSUME NEW o \in Ops, RoutineStep(o) PROVE TypeOK'
  <2> USE DEF CbState, Outstanding, InRoutine
  <2>1. ASSUME NEW ctx \in {"Success", "context"}, RoutineEnter(o, ctx) PROVE TypeOK'
    BY SMTT(60), <2>1 DEF TypeOK, RoutineEnter, Errors, FirstError
  <2>2. CASE RoutinePost(o) \/ RoutineSkip(o) \/ RoutineReturn(o)
    BY SMTT(60), <2>2 DEF TypeOK, RoutinePost, RoutineSkip, RoutineReturn, WorkState
  <2>3. CASE RoutineInline(o)
    BY SMTT(60), <2>3 DEF TypeOK, RoutineInline, CallHandler, Errors, FirstError, Handles, Callers
  <2>4. CASE InlineReturn(o)
    BY <2>4, ThreadTypes, DestroyType DEF TypeOK, InlineReturn, HandlerReturns, Callers
  <2>5. CASE RoutineDelete(o)
    BY Zenon, <2>5, ThreadTypes, DestroyType DEF TypeOK, RoutineDelete, Delete
  <2> QED
    BY SMTT(60), <1>9, <2>1, <2>2, <2>3, <2>4, <2>5 DEF RoutineStep
<1>10. ASSUME NEW o \in Ops, UserStep(o) PROVE TypeOK'
  <2> USE DEF WorkState
  <2>1. CASE UserCall(o)
    BY SMTT(60), <2>1 DEF TypeOK, UserCall, CallHandler, Handles, Callers
  <2>2. CASE UserHandlerReturn(o)
    BY SMTT(60), <2>2, ThreadTypes, DestroyType DEF TypeOK, UserHandlerReturn, HandlerReturns, Callers
  <2>3. CASE UserDelete(o)
    BY Zenon, <2>3, ThreadTypes, DestroyType DEF TypeOK, UserDelete, Delete
  <2>4. CASE UserReturn(o)
    BY SMTT(60), <2>4 DEF TypeOK, UserReturn
  <2> QED
    BY SMTT(60), <1>10, <2>1, <2>2, <2>3, <2>4 DEF UserStep
<1>11. ASSUME NEW o \in Ops, NEW r \in {"Success", "io"}, Complete(o, r) PROVE TypeOK'
  BY <1>11 DEF TypeOK, Complete, CbState, Outstanding, Errors
<1>12. ASSUME NEW s \in Sockets, Destructor(s) PROVE TypeOK'
  BY <1>12 DEF TypeOK, Destructor
<1>13. ASSUME DropCore PROVE TypeOK'
  BY <1>13 DEF TypeOK, DropCore
<1>14. ASSUME UNCHANGED vars PROVE TypeOK'
  BY <1>14 DEF TypeOK, vars
<1> QED
  BY SMTT(60), <1>1, <1>2, <1>3, <1>4, <1>5, <1>6, <1>7, <1>8, <1>9, <1>10, <1>11, <1>12, <1>13,
     <1>14 DEF Next

--------------------------------------------------------------------------------
(* Heap cell, callback and closure *)

\* Initially no operation has a system call, a callback or a handler under way.
LEMMA InitOp == Init => OpInv
BY ZenonT(60) DEF Init, OpInv, CbOwns, WorkOwns, Outstanding, InStart, InRoutine

\* Every step keeps the three in step.
LEMMA StepOp == TypeOK /\ OpInv /\ [Next]_vars => OpInv'
<1> SUFFICES ASSUME TypeOK, OpInv, [Next]_vars PROVE OpInv'
  BY SMTT(60)
<1> USE DEF CbOwns, WorkOwns, Outstanding, InStart, InRoutine
<1>1. CASE UNCHANGED <<cb, work, mem, owner, by>>
  BY SMTT(60), <1>1 DEF OpInv
<1>t. cb \in [Ops -> CbState] /\ work \in [Ops -> WorkState] /\ mem \in [Ops -> {"none", "alloc", "freed"}]
  BY ZenonT(60) DEF TypeOK
<1>2. ASSUME NEW x \in Callers, NEW s \in Sockets, NEW o \in Ops, NEW h \in BOOLEAN,
             StartSome(x, s, o, h)
      PROVE OpInv'
  <2>1. PICK a \in Handles, k \in AllKinds : NewIOData(x, s, a, o, k, h)
    BY Zenon, <1>2, StartNew
  <2>2. StartThreadpoolIo(s, o) \/ UNCHANGED cb
    BY <1>2, StartEffect
  <2>3. UNCHANGED work
    BY SMTT(60), <1>2, StartEffect
  <2> QED
    BY <2>1, <2>2, <2>3 DEF NewIOData, StartThreadpoolIo, OpInv, TypeOK
<1>3. ASSUME NEW o \in Ops, StartStep(o) PROVE OpInv'
  <2>1. CASE SystemCall(o) \/ SystemCallFails(o) \/ CancelThreadpoolIo(o)
    BY SMTT(60), <1>t, <2>1 DEF SystemCall, SystemCallFails, CancelThreadpoolIo, OpInv
  <2>2. CASE DeleteFailed(o)
    <3>1. /\ cb[o] = "failed" /\ cb' = [cb EXCEPT ![o] = "undo"]
          /\ mem' = [mem EXCEPT ![o] = "freed"] /\ UNCHANGED <<work, owner, by>>
      BY Zenon, <2>2 DEF DeleteFailed, Delete, callVars
    <3> QED
      BY ONLY SMTT(60), OpInv, o \in Ops, <1>t, <3>1 DEF OpInv
  <2> QED
    BY ZenonT(60), <1>3, <2>1, <2>2 DEF StartStep
<1>4. ASSUME NEW o \in Ops, RoutineStep(o) PROVE OpInv'
  <2>1. CASE \E ctx \in {"Success", "context"} : RoutineEnter(o, ctx)
    <3>1. /\ cb[o] = "packet" /\ cb' = [cb EXCEPT ![o] = "entered"]
          /\ UNCHANGED <<mem, work, owner, by>>
      BY Zenon, <2>1 DEF RoutineEnter, callVars
    <3> QED
      BY ONLY SMTT(60), OpInv, o \in Ops, <1>t, <3>1 DEF OpInv
  <2>2. CASE RoutinePost(o)
    <3>1. /\ cb[o] = "entered" /\ cb' = [cb EXCEPT ![o] = "return"]
          /\ work' = [work EXCEPT ![o] = "queued"] /\ UNCHANGED <<mem, owner, by>>
      BY Zenon, <2>2 DEF RoutinePost, callVars, heapVars
    <3> QED
      BY ONLY SMTT(60), OpInv, o \in Ops, <1>t, <3>1 DEF OpInv
  <2>3. CASE RoutineInline(o) \/ RoutineSkip(o)
    BY SMTT(60), <1>t, <2>3 DEF RoutineInline, RoutineSkip, OpInv
  <2>4. CASE InlineReturn(o) \/ RoutineReturn(o)
    BY SMTT(60), <1>t, <2>4 DEF InlineReturn, RoutineReturn, OpInv
  <2>5. CASE RoutineDelete(o)
    <3>1. /\ cb[o] = "freeing" /\ cb' = [cb EXCEPT ![o] = "return"]
          /\ mem' = [mem EXCEPT ![o] = "freed"] /\ UNCHANGED <<work, owner, by>>
      BY Zenon, <2>5 DEF RoutineDelete, Delete, callVars
    <3> QED
      BY ONLY SMTT(60), OpInv, o \in Ops, <1>t, <3>1 DEF OpInv
  <2> QED
    BY ZenonT(60), <1>4, <2>1, <2>2, <2>3, <2>4, <2>5 DEF RoutineStep
<1>5. ASSUME NEW o \in Ops, UserStep(o) PROVE OpInv'
  <2>1. CASE UserCall(o) \/ UserHandlerReturn(o) \/ UserReturn(o)
    BY SMTT(60), <1>t, <2>1 DEF UserCall, UserHandlerReturn, UserReturn, OpInv
  <2>2. CASE UserDelete(o)
    <3>1. /\ work[o] = "freeing" /\ work' = [work EXCEPT ![o] = "return"]
          /\ mem' = [mem EXCEPT ![o] = "freed"] /\ UNCHANGED <<cb, owner, by>>
      BY Zenon, <2>2 DEF UserDelete, Delete, callVars
    <3> QED
      BY ONLY SMTT(60), OpInv, o \in Ops, <1>t, <3>1 DEF OpInv
  <2> QED
    BY ZenonT(60), <1>5, <2>1, <2>2 DEF UserStep
<1>6. ASSUME NEW o \in Ops, NEW r \in {"Success", "io"}, Complete(o, r) PROVE OpInv'
  BY ZenonT(60), <1>6 DEF Complete, OpInv, TypeOK
<1> QED
  BY ZenonT(60), <1>1, <1>2, <1>3, <1>4, <1>5, <1>6
     DEF Next, vars, create, socket, close, DropReference, Share, CloseStep, CloseWait,
         CloseIo, CloseSocket, Destructor, DropCore

--------------------------------------------------------------------------------
(* Reference counts *)

\* Destroy restores the invariant after references were removed.
LEMMA DestroyRef ==
  ASSUME TypeOK, RefInv, UNCHANGED owner, NEW t, Destroy(t, mem', accepted', held'),
         \A s \in Sockets : Referenced(s, mem', accepted', held')
                              => Referenced(s, mem, accepted, held)
  PROVE  RefInv'
BY Zenon DEF RefInv, Destroy, Referenced, TypeOK

\* delete io_data only removes references.
LEMMA DeleteRef ==
  ASSUME TypeOK, RefInv, UNCHANGED <<owner, accepted, held>>, NEW o \in Ops, NEW t,
         Delete(o, t)
  PROVE  RefInv'
<1>1. \A s \in Sockets : Referenced(s, mem', accepted', held')
                           => Referenced(s, mem, accepted, held)
  BY Zenon DEF Referenced, Delete, TypeOK
<1> QED
  BY Zenon, <1>1, DestroyRef DEF Delete

\* A handler that returns only removes references.
LEMMA HandlerReturnsRef ==
  ASSUME TypeOK, RefInv, UNCHANGED <<owner, accepted, mem>>, NEW o \in Ops,
         HandlerReturns(o)
  PROVE  RefInv'
<1>1. \A s \in Sockets : Referenced(s, mem', accepted', held')
                           => Referenced(s, mem, accepted, held)
  BY SMTT(60) DEF Referenced, HandlerReturns
<1> QED
  BY <1>1, DestroyRef DEF HandlerReturns

\* Calling a handler moves or copies references, of sockets that have one.
LEMMA CallHandlerRef ==
  ASSUME TypeOK, RefInv, UNCHANGED <<owner, mem, obj>>, NEW o \in Ops, mem[o] = "alloc",
         CallHandler(o)
  PROVE  RefInv'
<1> SUFFICES ASSUME NEW s \in Sockets
             PROVE  Referenced(s, mem', accepted', held') <=> Referenced(s, mem, accepted, held)
  BY DEF RefInv, Referenced
<1>1. o \in Callers /\ NoSocket # s
  BY ConstantsAssumption DEF Callers
<1>2. \A x : <<x, s>> \in held' <=> <<x, s>> \in held \/ (x = o /\ s \in {owner[o], accepted[o]})
  BY DEF CallHandler
<1>3. \A p \in Ops : accepted'[p] = IF p = o THEN NoSocket ELSE accepted[p]
  BY DEF CallHandler, TypeOK
<1> QED
  BY Zenon, <1>1, <1>2, <1>3 DEF Referenced

\* Initially no reference exists, so none outlives its object.
LEMMA InitRef == Init => RefInv
BY DEF Init, RefInv, Referenced

\* Every step keeps the reference counts exact.
LEMMA StepRef == TypeOK /\ OpInv /\ RefInv /\ [Next]_vars => RefInv'
<1> SUFFICES ASSUME TypeOK, OpInv, RefInv, [Next]_vars PROVE RefInv'
  OBVIOUS
<1>1. CASE UNCHANGED <<obj, mem, owner, accepted, held>>
  BY SMTT(60), <1>1 DEF RefInv, Referenced
<1>2. ASSUME NEW x \in Callers, NEW s \in Sockets, create(x, s) PROVE RefInv'
  <2>1. obj \in [Sockets -> {"none", "live", "dying", "dead"}]
    BY SMTT(60) DEF TypeOK
  <2> QED
    BY ZenonT(60), <1>2, <2>1 DEF create, RefInv, Referenced
<1>3. ASSUME NEW c \in Clients, NEW s \in Sockets, DropReference(c, s) PROVE RefInv'
  <2>1. \A q \in Sockets : Referenced(q, mem', accepted', held')
                             => Referenced(q, mem, accepted, held)
    BY ZenonT(60), <1>3 DEF DropReference, Referenced
  <2> QED
    BY <1>3, <2>1, DestroyRef DEF DropReference
<1>4. ASSUME NEW x \in Callers, NEW c \in Clients, NEW s \in Sockets, Share(x, c, s)
      PROVE RefInv'
  BY Zenon, <1>4 DEF Share, RefInv, Referenced, TypeOK, Callers
<1>5. ASSUME NEW x \in Callers, NEW s \in Sockets, NEW o \in Ops, NEW h \in BOOLEAN,
             StartSome(x, s, o, h)
      PROVE RefInv'
  <2>1. PICK a \in Handles, k \in AllKinds :
          NewIOData(x, s, a, o, k, h) /\ (a = NoSocket \/ <<x, a>> \in held)
    BY Zenon, <1>5, StartNew
  <2>2. MayStart(x, s) /\ UNCHANGED <<obj, held>>
    BY <1>5, StartEffect
  <2>3. <<x, s>> \in held
    BY SMTT(60), <2>2 DEF MayStart
  <2>4. /\ \A p \in Ops : mem'[p] = IF p = o THEN "alloc" ELSE mem[p]
        /\ \A p \in Ops : owner'[p] = IF p = o THEN s ELSE owner[p]
        /\ \A p \in Ops : accepted'[p] = IF p = o THEN a ELSE accepted[p]
        /\ mem[o] = "none"
    BY <2>1 DEF NewIOData, TypeOK
  <2>5. \A q \in Sockets : Referenced(q, mem, accepted, held)'
                             <=> Referenced(q, mem, accepted, held)
    BY ZenonT(60), <2>1, <2>2, <2>3, <2>4, ConstantsAssumption DEF Referenced
  <2> QED
    BY <2>2, <2>5 DEF RefInv
<1>6. ASSUME NEW o \in Ops, StartStep(o) PROVE RefInv'
  BY ZenonT(60), <1>1, <1>6, DeleteRef DEF StartStep, SystemCall, SystemCallFails, DeleteFailed,
                               CancelThreadpoolIo
<1>7. ASSUME NEW o \in Ops, RoutineStep(o) PROVE RefInv'
  <2>1. CASE RoutineInline(o)
    <3>1. mem[o] = "alloc"
      BY Zenon, <2>1 DEF RoutineInline, OpInv, CbOwns, Outstanding, InRoutine
    <3> QED
      BY ZenonT(60), <2>1, <3>1, CallHandlerRef DEF RoutineInline
  <2>2. CASE InlineReturn(o)
    BY <2>2, HandlerReturnsRef DEF InlineReturn
  <2>3. CASE RoutineDelete(o)
    BY <2>3, DeleteRef DEF RoutineDelete
  <2> QED
    BY ZenonT(60), <1>1, <1>7, <2>1, <2>2, <2>3 DEF RoutineStep, RoutineEnter, RoutinePost, RoutineSkip,
                                        RoutineReturn
<1>8. ASSUME NEW o \in Ops, UserStep(o) PROVE RefInv'
  <2>1. CASE UserCall(o)
    <3>1. mem[o] = "alloc"
      BY <2>1 DEF UserCall, OpInv, WorkOwns
    <3> QED
      BY <2>1, <3>1, CallHandlerRef DEF UserCall
  <2>2. CASE UserHandlerReturn(o)
    BY <2>2, HandlerReturnsRef DEF UserHandlerReturn
  <2>3. CASE UserDelete(o)
    BY ZenonT(60), <2>3, DeleteRef DEF UserDelete
  <2> QED
    BY <1>1, <1>8, <2>1, <2>2, <2>3 DEF UserStep, UserReturn
<1>9. ASSUME NEW s \in Sockets, Destructor(s) PROVE RefInv'
  <2>1. \A q \in Sockets : obj'[q] = "live" <=> obj[q] = "live"
    BY SMTT(60), <1>9 DEF Destructor, TypeOK
  <2> QED
    BY Zenon, <1>9, <2>1 DEF Destructor, RefInv, Referenced
<1> QED
  <2>1. ASSUME NEW x \in Callers, NEW s \in Sockets, socket(x, s) \/ close(x, s)
        PROVE RefInv'
    BY <1>1, <2>1 DEF socket, close
  <2>2. ASSUME NEW x \in Callers, CloseStep(x) PROVE RefInv'
    BY SMTT(60), <1>1, <2>2 DEF CloseStep, CloseWait, CloseIo, CloseSocket
  <2>3. ASSUME NEW o \in Ops, NEW r \in {"Success", "io"}, Complete(o, r) PROVE RefInv'
    BY <1>1, <2>3 DEF Complete
  <2>4. CASE DropCore \/ UNCHANGED vars
    BY <1>1, <2>4 DEF DropCore, vars
  <2> QED
    BY SMTT(60), <1>2, <1>3, <1>4, <1>5, <1>6, <1>7, <1>8, <1>9, <2>1, <2>2, <2>3, <2>4 DEF Next

--------------------------------------------------------------------------------
(* Callers keep their sockets *)

\* Initially no thread is inside a library call.
LEMMA InitCaller == Init => CallerInv
BY SMTT(60) DEF Init, CallerInv, InStart

\* A thread gives up its references only when it is in none of the library's calls.
LEMMA StepCaller == TypeOK /\ OpInv /\ CallerInv /\ [Next]_vars => CallerInv'
<1> SUFFICES ASSUME TypeOK, OpInv, CallerInv, [Next]_vars PROVE CallerInv'
  OBVIOUS
<1>1. CASE held \subseteq held' /\ UNCHANGED <<closing, cb, owner, by>>
  BY <1>1 DEF CallerInv
<1>2. ASSUME NEW x \in Callers, NEW s \in Sockets, close(x, s) PROVE CallerInv'
  BY ZenonT(60), <1>2 DEF close, CallerInv, TypeOK
<1>3. ASSUME NEW c \in Clients, NEW s \in Sockets, DropReference(c, s) PROVE CallerInv'
  BY ZenonT(60), <1>3 DEF DropReference, Idle, CallerInv, Callers
<1>4. ASSUME NEW x \in Callers, CloseStep(x) PROVE CallerInv'
  <2>1. UNCHANGED <<held, cb, owner, by>>
    BY SMTT(60), <1>4 DEF CloseStep, CloseWait, CloseIo, CloseSocket, refVars, callVars
  <2>2. \A y \in Callers : closing'[y].at # "idle" =>
          closing[y].at # "idle" /\ closing'[y].sock = closing[y].sock
    <3>1. CASE CloseWait(x)
      BY <3>1 DEF CloseWait, TypeOK, CloseState
    <3>2. CASE CloseIo(x)
      BY ZenonT(60), <3>2 DEF CloseIo, TypeOK, CloseState
    <3>3. CASE CloseSocket(x)
      BY ZenonT(60), <3>3 DEF CloseSocket, TypeOK, CloseState
    <3> QED
      BY <1>4, <3>1, <3>2, <3>3 DEF CloseStep
  <2> QED
    BY <2>1, <2>2 DEF CallerInv
<1>5. ASSUME NEW x \in Callers, NEW s \in Sockets, NEW o \in Ops, NEW h \in BOOLEAN,
             StartSome(x, s, o, h)
      PROVE CallerInv'
  <2>1. PICK a \in Handles, k \in AllKinds : NewIOData(x, s, a, o, k, h)
    BY Zenon, <1>5, StartNew
  <2>2. MayStart(x, s) /\ UNCHANGED <<held, closing>>
    BY <1>5, StartEffect
  <2>3. StartThreadpoolIo(s, o) \/ UNCHANGED cb
    BY <1>5, StartEffect
  <2>4. mem[o] = "none" /\ cb[o] = "idle"
    BY ZenonT(60), <2>1 DEF NewIOData, OpInv
  <2> QED
    BY ZenonT(60), <2>1, <2>2, <2>3, <2>4
       DEF NewIOData, MayStart, StartThreadpoolIo, CallerInv, TypeOK, InStart
<1>6. ASSUME NEW o \in Ops, StartStep(o) PROVE CallerInv'
  BY ZenonT(60), <1>6 DEF StartStep, SystemCall, SystemCallFails, DeleteFailed, CancelThreadpoolIo,
              CallerInv, TypeOK, InStart
<1>7. ASSUME NEW o \in Ops, HandlerReturns(o), UNCHANGED <<closing, owner, by>>,
             \A p \in Ops : cb'[p] \in InStart => cb[p] \in InStart
      PROVE CallerInv'
  BY Zenon, <1>7 DEF HandlerReturns, Idle, CallerInv, Callers
<1>8. ASSUME NEW o \in Ops, RoutineStep(o) PROVE CallerInv'
  <2>1. UNCHANGED <<closing, owner, by>> /\ (held \subseteq held' \/ HandlerReturns(o))
    BY Zenon, <1>8 DEF RoutineStep, RoutineEnter, RoutinePost, RoutineInline, InlineReturn,
                RoutineSkip, RoutineDelete, RoutineReturn, CallHandler
  <2>2. \A p \in Ops : cb'[p] \in InStart => cb[p] \in InStart
    <3>1. \E to \in InRoutine \cup {"done"} : cb' = [cb EXCEPT ![o] = to]
      BY Zenon, <1>8 DEF RoutineStep, RoutineEnter, RoutinePost, RoutineInline, InlineReturn,
                  RoutineSkip, RoutineDelete, RoutineReturn, InRoutine
    <3> QED
      BY ZenonT(60), <3>1 DEF InStart, InRoutine, TypeOK
  <2> QED
    BY ZenonT(60), <1>7, <2>1, <2>2 DEF CallerInv
<1>9. ASSUME NEW o \in Ops, UserStep(o) PROVE CallerInv'
  <2>1. UNCHANGED <<closing, owner, by, cb>> /\ (held \subseteq held' \/ HandlerReturns(o))
    BY SMTT(60), <1>9 DEF UserStep, UserCall, UserHandlerReturn, UserDelete, UserReturn, CallHandler
  <2> QED
    BY ZenonT(60), <1>1, <1>7, <2>1
<1>10. ASSUME NEW o \in Ops, NEW r \in {"Success", "io"}, Complete(o, r) PROVE CallerInv'
  BY SMTT(60), <1>10 DEF Complete, CallerInv, TypeOK, InStart
<1>11. ASSUME NEW x \in Callers, NEW s \in Sockets, create(x, s) \/ socket(x, s)
       PROVE CallerInv'
  BY <1>1, <1>11 DEF create, socket
<1>12. ASSUME NEW x \in Callers, NEW c \in Clients, NEW s \in Sockets, Share(x, c, s)
       PROVE CallerInv'
  BY <1>1, <1>12 DEF Share
<1>13. ASSUME NEW s \in Sockets, Destructor(s) PROVE CallerInv'
  BY <1>1, <1>13 DEF Destructor
<1>14. CASE DropCore \/ UNCHANGED vars
  BY SMTT(60), <1>1, <1>14 DEF DropCore, vars
<1> QED
  BY SMTT(60), <1>2, <1>3, <1>4, <1>5, <1>6, <1>8, <1>9, <1>10, <1>11, <1>12, <1>13, <1>14 DEF Next

--------------------------------------------------------------------------------
(* close() *)

\* Initially no socket is open and none is being closed.
LEMMA InitClose == Init => CloseInv
BY DEF Init, CloseInv, OutstandingOn, Outstanding, InStart, InRoutine

\* A step that touches no close() and makes no operation outstanding, unless the
\* PTP_IO is open and the socket not being closed, keeps CloseInv.
LEMMA KeepClose ==
  ASSUME CloseInv, TypeOK, UNCHANGED closing,
         "close_races" \notin Env => fault' = "none",
         "close_races" \notin Env => \A s \in Sockets :
           \/ /\ OutstandingOn(s)' \subseteq OutstandingOn(s)
              /\ tpio'[s] = tpio[s] \/ tpio'[s] = "open" \/ OutstandingOn(s) = {}
           \/ tpio'[s] = "open" /\ ~CloseInProgress(s)
  PROVE  CloseInv'
<1>1. CASE "close_races" \in Env
  BY <1>1 DEF CloseInv
<1>2. CASE "close_races" \notin Env
  <2>1. ASSUME NEW s \in Sockets, OutstandingOn(s)' # {} PROVE tpio'[s] = "open"
    BY SMTT(60), <1>2, <2>1 DEF CloseInv
  <2>2. ASSUME NEW x \in Callers, closing[x].at \in {"closeio", "closesocket"}
        PROVE OutstandingOn(closing[x].sock)' = {}
    <3>1. closing[x].sock \in Sockets
      BY ZenonT(60), <2>2 DEF CloseInv, TypeOK, CloseState, Handles
    <3>2. OutstandingOn(closing[x].sock) = {} /\ CloseInProgress(closing[x].sock)
      BY SMTT(60), <1>2, <2>2 DEF CloseInv, CloseInProgress
    <3> QED
      BY <1>2, <3>1, <3>2 DEF OutstandingOn
  <2> QED
    BY ZenonT(60), <1>2, <2>1, <2>2 DEF CloseInv
<1> QED
  BY SMTT(60), <1>1, <1>2

\* Every step keeps close() exclusive and, without races, outside of operations.
LEMMA StepClose == IInv /\ [Next]_vars => CloseInv'
<1> SUFFICES ASSUME IInv, [Next]_vars PROVE CloseInv'
  OBVIOUS
<1>0. TypeOK /\ OpInv /\ RefInv /\ CallerInv /\ CloseInv
  BY DEF IInv
<1>1. \A s \in Sockets : OutstandingOn(s) = {o \in Ops : owner[o] = s /\ cb[o] \in Outstanding}
  BY SMTT(60) DEF OutstandingOn
<1>2. CASE UNCHANGED <<closing, fault, tpio, owner, cb>>
  BY <1>0, <1>2 DEF CloseInv, OutstandingOn
<1>3. ASSUME NEW o \in Ops, cb[o] \in Outstanding, NEW v, cb' = [cb EXCEPT ![o] = v],
             UNCHANGED <<closing, tpio, owner>>,
             "close_races" \notin Env => fault' = "none"
      PROVE CloseInv'
  <2>1. \A s \in Sockets : OutstandingOn(s)' \subseteq OutstandingOn(s)
    BY ZenonT(60), <1>0, <1>3 DEF OutstandingOn, TypeOK
  <2> QED
    BY <1>0, <1>3, <2>1, KeepClose
<1>4. ASSUME NEW x \in Callers, NEW s \in Sockets, socket(x, s) PROVE CloseInv'
  <2>1. \A q \in Sockets : OutstandingOn(q)' = OutstandingOn(q)
    BY Zenon, <1>4 DEF socket, OutstandingOn
  <2>2. \A q \in Sockets : tpio'[q] = tpio[q] \/ tpio'[q] = "open"
    BY ZenonT(60), <1>0, <1>4 DEF socket, OpenSocket, TypeOK
  <2> QED
    BY ZenonT(60), <1>0, <1>4, <2>1, <2>2, KeepClose DEF socket, CloseInv
<1>5. ASSUME NEW s \in Sockets, Destructor(s) PROVE CloseInv'
  <2>1. \A q \in Sockets : OutstandingOn(q)' = OutstandingOn(q)
    BY Zenon, <1>5 DEF Destructor, OutstandingOn
  <2>2. \A q \in Sockets : tpio'[q] = tpio[q] \/ OutstandingOn(q) = {}
    BY ZenonT(60), <1>0, <1>5 DEF Destructor, TypeOK
  <2> QED
    BY ZenonT(60), <1>0, <1>5, <2>1, <2>2, KeepClose DEF Destructor, CloseInv
<1>6. ASSUME NEW x \in Callers, NEW s \in Sockets, close(x, s) PROVE CloseInv'
  <2>1. \A q \in Sockets : OutstandingOn(q)' = OutstandingOn(q)
    BY ZenonT(60), <1>6 DEF close, OutstandingOn
  <2>2. /\ \A y \in Callers : closing'[y] =
             IF y = x
             THEN [sock |-> s, at |-> IF tpio[s] = "open" THEN "wait" ELSE "closesocket"]
             ELSE closing[y]
        /\ \A y \in Callers : closing[y].sock # s
        /\ s # NoSocket
    BY ZenonT(60), <1>0, <1>6, ConstantsAssumption DEF close, TypeOK, CloseInProgress
  <2>3. \A q : OutstandingOn(q)' = OutstandingOn(q)
    BY Zenon, <1>6 DEF close, OutstandingOn
  <2>4. /\ closing'[x].sock = s
        /\ closing'[x].at = IF tpio[s] = "open" THEN "wait" ELSE "closesocket"
        /\ closing'[x].at # "idle"
        /\ \A y \in Callers : y # x => closing'[y] = closing[y]
        /\ UNCHANGED <<tpio, fault>>
    BY SMTT(60), <1>6, <2>2 DEF close, handleVars, envVars
  <2>5. \A y \in Callers : closing'[y].at = "idle" <=> closing'[y].sock = NoSocket
    BY SMTT(60), <1>0, <2>2, <2>4 DEF CloseInv
  <2>6. \A y, z \in Callers :
          closing'[y].at # "idle" /\ closing'[y].sock = closing'[z].sock => y = z
    BY SMTT(60), <1>0, <2>2, <2>4 DEF CloseInv
  <2>7. "close_races" \notin Env =>
          \A y \in Callers : closing'[y].at \in {"closeio", "closesocket"}
            => OutstandingOn(closing'[y].sock) = {}
    BY <1>0, <2>4 DEF CloseInv
  <2> QED
    BY <1>0, <2>3, <2>4, <2>5, <2>6, <2>7 DEF CloseInv
<1>7. ASSUME NEW x \in Callers, CloseStep(x) PROVE CloseInv'
  <2>1. \A q : OutstandingOn(q)' = OutstandingOn(q)
    BY <1>7 DEF CloseStep, CloseWait, CloseIo, CloseSocket, OutstandingOn
  <2>2. closing[x].sock \in Handles
    BY <1>0 DEF TypeOK, CloseState
  <2>3. CASE CloseWait(x)
    <3>1. \A y \in Callers : closing'[y].sock = closing[y].sock
                             /\ closing'[y].at = IF y = x THEN "closeio" ELSE closing[y].at
      BY SMTT(60), <1>0, <2>3 DEF CloseWait, TypeOK, CloseState
    <3> QED
      BY SMTT(60), <1>0, <2>1, <2>3, <3>1 DEF CloseWait, CloseInv
  <2>4. CASE CloseIo(x)
    <3>1. \A y \in Callers : closing'[y].sock = closing[y].sock
                             /\ closing'[y].at = IF y = x THEN "closesocket" ELSE closing[y].at
      BY <1>0, <2>4 DEF CloseIo, TypeOK, CloseState
    <3>2. \A q \in Sockets : tpio'[q] = IF q = closing[x].sock THEN "null" ELSE tpio[q]
      BY ZenonT(60), <1>0, <2>4 DEF CloseIo, TypeOK
    <3> QED
      <4>1. closing[x].at = "closeio" /\ UNCHANGED fault
        BY ZenonT(60), <2>4 DEF CloseIo
      <4>2. "close_races" \notin Env => OutstandingOn(closing[x].sock) = {}
        BY <1>0, <4>1 DEF CloseInv
      <4>3. "close_races" \notin Env =>
              \A q \in Sockets : OutstandingOn(q)' # {} => tpio'[q] = "open"
        BY ZenonT(60), <1>0, <2>1, <3>2, <4>2 DEF CloseInv
      <4>4. "close_races" \notin Env =>
              \A y \in Callers : closing'[y].at \in {"closeio", "closesocket"}
                                   => OutstandingOn(closing[y].sock)' = {}
        BY <1>0, <2>1, <3>1, <4>2 DEF CloseInv
      <4> QED
        BY <1>0, <3>1, <4>1, <4>3, <4>4 DEF CloseInv
  <2>5. CASE CloseSocket(x)
    <3>1. \A y \in Callers : closing'[y] = IF y = x THEN [sock |-> NoSocket, at |-> "idle"]
                                           ELSE closing[y]
      BY <1>0, <2>5 DEF CloseSocket, TypeOK
    <3> QED
      BY SMTT(60), <1>0, <2>1, <2>5, <3>1 DEF CloseSocket, CloseInv
  <2> QED
    BY <1>7, <2>3, <2>4, <2>5 DEF CloseStep
<1>8. ASSUME NEW x \in Callers, NEW s \in Sockets, NEW o \in Ops, NEW h \in BOOLEAN,
             StartSome(x, s, o, h)
      PROVE CloseInv'
  <2>1. PICK a \in Handles, k \in AllKinds : NewIOData(x, s, a, o, k, h)
    BY ZenonT(60), <1>8, StartNew
  <2>2. /\ MayStart(x, s) /\ UNCHANGED closing
        /\ StartThreadpoolIo(s, o) \/ UNCHANGED <<cb, fault>>
        /\ tpio' = tpio \/ \E b \in Sockets : tpio' = [tpio EXCEPT ![b] = "open"]
    BY SMTT(60), <1>0, <1>8, StartEffect
  <2>3. \A q \in Sockets : tpio'[q] = tpio[q] \/ tpio'[q] = "open"
    BY <1>0, <2>2 DEF TypeOK
  <2>4. cb[o] = "idle"
    BY ZenonT(60), <1>0, <2>1 DEF NewIOData, OpInv
  <2>5. \A p \in Ops : p # o => owner'[p] = owner[p] /\ cb'[p] = cb[p]
    BY <1>0, <2>1, <2>2 DEF NewIOData, StartThreadpoolIo, TypeOK
  <2>6. owner'[o] = s /\ cb'[o] \in {"idle", "started"}
    BY ZenonT(60), <1>0, <2>1, <2>2, <2>4 DEF NewIOData, StartThreadpoolIo, TypeOK
  <2>7. \A q \in Sockets : q # s => OutstandingOn(q)' \subseteq OutstandingOn(q)
    BY ZenonT(60), <2>5, <2>6 DEF OutstandingOn
  <2>8. "close_races" \notin Env => tpio[s] = "open" /\ ~CloseInProgress(s)
    BY ZenonT(60), <2>2 DEF MayStart
  <2>9. "close_races" \notin Env => fault' = "none"
    BY ZenonT(60), <1>0, <2>2, <2>8 DEF StartThreadpoolIo, CloseInv
  <2> QED
    BY <1>0, <2>2, <2>3, <2>7, <2>8, <2>9, KeepClose
<1>9. ASSUME NEW o \in Ops, StartStep(o) PROVE CloseInv'
  <2> USE DEF Outstanding, InStart
  <2>1. CASE SystemCall(o) \/ SystemCallFails(o) \/ DeleteFailed(o)
    BY ZenonT(60), <1>0, <1>3, <2>1 DEF SystemCall, SystemCallFails, DeleteFailed, CloseInv
  <2>2. CASE CancelThreadpoolIo(o)
    <3>1. owner[o] \in Sockets /\ o \in OutstandingOn(owner[o]) /\ cb[o] = "undo"
      BY ZenonT(60), <1>0, <2>2 DEF CancelThreadpoolIo, OpInv, OutstandingOn
    <3>2. obj[owner[o]] = "live"
      <4>1. <<by[o], owner[o]>> \in held /\ by[o] \in Callers
        BY ZenonT(60), <1>0, <3>1 DEF CallerInv, OpInv
      <4> QED
        BY ZenonT(60), <1>0, <3>1, <4>1 DEF RefInv, Referenced
    <3>3. "close_races" \notin Env => tpio[owner[o]] = "open"
      BY <1>0, <3>1 DEF CloseInv
    <3>4. "close_races" \notin Env => fault' = "none"
      BY ZenonT(60), <2>2, <3>2, <3>3 DEF CancelThreadpoolIo
    <3> QED
      BY ZenonT(60), <1>3, <2>2, <3>4 DEF CancelThreadpoolIo
  <2> QED
    BY ZenonT(60), <1>9, <2>1, <2>2 DEF StartStep
<1>10. ASSUME NEW o \in Ops, RoutineStep(o) PROVE CloseInv'
  BY ZenonT(60), <1>0, <1>3, <1>10
     DEF RoutineStep, RoutineEnter, RoutinePost, RoutineInline, InlineReturn, RoutineSkip,
         RoutineDelete, RoutineReturn, CloseInv, Outstanding, InRoutine
<1>11. ASSUME NEW o \in Ops, NEW r \in {"Success", "io"}, Complete(o, r) PROVE CloseInv'
  BY ZenonT(60), <1>0, <1>3, <1>11 DEF Complete, CloseInv, Outstanding
<1>12. ASSUME NEW o \in Ops, UserStep(o) PROVE CloseInv'
  BY <1>2, <1>12 DEF UserStep, UserCall, UserHandlerReturn, UserDelete, UserReturn
<1>13. ASSUME NEW x \in Callers, NEW s \in Sockets, create(x, s) PROVE CloseInv'
  BY <1>2, <1>13 DEF create
<1>14. ASSUME NEW c \in Clients, NEW s \in Sockets,
              DropReference(c, s) \/ \E x \in Callers : Share(x, c, s)
       PROVE CloseInv'
  BY ZenonT(60), <1>2, <1>14 DEF DropReference, Share
<1>15. CASE DropCore \/ UNCHANGED vars
  BY <1>2, <1>15 DEF DropCore, vars
<1> QED
  BY <1>4, <1>5, <1>6, <1>7, <1>8, <1>9, <1>10, <1>11, <1>12, <1>13, <1>14, <1>15 DEF Next

--------------------------------------------------------------------------------
(* The theorems *)

(***************************************************************************)
(* IInv holds in every reachable state: the heap cell, the callback and the*)
(* closure of each IOData agree, shared_ptr counts are exact, callers keep *)
(* their sockets alive, and close() is exclusive.                          *)
(***************************************************************************)
THEOREM Invariance == Spec => []IInv
<1>1. Init => IInv
  BY InitType, InitOp, InitRef, InitCaller, InitClose DEF IInv
<1>2. IInv /\ [Next]_vars => IInv'
  BY StepType, StepOp, StepRef, StepCaller, StepClose DEF IInv
<1> QED
  BY <1>1, <1>2, PTL DEF Spec

(***************************************************************************)
(* No use after free and no double free of an IOData, whatever fails and   *)
(* however handlers and close() race: start_*, the kernel,                 *)
(* socket_io_routine and the posted closure only touch allocated ones.     *)
(***************************************************************************)
THEOREM IoDataSafety == Spec => []IoDataSafe
<1>1. IInv => IoDataSafe
  BY DEF IInv, OpInv, IoDataSafe, CbOwns, WorkOwns
<1> QED
  BY <1>1, Invariance, PTL

(***************************************************************************)
(* A WinSocket is not destroyed under a start_* call, a pending operation, *)
(* a callback with work left or a handler; ~WinSocket waits at most for    *)
(* callbacks that are returning.                                           *)
(***************************************************************************)
THEOREM SocketLifetime == Spec => []SocketOutlivesOps
<1>1. IInv => SocketOutlivesOps
  <2> SUFFICES ASSUME IInv, NEW o \in Ops,
                      cb[o] \in Outstanding \ {"return"} \/ work[o] \in WorkOwns
               PROVE  obj[owner[o]] = "live"
    BY ZenonT(60) DEF SocketOutlivesOps, WorkOwns
  <2>1. CASE cb[o] = "undo"
    <3>1. <<by[o], owner[o]>> \in held
      BY <2>1 DEF IInv, CallerInv, InStart
    <3>2. owner[o] \in Sockets /\ by[o] \in Callers
      BY SMTT(60), <2>1 DEF IInv, OpInv
    <3> QED
      BY <3>1, <3>2 DEF IInv, RefInv, Referenced
  <2>2. CASE cb[o] # "undo"
    <3>1. mem[o] = "alloc"
      BY <2>2 DEF IInv, OpInv, CbOwns
    <3>2. owner[o] \in Sockets
      BY <3>1 DEF IInv, OpInv
    <3> QED
      BY <3>1, <3>2 DEF IInv, RefInv, Referenced
  <2> QED
    BY ZenonT(60), <2>1, <2>2
<1> QED
  BY <1>1, Invariance, PTL

(***************************************************************************)
(* If handlers do not start operations on a socket another thread closes,  *)
(* StartThreadpoolIo and CancelThreadpoolIo never see a null PTP_IO.       *)
(***************************************************************************)
THEOREM FaultFreedom == ASSUME "close_races" \notin Env PROVE Spec => []NoFault
<1>1. IInv => NoFault
  BY SMTT(60) DEF IInv, CloseInv, NoFault
<1> QED
  BY <1>1, Invariance, PTL

\* The PTP_IO of a socket is closed by close() and by ~WinSocket only, after a wait.
LEMMA CloseIoStep ==
  ASSUME IInv, "close_races" \notin Env, [Next]_vars, NEW s \in Sockets,
         tpio[s] = "open", tpio'[s] = "null"
  PROVE  OutstandingOn(s) = {}
<1>0. TypeOK /\ CloseInv
  BY DEF IInv
<1>1. ASSUME NEW x \in Callers, CloseStep(x) PROVE OutstandingOn(s) = {}
  <2>1. CloseIo(x)
    BY <1>1 DEF CloseStep, CloseWait, CloseSocket
  <2>2. s = closing[x].sock
    BY SMTT(60), <1>0, <2>1 DEF CloseIo, TypeOK
  <2> QED
    BY SMTT(60), <1>0, <2>1, <2>2 DEF CloseIo, CloseInv
<1>2. ASSUME NEW q \in Sockets, Destructor(q) PROVE OutstandingOn(s) = {}
  BY SMTT(60), <1>0, <1>2 DEF Destructor, TypeOK
<1>3. ASSUME NEW x \in Callers, NEW q \in Sockets, NEW o \in Ops, NEW h \in BOOLEAN,
             StartSome(x, q, o, h)
      PROVE FALSE
  <2>1. tpio' = tpio \/ \E a \in Sockets : tpio' = [tpio EXCEPT ![a] = "open"]
    BY <1>0, <1>3, StartEffect
  <2> QED
    BY <1>0, <2>1 DEF TypeOK
<1>4. ASSUME NEW x \in Callers, NEW q \in Sockets, socket(x, q) PROVE FALSE
  BY ZenonT(60), <1>0, <1>4 DEF socket, OpenSocket, TypeOK
<1>5. ASSUME NEW o \in Ops,
             StartStep(o) \/ RoutineStep(o) \/ UserStep(o)
             \/ \E r \in {"Success", "io"} : Complete(o, r)
      PROVE UNCHANGED tpio
  BY ZenonT(60), <1>5 DEF StartStep, SystemCall, SystemCallFails, DeleteFailed, CancelThreadpoolIo,
              RoutineStep, RoutineEnter, RoutinePost, RoutineInline, InlineReturn,
              RoutineSkip, RoutineDelete, RoutineReturn, UserStep, UserCall,
              UserHandlerReturn, UserDelete, UserReturn, Complete
<1>6. ASSUME NEW q \in Sockets,
             \/ \E x \in Callers : create(x, q) \/ close(x, q)
             \/ \E c \in Clients : DropReference(c, q) \/ \E x \in Callers : Share(x, c, q)
      PROVE UNCHANGED tpio
  BY Zenon, <1>6 DEF create, close, DropReference, Share
<1>7. ASSUME DropCore \/ UNCHANGED vars PROVE UNCHANGED tpio
  BY <1>7 DEF DropCore, vars
<1> QED
  BY <1>1, <1>2, <1>3, <1>4, <1>5, <1>6, <1>7 DEF Next

(***************************************************************************)
(* Under the same condition CloseThreadpoolIo is only called on a PTP_IO   *)
(* without outstanding operations, by close() as by ~WinSocket.            *)
(***************************************************************************)
THEOREM QuiescentClose == ASSUME "close_races" \notin Env PROVE Spec => QuiescentCloseIo
<1>1. IInv /\ [Next]_vars =>
        [\A s \in Sockets : tpio[s] = "open" /\ tpio'[s] = "null" => OutstandingOn(s) = {}]_vars
  BY CloseIoStep
<1> QED
  BY <1>1, Invariance, PTL DEF Spec, QuiescentCloseIo

--------------------------------------------------------------------------------
(* The IO pool stays out of destructors *)

\* Every operation has a handler, the core lives, and posting it succeeds.
Forwarded == Env \cap {"no_handler", "post_fails", "core_expires"} = {}

\* Then the routine neither calls a handler nor deletes an IOData itself.
PoolInv ==
  /\ core = "up"
  /\ \A o \in Ops : mem[o] # "none" => handler[o]
  /\ \A o \in Ops : cb[o] \notin {"inline", "freeing"}
  /\ \A s \in Sockets, o \in Ops : dtor[s] # <<"io", o>>

\* Callers of the library run on client or user pool threads.
LEMMA OffIoThread ==
  ASSUME PoolInv, NEW x \in Callers PROVE \A o \in Ops : ThreadOf(x) # <<"io", o>>
BY DEF PoolInv, ThreadOf, Callers

\* Destroy by a thread outside the IO pool.
LEMMA DestroyOffIoThread ==
  ASSUME TypeOK, PoolInv, NEW t, \A o \in Ops : t # <<"io", o>>, NEW m, NEW a, NEW h,
         Destroy(t, m, a, h)
  PROVE  \A s \in Sockets, o \in Ops : dtor'[s] # <<"io", o>>
BY Zenon DEF Destroy, PoolInv, TypeOK

\* Every step keeps the IO pool out.
LEMMA StepPool == ASSUME Forwarded PROVE IInv /\ PoolInv /\ [Next]_vars => PoolInv'
<1> SUFFICES ASSUME IInv, PoolInv, [Next]_vars PROVE PoolInv'
  OBVIOUS
<1>0. TypeOK /\ OpInv
  BY SMTT(60) DEF IInv
<1>1. CASE UNCHANGED <<core, mem, handler, cb, dtor>>
  BY <1>1 DEF PoolInv
<1>2. ASSUME NEW c \in Clients, NEW s \in Sockets, DropReference(c, s) PROVE PoolInv'
  <2>1. \A o \in Ops : <<"client", c>> # <<"io", o>>
    BY ZenonT(60)
  <2>2. \A q \in Sockets, o \in Ops : dtor'[q] # <<"io", o>>
    BY ZenonT(60), <1>0, <1>2, <2>1, DestroyOffIoThread DEF DropReference
  <2> QED
    BY ZenonT(60), <1>2, <2>2 DEF DropReference, PoolInv
<1>3. ASSUME NEW x \in Callers, NEW s \in Sockets, NEW o \in Ops, NEW h \in BOOLEAN,
             StartSome(x, s, o, h)
      PROVE PoolInv'
  <2>1. PICK a \in Handles, k \in AllKinds : NewIOData(x, s, a, o, k, h)
    BY Zenon, <1>3, StartNew
  <2>2. h
    BY <2>1 DEF NewIOData, Forwarded
  <2>3. UNCHANGED <<core, dtor>> /\ (StartThreadpoolIo(s, o) \/ UNCHANGED cb)
    BY SMTT(60), <1>0, <1>3, StartEffect
  <2>4. \A p \in Ops : cb'[p] \notin {"inline", "freeing"}
    BY SMTT(60), <1>0, <2>3 DEF StartThreadpoolIo, PoolInv, TypeOK
  <2>5. \A p \in Ops : mem'[p] # "none" => handler'[p]
    BY <1>0, <2>1, <2>2 DEF NewIOData, PoolInv, TypeOK
  <2> QED
    BY <2>3, <2>4, <2>5 DEF PoolInv
<1>4. ASSUME NEW o \in Ops, StartStep(o) PROVE PoolInv'
  <2>1. CASE DeleteFailed(o)
    <3>1. by[o] \in Callers /\ mem[o] = "alloc"
      BY ZenonT(60), <1>0, <2>1 DEF DeleteFailed, OpInv, CbOwns, Outstanding, InStart
    <3>2. \A q \in Sockets, p \in Ops : dtor'[q] # <<"io", p>>
      BY Zenon, <1>0, <2>1, <3>1, OffIoThread, DestroyOffIoThread DEF DeleteFailed, Delete
    <3>3. UNCHANGED <<core, handler>>
      BY <2>1 DEF DeleteFailed, callVars, envVars
    <3>4. \A p \in Ops : cb'[p] \notin {"inline", "freeing"}
      BY ZenonT(60), <1>0, <2>1 DEF DeleteFailed, PoolInv, TypeOK
    <3>5. \A p \in Ops : mem'[p] # "none" => handler'[p]
      BY ZenonT(60), <1>0, <2>1, <3>1, <3>3 DEF DeleteFailed, Delete, PoolInv, TypeOK
    <3> QED
      BY ZenonT(60), <1>0, <3>2, <3>3, <3>4, <3>5 DEF PoolInv
  <2>2. CASE SystemCall(o) \/ SystemCallFails(o) \/ CancelThreadpoolIo(o)
    BY SMTT(60), <1>0, <2>2 DEF SystemCall, SystemCallFails, CancelThreadpoolIo, PoolInv, TypeOK
  <2> QED
    BY ZenonT(60), <1>4, <2>1, <2>2 DEF StartStep
<1>5. ASSUME NEW o \in Ops, RoutineStep(o) PROVE PoolInv'
  <2>1. ~RoutineInline(o)
    BY ZenonT(60) DEF RoutineInline, Forwarded
  <2>2. ~RoutineSkip(o)
    <3>1. cb[o] = "entered" => handler[o]
      BY ZenonT(60), <1>0 DEF OpInv, PoolInv, CbOwns, Outstanding, InRoutine
    <3> QED
      BY Zenon, <3>1 DEF RoutineSkip, PoolInv
  <2>3. ~InlineReturn(o) /\ ~RoutineDelete(o)
    BY DEF InlineReturn, RoutineDelete, PoolInv
  <2>4. (\E ctx \in {"Success", "context"} : RoutineEnter(o, ctx))
        \/ RoutinePost(o) \/ RoutineReturn(o)
    BY <1>5, <2>1, <2>2, <2>3 DEF RoutineStep
  <2> QED
    BY SMTT(60), <1>0, <2>4 DEF RoutineEnter, RoutinePost, RoutineReturn, PoolInv, TypeOK
<1>6. ASSUME NEW o \in Ops, UserStep(o) PROVE PoolInv'
  <2>1. o \in Callers /\ \A p \in Ops : <<"user", o>> # <<"io", p>>
    BY DEF Callers
  <2>2. CASE UserHandlerReturn(o)
    <3>1. \A q \in Sockets, p \in Ops : dtor'[q] # <<"io", p>>
      BY ZenonT(60), <1>0, <2>1, <2>2, OffIoThread, DestroyOffIoThread DEF UserHandlerReturn, HandlerReturns
    <3> QED
      BY ZenonT(60), <2>2, <3>1 DEF UserHandlerReturn, PoolInv
  <2>3. CASE UserDelete(o)
    <3>1. \A q \in Sockets, p \in Ops : dtor'[q] # <<"io", p>>
      <4>1. Destroy(<<"user", o>>, [mem EXCEPT ![o] = "freed"], accepted, held)
        BY ZenonT(60), <2>3 DEF UserDelete, Delete
      <4> QED
        BY ZenonT(60), <1>0, <2>1, <4>1, DestroyOffIoThread
    <3>2. mem[o] = "alloc"
      <4>1. work[o] \in WorkOwns
        BY Zenon, <2>3 DEF UserDelete, WorkOwns
      <4> QED
        BY Zenon, <1>0, <4>1 DEF OpInv
    <3> QED
      BY ZenonT(60), <1>0, <2>3, <3>1, <3>2 DEF UserDelete, Delete, PoolInv, TypeOK
  <2>4. CASE UserCall(o) \/ UserReturn(o)
    BY SMTT(60), <1>1, <2>4 DEF UserCall, UserReturn
  <2> QED
    BY <1>6, <2>2, <2>3, <2>4 DEF UserStep
<1>7. ASSUME NEW o \in Ops, NEW r \in {"Success", "io"}, Complete(o, r) PROVE PoolInv'
  BY SMTT(60), <1>0, <1>7 DEF Complete, PoolInv, TypeOK
<1>8. ASSUME NEW x \in Callers, NEW s \in Sockets, create(x, s) \/ socket(x, s) \/ close(x, s)
      PROVE PoolInv'
  BY Zenon, <1>1, <1>8 DEF create, socket, close
<1>9. ASSUME NEW x \in Callers, CloseStep(x) PROVE PoolInv'
  BY <1>1, <1>9 DEF CloseStep, CloseWait, CloseIo, CloseSocket
<1>10. ASSUME NEW s \in Sockets,
              Destructor(s) \/ \E x \in Callers, c \in Clients : Share(x, c, s)
       PROVE PoolInv'
  BY Zenon, <1>1, <1>10 DEF Destructor, Share
<1>11. CASE UNCHANGED vars
  BY <1>1, <1>11 DEF vars
<1>12. ~DropCore
  BY DEF DropCore, Forwarded
<1> QED
  BY <1>2, <1>3, <1>4, <1>5, <1>6, <1>7, <1>8, <1>9, <1>10, <1>11, <1>12 DEF Next

(***************************************************************************)
(* If every operation has a handler, the IOCore lives and posting succeeds,*)
(* ~WinSocket never runs inside the callback it waits for.                 *)
(***************************************************************************)
THEOREM NoSelfWaitTheorem == ASSUME Forwarded PROVE Spec => []NoSelfWait
<1>1. Init => PoolInv
  BY DEF Init, PoolInv
<1>2. IInv /\ PoolInv /\ [Next]_vars => PoolInv'
  BY StepPool
<1>3. PoolInv => NoSelfWait
  BY Zenon DEF PoolInv, NoSelfWait
<1> QED
  BY <1>1, <1>2, <1>3, Invariance, PTL DEF Spec
================================================================================
