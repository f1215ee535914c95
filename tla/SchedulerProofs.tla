--------------------------- MODULE SchedulerProofs ---------------------------
(***************************************************************************)
(* Proofs about Scheduler, for any tasks, executors, threads and bounds.   *)
(***************************************************************************)
EXTENDS Scheduler, SequenceLemmas, FiniteSetTheorems, TLAPS

-----------------------------------------------------------------------------
(* The inductive invariant.                                                 *)

(* A caller inside the manager has a task, an executor inside it is         *)
(* polling, and an executor that forwards a task has one.                   *)
CallerInv ==
  /\ \A c \in Callers : cpc[c] \in Inside => ctask[c] \in Tasks
  /\ \A c \in Callers : cpc[c] = "send" => cexec[c] \in Executors
  /\ \A e \in Executors : cpc[e] \in Inside => epc[e] = "poll"
  /\ \A e \in Executors : epc[e] \in {"lock", "poll"} => cur[e] \in Tasks

(* An executor's channel holds at most one task, and none while it works.   *)
ChannelInv ==
  \A e \in Executors :
    /\ Len(ready_queue[e]) <= 1
    /\ epc[e] # "recv" => ready_queue[e] = <<>>

(* No executor id is queued twice or popped by two callers.                 *)
ClaimUnique ==
  /\ Injective(waiting_executors)
  /\ \A c, d \in Callers :
       cpc[c] = "send" /\ cpc[d] = "send" /\ cexec[c] = cexec[d] => c = d

TokenInv == ChannelInv /\ ClaimUnique /\ ExecutorAccounted

IInv == TypeOK /\ CallerInv /\ TokenInv

(* Parked as membership, so that the lemmas on sequences apply.             *)
LEMMA ParkedIn == \A e : Parked(e) <=> In(waiting_executors, e)
BY DEF Parked, In

(* The entry into register_or_execute_non_blocking_task keeps every type:   *)
(* the part of the step that Spawn, Wake and WakeSelf share.                *)
LEMMA RegisterType ==
  ASSUME TypeOK, NEW c \in Callers, NEW t \in Tasks, Register(c, t)
  PROVE  /\ cpc' \in [Callers -> CallerPC]
         /\ ctask' \in [Callers -> Tasks \cup {None}]
         /\ cexec' \in [Callers -> Executors \cup {None}]
<1>1. CASE RegisterSkips(t)
  BY <1>1 DEF Register, TypeOK, callVars
<1>2. CASE ~RegisterSkips(t)
  BY <1>2 DEF Register, TypeOK, CallerPC, Inside
<1>3. QED
  BY <1>1, <1>2

(* So does the pop of waiting_executors.                                    *)
LEMMA PopType ==
  ASSUME TypeOK, NEW c \in Callers, RegisterPop(c)
  PROVE  /\ waiting_executors' \in Seq(Executors)
         /\ cpc' \in [Callers -> CallerPC]
         /\ cexec' \in [Callers -> Executors \cup {None}]
<1>1. CASE waiting_executors # <<>>
  <2>1. Head(waiting_executors) \in Executors /\ Tail(waiting_executors) \in Seq(Executors)
    BY <1>1, TailMember DEF TypeOK
  <2>2. QED
    BY <1>1, <2>1 DEF RegisterPop, TypeOK, CallerPC, Inside
<1>2. CASE waiting_executors = <<>>
  BY <1>2 DEF RegisterPop, TypeOK, CallerPC, Inside
<1>3. QED
  BY <1>1, <1>2

(* Every step of the scheduler keeps the types of its variables.            *)
LEMMA TypeStep ==
  ASSUME TypeOK, CallerInv, [Next]_vars
  PROVE  TypeOK'
<1> USE SchedulerAssumption DEF managerVars, callVars, taskVars, panicVars
<1>1. CASE UNCHANGED vars
  BY <1>1 DEF TypeOK, vars
<1>2. ASSUME NEW c \in Callers, NEW t \in Tasks, Spawn(c, t)
      PROVE  TypeOK'
  BY <1>2, RegisterType DEF TypeOK, Spawn, CountCall, FutureState
<1>3. ASSUME NEW c \in Callers, NEW t \in Tasks, NEW keep \in BOOLEAN, Wake(c, t, keep)
      PROVE  TypeOK'
  <2>1. wakers' \in [Tasks -> BOOLEAN]
    BY <1>3, Zenon DEF TypeOK, Wake
  <2>2. QED
    BY <1>3, <2>1, RegisterType DEF TypeOK, Wake, CountCall
<1>4. ASSUME NEW e \in Executors, WakeSelf(e)
      PROVE  TypeOK'
  <2>1. cur[e] \in Tasks /\ e \in Callers /\ Register(e, cur[e])
    BY <1>4 DEF WakeSelf, CanCall, CallerInv, Callers
  <2>2. QED
    BY <1>4, <2>1, RegisterType DEF TypeOK, WakeSelf, CountCall
<1>5. ASSUME NEW e \in Executors, StoreWaker(e)
      PROVE  TypeOK'
  <2>1. wakers' \in [Tasks -> BOOLEAN]
    BY <1>5, Zenon DEF TypeOK, StoreWaker
  <2>2. QED
    BY <1>5, <2>1 DEF TypeOK, StoreWaker
<1>6. ASSUME NEW c \in Callers, RegisterSend(c)
      PROVE  TypeOK'
  <2>1. ctask[c] \in Tasks /\ cexec[c] \in Executors
    BY <1>6 DEF RegisterSend, CallerInv, Inside
  <2>2. Append(ready_queue[cexec[c]], ctask[c]) \in Seq(Tasks)
    BY <2>1, AppendMember DEF TypeOK
  <2>3. QED
    BY <1>6, <2>1, <2>2 DEF TypeOK, RegisterSend, ReturnToCaller, CallerPC
<1>7. ASSUME NEW c \in Callers, RegisterPush(c)
      PROVE  TypeOK'
  <2>1. ctask[c] \in Tasks
    BY <1>7 DEF RegisterPush, CallerInv, Inside
  <2>2. Append(waiting_tasks, ctask[c]) \in Seq(Tasks)
    BY <2>1, AppendMember DEF TypeOK
  <2>3. QED
    BY <1>7, <2>2 DEF TypeOK, RegisterPush, ReturnToCaller, CallerPC
<1>8. ASSUME NEW c \in Callers, RegisterPushFull(c)
      PROVE  TypeOK'
  <2>1. CASE c \in Executors
    <3>1. cur[c] \in Tasks
      BY <1>8, <2>1 DEF RegisterPushFull, CallerInv, Inside
    <3>2. /\ cpc' \in [Callers -> CallerPC]
          /\ ctask' \in [Callers -> Tasks \cup {None}]
          /\ epc' \in [Executors -> ExecutorPC]
          /\ cur' \in [Executors -> Tasks \cup {None}]
      BY <1>8, <2>1 DEF TypeOK, RegisterPushFull, CallerPC, ExecutorPC
    <3>3. future' \in [Tasks -> FutureState] /\ completed' \subseteq Tasks
      <4>1. /\ future' = [future EXCEPT ![cur[c]] = "poisoned"]
            /\ completed' = completed \cup {cur[c]}
        BY <1>8, <2>1 DEF RegisterPushFull
      <4>2. QED
        BY <3>1, <4>1 DEF TypeOK, FutureState
    <3>4. QED
      BY <1>8, <3>2, <3>3 DEF TypeOK, RegisterPushFull
  <2>2. CASE c \notin Executors
    BY <1>8, <2>2 DEF TypeOK, RegisterPushFull, CallerPC
  <2>3. QED
    BY <2>1, <2>2
<1>9. ASSUME NEW e \in Executors, ExecutorStep(e)
      PROVE  TypeOK'
  <2>1. CASE Recv(e)
    <3>1. Head(ready_queue[e]) \in Tasks /\ Tail(ready_queue[e]) \in Seq(Tasks)
      BY <2>1, TailMember DEF TypeOK, Recv
    <3>2. QED
      BY <2>1, <3>1 DEF TypeOK, Recv, ExecutorPC
  <2>2. CASE LockFuture(e)
    BY <2>2 DEF TypeOK, LockFuture, ExecutorPC, AfterTask
  <2>3. CASE PollPending(e)
    BY <2>3 DEF TypeOK, PollPending, EndPoll, ExecutorPC, AfterTask
  <2>4. CASE PollReady(e)
    <3>1. cur[e] \in Tasks
      BY <2>4 DEF PollReady, EndPoll, CallerInv
    <3>2. QED
      BY <2>4, <3>1 DEF TypeOK, PollReady, EndPoll, ExecutorPC, AfterTask, AfterReady, FutureState
  <2>5. CASE PollPanic(e)
    <3>1. cur[e] \in Tasks
      BY <2>5 DEF PollPanic, EndPoll, CallerInv
    <3>2. QED
      BY <2>5, <3>1 DEF TypeOK, PollPanic, EndPoll, ExecutorPC, FutureState
  <2>6. CASE SendPanic(e)
    BY <2>6 DEF TypeOK, SendPanic, PanicChannelHasRoom, ExecutorPC, AfterTask
  <2>7. CASE ExecutorDies(e)
    BY <2>7 DEF TypeOK, ExecutorDies, PanicChannelHasRoom, ExecutorPC
  <2>8. CASE ExecutorReady(e)
    <3>1. CASE waiting_tasks = <<>>
      BY <2>8, <3>1 DEF TypeOK, ExecutorReady, ExecutorPC
    <3>2. CASE waiting_tasks # <<>>
      <4>1. Head(waiting_tasks) \in Tasks /\ Tail(waiting_tasks) \in Seq(Tasks)
        BY <3>2, TailMember DEF TypeOK
      <4>2. Append(ready_queue[e], Head(waiting_tasks)) \in Seq(Tasks)
        BY <4>1, AppendMember DEF TypeOK
      <4>3. CASE ReadySkips(Head(waiting_tasks))
        BY <2>8, <3>2, <4>1, <4>3 DEF TypeOK, ExecutorReady
      <4>4. CASE ~ReadySkips(Head(waiting_tasks))
        <5>1. /\ waiting_tasks' = Tail(waiting_tasks)
              /\ ready_queue' = [ready_queue EXCEPT ![e] = Append(@, Head(waiting_tasks))]
              /\ epc' = [epc EXCEPT ![e] = "recv"]
              /\ UNCHANGED <<waiting_executors, cur, callVars, taskVars, panicVars, calls>>
          BY <2>8, <3>2, <4>4 DEF ExecutorReady, AfterSelfSend
        <5>2. QED
          BY <4>1, <4>2, <5>1 DEF TypeOK, ExecutorPC
      <4>5. QED
        BY <4>3, <4>4
    <3>3. QED
      BY <3>1, <3>2
  <2>9. CASE PushExecutor(e)
    <3>1. Append(waiting_executors, e) \in Seq(Executors)
      BY AppendMember DEF TypeOK
    <3>2. QED
      BY <2>9, <3>1 DEF TypeOK, PushExecutor, ExecutorPC
  <2>10. QED
    BY <1>9, <2>1, <2>2, <2>3, <2>4, <2>5, <2>6, <2>7, <2>8, <2>9 DEF ExecutorStep
<1>10. ASSUME NEW t \in Tasks, Abort(t)
       PROVE  TypeOK'
  <2>1. abort' \in [Tasks -> BOOLEAN]
    BY <1>10, Zenon DEF TypeOK, Abort
  <2>2. QED
    BY <1>10, <2>1 DEF TypeOK, Abort
<1>11. CASE DrainPanic
  BY <1>11 DEF TypeOK, DrainPanic
<1>12. ASSUME NEW t \in Tasks, DropWaker(t)
       PROVE  TypeOK'
  <2>1. wakers' \in [Tasks -> BOOLEAN]
    BY <1>12, Zenon DEF TypeOK, DropWaker
  <2>2. QED
    BY <1>12, <2>1 DEF TypeOK, DropWaker
<1>13. ASSUME NEW c \in Callers, RegisterPop(c)
       PROVE  TypeOK'
  BY <1>13, PopType DEF TypeOK, RegisterPop
<1>14. QED
  BY <1>1, <1>2, <1>3, <1>4, <1>5, <1>6, <1>7, <1>8, <1>9, <1>10, <1>11, <1>12, <1>13
  DEF Next, CallStep

(* Every step keeps CallerInv: a caller leaves the manager only through its *)
(* own send or push, and a poll does not end while its executor is inside.  *)
LEMMA CallerStep ==
  ASSUME TypeOK, CallerInv, [Next]_vars
  PROVE  CallerInv'
<1> USE SchedulerAssumption DEF managerVars, callVars, taskVars, panicVars
<1> DEFINE SameCalls == cpc' = cpc /\ ctask' = ctask /\ cexec' = cexec
<1>1. ASSUME SameCalls, epc' = epc, cur' = cur
      PROVE  CallerInv'
  BY <1>1 DEF CallerInv
<1>2. ASSUME NEW c \in Callers, NEW t \in Tasks, CanCall(c), Register(c, t),
             epc' = epc, cur' = cur
      PROVE  CallerInv'
  <2>1. CASE RegisterSkips(t)
    BY <1>1, <1>2, <2>1 DEF Register
  <2>2. CASE ~RegisterSkips(t)
    <3>1. /\ ctask' = [ctask EXCEPT ![c] = t]
          /\ cpc' = [cpc EXCEPT ![c] = "pop"]
          /\ cexec' = cexec
      BY <1>2, <2>2 DEF Register
    <3>2. \A d \in Callers : cpc'[d] \in Inside => ctask'[d] \in Tasks
      BY <3>1 DEF TypeOK, CallerInv
    <3>3. \A e \in Executors : cpc'[e] \in Inside => epc'[e] = "poll"
      BY <1>2, <3>1 DEF TypeOK, CallerInv, CanCall, Callers
    <3>4. \A d \in Callers : cpc'[d] = "send" => cexec'[d] \in Executors
      BY <3>1 DEF TypeOK, CallerInv
    <3>5. QED
      BY <1>2, <3>2, <3>3, <3>4 DEF CallerInv
  <2>3. QED
    BY <2>1, <2>2
<1>3. ASSUME NEW c \in Callers, NEW t \in Tasks, Spawn(c, t)
      PROVE  CallerInv'
  BY <1>2, <1>3 DEF Spawn
<1>4. ASSUME NEW c \in Callers, NEW t \in Tasks, NEW keep \in BOOLEAN, Wake(c, t, keep)
      PROVE  CallerInv'
  BY <1>2, <1>4 DEF Wake
<1>5. ASSUME NEW e \in Executors, WakeSelf(e)
      PROVE  CallerInv'
  BY <1>2, <1>5 DEF WakeSelf, CanCall, CallerInv, Callers
<1>6. ASSUME NEW c \in Callers, RegisterSend(c) \/ RegisterPush(c)
      PROVE  CallerInv'
  <2>1. /\ cpc' = [cpc EXCEPT ![c] = "idle"]
        /\ ctask' = [ctask EXCEPT ![c] = None]
        /\ cexec' = [cexec EXCEPT ![c] = None]
        /\ epc' = epc
        /\ cur' = cur
    BY <1>6 DEF RegisterSend, RegisterPush, ReturnToCaller
  <2>2. QED
    BY <2>1 DEF TypeOK, CallerInv, Inside
<1>7. ASSUME NEW c \in Callers, RegisterPushFull(c)
      PROVE  CallerInv'
  <2>1. /\ ctask' = [ctask EXCEPT ![c] = None]
        /\ cexec' = cexec
    BY <1>7 DEF RegisterPushFull
  <2>2. CASE c \in Executors
    <3>1. /\ cpc' = [cpc EXCEPT ![c] = "idle"]
          /\ epc' = [epc EXCEPT ![c] = "panic"]
          /\ cur' = [cur EXCEPT ![c] = None]
      BY <1>7, <2>2 DEF RegisterPushFull
    <3>2. QED
      BY <2>1, <2>2, <3>1 DEF TypeOK, CallerInv, Callers, Inside
  <2>3. CASE c \notin Executors
    <3>1. /\ cpc' = [cpc EXCEPT ![c] = "dead"]
          /\ epc' = epc
          /\ cur' = cur
      BY <1>7, <2>3 DEF RegisterPushFull
    <3>2. QED
      BY <2>1, <2>3, <3>1 DEF TypeOK, CallerInv, Callers, Inside
  <2>4. QED
    BY <2>2, <2>3
<1>8. ASSUME NEW e \in Executors, ExecutorStep(e)
      PROVE  CallerInv'
  <2>1. SameCalls
    BY <1>8 DEF ExecutorStep, Recv, LockFuture, PollPending, PollReady, PollPanic,
                SendPanic, ExecutorDies, ExecutorReady, PushExecutor
  <2>2. cpc[e] \notin Inside
    BY <1>8 DEF Inside, ExecutorStep, Recv, LockFuture, PollPending, PollReady, PollPanic, EndPoll,
                SendPanic, ExecutorDies, ExecutorReady, PushExecutor, CallerInv
  <2>3. \A f \in Executors \ {e} : epc'[f] = epc[f] /\ cur'[f] = cur[f]
    BY <1>8 DEF ExecutorStep, Recv, LockFuture, PollPending, PollReady, PollPanic, EndPoll,
                SendPanic, ExecutorDies, ExecutorReady, PushExecutor, TypeOK
  <2>4. epc'[e] \in {"lock", "poll"} => cur'[e] \in Tasks
    <3>1. CASE Recv(e)
      <4>1. Head(ready_queue[e]) \in Tasks
        BY <3>1, TailMember DEF TypeOK, Recv
      <4>2. QED
        BY <3>1, <4>1 DEF TypeOK, Recv
    <3>2. CASE LockFuture(e)
      BY <3>2 DEF TypeOK, LockFuture, AfterTask, CallerInv
    <3>3. CASE ~Recv(e) /\ ~LockFuture(e)
      <4>1. epc'[e] \in {"ready", "panic", "dead", "recv", "push"}
        BY <1>8, <3>3 DEF TypeOK, ExecutorStep, PollPending, PollReady, PollPanic, EndPoll,
             SendPanic, ExecutorDies, ExecutorReady, PushExecutor, AfterTask, AfterSelfSend
      <4>2. QED
        BY <4>1
    <3>4. QED
      BY <3>1, <3>2, <3>3
  <2>5. QED
    BY <2>1, <2>2, <2>3, <2>4 DEF CallerInv
<1>9. CASE UNCHANGED vars
  BY <1>1, <1>9 DEF vars
<1>10. ASSUME NEW e \in Executors, StoreWaker(e)
       PROVE  CallerInv'
  BY <1>1, <1>10 DEF StoreWaker
<1>11. ASSUME NEW t \in Tasks, Abort(t)
       PROVE  CallerInv'
  BY <1>1, <1>11 DEF Abort
<1>12. CASE DrainPanic
  BY <1>1, <1>12 DEF DrainPanic
<1>13. ASSUME NEW t \in Tasks, DropWaker(t)
       PROVE  CallerInv'
  BY <1>1, <1>13 DEF DropWaker
<1>14. ASSUME NEW c \in Callers, RegisterPop(c)
       PROVE  CallerInv'
  <2>1. /\ cpc[c] \in Inside
        /\ UNCHANGED <<ctask, epc, cur>>
    BY <1>14 DEF RegisterPop, Inside
  <2>2. CASE waiting_executors # <<>>
    <3>1. Head(waiting_executors) \in Executors
      BY <2>2, TailMember DEF TypeOK
    <3>2. /\ cpc' = [cpc EXCEPT ![c] = "send"]
          /\ cexec' = [cexec EXCEPT ![c] = Head(waiting_executors)]
      BY <1>14, <2>2 DEF RegisterPop
    <3>3. QED
      BY <2>1, <3>1, <3>2 DEF TypeOK, CallerInv
  <2>3. CASE waiting_executors = <<>>
    <3>1. cpc' = [cpc EXCEPT ![c] = "push"] /\ cexec' = cexec
      BY <1>14, <2>3 DEF RegisterPop
    <3>2. QED
      BY <2>1, <3>1 DEF TypeOK, CallerInv
  <2>4. QED
    BY <2>2, <2>3
<1>15. QED
  BY <1>3, <1>4, <1>5, <1>6, <1>7, <1>8, <1>9, <1>10, <1>11, <1>12, <1>13, <1>14
  DEF Next, CallStep

(* A step that leaves waiting_executors, the channels and the claims of the *)
(* callers alone, and parks or unparks no executor, keeps TokenInv.         *)
LEMMA TokensUntouched ==
  ASSUME TokenInv,
         waiting_executors' = waiting_executors,
         ready_queue' = ready_queue,
         \A e \in Executors : epc'[e] = "recv" <=> epc[e] = "recv",
         \A c \in Callers : cpc'[c] = "send" <=> cpc[c] = "send",
         \A c \in Callers : cpc[c] = "send" => cexec'[c] = cexec[c]
  PROVE  TokenInv'
<1>1. \A e \in Executors : /\ Parked(e)' <=> Parked(e)
                           /\ Claimed(e)' <=> Claimed(e)
                           /\ Busy(e)' <=> Busy(e)
  BY DEF Parked, Claimed, Busy
<1>2. ExecutorAccounted'
  BY <1>1 DEF TokenInv, ExecutorAccounted
<1>3. ClaimUnique' /\ ChannelInv'
  BY DEF TokenInv, ClaimUnique, ChannelInv, Injective
<1>4. QED
  BY <1>2, <1>3 DEF TokenInv

(* An entry into the manager claims no executor yet.                        *)
LEMMA TokenRegister ==
  ASSUME TypeOK, TokenInv, NEW c \in Callers, NEW t \in Tasks, cpc[c] = "idle",
         Register(c, t), UNCHANGED <<waiting_executors, ready_queue, epc>>
  PROVE  TokenInv'
<1>1. cexec' = cexec /\ (cpc' = cpc \/ cpc' = [cpc EXCEPT ![c] = "pop"])
  BY DEF Register, callVars
<1>2. QED
  BY <1>1, TokensUntouched DEF TypeOK

(* The pop of waiting_executors turns the head from parked to claimed.      *)
LEMMA TokenPop ==
  ASSUME TypeOK, TokenInv, NEW c \in Callers, RegisterPop(c)
  PROVE  TokenInv'
<1> USE DEF RegisterPop
<1>1. CASE waiting_executors = <<>>
  <2>1. /\ UNCHANGED <<waiting_executors, ready_queue, epc, cexec>>
        /\ cpc[c] = "pop"
        /\ cpc' = [cpc EXCEPT ![c] = "push"]
    BY <1>1
  <2>2. QED
    BY <2>1, TokensUntouched DEF TypeOK
<1>2. CASE waiting_executors # <<>>
  <2> DEFINE h == Head(waiting_executors)
  <2>1. /\ waiting_executors' = Tail(waiting_executors)
        /\ cexec' = [cexec EXCEPT ![c] = h]
        /\ cpc' = [cpc EXCEPT ![c] = "send"]
        /\ UNCHANGED <<ready_queue, epc>>
    BY <1>2
  <2>2. /\ h \in Executors
        /\ \A e : In(waiting_executors, e) <=> In(Tail(waiting_executors), e) \/ e = h
        /\ Injective(Tail(waiting_executors))
        /\ ~In(Tail(waiting_executors), h)
    BY <1>2, TailMember DEF TypeOK, TokenInv, ClaimUnique
  <2>3. \A e \in Executors : /\ Parked(e)' <=> Parked(e) /\ e # h
                             /\ Busy(e)' <=> Busy(e)
    BY <2>1, <2>2 DEF Parked, In, Busy
  <2>4. \A e \in Executors : Claimed(e)' <=> Claimed(e) \/ e = h
    <3>1. cpc[c] = "pop"
      BY <1>2
    <3>2. QED
      BY <2>1, <3>1 DEF TypeOK, Claimed
  <2>5. Parked(h)
    BY <2>2, ParkedIn
  <2>6. ExecutorAccounted'
    BY <2>2, <2>3, <2>4, <2>5 DEF TokenInv, ExecutorAccounted
  <2>7. \A d \in Callers : cpc[d] = "send" => cexec[d] # h
    BY <2>2, <2>5 DEF TokenInv, ExecutorAccounted, Claimed
  <2>8. ClaimUnique'
    BY <2>1, <2>2, <2>7 DEF TypeOK, TokenInv, ClaimUnique
  <2>9. ChannelInv'
    BY <2>1 DEF TokenInv, ChannelInv
  <2>10. QED
    BY <2>6, <2>8, <2>9 DEF TokenInv
<1>3. QED
  BY <1>1, <1>2

(* The send turns the executor from claimed to busy.                        *)
LEMMA TokenSend ==
  ASSUME TypeOK, CallerInv, TokenInv, NEW c \in Callers, RegisterSend(c)
  PROVE  TokenInv'
<1> DEFINE x == cexec[c]
<1>1. /\ x \in Executors
      /\ ctask[c] \in Tasks
      /\ cpc[c] = "send"
      /\ cpc' = [cpc EXCEPT ![c] = "idle"]
      /\ cexec' = [cexec EXCEPT ![c] = None]
      /\ ready_queue' = [ready_queue EXCEPT ![x] = Append(@, ctask[c])]
      /\ waiting_executors' = waiting_executors
      /\ epc' = epc
  BY DEF RegisterSend, ReturnToCaller, CallerInv, Inside
<1>2. Claimed(x) /\ ~Busy(x) /\ ~Parked(x)
  BY <1>1 DEF TokenInv, ExecutorAccounted, Claimed
<1>3. ready_queue[x] = <<>> /\ epc[x] = "recv"
  BY <1>1, <1>2 DEF Busy
<1>4. Append(ready_queue[x], ctask[c]) # <<>> /\ Len(Append(ready_queue[x], ctask[c])) = 1
  BY <1>1, <1>3, AppendMember DEF TypeOK
<1>5. \A e \in Executors : e # x => ready_queue'[e] = ready_queue[e]
  BY <1>1 DEF TypeOK
<1>6. ready_queue'[x] = Append(ready_queue[x], ctask[c])
  BY <1>1 DEF TypeOK
<1>7. \A e \in Executors : /\ Parked(e)' <=> Parked(e)
                           /\ Busy(e)' <=> Busy(e) \/ e = x
  BY <1>1, <1>4, <1>5, <1>6 DEF Parked, Busy
<1>8. \A e \in Executors : Claimed(e)' <=> Claimed(e) /\ e # x
  <2>1. \A d \in Callers : cpc[d] = "send" /\ cexec[d] = x => d = c
    BY <1>1 DEF TokenInv, ClaimUnique
  <2>2. \A d \in Callers : d # c => cpc'[d] = cpc[d] /\ cexec'[d] = cexec[d]
    BY <1>1 DEF TypeOK
  <2>3. cpc'[c] = "idle"
    BY <1>1 DEF TypeOK
  <2>4. QED
    BY <2>1, <2>2, <2>3 DEF Claimed
<1>9. ExecutorAccounted'
  BY <1>1, <1>2, <1>7, <1>8 DEF TokenInv, ExecutorAccounted
<1>10. ClaimUnique'
  BY <1>1 DEF TypeOK, TokenInv, ClaimUnique, Injective
<1>11. ChannelInv'
  BY <1>1, <1>3, <1>4, <1>5, <1>6 DEF TokenInv, ChannelInv
<1>12. QED
  BY <1>9, <1>10, <1>11 DEF TokenInv

(* The receive, the self-send and the push of an executor's own id.         *)
LEMMA TokenExecutor ==
  ASSUME TypeOK, TokenInv, NEW e \in Executors, ExecutorStep(e)
  PROVE  TokenInv'
<1> USE DEF managerVars, callVars, taskVars, panicVars
<1>1. CASE Recv(e)
  <2>1. /\ epc[e] = "recv"
        /\ ready_queue[e] # <<>>
        /\ ready_queue' = [ready_queue EXCEPT ![e] = Tail(@)]
        /\ epc' = [epc EXCEPT ![e] = "lock"]
        /\ UNCHANGED <<waiting_executors, cpc, cexec>>
    BY <1>1 DEF Recv
  <2>2. Tail(ready_queue[e]) = <<>>
    <3>1. ready_queue[e] \in Seq(Tasks) /\ Len(ready_queue[e]) <= 1
      BY DEF TypeOK, TokenInv, ChannelInv
    <3>2. QED
      BY <2>1, <3>1, TailOfSingleton
  <2>3. \A f \in Executors : /\ Parked(f)' <=> Parked(f)
                             /\ Claimed(f)' <=> Claimed(f)
                             /\ Busy(f)' <=> Busy(f)
    BY <2>1 DEF TypeOK, Parked, Claimed, Busy
  <2>4. ExecutorAccounted'
    BY <2>3 DEF TokenInv, ExecutorAccounted
  <2>5. ClaimUnique'
    BY <2>1 DEF TokenInv, ClaimUnique, Injective
  <2>6. ChannelInv'
    BY <2>1, <2>2 DEF TypeOK, TokenInv, ChannelInv
  <2>7. QED
    BY <2>4, <2>5, <2>6 DEF TokenInv
<1>2. CASE PushExecutor(e)
  <2>1. /\ epc[e] = "push"
        /\ waiting_executors' = Append(waiting_executors, e)
        /\ epc' = [epc EXCEPT ![e] = "recv"]
        /\ UNCHANGED <<ready_queue, cpc, cexec>>
    BY <1>2 DEF PushExecutor
  <2>2. Busy(e) /\ ~Parked(e) /\ ready_queue[e] = <<>>
    BY <2>1 DEF TokenInv, ExecutorAccounted, ChannelInv, Busy
  <2>3. /\ \A f : In(waiting_executors', f) <=> In(waiting_executors, f) \/ f = e
        /\ Injective(waiting_executors')
    BY <2>1, <2>2, AppendMember, ParkedIn DEF TypeOK, TokenInv, ClaimUnique
  <2>4. \A f \in Executors : /\ Parked(f)' <=> Parked(f) \/ f = e
                             /\ Claimed(f)' <=> Claimed(f)
                             /\ Busy(f)' <=> Busy(f) /\ f # e
    <3>1. \A f \in Executors : Parked(f)' <=> Parked(f) \/ f = e
      BY <2>3 DEF Parked, In
    <3>2. \A f \in Executors : Claimed(f)' <=> Claimed(f)
      BY <2>1 DEF Claimed
    <3>3. \A f \in Executors : Busy(f)' <=> Busy(f) /\ f # e
      BY <2>1, <2>2 DEF TypeOK, Busy
    <3>4. QED
      BY <3>1, <3>2, <3>3
  <2>5. ExecutorAccounted'
    BY <2>2, <2>4 DEF TokenInv, ExecutorAccounted
  <2>6. ClaimUnique'
    BY <2>1, <2>3 DEF TokenInv, ClaimUnique, Injective
  <2>7. ChannelInv'
    BY <2>1, <2>2 DEF TypeOK, TokenInv, ChannelInv
  <2>8. QED
    BY <2>5, <2>6, <2>7 DEF TokenInv
<1>3. CASE ExecutorReady(e)
  <2>1. CASE waiting_tasks = <<>> \/ ReadySkips(Head(waiting_tasks))
    <3>1. /\ UNCHANGED <<waiting_executors, ready_queue, cpc, cexec>>
          /\ epc' = epc \/ epc' = [epc EXCEPT ![e] = "push"]
          /\ epc[e] = "ready"
      BY <1>3, <2>1 DEF ExecutorReady
    <3>2. QED
      BY <3>1, TokensUntouched DEF TypeOK
  <2>2. CASE waiting_tasks # <<>> /\ ~ReadySkips(Head(waiting_tasks))
    <3> DEFINE t == Head(waiting_tasks)
    <3>1. /\ epc[e] = "ready"
          /\ ready_queue' = [ready_queue EXCEPT ![e] = Append(@, t)]
          /\ epc' = [epc EXCEPT ![e] = "recv"]
          /\ UNCHANGED <<waiting_executors, cpc, cexec>>
      BY <1>3, <2>2 DEF ExecutorReady, AfterSelfSend
    <3>2. ready_queue[e] = <<>> /\ ready_queue[e] \in Seq(Tasks) /\ t \in Tasks
      BY <2>2, <3>1, TailMember DEF TypeOK, TokenInv, ChannelInv
    <3>3. Append(ready_queue[e], t) # <<>> /\ Len(Append(ready_queue[e], t)) = 1
      BY <3>2, AppendMember
    <3>4. \A f \in Executors : f # e => ready_queue'[f] = ready_queue[f] /\ epc'[f] = epc[f]
      BY <3>1 DEF TypeOK
    <3>5. ready_queue'[e] = Append(ready_queue[e], t)
      BY <3>1 DEF TypeOK
    <3>6. \A f \in Executors : /\ Parked(f)' <=> Parked(f)
                               /\ Claimed(f)' <=> Claimed(f)
                               /\ Busy(f)' <=> Busy(f)
      BY <3>1, <3>3, <3>4, <3>5 DEF Parked, Claimed, Busy
    <3>7. ExecutorAccounted'
      BY <3>6 DEF TokenInv, ExecutorAccounted
    <3>8. ClaimUnique'
      BY <3>1 DEF TokenInv, ClaimUnique, Injective
    <3>9. ChannelInv'
      <4>1. epc'[e] = "recv"
        BY <3>1 DEF TypeOK
      <4>2. QED
        BY <3>3, <3>4, <3>5, <4>1 DEF TokenInv, ChannelInv
    <3>10. QED
      BY <3>7, <3>8, <3>9 DEF TokenInv
  <2>3. QED
    BY <2>1, <2>2
<1>4. CASE \/ LockFuture(e) \/ PollPending(e) \/ PollReady(e) \/ PollPanic(e)
           \/ SendPanic(e) \/ ExecutorDies(e)
  <2>1. /\ UNCHANGED <<waiting_executors, ready_queue, cpc, cexec>>
        /\ epc[e] # "recv"
        /\ \E v \in ExecutorPC \ {"recv"} : epc' = [epc EXCEPT ![e] = v]
    BY <1>4 DEF LockFuture, PollPending, PollReady, PollPanic, EndPoll, SendPanic,
                ExecutorDies, AfterTask, ExecutorPC
  <2>2. QED
    BY <2>1, TokensUntouched DEF TypeOK
<1>5. QED
  BY <1>1, <1>2, <1>3, <1>4 DEF ExecutorStep

-----------------------------------------------------------------------------
(* The state left by RuntimeBuilder::build satisfies the invariant.         *)
LEMMA InitIInv == Init => IInv
<1> SUFFICES ASSUME Init PROVE IInv
  OBVIOUS
<1> USE SchedulerAssumption DEF Init
<1>1. /\ waiting_executors \in [1..Cardinality(Executors) -> Executors]
      /\ Injective(waiting_executors)
      /\ \A e \in Executors : In(waiting_executors, e)
  BY DEF RegisteredExecutors, Injective, In
<1>2. waiting_executors \in Seq(Executors)
  <2>1. PICK n : n = Cardinality(Executors) /\ waiting_executors \in [1..n -> Executors]
    BY <1>1
  <2>2. n \in Nat
    BY <2>1, ExecutorsFinite, FS_CardinalityType
  <2>3. QED
    BY <2>1, <2>2
<1>3. abort \in [Tasks -> BOOLEAN] /\ wakers \in [Tasks -> BOOLEAN]
  BY Zenon
<1>4. TypeOK
  BY <1>2, <1>3 DEF TypeOK, ExecutorPC, CallerPC, FutureState
<1>5. CallerInv
  BY DEF CallerInv, Callers, Inside
<1>6. ChannelInv /\ ClaimUnique
  BY <1>1 DEF ChannelInv, ClaimUnique
<1>7. \A e \in Executors : Parked(e) /\ ~Claimed(e) /\ ~Busy(e)
  BY <1>1, ParkedIn DEF Claimed, Busy
<1>8. ExecutorAccounted
  BY <1>7 DEF ExecutorAccounted
<1>9. QED
  BY <1>4, <1>5, <1>6, <1>8 DEF IInv, TokenInv

(* Every step of the scheduler keeps the invariant.                         *)
LEMMA StepIInv == IInv /\ [Next]_vars => IInv'
<1> SUFFICES ASSUME IInv, [Next]_vars PROVE IInv'
  OBVIOUS
<1> USE DEF managerVars, callVars, taskVars, panicVars
<1>1. TypeOK /\ CallerInv /\ TokenInv
  BY DEF IInv
<1>2. TypeOK' /\ CallerInv'
  BY <1>1, TypeStep, CallerStep
<1>3. TokenInv'
  <2>1. ASSUME NEW c \in Callers, NEW t \in Tasks, Spawn(c, t)
        PROVE  TokenInv'
    BY <1>1, <2>1, TokenRegister DEF Spawn, CanCall
  <2>2. ASSUME NEW c \in Callers, NEW t \in Tasks, NEW keep \in BOOLEAN, Wake(c, t, keep)
        PROVE  TokenInv'
    BY <1>1, <2>2, TokenRegister DEF Wake, CanCall
  <2>3. ASSUME NEW e \in Executors, WakeSelf(e)
        PROVE  TokenInv'
    <3>1. e \in Callers /\ cur[e] \in Tasks /\ cpc[e] = "idle"
      BY <1>1, <2>3 DEF WakeSelf, CanCall, CallerInv, Callers
    <3>2. QED
      BY <1>1, <2>3, <3>1, TokenRegister DEF WakeSelf
  <2>4. ASSUME NEW c \in Callers, RegisterSend(c)
        PROVE  TokenInv'
    BY <1>1, <2>4, TokenSend
  <2>5. ASSUME NEW c \in Callers, RegisterPush(c)
        PROVE  TokenInv'
    <3>1. /\ cpc[c] = "push"
          /\ cpc' = [cpc EXCEPT ![c] = "idle"]
          /\ cexec' = [cexec EXCEPT ![c] = None]
          /\ UNCHANGED <<waiting_executors, ready_queue, epc>>
      BY <2>5 DEF RegisterPush, ReturnToCaller
    <3>2. QED
      BY <1>1, <3>1, TokensUntouched DEF TypeOK
  <2>6. ASSUME NEW c \in Callers, RegisterPushFull(c)
        PROVE  TokenInv'
    <3>1. /\ cpc[c] = "push"
          /\ cpc' = [cpc EXCEPT ![c] = "idle"] \/ cpc' = [cpc EXCEPT ![c] = "dead"]
          /\ UNCHANGED <<waiting_executors, ready_queue, cexec>>
      BY <2>6 DEF RegisterPushFull
    <3>2. \A e \in Executors : epc'[e] = "recv" <=> epc[e] = "recv"
      <4>1. CASE c \in Executors
        <5>1. epc[c] = "poll" /\ epc' = [epc EXCEPT ![c] = "panic"]
          BY <1>1, <2>6, <4>1 DEF RegisterPushFull, CallerInv, Inside
        <5>2. QED
          BY <1>1, <4>1, <5>1 DEF TypeOK
      <4>2. CASE c \notin Executors
        BY <2>6, <4>2 DEF RegisterPushFull
      <4>3. QED
        BY <4>1, <4>2
    <3>3. QED
      BY <1>1, <3>1, <3>2, TokensUntouched DEF TypeOK
  <2>7. ASSUME NEW e \in Executors, ExecutorStep(e)
        PROVE  TokenInv'
    BY <1>1, <2>7, TokenExecutor
  <2>8. ASSUME NEW e \in Executors, StoreWaker(e)
        PROVE  TokenInv'
    BY <1>1, <2>8, TokensUntouched DEF StoreWaker
  <2>9. ASSUME NEW t \in Tasks, Abort(t)
        PROVE  TokenInv'
    BY <1>1, <2>9, TokensUntouched DEF Abort
  <2>10. CASE DrainPanic
    BY <1>1, <2>10, TokensUntouched DEF DrainPanic
  <2>11. CASE UNCHANGED vars
    BY <1>1, <2>11, TokensUntouched DEF vars
  <2>12. ASSUME NEW t \in Tasks, DropWaker(t)
         PROVE  TokenInv'
    BY <1>1, <2>12, TokensUntouched DEF DropWaker
  <2>13. ASSUME NEW c \in Callers, RegisterPop(c)
         PROVE  TokenInv'
    BY <1>1, <2>13, TokenPop
  <2>14. QED
    BY <2>1, <2>2, <2>3, <2>4, <2>5, <2>6, <2>7, <2>8, <2>9, <2>10, <2>11, <2>12, <2>13
    DEF Next, CallStep
<1>4. QED
  BY <1>2, <1>3 DEF IInv

(* The invariant holds in every reachable state of the scheduler.           *)
THEOREM Invariance == Spec => []IInv
BY InitIInv, StepIInv, PTL DEF Spec

(* Type correctness of the scheduler, for every number of tasks, executors  *)
(* and threads.                                                             *)
THEOREM TypeCorrect == Spec => []TypeOK
<1>1. IInv => TypeOK
  BY DEF IInv
<1>2. QED
  BY <1>1, Invariance, PTL

(* Every executor is at all times parked, claimed by one caller or busy, in *)
(* exactly one of the three ways: TaskManager neither loses an executor nor *)
(* hands it out twice.                                                      *)
THEOREM ExecutorsAccounted == Spec => []ExecutorAccounted
<1>1. IInv => ExecutorAccounted
  BY DEF IInv, TokenInv
<1>2. QED
  BY <1>1, Invariance, PTL

(* A claimed executor is not busy, so a send finds its channel empty.       *)
LEMMA IInvGivesRoom == IInv => SendFindsRoom
<1> SUFFICES ASSUME IInv PROVE SendFindsRoom
  OBVIOUS
<1>1. ASSUME NEW c \in Callers, cpc[c] = "send"
      PROVE  ready_queue[cexec[c]] = <<>> /\ epc[cexec[c]] = "recv"
  <2>1. cexec[c] \in Executors /\ Claimed(cexec[c])
    BY <1>1 DEF IInv, CallerInv, Claimed
  <2>2. ~Busy(cexec[c])
    BY <2>1 DEF IInv, TokenInv, ExecutorAccounted
  <2>3. QED
    BY <2>2 DEF Busy
<1>2. \A e \in Executors : epc[e] = "ready" => ready_queue[e] = <<>>
  BY DEF IInv, TokenInv, ChannelInv
<1>3. QED
  BY <1>1, <1>2 DEF SendFindsRoom

(* No send of TaskManager blocks or fails: the channel it sends to is empty *)
(* and its executor alive, for every bound MAX_QUEUED_TASKS.                *)
THEOREM SendsFindRoom == Spec => []SendFindsRoom
BY IInvGivesRoom, Invariance, PTL

-----------------------------------------------------------------------------
(* Polls.  PollExclusive alone is not inductive: it does not say that the   *)
(* Option under the mutex tells a finished future from a live one.          *)

(* A future under poll is Some and has one poller; a finished one is None   *)
(* or behind a poisoned mutex.                                              *)
PollInv ==
  /\ \A e \in Executors : epc[e] = "poll" => future[cur[e]] = "some"
  /\ \A t \in completed : future[t] \in {"none", "poisoned"}
  /\ \A e, f \in Executors :
       epc[e] = "poll" /\ epc[f] = "poll" /\ cur[e] = cur[f] => e = f

(* A step that starts no poll, touches no current task of a poller and no   *)
(* future keeps PollInv.                                                    *)
LEMMA PollsUntouched ==
  ASSUME PollInv, future' = future, completed' = completed,
         \A e \in Executors : epc'[e] = "poll" => epc[e] = "poll" /\ cur'[e] = cur[e]
  PROVE  PollInv'
BY DEF PollInv

(* The end of a poll that finishes its future, by Ready or by a panic.      *)
LEMMA PollFinished ==
  ASSUME IInv, PollInv, NEW e \in Executors, epc[e] = "poll",
         NEW state \in {"none", "poisoned"}, NEW next, next # "poll",
         epc' = [epc EXCEPT ![e] = next],
         cur' = [cur EXCEPT ![e] = None],
         future' = [future EXCEPT ![cur[e]] = state],
         completed' = completed \cup {cur[e]}
  PROVE  PollInv'
<1>1. cur[e] \in Tasks /\ completed \subseteq Tasks
  BY DEF IInv, TypeOK, CallerInv
<1>2. \A f \in Executors : epc'[f] = "poll" =>
        f # e /\ epc[f] = "poll" /\ cur'[f] = cur[f] /\ cur[f] # cur[e]
  BY DEF IInv, TypeOK, PollInv
<1>3. \A f \in Executors : epc'[f] = "poll" => future'[cur'[f]] = "some"
  <2>1. ASSUME NEW f \in Executors, epc'[f] = "poll"
        PROVE  future'[cur'[f]] = "some"
    <3>1. cur[f] \in Tasks /\ future[cur[f]] = "some"
      BY <1>2, <2>1 DEF IInv, CallerInv, PollInv
    <3>2. QED
      BY <1>2, <2>1, <3>1 DEF IInv, TypeOK
  <2>2. QED
    BY <2>1
<1>4. \A t \in completed' : future'[t] \in {"none", "poisoned"}
  BY <1>1 DEF IInv, TypeOK, PollInv
<1>5. QED
  BY <1>2, <1>3, <1>4 DEF PollInv

(* Every step of the scheduler keeps PollInv.                               *)
LEMMA PollStep ==
  ASSUME IInv, PollInv, [Next]_vars
  PROVE  PollInv'
<1> USE DEF managerVars, callVars, taskVars, panicVars
<1>1. CASE UNCHANGED vars
  BY <1>1, PollsUntouched DEF vars
<1>2. ASSUME NEW c \in Callers, NEW t \in Tasks, Spawn(c, t)
      PROVE  PollInv'
  <2>1. /\ future[t] = "new"
        /\ future' = [future EXCEPT ![t] = "some"]
        /\ UNCHANGED <<epc, cur, completed>>
    BY <1>2 DEF Spawn
  <2>2. \A u \in completed : u \in Tasks /\ u # t
    BY <2>1 DEF IInv, TypeOK, PollInv
  <2>3. \A e \in Executors : epc[e] = "poll" => cur[e] \in Tasks
    BY DEF IInv, CallerInv
  <2>4. QED
    BY <2>1, <2>2, <2>3 DEF IInv, TypeOK, PollInv
<1>3. ASSUME NEW c \in Callers, NEW t \in Tasks, NEW keep \in BOOLEAN, Wake(c, t, keep)
      PROVE  PollInv'
  BY <1>3, PollsUntouched DEF Wake
<1>4. ASSUME NEW e \in Executors, WakeSelf(e)
      PROVE  PollInv'
  BY <1>4, PollsUntouched DEF WakeSelf
<1>5. ASSUME NEW e \in Executors, StoreWaker(e)
      PROVE  PollInv'
  BY <1>5, PollsUntouched DEF StoreWaker
<1>6. ASSUME NEW c \in Callers, RegisterSend(c)
      PROVE  PollInv'
  BY <1>6, PollsUntouched DEF RegisterSend
<1>7. ASSUME NEW c \in Callers, RegisterPush(c)
      PROVE  PollInv'
  BY <1>7, PollsUntouched DEF RegisterPush
<1>8. ASSUME NEW c \in Callers, RegisterPushFull(c)
      PROVE  PollInv'
  <2>1. CASE c \in Executors
    <3>1. /\ epc[c] = "poll"
          /\ epc' = [epc EXCEPT ![c] = "panic"]
          /\ cur' = [cur EXCEPT ![c] = None]
          /\ future' = [future EXCEPT ![cur[c]] = "poisoned"]
          /\ completed' = completed \cup {cur[c]}
      BY <1>8, <2>1 DEF RegisterPushFull, IInv, CallerInv, Inside
    <3>2. QED
      BY <2>1, <3>1, PollFinished
  <2>2. CASE c \notin Executors
    BY <1>8, <2>2, PollsUntouched DEF RegisterPushFull
  <2>3. QED
    BY <2>1, <2>2
<1>9. ASSUME NEW e \in Executors, ExecutorStep(e)
      PROVE  PollInv'
  <2>1. CASE Recv(e)
    BY <2>1, PollsUntouched DEF Recv, IInv, TypeOK
  <2>2. CASE LockFuture(e)
    <3>1. CASE future[cur[e]] = "some"
      <4>1. /\ epc' = [epc EXCEPT ![e] = "poll"]
            /\ UNCHANGED <<cur, future, completed>>
        BY <2>2, <3>1 DEF LockFuture
      <4>2. \A f \in Executors : epc[f] = "poll" => cur[f] # cur[e]
        BY <2>2 DEF LockFuture, Locked
      <4>3. QED
        BY <3>1, <4>1, <4>2 DEF PollInv, IInv, TypeOK
    <3>2. CASE future[cur[e]] # "some"
      <4>1. /\ \/ epc' = [epc EXCEPT ![e] = "ready"]
               \/ epc' = [epc EXCEPT ![e] = "unwind"]
            /\ cur' = [cur EXCEPT ![e] = None]
            /\ UNCHANGED <<future, completed>>
        BY <2>2, <3>2 DEF LockFuture, AfterTask
      <4>2. QED
        BY <4>1, PollsUntouched DEF IInv, TypeOK
    <3>3. QED
      BY <3>1, <3>2
  <2>3. CASE PollPending(e)
    BY <2>3, PollsUntouched DEF PollPending, EndPoll, AfterTask, IInv, TypeOK
  <2>4. CASE PollReady(e)
    <3>1. /\ epc[e] = "poll"
          /\ epc' = [epc EXCEPT ![e] = "ready"]
          /\ cur' = [cur EXCEPT ![e] = None]
          /\ future' = [future EXCEPT ![cur[e]] = "none"]
          /\ completed' = completed \cup {cur[e]}
      BY <2>4 DEF PollReady, EndPoll, AfterTask, AfterReady
    <3>2. QED
      BY <3>1, PollFinished
  <2>5. CASE PollPanic(e)
    <3>1. /\ epc[e] = "poll"
          /\ epc' = [epc EXCEPT ![e] = "panic"]
          /\ cur' = [cur EXCEPT ![e] = None]
          /\ future' = [future EXCEPT ![cur[e]] = "poisoned"]
          /\ completed' = completed \cup {cur[e]}
      BY <2>5 DEF PollPanic, EndPoll
    <3>2. QED
      BY <3>1, PollFinished
  <2>6. CASE SendPanic(e)
    BY <2>6, PollsUntouched DEF SendPanic, AfterTask, IInv, TypeOK
  <2>7. CASE ExecutorDies(e)
    BY <2>7, PollsUntouched DEF ExecutorDies, IInv, TypeOK
  <2>8. CASE ExecutorReady(e)
    <3>1. /\ \/ epc' = epc
             \/ epc' = [epc EXCEPT ![e] = "recv"]
             \/ epc' = [epc EXCEPT ![e] = "push"]
          /\ UNCHANGED <<cur, future, completed>>
      BY <2>8 DEF ExecutorReady, AfterSelfSend
    <3>2. QED
      BY <3>1, PollsUntouched DEF IInv, TypeOK
  <2>9. CASE PushExecutor(e)
    BY <2>9, PollsUntouched DEF PushExecutor, IInv, TypeOK
  <2>10. QED
    BY <1>9, <2>1, <2>2, <2>3, <2>4, <2>5, <2>6, <2>7, <2>8, <2>9 DEF ExecutorStep
<1>10. ASSUME NEW t \in Tasks, Abort(t)
       PROVE  PollInv'
  BY <1>10, PollsUntouched DEF Abort
<1>11. CASE DrainPanic
  BY <1>11, PollsUntouched DEF DrainPanic
<1>12. ASSUME NEW t \in Tasks, DropWaker(t)
       PROVE  PollInv'
  BY <1>12, PollsUntouched DEF DropWaker
<1>13. ASSUME NEW c \in Callers, RegisterPop(c)
       PROVE  PollInv'
  BY <1>13, PollsUntouched DEF RegisterPop
<1>14. QED
  BY <1>1, <1>2, <1>3, <1>4, <1>5, <1>6, <1>7, <1>8, <1>9, <1>10, <1>11, <1>12, <1>13
  DEF Next, CallStep

(* The mutex, the Option and the executors agree in every reachable state.  *)
LEMMA PollInvariance == Spec => [](IInv /\ PollInv)
<1>1. Init => PollInv
  BY DEF Init, PollInv
<1>2. IInv /\ PollInv /\ [Next]_vars => PollInv'
  BY PollStep
<1>3. QED
  BY <1>1, <1>2, Invariance, PTL DEF Spec

(* A future that returned Ready or panicked is never polled again and no    *)
(* future has two pollers, however often wakers register a task: what       *)
(* Task::future's mutex and Option are there for in forward_task.           *)
THEOREM PollsExclusive == Spec => []PollExclusive
<1>1. PollInv => PollExclusive
  <2> SUFFICES ASSUME PollInv, NEW e \in Executors, epc[e] = "poll"
               PROVE  /\ cur[e] \notin completed
                      /\ \A f \in Executors \ {e} : epc[f] = "poll" => cur[f] # cur[e]
    BY DEF PollExclusive
  <2>1. future[cur[e]] = "some"
    BY DEF PollInv
  <2>2. cur[e] \notin completed
    BY <2>1 DEF PollInv
  <2>3. QED
    BY <2>2 DEF PollInv
<1>2. QED
  BY <1>1, PollInvariance, PTL

=============================================================================
