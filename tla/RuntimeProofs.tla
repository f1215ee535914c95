---------------------------- MODULE RuntimeProofs ----------------------------
(***************************************************************************)
(* The runtime implements the scheduler: every step of Runtime is a step of*)
(* Scheduler or leaves its variables alone.  What SchedulerProofs proves   *)
(* therefore holds with run_blocking in place, nested calls included.      *)
(* Then what run_blocking adds: when it may give up, and where the panic   *)
(* messages are.                                                           *)
(***************************************************************************)
EXTENDS Runtime, RegistrationProofs

(* What run_blocking and build do in one step is at most one step of the    *)
(* scheduler: a spawn, a read of the panic channel or the end of a poll.    *)
LEMMA RunStepIsSchedulerStep ==
  ASSUME NEW c \in Callers, RunStep(c)
  PROVE  Next \/ UNCHANGED vars
<1>1. CASE RunRecv(c)
  BY <1>1 DEF RunRecv
<1>2. CASE RunCheck(c)
  BY <1>2 DEF RunCheck, Next
<1>3. CASE Unwind(c)
  <2>1. CASE c \in Executors
    BY <1>3, <2>1 DEF Unwind, Next, ExecutorStep
  <2>2. CASE c \notin Executors
    BY <1>3, <2>2 DEF Unwind
  <2> QED BY <2>1, <2>2
<1> QED BY <1>1, <1>2, <1>3 DEF RunStep

(* Executor::run and forward_task do with the runtime around them what they *)
(* do without it.                                                           *)
LEMMA ExecutorRunsAsScheduled ==
  ASSUME NEW e \in Executors, SendResult(e) \/ FutureStep(e) \/ FutureEnds(e) \/ LoopStep(e)
  PROVE  Next \/ UNCHANGED vars
<1>1. CASE SendResult(e)
  BY <1>1 DEF SendResult
<1>2. CASE FutureStep(e)
  BY <1>2 DEF FutureStep, Next
<1>3. CASE LoopStep(e)
  BY <1>3 DEF LoopStep, Next, ExecutorStep
<1>4. CASE FutureEnds(e)
  BY <1>4 DEF FutureEnds, Next, ExecutorStep
<1> QED BY <1>1, <1>2, <1>3, <1>4

(* One step of the runtime.                                                 *)
LEMMA RuntimeStepIsSchedulerStep == RuntimeNext => Next \/ UNCHANGED vars
<1> SUFFICES ASSUME RuntimeNext PROVE Next \/ UNCHANGED vars
  OBVIOUS
<1>1. CASE \E c \in Callers : Build(c)
  BY <1>1 DEF Build
<1>2. CASE \E c \in Callers : RunStep(c)
  BY <1>2, RunStepIsSchedulerStep
<1>3. CASE \E c \in Callers : ManagerStep(c)
  BY <1>3 DEF ManagerStep, CallStep, Next
<1>4. CASE \E c \in Callers, t \in Tasks : HandleSpawn(c, t) \/ RunBlocking(c, t)
  BY <1>4 DEF HandleSpawn, RunBlocking, Next
<1>5. CASE \E e \in Executors : SendResult(e) \/ FutureStep(e) \/ FutureEnds(e) \/ LoopStep(e)
  BY <1>5, ExecutorRunsAsScheduled
<1>6. CASE \E c \in Callers, t \in Tasks, keep \in BOOLEAN : WakeTask(c, t, keep)
  BY <1>6 DEF WakeTask, Next
<1>7. CASE \E t \in Tasks : AbortSpawned(t) \/ DropStored(t)
  BY <1>7 DEF AbortSpawned, DropStored, Next
<1> QED BY <1>1, <1>2, <1>3, <1>4, <1>5, <1>6, <1>7 DEF RuntimeNext

(* The runtime (build, run_blocking, Handle::spawn) implements the          *)
(* scheduler: whatever calls the program makes, and from wherever, the      *)
(* executors and the task manager behave as module Scheduler says.          *)
THEOREM RuntimeImplementsScheduler == RuntimeSpec => Spec
<1>1. RuntimeInit => Init
  BY DEF RuntimeInit
<1>2. [RuntimeNext]_allVars => [Next]_vars
  BY RuntimeStepIsSchedulerStep DEF allVars
<1> QED BY <1>1, <1>2, PTL DEF RuntimeSpec, Spec

(* The manager's sends never block a thread that is inside run_blocking, or *)
(* an executor that has one waiting for it.                                 *)
THEOREM RuntimeSendsFindRoom == RuntimeSpec => []SendFindsRoom
  BY RuntimeImplementsScheduler, SendsFindRoom, PTL

(* A finished future is never polled again and none has two pollers, nested *)
(* run_blocking calls included.                                             *)
THEOREM RuntimePollsExclusive == RuntimeSpec => []PollExclusive
  BY RuntimeImplementsScheduler, PollsExclusive, PTL

(* A task that run_blocking or spawn registered stays registered until an   *)
(* executor receives it, it is aborted or a full waiting_tasks drops it,    *)
(* whatever nested calls block their executors in between.                  *)
THEOREM RuntimeRegistrationsKept == RuntimeSpec => RegistrationKept
  BY RuntimeImplementsScheduler, RegistrationsKept, PTL

(* The scheduler's invariants, with the runtime around it.                  *)
LEMMA RuntimeKeepsInvariants == RuntimeSpec => [](IInv /\ PollInv)
  BY RuntimeImplementsScheduler, PollInvariance, PTL

-----------------------------------------------------------------------------
(* When run_blocking may give up                                            *)

(* A future is spawned once, and a poisoned mutex stays poisoned.           *)
LEMMA FutureMoves ==
  ASSUME IInv, PollInv, [Next]_vars, NEW t \in Tasks
  PROVE  /\ future[t] # "new" => future'[t] # "new"
         /\ future[t] = "poisoned" => future'[t] = "poisoned"
<1> USE DEF managerVars, callVars, taskVars, panicVars
<1>1. TypeOK /\ CallerInv
  BY DEF IInv
<1>2. ASSUME NEW e \in Executors, epc[e] = "poll", NEW state \in {"none", "poisoned"},
             future' = [future EXCEPT ![cur[e]] = state]
      PROVE  /\ future'[t] # "new" \/ future'[t] = future[t]
             /\ future[t] = "poisoned" => future'[t] = "poisoned"
  BY <1>1, <1>2 DEF PollInv, TypeOK
<1>3. ASSUME NEW c \in Callers, NEW u \in Tasks, Spawn(c, u)
      PROVE  /\ future'[t] # "new" \/ future'[t] = future[t]
             /\ future[t] = "poisoned" => future'[t] = "poisoned"
  BY <1>1, <1>3 DEF Spawn, TypeOK
<1>4. ASSUME NEW c \in Callers, RegisterPushFull(c)
      PROVE  UNCHANGED future \/ (c \in Executors /\ epc[c] = "poll" /\ future' = [future EXCEPT ![cur[c]] = "poisoned"])
  BY <1>1, <1>4 DEF RegisterPushFull, CallerInv, Inside
<1>5. \/ UNCHANGED future
      \/ \E c \in Callers, u \in Tasks : Spawn(c, u)
      \/ \E e \in Executors, state \in {"none", "poisoned"} :
           epc[e] = "poll" /\ future' = [future EXCEPT ![cur[e]] = state]
  BY <1>4 DEF Next, vars, Wake, WakeSelf, StoreWaker, ExecutorStep, Recv, LockFuture, PollPending, PollReady,
         PollPanic, EndPoll, AfterReady, SendPanic, ExecutorDies, ExecutorReady, PushExecutor, CallStep, RegisterPop,
         RegisterSend, RegisterPush, Abort, DropWaker, DrainPanic
<1> QED
  BY <1>2, <1>3, <1>5

(* A task in an executor's channel is registered.                           *)
LEMMA ChannelHeadInFlight ==
  ASSUME IInv, NEW e \in Executors, ready_queue[e] # <<>>
  PROVE  InFlight(Head(ready_queue[e])) > 0
<1> DEFINE t == Head(ready_queue[e])
<1>1. TypeOK /\ ready_queue[e] \in Seq(Tasks) /\ Len(ready_queue[e]) <= 1
  BY DEF IInv, TokenInv, ChannelInv, TypeOK
<1>2. Len(ready_queue[e]) = 1
  BY <1>1, LenOfNonEmpty
<1>3. 1 \in DOMAIN ready_queue[e] /\ ready_queue[e][1] = t /\ 1 \in 1 .. MAX_QUEUED_TASKS
  BY <1>1, <1>2, SchedulerAssumption
<1>4. <<e, 1>> \in Sent(t)
  BY <1>3 DEF Sent
<1>5. Cardinality(Sent(t)) # 0
  BY <1>1, <1>4, PartsFinite, FS_EmptySet
<1> QED
  BY <1>1, <1>5, PartsFinite, InFlightParts

(* A spawned task that nobody holds is never held again: there is no Arc of *)
(* it to clone.                                                             *)
LEMMA DroppedStays ==
  ASSUME IInv, [Next]_vars, NEW t \in Tasks, future[t] # "new", ~Held(t)
  PROVE  ~Held(t)'
<1> USE DEF managerVars, callVars, taskVars, panicVars
<1>1. TypeOK /\ CallerInv /\ ~wakers[t] /\ (\A e \in Executors : cur[e] # t) /\ ~(InFlight(t) > 0)
  BY DEF IInv, Held
<1>2. ~(InFlight(t)' > 0)
  <2>1. ~Asked(t)
    BY <1>1 DEF Asked
  <2>2. InFlight(t) \in Nat /\ (InFlight(t)' = InFlight(t) \/ InFlight(t)' = InFlight(t) - 1)
    BY ONLY <2>1, IInv, [Next]_vars, t \in Tasks, RegistrationStep
  <2>3. QED
    BY <1>1, <2>2
<1>3. ~wakers'[t]
  <2>1. \/ UNCHANGED wakers
        \/ \E u \in Tasks, keep \in BOOLEAN : wakers[u] /\ wakers' = [wakers EXCEPT ![u] = keep]
        \/ \E e \in Executors : wakers' = [wakers EXCEPT ![cur[e]] = TRUE]
        \/ \E u \in Tasks : DropWaker(u)
    BY DEF Next, vars, Spawn, Wake, WakeSelf, StoreWaker, ExecutorStep, Recv, LockFuture, PollPending, PollReady,
         PollPanic, SendPanic, ExecutorDies, ExecutorReady, PushExecutor, CallStep, RegisterPop, RegisterSend, RegisterPush,
         RegisterPushFull, Abort, DropWaker, DrainPanic
  <2>2. QED
    BY <1>1, <2>1, Zenon DEF TypeOK, DropWaker
<1>4. ASSUME NEW e \in Executors
      PROVE  cur'[e] # t
  <2>1. t # None
    BY SchedulerAssumption
  <2>2. CASE Recv(e)
    <3>1. Head(ready_queue[e]) # t
      BY <1>1, <2>2, ChannelHeadInFlight DEF Recv
    <3>2. QED
      BY <1>1, <2>2, <3>1 DEF Recv, TypeOK
  <2>3. CASE ~Recv(e)
    <3>1. cur'[e] = cur[e] \/ cur'[e] = None
      BY <1>1, <2>3 DEF Next, vars, Spawn, Wake, WakeSelf, StoreWaker, ExecutorStep, Recv, LockFuture, PollPending,
         PollReady, PollPanic, EndPoll, SendPanic, ExecutorDies, ExecutorReady, PushExecutor, CallStep, RegisterPop, RegisterSend,
         RegisterPush, RegisterPushFull, Abort, DropWaker, DrainPanic, TypeOK
    <3>2. QED
      BY <1>1, <2>1, <3>1
  <2>4. QED
    BY <2>2, <2>3
<1> QED
  BY <1>2, <1>3, <1>4 DEF Held

(* The task of a run_blocking was spawned, and the caller waits for one it  *)
(* made.                                                                    *)
RunsInv ==
  /\ \A t \in runs : future[t] # "new"
  /\ \A c \in Callers : rpc[c] \in {"wait", "check"} => rtask[c] \in runs

(* A run_blocking has given up on a task only if a poll of it panicked or   *)
(* the task is gone.                                                        *)
FailedInv == \A t \in failed : future[t] = "poisoned" \/ ~Held(t)

RtInv == RuntimeTypeOK /\ RunsInv /\ FailedInv

(* What run_blocking gave up on is not polled.                              *)
LEMMA FailedNotPolled ==
  ASSUME IInv, PollInv, RtInv
  PROVE  FailedRunIsOver
<1>1. SUFFICES ASSUME NEW e \in Executors, epc[e] = "poll", cur[e] \in failed
               PROVE  FALSE
  BY DEF FailedRunIsOver
<1>2. future[cur[e]] = "some"
  BY <1>1 DEF PollInv
<1>3. Held(cur[e])
  BY DEF Held
<1> QED
  BY <1>1, <1>2, <1>3 DEF RtInv, FailedInv

(* The count of panics that have to be reported grows by a number.          *)
LEMMA FailuresCounted ==
  ASSUME failures \in Nat, CountFailures
  PROVE  failures' \in Nat
<1> DEFINE N == {e \in Executors : ~Notifying(epc[e]) /\ Notifying(epc'[e])}
<1>1. IsFiniteSet(N)
  BY ExecutorsFinite, FS_Subset
<1>2. Cardinality(N) \in Nat
  BY <1>1, FS_CardinalityType
<1> QED
  BY <1>2 DEF CountFailures

(* What each step does to the runtime's own variables.                      *)
LEMMA RuntimeTypeStep ==
  ASSUME IInv, PollInv, RtInv, RuntimeNext
  PROVE  /\ RuntimeTypeOK'
         /\ \A c \in Callers : rpc'[c] \in {"wait", "check"} => rtask'[c] \in runs'
<1> DEFINE RunsOK == \A c \in Callers : rpc[c] \in {"wait", "check"} => rtask[c] \in runs
<1>1. RuntimeTypeOK /\ RunsOK /\ failures' \in Nat
  BY FailuresCounted DEF RtInv, RunsInv, RuntimeTypeOK, RuntimeNext
<1>2. Executors \in SUBSET Callers /\ \A t \in Tasks : t # None
  BY SchedulerAssumption DEF Callers
<1>3. CASE UNCHANGED rtVars
  BY <1>1, <1>3 DEF RuntimeTypeOK, rtVars
<1>4. ASSUME NEW c \in Callers, Build(c)
      PROVE  RuntimeTypeOK' /\ RunsOK'
  <2>1. guard' \in [Callers -> BOOLEAN] /\ built' \in BOOLEAN
    BY <1>1, <1>4, Zenon DEF Build, RuntimeTypeOK
  <2>2. QED
    BY <1>1, <1>4, <2>1 DEF Build, RuntimeTypeOK
<1>5. ASSUME NEW c \in Callers, NEW t \in Tasks, RunBlocking(c, t)
      PROVE  RuntimeTypeOK' /\ RunsOK'
  <2>1. /\ rpc' \in [Callers -> RunPC] /\ rtask' \in [Callers -> Tasks \cup {None}]
        /\ \A d \in Callers : rtask'[d] = None <=> rpc'[d] \in {"idle", "unwind"}
    BY <1>1, <1>2, <1>5 DEF RunBlocking, RuntimeTypeOK, RunPC
  <2>2. RunsOK'
    BY <1>1, <1>5 DEF RunBlocking, RuntimeTypeOK
  <2>3. QED
    BY <1>1, <1>5, <2>1, <2>2 DEF RunBlocking, RuntimeTypeOK
<1>6. ASSUME NEW e \in Executors, SendResult(e)
      PROVE  RuntimeTypeOK' /\ RunsOK'
  <2>1. cur[e] \notin failed
    BY <1>6, FailedNotPolled DEF SendResult, InFuture, FailedRunIsOver
  <2>2. QED
    BY <1>1, <1>6, <2>1 DEF SendResult, RuntimeTypeOK
<1>7. ASSUME NEW c \in Callers, NEW next \in {"idle", "unwind"}, Leave(c, next)
      PROVE  /\ rpc' \in [Callers -> RunPC] /\ rtask' \in [Callers -> Tasks \cup {None}]
             /\ \A d \in Callers : rtask'[d] = None <=> rpc'[d] \in {"idle", "unwind"}
             /\ \A d \in Callers : rpc'[d] \in {"wait", "check"} => rtask'[d] \in runs
  BY <1>1, <1>7 DEF Leave, RuntimeTypeOK, RunPC
<1>8. ASSUME NEW c \in Callers, RunRecv(c)
      PROVE  RuntimeTypeOK' /\ RunsOK'
  <2>1. rtask[c] \in runs
    BY <1>1, <1>8 DEF RunRecv
  <2>2. CASE rtask[c] \in sent /\ rpc' = [rpc EXCEPT ![c] = "check"] /\ UNCHANGED <<rtask, failed>>
    BY <1>1, <1>8, <2>1, <2>2 DEF RunRecv, RuntimeTypeOK, RunPC
  <2>3. CASE Disconnected(rtask[c]) /\ Leave(c, "unwind") /\ failed' = failed \cup {rtask[c]}
    BY <1>1, <1>7, <1>8, <2>1, <2>3 DEF RunRecv, RuntimeTypeOK, Disconnected
  <2>4. QED
    BY <1>8, <2>2, <2>3 DEF RunRecv
<1>9. ASSUME NEW c \in Callers, RunCheck(c)
      PROVE  RuntimeTypeOK' /\ RunsOK'
  <2>1. guard' \in [Callers -> BOOLEAN]
    BY <1>1, <1>9, Zenon DEF RunCheck, RuntimeTypeOK
  <2>2. reported' \in Nat
    BY <1>1, <1>9 DEF RunCheck, RuntimeTypeOK
  <2>3. Leave(c, "unwind") \/ Leave(c, "idle")
    BY <1>9 DEF RunCheck
  <2>4. QED
    BY <1>1, <1>7, <1>9, <2>1, <2>2, <2>3 DEF RunCheck, RuntimeTypeOK
<1>10. ASSUME NEW c \in Callers, Unwind(c)
      PROVE  RuntimeTypeOK' /\ RunsOK'
  BY <1>1, <1>10 DEF Unwind, RuntimeTypeOK, RunPC
<1>11. ASSUME NEW c \in Callers, ManagerStep(c)
      PROVE  RuntimeTypeOK' /\ RunsOK'
  <2>1. CASE Leave(c, "idle") /\ UNCHANGED <<guard, built, runs, sent, failed, reported>>
    BY <1>1, <1>7, <2>1 DEF RuntimeTypeOK
  <2>2. QED
    BY <1>3, <1>11, <2>1 DEF ManagerStep
<1>12. \/ UNCHANGED rtVars
       \/ \E c \in Callers : Build(c) \/ RunRecv(c) \/ RunCheck(c) \/ Unwind(c) \/ ManagerStep(c)
       \/ \E c \in Callers, t \in Tasks : RunBlocking(c, t)
       \/ \E e \in Executors : SendResult(e)
  BY DEF RuntimeNext, RunStep, HandleSpawn, FutureStep, FutureEnds, LoopStep, WakeTask, AbortSpawned, DropStored
<1> QED
  BY <1>3, <1>4, <1>5, <1>6, <1>8, <1>9, <1>10, <1>11, <1>12

(* The runtime's invariant.                                                 *)
LEMMA RtInvStep ==
  ASSUME IInv, PollInv, RtInv, [RuntimeNext]_allVars
  PROVE  RtInv'
<1>1. [Next]_vars
  BY RuntimeStepIsSchedulerStep DEF allVars
<1>2. CASE UNCHANGED allVars
  <2>1. RuntimeTypeOK' /\ RunsInv' /\ FailedInv'
    BY <1>2 DEF RtInv, allVars, rtVars, vars, RuntimeTypeOK, RunsInv, FailedInv, Held, InFlight,
       managerVars, callVars, taskVars, panicVars
  <2>2. QED
    BY <2>1 DEF RtInv
<1>3. CASE RuntimeNext
  <2>1. RuntimeTypeOK /\ runs \subseteq Tasks /\ failed \subseteq runs /\ TypeOK
    BY DEF RtInv, RuntimeTypeOK, IInv
  <2>2. runs' = runs \/ \E c \in Callers, t \in Tasks : runs' = runs \cup {t} /\ Spawn(c, t)
    BY <1>3 DEF RuntimeNext, Build, RunStep, RunRecv, RunCheck, Unwind, ManagerStep, HandleSpawn, RunBlocking,
         SendResult, FutureStep, FutureEnds, LoopStep, WakeTask, AbortSpawned, DropStored, rtVars
  <2>3. \A t \in runs' : future'[t] # "new"
    <3>1. \A t \in runs : future'[t] # "new"
      BY <1>1, <2>1, FutureMoves DEF RtInv, RunsInv
    <3>2. ASSUME NEW c \in Callers, NEW t \in Tasks, Spawn(c, t)
          PROVE  future'[t] # "new"
      BY <2>1, <3>2 DEF Spawn, TypeOK
    <3>3. QED
      BY <2>2, <3>1, <3>2
  <2>4. ASSUME NEW t \in failed
        PROVE  future'[t] = "poisoned" \/ ~Held(t)'
    <3>1. t \in Tasks /\ future[t] # "new"
      BY <2>1 DEF RtInv, RunsInv
    <3>2. CASE future[t] = "poisoned"
      BY <1>1, <3>1, <3>2, FutureMoves
    <3>3. CASE ~Held(t)
      BY <1>1, <3>1, <3>3, DroppedStays
    <3>4. QED
      BY <3>2, <3>3 DEF RtInv, FailedInv
  <2>5. ASSUME NEW c \in Callers, NEW t, RunRecv(c), Disconnected(t)
        PROVE  future'[t] = "poisoned" \/ ~Held(t)'
    <3>1. UNCHANGED vars
      BY <2>5 DEF RunRecv
    <3>2. future'[t] = future[t]
      BY <3>1 DEF vars, taskVars
    <3>3. Held(t)' <=> Held(t)
      BY <3>1 DEF Held, InFlight, vars, managerVars, callVars, taskVars
    <3>4. QED
      BY <2>5, <3>2, <3>3 DEF Disconnected
  <2>6. failed' = failed \/ \E c \in Callers : RunRecv(c) /\ Disconnected(rtask[c]) /\ failed' = failed \cup {rtask[c]}
    BY <1>3 DEF RuntimeNext, Build, RunStep, RunRecv, RunCheck, Unwind, ManagerStep, HandleSpawn, RunBlocking,
         SendResult, FutureStep, FutureEnds, LoopStep, WakeTask, AbortSpawned, DropStored, rtVars
  <2>7. FailedInv'
    <3>1. ASSUME NEW t \in failed'
          PROVE  future'[t] = "poisoned" \/ ~Held(t)'
      BY <2>4, <2>5, <2>6
    <3>2. QED
      BY <3>1 DEF FailedInv
  <2>8. QED
    BY <1>3, <2>3, <2>7, RuntimeTypeStep DEF RtInv, RunsInv
<1> QED
  BY <1>2, <1>3

(* The runtime's invariant holds in every reachable state.                  *)
LEMMA RuntimeInvariance == RuntimeSpec => [](IInv /\ PollInv /\ RtInv)
<1>1. RuntimeInit => RtInv
  <2>1. ASSUME RuntimeInit
        PROVE  RuntimeTypeOK
    <3>1. guard \in [Callers -> BOOLEAN] /\ built \in BOOLEAN
      <4>1. guard = [c \in Callers |-> c \in Executors] /\ built = FALSE
        BY <2>1, Zenon DEF RuntimeInit
      <4>2. \A c \in Callers : (c \in Executors) \in BOOLEAN
        OBVIOUS
      <4>3. QED
        BY <4>1, <4>2
    <3>2. /\ rpc = [c \in Callers |-> "idle"] /\ rtask = [c \in Callers |-> None]
          /\ runs = {} /\ sent = {} /\ failed = {} /\ reported = 0 /\ failures = 0
      BY <2>1 DEF RuntimeInit
    <3>3. QED
      BY <3>1, <3>2 DEF RuntimeTypeOK, RunPC
  <2>2. RuntimeInit => RunsInv /\ FailedInv
    BY DEF RuntimeInit, RunsInv, FailedInv
  <2>3. QED
    BY <2>1, <2>2 DEF RtInv
<1>2. QED
  BY <1>1, RtInvStep, RuntimeKeepsInvariants, PTL DEF RuntimeSpec

(* The runtime's variables keep their types, and what they say of each      *)
(* other: a caller has a task exactly while its run_blocking waits or       *)
(* checks, and no run_blocking both got a result and met a dropped sender.  *)
THEOREM RuntimeTypeCorrect == RuntimeSpec => []RuntimeTypeOK
<1>1. RtInv => RuntimeTypeOK
  BY DEF RtInv
<1>2. QED
  BY <1>1, RuntimeInvariance, PTL

(* When run_blocking gives up with "Task failed to complete", no executor   *)
(* polls its future from then on, whatever wakers, spawns and panics follow.*)
THEOREM FailedRunsAreOver == RuntimeSpec => []FailedRunIsOver
<1>1. IInv /\ PollInv /\ RtInv => FailedRunIsOver
  BY FailedNotPolled
<1>2. QED
  BY <1>1, RuntimeInvariance, PTL

-----------------------------------------------------------------------------
(* Where the panic messages are                                             *)

Notifiers == {e \in Executors : Notifying(epc[e])}

(* The executors that have a message to send can be counted.                *)
LEMMA NotifiersFinite ==
  /\ IsFiniteSet(Notifiers) /\ Cardinality(Notifiers) \in Nat
  /\ IsFiniteSet(Notifiers') /\ Cardinality(Notifiers') \in Nat
<1>1. Notifiers \in SUBSET Executors /\ Notifiers' \in SUBSET Executors
  BY DEF Notifiers
<1> QED
  BY <1>1, ExecutorsFinite, FS_Subset, FS_CardinalityType

(* failures grows by the executors that have just come to have one.         *)
LEMMA FailuresGrow ==
  ASSUME CountFailures
  PROVE  failures' = failures + Cardinality(Notifiers' \ Notifiers)
<1>1. {e \in Executors : ~Notifying(epc[e]) /\ Notifying(epc'[e])} = Notifiers' \ Notifiers
  BY DEF Notifiers, Notifying
<1> QED
  BY <1>1 DEF CountFailures

(* If no message is sent, the new ones are the difference.                  *)
LEMMA NotifiersGrow ==
  ASSUME Notifiers \subseteq Notifiers'
  PROVE  Cardinality(Notifiers') = Cardinality(Notifiers) + Cardinality(Notifiers' \ Notifiers)
<1>1. Notifiers' \cap Notifiers = Notifiers
  OBVIOUS
<1>2. Cardinality(Notifiers' \ Notifiers) = Cardinality(Notifiers') - Cardinality(Notifiers)
  BY <1>1, NotifiersFinite, FS_Difference
<1> QED
  BY <1>2, NotifiersFinite

(* A message that is sent leaves its executor and enters the channel.       *)
LEMMA NotifierSends ==
  ASSUME IInv, NEW e \in Executors, SendPanic(e) \/ ExecutorDies(e)
  PROVE  /\ Cardinality(Notifiers') = Cardinality(Notifiers) - 1
         /\ Cardinality(Notifiers' \ Notifiers) = 0
         /\ panic_ch' = panic_ch + 1
<1>1. Notifiers' = Notifiers \ {e} /\ e \in Notifiers
  BY DEF SendPanic, ExecutorDies, AfterTask, Notifiers, Notifying, IInv, TypeOK
<1>2. Notifiers' \ Notifiers = {}
  BY <1>1
<1> QED
  BY <1>1, <1>2, NotifiersFinite, FS_RemoveElement, FS_EmptySet DEF SendPanic, ExecutorDies

(* Every other step of the scheduler, reads of the channel apart, leaves    *)
(* the messages where they are.                                             *)
LEMMA NotifiersStay ==
  ASSUME IInv, [Next]_vars, ~DrainPanic, \A e \in Executors : ~SendPanic(e) /\ ~ExecutorDies(e)
  PROVE  Notifiers \subseteq Notifiers' /\ panic_ch' = panic_ch
<1> USE DEF managerVars, callVars, taskVars, panicVars
<1>1. TypeOK /\ CallerInv
  BY DEF IInv
<1>2. panic_ch' = panic_ch
  BY DEF Next, vars, Spawn, Wake, WakeSelf, StoreWaker, ExecutorStep, Recv, LockFuture, PollPending, PollReady,
         PollPanic, ExecutorReady, PushExecutor, CallStep, RegisterPop, RegisterSend, RegisterPush, RegisterPushFull, Abort, DropWaker
<1>3. ASSUME NEW e \in Executors, Notifying(epc[e])
      PROVE  epc'[e] = epc[e]
  <2>1. epc[e] \in {"panic", "unwind"}
    BY <1>3 DEF Notifying
  <2>2. ASSUME NEW f \in Executors, ExecutorStep(f)
        PROVE  epc'[e] = epc[e]
    BY <1>1, <2>1, <2>2 DEF ExecutorStep, Recv, LockFuture, PollPending, PollReady, PollPanic, EndPoll, ExecutorReady,
         PushExecutor, TypeOK
  <2>3. ASSUME NEW c \in Callers, RegisterPushFull(c)
        PROVE  epc'[e] = epc[e]
    BY <1>1, <2>1, <2>3 DEF RegisterPushFull, CallerInv, Inside, TypeOK
  <2>4. \/ \E f \in Executors : ExecutorStep(f)
        \/ \E c \in Callers : RegisterPushFull(c)
        \/ UNCHANGED epc
    BY DEF Next, vars, Spawn, Wake, WakeSelf, StoreWaker, CallStep, RegisterPop, RegisterSend, RegisterPush, Abort, DropWaker
  <2>5. QED
    BY <2>2, <2>3, <2>4
<1> QED
  BY <1>2, <1>3 DEF Notifiers

(* Only run_blocking reads the panic channel, and it reports what it reads. *)
LEMMA Reports ==
  ASSUME RuntimeNext
  PROVE  \/ reported' = reported + 1 /\ DrainPanic
         \/ reported' = reported /\ (panic_ch' = panic_ch \/ panic_ch' = panic_ch + 1)
<1> USE DEF panicVars
<1>1. ASSUME NEW c \in Callers, RunCheck(c)
      PROVE  \/ reported' = reported + 1 /\ DrainPanic
             \/ reported' = reported /\ panic_ch' = panic_ch
  BY <1>1 DEF RunCheck, vars
<1>2. ASSUME NEW c \in Callers, Build(c) \/ RunRecv(c) \/ Unwind(c) \/ ManagerStep(c)
      PROVE  reported' = reported /\ panic_ch' = panic_ch
  BY <1>2 DEF Build, RunRecv, Unwind, PollPanic, ManagerStep, RegisterPop, RegisterSend, RegisterPush, RegisterPushFull, vars, rtVars
<1>3. ASSUME NEW c \in Callers, NEW t \in Tasks, HandleSpawn(c, t) \/ RunBlocking(c, t)
      PROVE  reported' = reported /\ panic_ch' = panic_ch
  BY <1>3 DEF HandleSpawn, RunBlocking, Spawn, rtVars
<1>4. ASSUME NEW e \in Executors, SendResult(e) \/ FutureStep(e) \/ FutureEnds(e) \/ LoopStep(e)
      PROVE  reported' = reported /\ (panic_ch' = panic_ch \/ panic_ch' = panic_ch + 1)
  BY <1>4 DEF SendResult, FutureStep, FutureEnds, LoopStep, WakeSelf, StoreWaker, PollPending, PollPanic, PollReady, Recv,
         LockFuture, SendPanic, ExecutorDies, ExecutorReady, PushExecutor, vars, rtVars
<1>5. ASSUME NEW c \in Callers, NEW t \in Tasks, NEW keep \in BOOLEAN, WakeTask(c, t, keep)
      PROVE  reported' = reported /\ panic_ch' = panic_ch
  BY <1>5 DEF WakeTask, Wake, rtVars
<1>6. ASSUME NEW t \in Tasks, AbortSpawned(t) \/ DropStored(t)
      PROVE  reported' = reported /\ panic_ch' = panic_ch
  BY <1>6 DEF AbortSpawned, DropStored, Abort, DropWaker, rtVars
<1> QED
  BY <1>1, <1>2, <1>3, <1>4, <1>5, <1>6 DEF RuntimeNext, RunStep

(* Every panic of an executor is about to be sent, in the panic channel or  *)
(* reported, and counted once: no message is lost or made up between        *)
(* forward_task, the thread's own handler and the run_blocking calls.       *)
THEOREM NoticesAccounted == RuntimeSpec => []NoticeAccounted
<1>1. RuntimeInit => NoticeAccounted
  <2>1. ASSUME RuntimeInit
        PROVE  {e \in Executors : Notifying(epc[e])} = {}
    BY <2>1 DEF RuntimeInit, Init, Notifying
  <2>2. ASSUME RuntimeInit
        PROVE  failures = 0 /\ reported = 0 /\ panic_ch = 0
    BY <2>2 DEF RuntimeInit, Init
  <2>3. Cardinality({}) = 0
    BY FS_EmptySet
  <2>4. QED
    BY <2>1, <2>2, <2>3 DEF NoticeAccounted
<1>2. ASSUME IInv, PollInv, RtInv, NoticeAccounted, [RuntimeNext]_allVars
      PROVE  NoticeAccounted'
  <2>1. /\ failures = reported + panic_ch + Cardinality(Notifiers)
        /\ reported \in Nat /\ panic_ch \in Nat /\ failures \in Nat
    BY <1>2 DEF NoticeAccounted, Notifiers, RtInv, RuntimeTypeOK, IInv, TypeOK
  <2>2. SUFFICES failures' = reported' + panic_ch' + Cardinality(Notifiers')
    BY DEF NoticeAccounted, Notifiers
  <2>3. CASE UNCHANGED allVars
    <3>1. Notifiers' = Notifiers /\ UNCHANGED <<failures, reported, panic_ch>>
      BY <2>3 DEF Notifiers, allVars, vars, rtVars, panicVars
    <3>2. QED
      BY <2>1, <3>1
  <2>4. CASE RuntimeNext
    <3>1. failures' = failures + Cardinality(Notifiers' \ Notifiers) /\ [Next]_vars
      BY <2>4, FailuresGrow, RuntimeStepIsSchedulerStep DEF RuntimeNext
    <3>2. CASE reported' = reported + 1 /\ DrainPanic
      <4>1. Notifiers' = Notifiers /\ panic_ch' = panic_ch - 1
        BY <3>2 DEF DrainPanic, Notifiers
      <4>2. Cardinality(Notifiers' \ Notifiers) = 0
        BY <4>1, FS_EmptySet
      <4>3. QED
        BY <2>1, <3>1, <3>2, <4>1, <4>2, NotifiersFinite
    <3>3. CASE reported' = reported /\ (panic_ch' = panic_ch \/ panic_ch' = panic_ch + 1)
      <4>1. ~DrainPanic
        BY <2>1, <3>3 DEF DrainPanic
      <4>2. CASE \E e \in Executors : SendPanic(e) \/ ExecutorDies(e)
        <5>1. /\ Cardinality(Notifiers') = Cardinality(Notifiers) - 1
              /\ Cardinality(Notifiers' \ Notifiers) = 0
              /\ panic_ch' = panic_ch + 1
          BY <1>2, <4>2, NotifierSends
        <5>2. QED
          BY <2>1, <3>1, <3>3, <5>1, NotifiersFinite
      <4>3. CASE \A e \in Executors : ~SendPanic(e) /\ ~ExecutorDies(e)
        <5>1. Notifiers \subseteq Notifiers' /\ panic_ch' = panic_ch
          BY <1>2, <3>1, <4>1, <4>3, NotifiersStay
        <5>2. Cardinality(Notifiers') = Cardinality(Notifiers) + Cardinality(Notifiers' \ Notifiers)
          BY <5>1, NotifiersGrow
        <5>3. Cardinality(Notifiers' \ Notifiers) \in Nat
          BY NotifiersFinite, FS_Difference, FS_CardinalityType
        <5>4. QED
          BY <2>1, <3>1, <3>3, <5>1, <5>2, <5>3, NotifiersFinite
      <4>4. QED
        BY <4>2, <4>3
    <3>4. QED
      BY <2>4, <3>2, <3>3, Reports
  <2>5. QED
    BY <1>2, <2>3, <2>4
<1>3. QED
  BY <1>1, <1>2, RuntimeInvariance, PTL DEF RuntimeSpec
=============================================================================
