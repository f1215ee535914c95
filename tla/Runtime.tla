------------------------------- MODULE Runtime -------------------------------
(***************************************************************************)
(* The runtime as its users see it (runtime.rs): RuntimeBuilder::build, the*)
(* runtime guard, Runtime::run_blocking under Handle::run_blocking and     *)
(* Handle::spawn, on top of the executors and the task manager of module   *)
(* Scheduler.                                                              *)
(*                                                                         *)
(* build stores the runtime in a thread local of the calling thread and of *)
(* every executor, so run_blocking can be called by the main thread and by *)
(* the future that an executor polls.  It registers a task that sends its  *)
(* result on a channel and waits: for the result, or for the sender to be  *)
(* dropped, which happens when the poll panics and when the last Arc of    *)
(* the task goes.  Afterwards it looks for a message in the panic channel. *)
(*                                                                         *)
(* Scheduler's actions are used as they are; an action here adds what the  *)
(* runtime does in the same step.                                          *)
(***************************************************************************)
EXTENDS Scheduler

CONSTANTS
  Main,           \* the thread that builds the runtime
  MaxTaskPanics   \* bound: polls that panic by themselves

ASSUME RuntimeAssumption ==
  /\ Main \in Threads
  /\ MaxTaskPanics \in Nat

VARIABLES
  guard,      \* RUNTIME_GUARD of each thread
  built,      \* whether the thread locals hold the runtime
  rpc,        \* where each caller is in run_blocking
  rtask,      \* the task its run_blocking waits for
  runs,       \* tasks made by run_blocking
  sent,       \* those that sent their result
  failed,     \* history: those whose caller met a dropped sender
  reported,   \* history: calls that ended with "Executor panicked"
  failures    \* history: executors that set out to send a panic message

rtVars == <<guard, built, rpc, rtask, runs, sent, failed, reported>>
allVars == <<vars, rtVars, failures>>

(* "wait" is recv on the result channel, "check" the look at panic_rx,      *)
(* "unwind" a panic on its way to the caller.                               *)
RunPC == {"idle", "wait", "check", "unwind"}

RuntimeTypeOK ==
  /\ guard \in [Callers -> BOOLEAN]
  /\ built \in BOOLEAN
  /\ rpc \in [Callers -> RunPC]
  /\ rtask \in [Callers -> Tasks \cup {None}]
  /\ \A c \in Callers : rtask[c] = None <=> rpc[c] \in {"idle", "unwind"}
  /\ runs \subseteq Tasks /\ sent \subseteq runs /\ failed \subseteq runs \ sent
  /\ reported \in Nat
  /\ failures \in Nat

(* The executors are there from the start and have set their guards; until  *)
(* build returns nobody can reach them.                                     *)
RuntimeInit ==
  /\ Init
  /\ guard = [c \in Callers |-> c \in Executors]
  /\ built = FALSE
  /\ rpc = [c \in Callers |-> "idle"]
  /\ rtask = [c \in Callers |-> None]
  /\ runs = {}
  /\ sent = {}
  /\ failed = {}
  /\ reported = 0
  /\ failures = 0

-----------------------------------------------------------------------------
(* Program code runs in the future that executor e polls: it is not inside  *)
(* run_blocking and, if a run_blocking made the task, has not sent yet.     *)
InFuture(e) ==
  /\ epc[e] = "poll"
  /\ cpc[e] = "idle"
  /\ rpc[e] = "idle"
  /\ cur[e] \notin sent

(* Program code runs in c, the main thread or a polled future.              *)
InProgram(c) ==
  \/ c \in Executors /\ InFuture(c)
  \/ c = Main /\ cpc[c] = "idle" /\ rpc[c] = "idle"

(* Runtime::handle finds the runtime.                                       *)
CanUse(c) == built /\ InProgram(c)

(* build with the guard free.  A second build keeps the runtime it finds;   *)
(* with the guard set it panics and changes nothing.                        *)
Build(c) ==
  /\ InProgram(c)
  /\ ~guard[c]
  /\ guard' = [guard EXCEPT ![c] = TRUE]
  /\ built' = TRUE
  /\ UNCHANGED <<vars, rpc, rtask, runs, sent, failed, reported>>

(* Handle::spawn                                                            *)
HandleSpawn(c, t) ==
  /\ CanUse(c)
  /\ Spawn(c, t)
  /\ UNCHANGED rtVars

(* Runtime::run_blocking up to the registration of its task.                *)
RunBlocking(c, t) ==
  /\ CanUse(c)
  /\ Spawn(c, t)
  /\ rpc' = [rpc EXCEPT ![c] = "wait"]
  /\ rtask' = [rtask EXCEPT ![c] = t]
  /\ runs' = runs \cup {t}
  /\ UNCHANGED <<guard, built, sent, failed, reported>>

(* The wrapped future of run_blocking sends the result, just before its     *)
(* poll ends.                                                               *)
SendResult(e) ==
  /\ InFuture(e)
  /\ cur[e] \in runs
  /\ sent' = sent \cup {cur[e]}
  /\ UNCHANGED <<vars, guard, built, rpc, rtask, runs, failed, reported>>

(* Somebody has an Arc of the task: a queue, a caller, a waker, an executor.*)
Held(t) == InFlight(t) > 0 \/ wakers[t] \/ \E e \in Executors : cur[e] = t

(* Mutant: the channel is taken for closed when the task is not queued.     *)
NotQueued(t) == t \notin sent /\ InFlight(t) = 0 /\ \A e \in Executors : cur[e] # t

(* Mutant: a poll that panics keeps the sender alive with the task.         *)
NotHeld(t) == t \notin sent /\ ~Held(t)

(* Mutant: a dropped sender is looked for before the result.                *)
DroppedFirst(t) == future[t] = "poisoned" \/ ~Held(t)

(* The sender of the result was dropped before it was used.                 *)
Disconnected(t) == t \notin sent /\ (future[t] = "poisoned" \/ ~Held(t))

(* Where run_blocking goes on once the channel has answered.                *)
Leave(c, next) ==
  /\ rpc' = [rpc EXCEPT ![c] = next]
  /\ rtask' = [rtask EXCEPT ![c] = None]

(* rx.recv() of Runtime::run_blocking.  A dropped sender is a panic that    *)
(* skips the look at panic_rx and leaves the guard set.                     *)
RunRecv(c) ==
  /\ rpc[c] = "wait"
  /\ cpc[c] = "idle"
  /\ \/ /\ rtask[c] \in sent
        /\ rpc' = [rpc EXCEPT ![c] = "check"]
        /\ UNCHANGED <<rtask, failed>>
     \/ /\ Disconnected(rtask[c])
        /\ Leave(c, "unwind")
        /\ failed' = failed \cup {rtask[c]}
  /\ UNCHANGED <<vars, guard, built, runs, sent, reported>>

(* The rest of Handle::run_blocking: a message, of whatever panic it is,    *)
(* releases the guard and panics; none returns the result.                  *)
RunCheck(c) ==
  /\ rpc[c] = "check"
  /\ \/ /\ DrainPanic
        /\ guard' = [guard EXCEPT ![c] = FALSE]
        /\ reported' = reported + 1
        /\ Leave(c, "unwind")
     \/ /\ panic_ch = 0
        /\ Leave(c, "idle")
        /\ UNCHANGED <<vars, guard, reported>>
  /\ UNCHANGED <<built, runs, sent, failed>>

(* The panic of run_blocking ends the poll it was called in; in the main    *)
(* thread the program catches it.                                           *)
Unwind(c) ==
  /\ rpc[c] = "unwind"
  /\ IF c \in Executors THEN PollPanic(c) ELSE UNCHANGED vars
  /\ rpc' = [rpc EXCEPT ![c] = "idle"]
  /\ UNCHANGED <<guard, built, rtask, runs, sent, failed, reported>>

-----------------------------------------------------------------------------
(* Steps of Scheduler that leave the runtime alone.                         *)

(* What a polled future does besides using the runtime.                     *)
FutureStep(e) ==
  /\ InFuture(e)
  /\ WakeSelf(e) \/ StoreWaker(e)
  /\ UNCHANGED rtVars

(* The end of its poll.  A task of run_blocking is ready right after it has *)
(* sent.                                                                    *)
FutureEnds(e) ==
  /\ \/ InFuture(e) /\ PollPending(e)
     \/ InFuture(e) /\ panics < MaxTaskPanics /\ PollPanic(e)
     \/ InFuture(e) /\ cur[e] \notin runs /\ PollReady(e)
     \/ cur[e] \in sent /\ PollReady(e)
  /\ UNCHANGED rtVars

(* Wakes come from polled futures and from threads other than Main.         *)
WakeTask(c, t, keep) ==
  /\ c # Main
  /\ c \in Executors => InFuture(c)
  /\ Wake(c, t, keep)
  /\ UNCHANGED rtVars

(* What the executor thread does around the poll.                           *)
LoopStep(e) ==
  /\ \/ Recv(e)
     \/ LockFuture(e)
     \/ SendPanic(e)
     \/ ExecutorDies(e)
     \/ ExecutorReady(e)
     \/ PushExecutor(e)
  /\ UNCHANGED rtVars

(* A push that meets a full waiting_tasks panics out of a run_blocking too. *)
ManagerStep(c) ==
  \/ (RegisterPop(c) \/ RegisterSend(c) \/ RegisterPush(c)) /\ UNCHANGED rtVars
  \/ /\ RegisterPushFull(c)
     /\ Leave(c, "idle")
     /\ UNCHANGED <<guard, built, runs, sent, failed, reported>>

(* The task of a run_blocking has no JoinHandle.                            *)
AbortSpawned(t) == t \notin runs /\ Abort(t) /\ UNCHANGED rtVars

(* A waker of t is dropped, by the reactor or by other threads or futures.  *)
DropStored(t) == DropWaker(t) /\ UNCHANGED rtVars

(* What c does by itself inside run_blocking.                               *)
RunStep(c) == RunRecv(c) \/ RunCheck(c) \/ Unwind(c)

Notifying(pc) == pc \in {"panic", "unwind"}

CountFailures ==
  failures' = failures + Cardinality({e \in Executors : ~Notifying(epc[e]) /\ Notifying(epc'[e])})

RuntimeNext ==
  /\ \/ \E c \in Callers : Build(c) \/ RunStep(c) \/ ManagerStep(c)
     \/ \E c \in Callers, t \in Tasks : HandleSpawn(c, t) \/ RunBlocking(c, t)
     \/ \E e \in Executors : SendResult(e) \/ FutureStep(e) \/ FutureEnds(e) \/ LoopStep(e)
     \/ \E c \in Callers, t \in Tasks, keep \in BOOLEAN : WakeTask(c, t, keep)
     \/ \E t \in Tasks : AbortSpawned(t) \/ DropStored(t)
  /\ CountFailures

RuntimeSpec == RuntimeInit /\ [][RuntimeNext]_allVars

(* Every thread is scheduled, and a poll that is not inside run_blocking    *)
(* ends.                                                                    *)
RuntimeFairness ==
  /\ \A e \in Executors : WF_allVars((FutureEnds(e) \/ SendResult(e) \/ LoopStep(e)) /\ CountFailures)
  /\ \A c \in Callers : WF_allVars((RunStep(c) \/ ManagerStep(c)) /\ CountFailures)

RuntimeFairSpec == RuntimeSpec /\ RuntimeFairness

-----------------------------------------------------------------------------
(* Every panic in an executor, caught in forward_task or ending the thread, *)
(* is on its way to the panic channel, in it, or was reported by exactly    *)
(* one run_blocking; none is reported twice or without a cause, although    *)
(* the call that reports it need not be the one it happened under.          *)
NoticeAccounted ==
  failures = reported + panic_ch + Cardinality({e \in Executors : Notifying(epc[e])})

(* A run_blocking that gave up ("Task failed to complete") is right: no     *)
(* executor polls its future afterwards, whatever wakers are around.        *)
FailedRunIsOver ==
  \A e \in Executors : epc[e] = "poll" => cur[e] \notin failed

(* The future of t is itself in a run_blocking.                             *)
Nested(t) == \E e \in Executors : epc[e] = "poll" /\ cur[e] = t /\ rpc[e] = "wait"

(* The executor takes no task from the manager unless another thread acts:  *)
(* it waits for one, is dead, cannot send its panic message, is inside a    *)
(* run_blocking, or waits for the mutex of a future that is.                *)
Idles(e) ==
  \/ Parked(e)
  \/ epc[e] = "dead"
  \/ Notifying(epc[e]) /\ ~PanicChannelHasRoom
  \/ epc[e] = "poll" /\ rpc[e] = "wait"
  \/ epc[e] = "lock" /\ Nested(cur[e])

(* Task t waits in the manager and every executor idles.                    *)
Stuck(t) ==
  /\ \E i \in DOMAIN waiting_tasks : waiting_tasks[i] = t
  /\ \A e \in Executors : Idles(e)

(* The future has returned Pending and another component has its waker.     *)
Dormant(t) == future[t] = "some" /\ wakers[t] /\ InFlight(t) = 0

(* A run_blocking that never returns waits for a future that nobody has     *)
(* woken, for one that is in a nested run_blocking, or for a task that no   *)
(* executor will take.  Whatever else happens to its task (it panics, it is *)
(* dropped, its wakes race with its poll, an executor dies), it returns.    *)
EndlessWaitExcused ==
  \A c \in Callers :
    <>[](rpc[c] = "wait" /\ cpc[c] = "idle") =>
      <>[](rtask[c] # None /\ (Dormant(rtask[c]) \/ Nested(rtask[c]) \/ Stuck(rtask[c])))

(* A registered task that no executor ever receives was aborted, or every   *)
(* executor idles: no wake, spawn or abort makes the manager forget a task  *)
(* while an executor works.                                                 *)
RegisteredIsTaken ==
  \A t \in Tasks : <>[](InFlight(t) > 0) => <>[](abort[t] \/ Stuck(t))

(* A run_blocking of the main thread does not wait for a task that lies in  *)
(* waiting_tasks while every executor waits for a task.                     *)
RunIsTaken == ~(rpc[Main] = "wait" /\ Stranded)
=============================================================================
