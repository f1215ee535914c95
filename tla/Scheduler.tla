------------------------------ MODULE Scheduler ------------------------------
(***************************************************************************)
(* The task scheduler of the runtime: TaskManager (task/manager.rs), the   *)
(* Executor threads (executor.rs), the waker of a Task (task/task.rs) and  *)
(* JoinHandle::abort (spawner.rs).                                         *)
(*                                                                         *)
(* A thread enters the manager through                                     *)
(* register_or_execute_non_blocking_task, either to spawn a task or to     *)
(* wake one.  Callers are the executors themselves, from inside a poll,    *)
(* and the threads outside the executors: the main thread, the reactor     *)
(* thread and the pool threads.  Between the abort check, the pop of       *)
(* waiting_executors and the send or push that follows, every other thread *)
(* may run.                                                                *)
(*                                                                         *)
(* The two ring buffers of the manager are sequences here: one push and    *)
(* one pop are each one step.  Module RingBuffer models those operations   *)
(* load by load and says when this is justified.                           *)
(***************************************************************************)
EXTENDS Naturals, Sequences, FiniteSets

CONSTANTS
  Tasks,              \* the Arc<Task> objects
  Executors,          \* the executor threads, by ExecutorId
  Threads,            \* other threads that spawn or wake: main, reactor, pool
  None,
  MAX_QUEUED_TASKS,   \* bound of an executor's channel (10_000 in the code)
  WAITING_TASKS_CAP,  \* bound of waiting_tasks (128 * 1000 in the code)
  MaxThreadCalls,     \* bound: spawns and wakes made by Threads
  MaxPollCalls,       \* bound: spawns and wakes made from inside polls
  MaxPanics           \* bound: polls that panic

(* RuntimeBuilder::num_workers is a number.                                 *)
ASSUME ExecutorsFinite == IsFiniteSet(Executors)

(* The main thread, the reactor thread and the threads of the pool.         *)
ASSUME ThreadsFinite == IsFiniteSet(Threads)

ASSUME SchedulerAssumption ==
  /\ Executors \cap Threads = {}
  /\ None \notin Tasks \cup Executors
  /\ MAX_QUEUED_TASKS \in Nat \ {0}
  /\ WAITING_TASKS_CAP \in Nat \ {0}
  /\ MaxThreadCalls \in Nat
  /\ MaxPollCalls \in Nat
  /\ MaxPanics \in Nat

Callers == Executors \cup Threads

VARIABLES
  waiting_tasks,      \* TaskManager::waiting_tasks
  waiting_executors,  \* TaskManager::waiting_executors
  ready_queue,        \* each executor's channel
  epc,                \* where each executor is in Executor::run
  cur,                \* the task an executor is forwarding, or None
  cpc,                \* where each caller is inside the manager
  ctask,              \* the task a caller is registering
  cexec,              \* the executor a caller has popped
  future,             \* state of Task::future and its mutex
  abort,              \* Task::abort
  wakers,             \* whether some other component holds a waker of the task
  panic_ch,           \* messages in the panic channel (bound 1)
  calls,              \* calls made so far, by kind of caller
  panics,             \* polls that panicked so far
  completed           \* history: tasks whose future returned Ready or panicked

managerVars == <<waiting_tasks, waiting_executors, ready_queue>>
callVars    == <<cpc, ctask, cexec>>
taskVars    == <<future, abort, wakers, completed>>
panicVars   == <<panic_ch, panics>>
vars == <<managerVars, epc, cur, callVars, taskVars, panicVars, calls>>

-----------------------------------------------------------------------------
(* Executor::run: "recv" is the blocking recv() of the channel, "lock" the  *)
(* lock of the future, "poll" the closure under catch_unwind, "panic" the   *)
(* send on panic_tx, "ready" the pop in executor_ready, "push" the push of  *)
(* the executor's id, "unwind" the handler around run() in the thread.      *)
ExecutorPC == {"recv", "lock", "poll", "panic", "ready", "push", "unwind", "dead"}

(* Inside register_or_execute_non_blocking_task, past the abort check:      *)
(* "pop" before the pop of waiting_executors, "send" after an executor was  *)
(* popped, "push" after it was found empty.                                 *)
Inside == {"pop", "send", "push"}

CallerPC == {"idle", "dead"} \cup Inside

(* Task::future: not spawned yet, Some(future), None after Poll::Ready, or  *)
(* behind a mutex poisoned by a poll that panicked.                         *)
FutureState == {"new", "some", "none", "poisoned"}

TypeOK ==
  /\ waiting_tasks \in Seq(Tasks)
  /\ waiting_executors \in Seq(Executors)
  /\ ready_queue \in [Executors -> Seq(Tasks)]
  /\ epc \in [Executors -> ExecutorPC]
  /\ cur \in [Executors -> Tasks \cup {None}]
  /\ cpc \in [Callers -> CallerPC]
  /\ ctask \in [Callers -> Tasks \cup {None}]
  /\ cexec \in [Callers -> Executors \cup {None}]
  /\ future \in [Tasks -> FutureState]
  /\ abort \in [Tasks -> BOOLEAN]
  /\ wakers \in [Tasks -> BOOLEAN]
  /\ panic_ch \in 0..1
  /\ calls \in [{"thread", "poll"} -> Nat]
  /\ panics \in Nat
  /\ completed \subseteq Tasks

(* The initial content of waiting_executors: register_executor has pushed   *)
(* the id of every executor once.                                           *)
RegisteredExecutors ==
  {s \in [1..Cardinality(Executors) -> Executors] :
     /\ \A i, j \in DOMAIN s : s[i] = s[j] => i = j
     /\ \A e \in Executors : \E i \in DOMAIN s : s[i] = e}

(* The state RuntimeBuilder::build leaves behind.                           *)
Init ==
  /\ waiting_tasks = <<>>
  /\ waiting_executors \in RegisteredExecutors
  /\ ready_queue = [e \in Executors |-> <<>>]
  /\ epc = [e \in Executors |-> "recv"]
  /\ cur = [e \in Executors |-> None]
  /\ cpc = [c \in Callers |-> "idle"]
  /\ ctask = [c \in Callers |-> None]
  /\ cexec = [c \in Callers |-> None]
  /\ future = [t \in Tasks |-> "new"]
  /\ abort = [t \in Tasks |-> FALSE]
  /\ wakers = [t \in Tasks |-> FALSE]
  /\ panic_ch = 0
  /\ calls = [k \in {"thread", "poll"} |-> 0]
  /\ panics = 0
  /\ completed = {}

-----------------------------------------------------------------------------
(* register_or_execute_non_blocking_task                                    *)

(* A caller can enter the manager: a thread at any time, an executor from   *)
(* inside the poll it is running.                                           *)
CanCall(c) ==
  /\ cpc[c] = "idle"
  /\ IF c \in Executors
       THEN epc[c] = "poll" /\ calls["poll"] < MaxPollCalls
       ELSE calls["thread"] < MaxThreadCalls

CountCall(c) ==
  calls' = [calls EXCEPT ![IF c \in Executors THEN "poll" ELSE "thread"] = @ + 1]

(* Mutant: the has_aborted check at the start of the function is missing.   *)
RegisterNeverSkips(t) == FALSE

(* Task::has_aborted as register_or_execute_non_blocking_task asks it.      *)
RegisterSkips(t) == abort[t]

(* A caller enters: the abort check.                                        *)
Register(c, t) ==
  \/ /\ RegisterSkips(t)
     /\ UNCHANGED callVars
  \/ /\ ~RegisterSkips(t)
     /\ ctask' = [ctask EXCEPT ![c] = t]
     /\ cpc' = [cpc EXCEPT ![c] = "pop"]
     /\ UNCHANGED cexec

(* Spawner::spawn: a fresh task is registered.                              *)
Spawn(c, t) ==
  /\ CanCall(c)
  /\ future[t] = "new"
  /\ future' = [future EXCEPT ![t] = "some"]
  /\ CountCall(c)
  /\ Register(c, t)
  /\ UNCHANGED <<managerVars, epc, cur, abort, wakers, completed, panicVars>>

(* wake and wake_by_ref of a stored waker: wake consumes it, wake_by_ref    *)
(* keeps it.                                                                *)
Wake(c, t, keep) ==
  /\ CanCall(c)
  /\ wakers[t]
  /\ wakers' = [wakers EXCEPT ![t] = keep]
  /\ CountCall(c)
  /\ Register(c, t)
  /\ UNCHANGED <<managerVars, epc, cur, future, abort, completed, panicVars>>

(* A future wakes itself through the waker of its own context.              *)
WakeSelf(e) ==
  /\ CanCall(e)
  /\ CountCall(e)
  /\ Register(e, cur[e])
  /\ UNCHANGED <<managerVars, epc, cur, taskVars, panicVars>>

(* The pop of waiting_executors.                                            *)
RegisterPop(c) ==
  /\ cpc[c] = "pop"
  /\ \/ /\ waiting_executors # <<>>
        /\ cexec' = [cexec EXCEPT ![c] = Head(waiting_executors)]
        /\ waiting_executors' = Tail(waiting_executors)
        /\ cpc' = [cpc EXCEPT ![c] = "send"]
     \/ /\ waiting_executors = <<>>
        /\ cpc' = [cpc EXCEPT ![c] = "push"]
        /\ UNCHANGED <<cexec, waiting_executors>>
  /\ UNCHANGED <<waiting_tasks, ready_queue, epc, cur, ctask, taskVars, panicVars, calls>>

ReturnToCaller(c) ==
  /\ cpc' = [cpc EXCEPT ![c] = "idle"]
  /\ ctask' = [ctask EXCEPT ![c] = None]
  /\ cexec' = [cexec EXCEPT ![c] = None]

(* The task goes to the popped executor's channel; the send blocks while    *)
(* the channel is full.                                                     *)
RegisterSend(c) ==
  /\ cpc[c] = "send"
  /\ Len(ready_queue[cexec[c]]) < MAX_QUEUED_TASKS
  /\ ready_queue' = [ready_queue EXCEPT ![cexec[c]] = Append(@, ctask[c])]
  /\ ReturnToCaller(c)
  /\ UNCHANGED <<waiting_tasks, waiting_executors, epc, cur, taskVars, panicVars, calls>>

(* No executor was waiting: the task waits.                                 *)
RegisterPush(c) ==
  /\ cpc[c] = "push"
  /\ Len(waiting_tasks) < WAITING_TASKS_CAP
  /\ waiting_tasks' = Append(waiting_tasks, ctask[c])
  /\ ReturnToCaller(c)
  /\ UNCHANGED <<waiting_executors, ready_queue, epc, cur, taskVars, panicVars, calls>>

(* waiting_tasks is full: unwrap panics the caller.  A thread dies, an      *)
(* executor unwinds out of the poll it is in.                               *)
RegisterPushFull(c) ==
  /\ cpc[c] = "push"
  /\ Len(waiting_tasks) = WAITING_TASKS_CAP
  /\ ctask' = [ctask EXCEPT ![c] = None]
  /\ IF c \in Executors
       THEN /\ cpc' = [cpc EXCEPT ![c] = "idle"]
            /\ epc' = [epc EXCEPT ![c] = "panic"]
            /\ cur' = [cur EXCEPT ![c] = None]
            /\ future' = [future EXCEPT ![cur[c]] = "poisoned"]
            /\ completed' = completed \cup {cur[c]}
       ELSE /\ cpc' = [cpc EXCEPT ![c] = "dead"]
            /\ UNCHANGED <<epc, cur, future, completed>>
  /\ UNCHANGED <<managerVars, cexec, abort, wakers, panicVars, calls>>

-----------------------------------------------------------------------------
(* Executor::run and forward_task                                           *)

(* Mutant: the executor parks without looking at waiting_tasks.             *)
ParksAfterTask == "push"

(* Mutant: run() goes back to its channel without executor_ready.           *)
ForgetsReady == "recv"

(* After every task, run() calls executor_ready.                            *)
AfterTask == "ready"

(* The receive of a task from the ready queue.                              *)
Recv(e) ==
  /\ epc[e] = "recv"
  /\ ready_queue[e] # <<>>
  /\ cur' = [cur EXCEPT ![e] = Head(ready_queue[e])]
  /\ ready_queue' = [ready_queue EXCEPT ![e] = Tail(@)]
  /\ epc' = [epc EXCEPT ![e] = "lock"]
  /\ UNCHANGED <<waiting_tasks, waiting_executors, callVars, taskVars, panicVars, calls>>

(* The mutex of the future is held by the executor that polls it.           *)
Locked(t) == \E e \in Executors : epc[e] = "poll" /\ cur[e] = t

(* lock().unwrap() and the match on the Option: Some is polled, None is     *)
(* left alone, a poisoned mutex panics outside forward_task's catch_unwind. *)
LockFuture(e) ==
  /\ epc[e] = "lock"
  /\ ~Locked(cur[e])
  /\ \/ /\ future[cur[e]] = "some"
        /\ epc' = [epc EXCEPT ![e] = "poll"]
        /\ UNCHANGED cur
     \/ /\ future[cur[e]] = "none"
        /\ epc' = [epc EXCEPT ![e] = AfterTask]
        /\ cur' = [cur EXCEPT ![e] = None]
     \/ /\ future[cur[e]] = "poisoned"
        /\ epc' = [epc EXCEPT ![e] = "unwind"]
        /\ cur' = [cur EXCEPT ![e] = None]
  /\ UNCHANGED <<managerVars, callVars, taskVars, panicVars, calls>>

(* The polled future clones its waker and hands it to another component.    *)
StoreWaker(e) ==
  /\ epc[e] = "poll"
  /\ cpc[e] = "idle"
  /\ ~wakers[cur[e]]
  /\ wakers' = [wakers EXCEPT ![cur[e]] = TRUE]
  /\ UNCHANGED <<managerVars, epc, cur, callVars, future, abort, completed, panicVars, calls>>

(* The last stored waker is dropped without a wake: the raw waker's drop    *)
(* gives up its reference to the task.                                      *)
DropWaker(t) ==
  /\ wakers[t]
  /\ wakers' = [wakers EXCEPT ![t] = FALSE]
  /\ UNCHANGED <<managerVars, epc, cur, callVars, future, abort, completed, panicVars, calls>>

(* The poll of executor e ends and the mutex is released.                   *)
EndPoll(e, next) ==
  /\ epc[e] = "poll"
  /\ cpc[e] = "idle"
  /\ epc' = [epc EXCEPT ![e] = next]
  /\ cur' = [cur EXCEPT ![e] = None]

PollPending(e) ==
  /\ EndPoll(e, AfterTask)
  /\ UNCHANGED <<managerVars, callVars, taskVars, panicVars, calls>>

(* Mutant: the completed future stays in the Option.                        *)
StillSome == "some"

(* What a completed poll leaves in the mutex.                               *)
AfterReady == "none"

PollReady(e) ==
  /\ EndPoll(e, AfterTask)
  /\ future' = [future EXCEPT ![cur[e]] = AfterReady]
  /\ completed' = completed \cup {cur[e]}
  /\ UNCHANGED <<managerVars, callVars, abort, wakers, panicVars, calls>>

PollPanic(e) ==
  /\ panics < MaxPanics
  /\ panics' = panics + 1
  /\ EndPoll(e, "panic")
  /\ future' = [future EXCEPT ![cur[e]] = "poisoned"]
  /\ completed' = completed \cup {cur[e]}
  /\ UNCHANGED <<managerVars, callVars, abort, wakers, panic_ch, calls>>

(* Mutant: the panic channel is unbounded.                                  *)
PanicChannelUnbounded == TRUE

(* The panic channel has bound 1: a send blocks while a notification is     *)
(* unread.                                                                  *)
PanicChannelHasRoom == panic_ch < 1

(* Mutant: the caught panic is logged and not sent.                         *)
LogPanic(e) ==
  /\ epc[e] = "panic"
  /\ epc' = [epc EXCEPT ![e] = AfterTask]
  /\ UNCHANGED <<managerVars, cur, callVars, taskVars, panicVars, calls>>

(* panic_tx.send in forward_task.                                           *)
SendPanic(e) ==
  /\ epc[e] = "panic"
  /\ PanicChannelHasRoom
  /\ panic_ch' = panic_ch + 1
  /\ epc' = [epc EXCEPT ![e] = AfterTask]
  /\ UNCHANGED <<managerVars, cur, callVars, taskVars, panics, calls>>

(* The executor thread's own catch_unwind: notify, then the thread ends.    *)
ExecutorDies(e) ==
  /\ epc[e] = "unwind"
  /\ PanicChannelHasRoom
  /\ panic_ch' = panic_ch + 1
  /\ epc' = [epc EXCEPT ![e] = "dead"]
  /\ UNCHANGED <<managerVars, cur, callVars, taskVars, panics, calls>>

(* Handle::run_blocking reads the panic channel with try_recv.              *)
DrainPanic ==
  /\ panic_ch > 0
  /\ panic_ch' = panic_ch - 1
  /\ UNCHANGED <<managerVars, epc, cur, callVars, taskVars, panics, calls>>

-----------------------------------------------------------------------------
(* executor_ready                                                           *)

(* Mutant: the abort test of the loop is inverted.                          *)
ReadySkipsLive(t) == ~abort[t]

(* Task::has_aborted as executor_ready asks it of a popped task.            *)
ReadySkips(t) == abort[t]

(* Mutant: the return after the send is missing.                            *)
FallsThroughToPush == "push"

(* executor_ready returns after it has sent the executor a task.            *)
AfterSelfSend == "recv"

(* One round of the while loop.  A popped task that was aborted is dropped  *)
(* and the loop goes on; any other goes to the executor's own channel.      *)
ExecutorReady(e) ==
  /\ epc[e] = "ready"
  /\ \/ /\ waiting_tasks # <<>>
        /\ ReadySkips(Head(waiting_tasks))
        /\ waiting_tasks' = Tail(waiting_tasks)
        /\ UNCHANGED <<ready_queue, epc>>
     \/ /\ waiting_tasks # <<>>
        /\ ~ReadySkips(Head(waiting_tasks))
        /\ Len(ready_queue[e]) < MAX_QUEUED_TASKS
        /\ waiting_tasks' = Tail(waiting_tasks)
        /\ ready_queue' = [ready_queue EXCEPT ![e] = Append(@, Head(waiting_tasks))]
        /\ epc' = [epc EXCEPT ![e] = AfterSelfSend]
     \/ /\ waiting_tasks = <<>>
        /\ epc' = [epc EXCEPT ![e] = "push"]
        /\ UNCHANGED <<waiting_tasks, ready_queue>>
  /\ UNCHANGED <<waiting_executors, cur, callVars, taskVars, panicVars, calls>>

(* The push of the executor's id after the loop.                            *)
PushExecutor(e) ==
  /\ epc[e] = "push"
  /\ waiting_executors' = Append(waiting_executors, e)
  /\ epc' = [epc EXCEPT ![e] = "recv"]
  /\ UNCHANGED <<waiting_tasks, ready_queue, cur, callVars, taskVars, panicVars, calls>>

(* JoinHandle::abort only sets the flag.                                    *)
Abort(t) ==
  /\ future[t] # "new"
  /\ ~abort[t]
  /\ abort' = [abort EXCEPT ![t] = TRUE]
  /\ UNCHANGED <<managerVars, epc, cur, callVars, future, wakers, completed, panicVars, calls>>

-----------------------------------------------------------------------------
(* Steps an executor thread takes on its own.                               *)
ExecutorStep(e) ==
  \/ Recv(e)
  \/ LockFuture(e)
  \/ PollPending(e)
  \/ PollReady(e)
  \/ PollPanic(e)
  \/ SendPanic(e)
  \/ ExecutorDies(e)
  \/ ExecutorReady(e)
  \/ PushExecutor(e)

(* Steps of a caller that is inside the manager.                            *)
CallStep(c) ==
  \/ RegisterPop(c)
  \/ RegisterSend(c)
  \/ RegisterPush(c)
  \/ RegisterPushFull(c)

Next ==
  \/ \E c \in Callers, t \in Tasks : Spawn(c, t)
  \/ \E c \in Callers, t \in Tasks, keep \in BOOLEAN : Wake(c, t, keep)
  \/ \E e \in Executors : WakeSelf(e) \/ StoreWaker(e) \/ ExecutorStep(e)
  \/ \E c \in Callers : CallStep(c)
  \/ \E t \in Tasks : Abort(t) \/ DropWaker(t)
  \/ DrainPanic

Spec == Init /\ [][Next]_vars

-----------------------------------------------------------------------------
(* Where the claim to run on an executor can be.                            *)
Parked(e)  == \E i \in DOMAIN waiting_executors : waiting_executors[i] = e
Claimed(e) == \E c \in Callers : cpc[c] = "send" /\ cexec[c] = e
Busy(e)    == ready_queue[e] # <<>> \/ epc[e] # "recv"

(* Every executor is in exactly one of three places: its id waits in        *)
(* waiting_executors, one caller of                                         *)
(* register_or_execute_non_blocking_task has popped it, or it has work.  It *)
(* is never offered twice and never forgotten.                              *)
ExecutorAccounted ==
  \A e \in Executors :
    /\ Parked(e) \/ Claimed(e) \/ Busy(e)
    /\ ~(Parked(e) /\ Claimed(e))
    /\ ~(Parked(e) /\ Busy(e))
    /\ ~(Claimed(e) /\ Busy(e))

(* Both sends of the manager (executor_ready and                            *)
(* register_or_execute_non_blocking_task) find an empty channel of a live   *)
(* executor: they neither block nor fail their unwrap, whatever the bound   *)
(* MAX_QUEUED_TASKS is.                                                     *)
SendFindsRoom ==
  /\ \A c \in Callers : cpc[c] = "send" =>
       ready_queue[cexec[c]] = <<>> /\ epc[cexec[c]] = "recv"
  /\ \A e \in Executors : epc[e] = "ready" => ready_queue[e] = <<>>

(* A future that returned Ready or panicked is never polled again, and no   *)
(* two executors poll one future, although wakes can put one task into      *)
(* several executors' channels at once.                                     *)
PollExclusive ==
  \A e \in Executors : epc[e] = "poll" =>
    /\ cur[e] \notin completed
    /\ \A f \in Executors \ {e} : epc[f] = "poll" => cur[f] # cur[e]

(* Accepted registrations of t, those past the abort check, that no         *)
(* executor has received yet.                                               *)
InFlight(t) ==
  Cardinality({i \in DOMAIN waiting_tasks : waiting_tasks[i] = t})
  + Cardinality({p \in Executors \X (1..MAX_QUEUED_TASKS) :
                   p[2] \in DOMAIN ready_queue[p[1]] /\ ready_queue[p[1]][p[2]] = t})
  + Cardinality({c \in Callers : cpc[c] \in Inside /\ ctask[c] = t})

(* JoinHandle::abort stops new work: once the flag is set, the runs of the  *)
(* task still to come are the registrations already accepted, whatever      *)
(* wakes follow.                                                            *)
AbortDrains ==
  [][\A t \in Tasks : abort[t] => InFlight(t)' <= InFlight(t)]_vars

(* An accepted registration disappears in three ways only: an executor      *)
(* receives the task, the task was aborted, or the push met a full          *)
(* waiting_tasks.                                                           *)
RegistrationKept ==
  [][\A t \in Tasks : InFlight(t)' < InFlight(t) =>
       \/ abort[t]
       \/ \E e \in Executors : epc[e] = "recv" /\ epc'[e] = "lock" /\ cur'[e] = t
       \/ \E c \in Callers : cpc[c] = "push" /\ ctask[c] = t
                             /\ Len(waiting_tasks) = WAITING_TASKS_CAP]_vars

(* A task waits while an executor waits for a task, and nobody is on the    *)
(* way to bring the two together.                                           *)
Stranded ==
  /\ \E i \in DOMAIN waiting_tasks : ~abort[waiting_tasks[i]]
  /\ waiting_executors # <<>>
  /\ \A e \in Executors : ~Busy(e) \/ epc[e] = "dead"
  /\ \A c \in Callers : cpc[c] \in {"idle", "dead"}

(* A registered task is executed immediately if an executor is ready, and a *)
(* ready executor takes a waiting task, as long as the spawns and wakes     *)
(* come from inside polls: whoever is late to push a task looks at          *)
(* waiting_tasks itself after its poll.  It takes two calls from other      *)
(* threads, or an executor that dies before it looks, to strand a task.     *)
NoStrandedTask ==
  calls["thread"] < 2 /\ (\A e \in Executors : epc[e] # "dead") => ~Stranded

(* Executor::run only stops on Finished, which nobody sends: no executor    *)
(* thread ends.                                                             *)
ExecutorsSurvive == \A e \in Executors : epc[e] # "dead"
=============================================================================
