# Verification of min_async_runtime

This directory holds a TLA+ development for the asynchronous runtime in `src/src/`
(crate `min_async_runtime`): modules that model its components, TLC configurations that check
them on small instances, and TLAPS proofs for every size. Source paths below are relative to
`src/src/`.

## 1. The system

A `Runtime` owns a set of executor threads, one reactor thread and a small pool of threads for
blocking work. A future given to `Spawner::spawn` becomes an `Arc<Task>`; the task manager gives
the task to an executor, which polls it. A future that has to wait leaves its waker with the
reactor; the reactor wakes the task, which sends it through the task manager again.

```
  spawn ─────┐                                   ┌──> executor channel ──> Executor::run
  Waker::wake┼─> register_or_execute_non_blocking│      forward_task: lock, poll
  (reactor,  │     pop waiting_executors ────────┤      executor_ready: pop waiting_tasks,
   pool,     │                                   │        or push own id on waiting_executors
   polls) ───┘                                   └──> waiting_tasks
  send / pool result ─> reactor tag buffer + mio waker ─> Reactor::run ─> stored waker ─> wake
  sockets, timer fds ─> mio event ─> Reactor::run ─> TokenStatus, stored waker ─> wake
```

### Inventory

| Component | State | Operations | What makes it correct |
|---|---|---|---|
| task manager, `task/manager.rs` | `waiting_tasks`, `waiting_executors` (ring buffers), executor channels | `register_executor`, `register_or_execute_non_blocking_task`, `executor_ready` | no executor is offered twice or forgotten; its sends never block; no task waits while an executor waits; no registration is lost |
| executors, `executor.rs` | the channel, the task being forwarded | `run`, `forward_task` | a future has one poller, a finished one none; a panic does not stop the thread |
| tasks and wakers, `task/task.rs` | `future` under a mutex, `abort` | `wake`, `wake_by_ref`, `has_aborted` | an abort admits no new runs |
| spawner and join handles, `spawner.rs` | result channel, `has_awaited` | `spawn`, `JoinHandle::poll`, `abort` | an awaited task's end reaches the handle |
| ring buffer, `utils/ring_buffer.rs` | slots, `start`, `end`, `count` | `push`, `pop` | a bounded FIFO queue; no uninitialised read, no overwrite |
| bounded channel, `sync/mpsc/bounded_channel.rs` | std `sync_channel`, `queue_cnt`, `clone_count` | `send`, `clone`, `drop`, `poll_recv`, `try_recv` | every message wakes the receiver; `RecvError` exactly when closed; the last drop cleans up |
| reactor, tag part, `reactor.rs` | `reactor_tag_buffer`, `reactor_tags` | `register_reactor_tag`, `store_waker_channel`, `remove_tag`, `WAKER_TOKEN` branch of `run` | a registered tag wakes the waker stored for it |
| reactor, token part, `reactor.rs` | `statuses` by token | `unique_token`, `status_store`, `has_token_progressed`, `poll`, token branch of `run` | an event is not lost, whichever of event and poll comes first |
| runtime, `runtime.rs` | runtime and guard (thread locals), result channels, panic channel | `RuntimeBuilder::build`, `run_blocking` (runtime, handle), `Handle::spawn`, `Drop` | `run_blocking` returns; it gives up only on a task that is over; every panic is reported once |
| TCP, UDP, `net/` | token, offloaded bind or connect | `bind`, `connect`, `accept`, `read`, `write`, `send_to`, `recv_from` | an operation that would block is retried after an event |
| files, `fs/file.rs` | result slot, tag | `open`, `create`, poll of `AsyncHoochFile` | the pool's result wakes the waiting task |
| thread pool, `pool/thread_pool.rs` | threads' channels, cursor | `init`, `execute` | each closure runs once; a panicking closure does not disable the pool |
| sleep and timeout, `time/` | timer fd, token, stored waker | `Sleep::poll`, `Timeout::poll` | fires once due and not before; a timeout loses no data |
| `blocker.rs`, `select.rs` | - | - | both files are commented out; there is nothing to model |

### What is hard about it

* **Interleavings.** `waiting_executors` and `waiting_tasks` are two separate lock-free buffers.
  Looking into one and writing to the other are two steps, in the caller and in the executor.
* **Lock-free memory.** `push` and `pop` are five or six accesses to shared memory each.
* **Wake protocols.** A receiver loads a count, then stores a waker; a sender writes the message,
  the count, the tag and the mio event in four steps; the reactor pops a tag, then looks up a
  waker.
* **Panics.** A poll that panics poisons the mutex of its future while other registrations of the
  task are still queued; the channel for panic notifications holds one message.
* **Waiting on each other.** `run_blocking` blocks its thread, which can be an executor with the
  mutex of a future locked; the executors block on the panic channel, which only `run_blocking`
  reads.
* **Events before and after polls.** epoll is edge triggered and merges events; the token of a
  socket or timer keeps one waker or one "happened", across calls, timeouts and moved futures.
* **Bounds.** Full ring buffers, full channels, counters that start at 1 and wrap.

`PROJECT.json` lists each hazard with the line where it bites.

## 2. Modules

| Module | What it is |
|---|---|
| `Scheduler` | task manager, executors, wakers, abort, panic channel |
| `MCScheduler` | its small instances |
| `SchedulerProofs` | its inductive invariants and theorems |
| `RegistrationProofs` | extends `SchedulerProofs`: how many registrations a task has, who adds one, where one is lost, and when a task is left behind |
| `Runtime` | extends `Scheduler`: `build`, the guard, `run_blocking` and `spawn` on top of it |
| `MCRuntime`, `RuntimeProofs` | small instances; the proof that `Runtime` implements `Scheduler`, and of its own invariants |
| `BoundedFifo` | abstract: a bounded FIFO queue with atomic operations |
| `RingBuffer` | the ring buffer, one step per access to shared memory; refines `BoundedFifo` when calls do not overlap |
| `MCRingBuffer`, `RingBufferProofs` | small instances; the refinement proof |
| `BoundedChannel` | a bounded channel, its receiver's task and the reactor's tags |
| `MCBoundedChannel`, `BoundedChannelProofs` | small instances; the proofs |
| `Offload` | the thread pool, the file futures, bind and connect, and the reactor's tags |
| `MCOffload`, `OffloadProofs` | small instances; the proofs |
| `ReactorIO` | the reactor's tokens, the socket loops, sleep and timeout |
| `MCReactorIO`, `ReactorIOProofs` | small instances; the proofs |
| `SequenceLemmas` | members of a sequence under append and tail, for the proofs of `Scheduler` and `Offload` |

### Scheduler

`waiting_tasks`, `waiting_executors` and `ready_queue` are the buffers and channels of the code.
`epc[e]` is where executor `e` is in `Executor::run`; `cpc[c]`, `ctask[c]`, `cexec[c]` are the
program counter and the locals of a caller of `register_or_execute_non_blocking_task`. Callers are
the executors (from inside a poll) and `Threads` (main, reactor, pool). `future[t]` is the
`Option` under the mutex together with the mutex' poison flag.

| Action | Code |
|---|---|
| `Spawn`, `Wake`, `WakeSelf` | `spawn`, `wake`/`wake_by_ref`, each up to the abort check of `register_or_execute_non_blocking_task` |
| `RegisterPop` | its pop of `waiting_executors` |
| `RegisterSend`, `RegisterPush`, `RegisterPushFull` | the send to the popped executor, the push, the push's `unwrap` on a full buffer |
| `DropWaker` | the drop of a stored waker that nobody wakes, by the reactor or another future |
| `Recv`, `LockFuture`, `StoreWaker`, `PollPending`, `PollReady`, `PollPanic` | `run` and `forward_task` |
| `SendPanic`, `ExecutorDies`, `DrainPanic` | the notification of a caught panic, of a panic outside `forward_task`'s `catch_unwind`, and its reader in `run_blocking` |
| `ExecutorReady`, `PushExecutor` | `executor_ready` |
| `Abort` | `JoinHandle::abort` |

A registration counts as accepted once it is past the abort check: an abort that comes between the
check and the pop, the send or the push no longer stops it.

A poll is open ended: between `LockFuture` and the end of the poll the future may spawn, wake
itself or others and hand out its waker, in any order.

### Runtime

`Runtime` is the composition of the scheduler with its users. It uses the actions of `Scheduler` as
they are and adds `guard`, `built` (the thread locals `RUNTIME_GUARD` and `RUNTIME`), `rpc[c]` and
`rtask[c]` (where a caller is in `run_blocking` and for which task), `runs` and `sent` (the tasks
that `run_blocking` made and those that have sent their result). `failed`, `reported` and `failures`
are history. Callers of `run_blocking` are the main thread and the future that an executor polls:
`build` puts the runtime into the executors' thread locals too, so nested calls are possible.

The result channel needs no variable besides `sent`. Its sender lives in the future: it is dropped
when the poll panics (the mutex is poisoned) and when the last `Arc` of the task goes, that is, when
no queue, no caller, no waker and no executor holds the task (`Held`). The last of these to go can
be a waker that is dropped without a wake (`DropStored`).

| Action | Code |
|---|---|
| `Build` | `build` with the guard free; a second one keeps the runtime. With the guard set it panics and changes nothing; in a poll that is a `PollPanic` |
| `HandleSpawn` | `Handle::spawn`, `dispatch_job` |
| `RunBlocking`, `RunRecv` | `Runtime::run_blocking` up to the registration; `rx.recv()` |
| `SendResult` | the `tx.send(res)` of the wrapped future, just before the poll ends |
| `RunCheck` | the look at `panic_rx` in `Handle::run_blocking` |
| `Unwind` | the panic of `run_blocking` in its caller: it ends the poll of an executor; in the main thread the program catches it |
| `FutureStep`, `FutureEnds` | what a polled future does besides, and the end of its poll |
| `LoopStep`, `ManagerStep`, `WakeTask`, `DropStored`, `AbortSpawned` | `Scheduler`'s other steps |

A future inside a nested `run_blocking` takes no other step, and keeps its executor and its mutex.
`Drop for Runtime` has no action: the executors hold the runtime and do not end, so it can only run
when the last thread that knows the runtime is ending, and clears the guard of that thread.

### RingBuffer and BoundedFifo

One action per load, store, `fetch_add`/`fetch_sub` and slot access of `push` and `pop`. `Spec`
lets all threads run; `SerialSpec` lets a call begin only when no other is under way. The
refinement mapping `Contents` reads the queue from `start`, `Size` slots long, and lets a call
take effect at its return.

`Scheduler` and `BoundedChannel` treat a push and a pop as one step each. `SerialRefinement` shows
that this is right for calls that do not overlap. The run `ring_spsc` shows that it is *not* right
in general for the code as it is, already with one producer and one consumer; with two producers,
both may also load the same `end` and one overwrites the other. The results on `Scheduler` and
`BoundedChannel` are therefore about these components on top of a buffer that keeps
`BoundedFifo`'s promise.

### BoundedChannel

`inner` counts the messages in the std channel (which keeps their order), `queue_cnt` and
`clone_count` are the atomics, `spc[s]` is where sender `s` is in `send`, `tags` counts this
channel's tags in the reactor's buffer, `waker` says whether `reactor_tags` has the waker of the
receiving task, `loop` is where the reactor is, `rpc` where the receiving task is. `scheduled` is the
promise of the scheduler: a task that was woken is polled again. `known` is a history variable:
whether the reactor had the task's waker when the current poll loaded the count. `OtherWake` and
`OtherMioWake` are the rest of the program: other futures of the task, other channels.

One call of `recv` is under way at a time. The program can give it up while it waits (`GiveUp`, as a
timeout around it does; the waker stays in the reactor), call `recv` again after an error, and let
another task take the receiver over (`MoveReceiver`; the waker in the reactor is then a stranger's).

A `JoinHandle` waits on such a channel with one sender, one message and `Bound = 1`. Its own poll
keeps the `recv` it made and turns the answer into the task's result; that part is not modelled.

### Offload

An operation is a call that gives blocking work to the pool: `Files` are `open`, `create` and
`open_hooch`, `Nets` are `connect` and `bind`. The two kinds differ in how the task learns of the
result: a file's closure wakes the reactor, which should find the file's tag; the closure of a
connect or bind wakes the task itself. (`connect` and `bind` register a tag too, but never store a
waker for it.) `phase[o]` is where the operation's future is, `has_polled` the flag of that name,
`moved` the futures that have left the task of their first poll, `slot[o]` the shared result,
`senders`, `ppc` and `job` are the pool, `tags`, `waker`, `mio_wake`, `loop`, `tag` the reactor.
`scheduled` has the same meaning as in `BoundedChannel`, for the task of each operation.

| Action | Code |
|---|---|
| `Create` | `open`, `create`, `open_hooch`, `connect`, `bind` up to the first poll |
| `Poll` | the tests of `has_polled` and of the result: the start of the first poll, all of a later one |
| `RegisterTag`, `StoreWaker` | first poll of `AsyncHoochFile` |
| `ResolveAddr` | first poll of `AsyncHoochTcpStream`, `AsyncHoochTcpListener`: both `unwrap`s of the address |
| `LoadCursor`, `StoreCursor`, `Execute`, `ReturnPending` | `get_and_update_index` and `execute`, then `Pending` |
| `DropFuture` | the owner drops the waiting future, as `timeout` does |
| `Move` | the owner moves the waiting future into a newly spawned task |
| `PoolRecv`, `PoolRun`, `PoolWake`, `PoolPanic` | a pool thread and the closure it runs |
| `ReactorPoll`, `ReactorPop`, `ReactorLookup` | the `WAKER_TOKEN` branch of `run` |

The waker of an operation, in its closure or under its tag, is the one of the first poll. `PoolWake`
and `ReactorLookup` therefore wake nobody for a future in `moved`.

### ReactorIO

An operation is one future and the task that awaits it: a socket call (`accept`, `read`, `write`,
`send_to`, `recv_from`), a sleep, or a socket call under a timeout (`Timed` operations have a
timer). `statuses` is the map of the reactor. `ready` counts what a system call can take without
blocking, per socket and direction; `pending` is what epoll would report, `batch` what `run` is
going through. `moves` names the task that a future is in: wakers carry it, so a wake for a task
that the future has left is lost, as in the code. `Shared` are the sockets whose calls take `&self`
(listeners, UDP); a stream has one call at a time, because `read` and `write` borrow it exclusively.
The history `overlapped` has the calls that were live together with another on their socket; calls
that follow each other on one listener or UDP socket are not in it.

| Action | Code |
|---|---|
| `Open`, `Close` | registration at the end of `connect` and both `bind`s, which may fail; the drop of a socket |
| `Call`, `Sleep`, `Repoll` | the call, under `timeout` or not; `sleep`; the poll of a woken task |
| `SleepFirst`, `SleepAgain` | `Sleep::poll`, first and later, alone or as the first half of `Timeout::poll` |
| `TryOk`, `TryBlocks`, `TryError`, `AcceptOk` | the system call of the loops, and what `accept` does with a connection |
| `Wait` | `Reactor::poll` |
| `ReactorPoll`, `ReactorEvent` | `poll.poll` and the token branch of `run` |
| `Arrive`, `TimerFire`, `DropFuture`, `Move` | the environment: the peer, time, the owner of the future |

A timer fd is armed, disarmed (duration zero) or refused; the three are inputs of `SleepFirst`.

## 3. Runs

| Run | Bounds | What it shows |
|---|---|---|
| `scheduler_safety` | 2 executors, 2 threads, 2 tasks, 3 calls from threads, 3 from polls, 1 panic, buffers of 2 | `TypeOK`, `ExecutorAccounted`, `SendFindsRoom`, `PollExclusive`, `NoStrandedTask`, `AbortDrains`, `RegistrationKept` |
| `scheduler_poison` | 1 executor | **violation** of `ExecutorsSurvive`: a task registered twice that panics ends the executor |
| `runtime_run` | 2 executors, 2 tasks, 2 calls from the main thread, 2 from polls, 2 panics besides those of `run_blocking`, fairness | `RuntimeTypeOK`, `NoticeAccounted`, `FailedRunIsOver`, `EndlessWaitExcused`, `RegisteredIsTaken` |
| `runtime_rerun` | 1 executor, 2 tasks, 2 calls from the main thread | **violation** of `RunIsTaken`: the second call races with `executor_ready` and never returns |
| `ring_serial` | 2 threads, both push and pop, capacity 3, 3 values | `TypeOK`, `NoUninitRead`, `NoOverwrite`, `IsFifo` |
| `ring_spsc` | 1 producer, 1 consumer, capacity 2 | **violation** of `NoUninitRead` |
| `channel_recv` | 2 senders, bound 2, 4 sends, 1 `try_recv`, fairness | `TypeOK`, `SpuriousErrorNeedsTryRecv`, `NoLostWake`, `ParkedIsPolled` |
| `channel_first_wait` | 1 sender, 1 message, fairness | **violation** of `MessageWakesReceiver` |
| `channel_close` | 1 sender, fairness | **violation** of `CloseWakesReceiver` |
| `offload_pool` | 1 file, 1 connect or bind, 2 pool threads with channels of 1, 2 other wakes, 1 panic, fairness | `TypeOK`, `ClosureOnce`, `NetNoLostWake`, `TagServed`, `NetCompletes` |
| `offload_files` | 2 files, 1 pool thread, fairness | **violation** of `FileCompletes` |
| `io_tokens` | a listener, a stream, 2 operations, 1 of them with a timer, 1 unit of readiness per direction, 1 move, fairness | `TypeOK`, `NoLostEvent`, `NoLostTimer`, `NothingLost`, `NeverEarly`, `CallGoesOn`, `TimedEnds` |

`EndlessWaitExcused` is the answer to "when does `run_blocking` hang?". It lists every reason: the
future waits for a wake (`Dormant`), it is itself in a nested `run_blocking` (`Nested`), or its task
lies in `waiting_tasks` while every executor idles (`Stuck`), where an executor idles if it is
parked, dead, blocked on the full panic channel, inside a nested `run_blocking`, or waiting for the
mutex of a future that is. The last case came out of the model checker: a task that wakes itself and
then calls `run_blocking` can hold the mutex that the only other executor waits for.

The properties of `Offload` are about futures in the task of their first poll: `NetNoLostWake`,
`NetCompletes` and `FileCompletes` except those in `moved`. A moved future is woken by nobody: with the
exception dropped, TLC finds a connect that is moved after its first poll and then waits forever with
its result in `slot`. `ClosureOnce` has no such exception: polled early, or again in another task, a
future does not hand its work to the pool twice.

`NoticeAccounted` is what remains of panic detection: each panic is reported by one `run_blocking`,
not necessarily the one it happened under. A call that fails with "Task failed to complete" does not
read the panic channel, so the message of that panic meets the next call.

### Why the bounds are enough

* Two executors and two other threads give every pair of actors that can meet in the manager: two
  callers, a caller and an executor, two executors. Two tasks let one wait while another runs, and
  six calls fill a `waiting_tasks` of capacity 2, so that `RegisterPushFull` fires. Three calls from
  polls are what it takes to leave a task behind when an executor dies. The proved properties hold
  for every size anyway.
* Two calls of the main thread let a second `run_blocking` meet what the first left behind; two from
  polls let a nested call meet a task that has woken itself. Two tasks that panic and a poisoned
  lock are three messages for a channel of one. `waiting_tasks` has room for one, so that a push can
  fail inside a nested `run_blocking`. `MaxPanics` bounds all polls that panic and must leave room for
  the ones that a nested `run_blocking` ends; `MaxTaskPanics` bounds the others.
* Two operations let one call follow another on the same token (after a timeout, a drop, an answer),
  run beside a sleep, or share the listener; one unit per direction makes the two directions of a
  stream, which share a token, disturb each other.
* Capacity 3 and unbounded calls take `start` and `end` of the ring buffer through all positions,
  full and empty included. `USIZE = 16` is above every count that serial calls reach; it makes the
  wrap of `count` visible in `ring_spsc`.
* Two operations on two pool threads with channels of one closure let both calls of `execute` pick
  the same thread and one of them block; the file meets wakes of the reactor before, during and
  after its work through `OtherMioWake`. Moves need no bound: a future that has moved once is past
  its wakers.
* Two senders interleave the four steps of `send` in every order; four sends exceed the bound of
  the channel.

Memory is sequentially consistent in all modules. The code uses `Relaxed`, `Acquire` and
`Release`; weaker orders only add behaviours to the ones that overlap, so the violations stay, and
serial calls are unaffected.

Deadlock checking is off where the system may come to rest: the number of calls is bounded, and an
executor without work waits in `recv`. `ring_serial` and `ring_spsc` check it.

### Fairness

* `Runtime`: weak fairness of each executor's steps, of each caller inside the manager and of each
  caller inside `run_blocking`. The operating system schedules the threads; a poll that is not inside
  a nested `run_blocking` returns, whatever it does before (`FutureEnds` is fair, `FutureStep` is
  not). There is no fairness on builds, spawns, wakes, dropped wakers, aborts and calls of
  `run_blocking`: they are up to the program. `Scheduler` is checked for safety only.
* `BoundedChannel`: weak fairness of a send that has begun, of the reactor loop, and of the
  receiving task once it is inside `recv`. The last one includes that a woken task is polled, which
  `RegisteredIsTaken` says for the scheduler with its exceptions, and `runtime_rerun` refutes without
  them. The channel's liveness is thus conditional on the scheduler's. None on new sends, on
  drops, on a `recv` that is given up or a receiver that moves, or on `OtherWake`.
* `Offload`: weak fairness of an operation's task once it has begun, of each pool thread (blocking
  calls return) and of the reactor. `PoolPanic`, drops, moves and other wakes have none.
* `ReactorIO`: weak fairness of an operation's task once it has begun (again on the scheduler's
  promise), of the reactor thread, and of timers: time passes. Data need never arrive.

### Findings

1. `task/manager.rs:109`: a task can stay in `waiting_tasks` while an executor waits. A
   `run_blocking` after another call, on one executor, can hang on it (`runtime_rerun`), as can any
   task that the reactor or a pool thread wakes.
2. `executor.rs:114`: the lock of a poisoned future panics outside `catch_unwind`
   (`scheduler_poison`).
3. `utils/ring_buffer.rs:127`: `pop` trusts unequal indices while `push` stores `end` last
   (`ring_spsc`).
4. `sync/mpsc/bounded_channel.rs:153`: on its first wait the receiver stores its waker too late
   (`channel_first_wait`). On later waits of the same task the old waker is still in the
   map and no wake is lost: that is `NoLostWake`.
5. `sync/mpsc/bounded_channel.rs:151`: nobody wakes a receiver when the channel closes
   (`channel_close`); with it a `JoinHandle` of a task that panicked waits forever.
6. `fs/file.rs:195`: the tag of an open is registered before the work is done, so any wake of the
   reactor in between uses it up; of two files opened at once one may wait forever
   (`offload_files`). `TagServed` says what remains true.

Other weaknesses of the code have no run of their own; a passing property names them as its exception:

* `sync/mpsc/bounded_channel.rs:172`: `try_recv` does not lower `queue_cnt`, so a later `recv` can fail
  on an open channel. `SpuriousErrorNeedsTryRecv` says that this is the only way.
* `sync/mpsc/bounded_channel.rs:98` says that the drop of the last sender removes the tag; `clone_count`
  starts at 1 and `fetch_sub` returns the old value, so the test `== 0` (`DropsLast`) never holds and
  the waker stays in the reactor's map. This is what keeps `ParkedIsPolled` true: with the test
  repaired, the reactor would find no waker for the tags of the last messages.
* `executor.rs:136`, `runtime.rs:270`: a blocked panic channel and nested calls can hang
  `run_blocking` (`EndlessWaitExcused`), and a panic can be reported by a later call
  (`NoticeAccounted`).
* `utils/ring_buffer.rs:92`: two pushes that overlap write to one slot (`NoOverwrite` is about calls that
  do not overlap).
* `net/tcp/stream.rs:165`, `net/tcp/listener.rs:163`: the closure of a connect or bind carries the
  waker of the first poll, so a future that another task takes over while it waits has its result and
  is not woken (`NetNoLostWake`, `NetCompletes`).
* `time/sleep.rs:91`, `:85`: a sleep or timeout of duration zero never fires, and one that is moved to
  another task after its first poll does not wake it (`TimedEnds`, `NoLostTimer`).
* `reactor.rs:160`: calls that use a listener or UDP socket at the same time replace each other's waker,
  and one may wait on a ready socket (`NoLostEvent`, `CallGoesOn` except such calls).
* `net/tcp/listener.rs:94`: a connection whose registration fails is lost (`NothingLost`).

## 4. Proofs

All theorems hold for arbitrary sets and bounds that satisfy the named assumptions
`ExecutorsFinite`, `ThreadsFinite`, `SchedulerAssumption`, `RuntimeAssumption`,
`RingBufferAssumption`, `BoundedChannelAssumption`, `OffloadAssumption`, `ReactorIOAssumption`: sets
whose members are counted are finite, capacities are positive. Every safety property that a passing
run checks is a theorem.

**SchedulerProofs.** `ExecutorAccounted` says that each executor's right to receive work is in
exactly one place. It is not inductive: a second id of the executor in `waiting_executors`, or a
second caller that popped it, would satisfy it now and break it two steps later. `TokenInv` adds
that ids are unique (`ClaimUnique`) and that a channel holds at most one task, and none while its
executor works (`ChannelInv`); `CallerInv` adds that an executor inside the manager is polling and
that it has a task. `IInv == TypeOK /\ CallerInv /\ TokenInv` is inductive and gives `TypeCorrect`,
`ExecutorsAccounted` and `SendsFindRoom`: the manager's two blocking sends, one of them to the
executor's own channel, never block. `PollsExclusive` rests on `IInv` and `PollInv`, which ties the
history `completed` to the `Option` under the mutex: a future under poll is `Some`, a finished one
is `None` or poisoned.

**RegistrationProofs.** `InFlight(t)` adds up three cardinalities: the occurrences of `t` in
`waiting_tasks`, in the executors' channels and among the callers inside the manager. One lemma per
place says what a push, pop, send, receive, entry or exit does to its count (`OccursAppend`,
`OccursTail`, `SentAppend`, `SentTail`, `CallingEnter`, `CallingLeave`; the tail's count needs a
bijection that shifts the indices). `RegistrationStep` combines them: under `IInv`, one step changes
the sum by at most one, upwards only for a task that is not aborted and that a spawn, a stored waker
or its own poll asks for (`Asked`), downwards only in the ways that `RegistrationKept` lists.
`AbortedTasksDrain` and `RegistrationsKept` follow. `SendFindsRoom` is needed: it is because the
channel is empty that a send adds exactly one.

`TasksNotStranded` (`NoStrandedTask`) needs `LookInv`, three parts. `Quiet`: until the first call
from outside has done its pop (`Starting`), every executor is parked and nothing else runs.
`FirstCallSends`: that call therefore finds an executor by `ExecutorAccounted` and sends; a thread
that pushes is at least the second.
`WaitingSeen`: while a task waits, calls from outside are fewer than two and no executor is
unwinding, some executor has yet to look at `waiting_tasks` before it parks (`Looks`). An executor
that pushes a task is such an executor, since it is inside a poll; and one that will look keeps to it
until it has taken a task (`LooksStep`). Both hypotheses are needed: `runtime_rerun`
strands a task with two calls from outside, and an executor that dies does not look.

**RuntimeProofs.** `RuntimeImplementsScheduler`: `RuntimeSpec => Spec`, the refinement mapping being
the identity on `Scheduler`'s variables. Each action of `Runtime` is one step of `Scheduler` or
leaves its variables alone; what happens in two steps (a read of the panic channel, then the end of
the poll) is split in the model for this reason. `RuntimeSendsFindRoom`, `RuntimePollsExclusive` and
`RuntimeRegistrationsKept` follow from it and the theorems about `Scheduler`.

`FailedRunIsOver` is about the past: that a call once gave up must still be right now. `FailedInv`
says why: the task's mutex is poisoned, or nobody holds the task. Both are stable, the first because
only a poll under way writes a future and what it polls is `Some` (`FutureMoves`), the second because
every new reference comes from an old one (`DroppedStays`, by `RegistrationStep`; a task in a channel
counts as registered). `RunsInv` adds that the tasks of `run_blocking` were spawned, without which a
task that nobody holds could still appear. `RuntimeTypeCorrect` needs all of it: a failed run that
could still send its result would be in `failed` and `sent`. `NoticesAccounted` follows one set, the
executors that are about to notify: a step adds to it and to `failures` alike, or moves one message
from it to the panic channel, or from there to `reported`.

**RingBufferProofs.** For `SerialSpec`, `RInv == TypeOK /\ OneInside /\ Shape`: at most one thread
is inside; `end` is `Size` slots after `start` in the circle; exactly the slots in between are
initialised, up to what the one thread inside has already done; and that thread's locals agree
with the shared state. It gives `SerialTypeCorrect`, `SerialNoUninitRead`, `SerialNoOverwrite` and
`SerialRefinement`: every step maps to a step of `BoundedFifo` or a stutter.

**BoundedChannelProofs.** `CInv` says that `clone_count` is the number of live senders
(`CloneInv`), that `queue_cnt` plus the senders about to add is the messages plus those taken and
not yet subtracted (`CountInv`), what a poll that saw a positive count may rely on (`SeenInv`), and
that the reactor keeps the waker of a parked receiver and that, from the load of an empty count on,
a counted message has a wake under way (`WakeInv`). The last is `NoLostWake` extended to the window
between the load of the count and the store of the waker, where the race is. It gives
`ChannelTypeCorrect` (the counters do not underflow), `ChannelNoLostWake` and `ChannelSpuriousError`.

**OffloadProofs.** `OInv` says that a closure is in one place (`UniqueInv`), that the phase and the
result of its operation tell which (`PlaceInv`), that `has_polled` is set exactly from the first poll
on (`PolledInv`), that a thread about to wake has stored a result (`JobInv`), and the two wake
invariants themselves (`WakeInv`). `ClosureOnce` is not inductive: it
does not say that an operation that has not reached `execute` is nowhere in the pool. `OInv` gives
`OffloadTypeCorrect` (the cursor always is the index of a thread), `ClosuresOnce`, `NetsWoken` (for
futures that stay in their task) and `TagsServed`.

**ReactorIOProofs.** `RInv` has one part per property. `FutureInv` and `BorrowInv` are what the
place of a future says of its call and timer, and the exclusive borrow of a stream. `TimerInv` says
of each timer (`Timely`) that its token is marked by its own expiry only, that an expiry is under way
or marked, and that a future that was not moved keeps its waker there until then: this gives
`TimersNeverEarly` and `TimersNotLost`. `EventInv` is `NoLostEvent` extended to the steps between the
`WouldBlock` and `Reactor::poll`, where the race is (`Attended`): what became ready since is under
way or marked, and a parked call is woken or its present waker is in the status. It is claimed for
calls that no other call on their socket overlaps (`SoleUser`), as `NoLostEvent` is; `BorrowInv` says
that two live calls on one socket are in `overlapped`. A call under a timeout is
in that window while it polls its timer, too (`Tried`). `NothingLost` is inductive once `TypeOK` and
`FutureInv` are known; its proof counts the calls that took a unit.

**Model-checked only.** The liveness properties (`EndlessWaitExcused`, `RegisteredIsTaken`,
`ParkedIsPolled`, `NetCompletes`, `CallGoesOn`, `TimedEnds`): the prover does not reason about
fairness.

## 5. Not modelled

* The raw waker's reference counts (`task/task.rs`) beyond who holds a task (`Held`): memory
  management without control flow. `wakers[t]` says whether any copy of the waker is
  stored, so `DropWaker` is the drop of the last one; the drop of another changes nothing.
* Several tasks that await `recv` on one channel: `BoundedReceiver` is declared `Sync`, but the module
  is an mpsc channel, and std's receiver under it is not.
* Several runtimes in one process: each has its own thread locals and shares the reactor only.
* The composition of a blocking `send` with the executors: a full channel inside a poll holds its
  executor.
* The type of a task's result, its downcast, and logging.
* `ExecutorTask::Finished`: handled by `Executor::run`, sent by nobody.
* `bounded_channel(0)`: the model assumes `Bound > 0`. With 0 a send waits for a receiver that only
  tries after the count was raised, which happens after the send.
* A full reactor tag buffer (`register_reactor_tag`'s `unwrap`): its capacity is far above the
  number of messages modelled.
* Reading a file: `read_to_string` reads in its only poll.
* The bytes of a read or write and their number; partial reads are several calls.
* A poll that panics under a lock of the reactor (`statuses`, `reactor_tags`): the futures modelled do
  not panic there.

## 6. Plan

Done, in this order: `Scheduler`, `RingBuffer` with `BoundedFifo`, `BoundedChannel` with the reactor's
tags, `Offload` with the pool, `ReactorIO` with timers, `Runtime`; then the proofs of every safety
property of the runs. To come:

1. An abstract specification of a wake (an event flag: set, looked at, taken), and the proof that the
   token protocol of `ReactorIO` implements it for a socket used by one call at a time.
2. The order of messages in `BoundedChannel`, which the model leaves to the std channel.
