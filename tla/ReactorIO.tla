------------------------------ MODULE ReactorIO ------------------------------
(***************************************************************************)
(* Waiting on file descriptors: the token part of the reactor (reactor.rs),*)
(* the loops of accept, read, write, send_to and recv_from (net/), Sleep   *)
(* and Timeout (time/).                                                    *)
(*                                                                         *)
(* An operation is one future and the task that awaits it: a socket call,  *)
(* a sleep, or a socket call under a timeout.  It tries its system call,   *)
(* and when that would block it asks Reactor::poll.  The reactor thread    *)
(* takes a batch of events from epoll and marks the token of each one, so  *)
(* an event can come before, between or after the steps of a poll.         *)
(*                                                                         *)
(* mio registers every source edge triggered: an event stands for new      *)
(* readiness in either direction, and events of one source merge until     *)
(* epoll hands them out.  Bytes are counted, not told apart.  A woken task *)
(* is polled again (scheduled), which is the promise of the scheduler.     *)
(***************************************************************************)
EXTENDS Naturals, FiniteSets

CONSTANTS
  Sockets,     \* sockets that can exist
  Shared,      \* listeners and UDP sockets: their calls take &self
  Listeners,   \* sockets whose call is accept
  Ops,         \* calls, each awaited by a task
  Timed,       \* those with a timer: sleeps and calls under a timeout
  MaxReady,    \* bound: units of readiness a socket gets per direction
  MaxMoves     \* bound: times a future is moved to another task

ASSUME ReactorIOAssumption ==
  /\ IsFiniteSet(Ops)
  /\ Sockets \cap Ops = {}
  /\ Listeners \subseteq Shared /\ Shared \subseteq Sockets
  /\ Timed \subseteq Ops
  /\ MaxReady \in Nat /\ MaxMoves \in Nat

Dirs   == {"in", "out"}
DirsOf(s) == IF s \in Listeners THEN {"in"} ELSE Dirs
Tokens == Sockets \cup Timed

VARIABLES
  statuses,    \* Reactor::statuses
  pending,     \* tokens with an event in epoll
  batch,       \* tokens of the events that run is going through
  sock,        \* state of each socket
  ready,       \* units a system call can take without blocking
  arrived,     \* history: units that became ready
  pc,          \* where each operation's future is
  call,        \* socket and direction of each call, <<>> for a sleep
  overlapped,  \* history: calls that were live together with another on their socket
  timer,       \* the timer fd of each operation
  moves,       \* how often the future was moved: names its present task
  scheduled    \* operations whose task was woken and not polled since

sockVars == <<sock, ready, arrived>>
callVars == <<call, overlapped>>
vars == <<statuses, pending, batch, sockVars, pc, callVars, timer, moves, scheduled>>

Vacant     == [status |-> "vacant"]
Happened   == [status |-> "happened"]
Awaited(w) == [status |-> "awaited", waker |-> w]

(* The task that awaits o, as its wakers name it.                           *)
Task(o) == <<o, moves[o]>>

(* "sleep": the timer is polled next; "try": the system call; "wait":       *)
(* Reactor::poll; "parked": Pending was returned.  "lost" is an accept that *)
(* took a connection and could not register it.                             *)
Running == {"sleep", "try", "wait"}
Ended   == {"done", "error", "lost", "timeout", "slept", "panicked", "dropped"}
Live(o) == pc[o] \in Running \cup {"parked"}

TypeOK ==
  /\ statuses \in [Tokens -> {Vacant, Happened} \cup {Awaited(w) : w \in Ops \X (0 .. MaxMoves)}]
  /\ pending \subseteq Tokens
  /\ batch \subseteq Tokens
  /\ sock \in [Sockets -> {"new", "open", "closed"}]
  /\ ready \in [Sockets -> [Dirs -> 0 .. MaxReady]]
  /\ arrived \in [Sockets -> [Dirs -> 0 .. MaxReady]]
  /\ pc \in [Ops -> Running \cup Ended \cup {"new", "parked"}]
  /\ call \in [Ops -> (Sockets \X Dirs) \cup {<<>>}]
  /\ overlapped \subseteq Ops
  /\ timer \in [Ops -> {"none", "armed", "disarmed", "fired", "closed"}]
  /\ moves \in [Ops -> 0 .. MaxMoves]
  /\ scheduled \subseteq Ops

(* Reactor::get *)
Init ==
  /\ statuses = [t \in Tokens |-> Vacant]
  /\ pending = {}
  /\ batch = {}
  /\ sock = [s \in Sockets |-> "new"]
  /\ ready = [s \in Sockets |-> [d \in Dirs |-> 0]]
  /\ arrived = [s \in Sockets |-> [d \in Dirs |-> 0]]
  /\ pc = [o \in Ops |-> "new"]
  /\ call = [o \in Ops |-> <<>>]
  /\ overlapped = {}
  /\ timer = [o \in Ops |-> "none"]
  /\ moves = [o \in Ops |-> 0]
  /\ scheduled = {}

IsSleep(o) == call[o] = <<>>

(* The calls that borrow socket s.                                          *)
Users(s)    == {o \in Ops : Live(o) /\ ~IsSleep(o) /\ call[o][1] = s}
Borrowed(s) == Users(s) # {}

Goto(o, from, to) ==
  /\ pc[o] = from
  /\ pc' = [pc EXCEPT ![o] = to]

-----------------------------------------------------------------------------
(* Sockets                                                                  *)

(* Mutant: CURRENT_TOKEN is read and not raised.                            *)
SameToken(x) == CHOOSE t \in Tokens : TRUE

(* unique_token: a counter gives each source, a socket or the timer of an   *)
(* operation, a token of its own.  The source stands for the number.        *)
UniqueToken(x) == x

(* registry().register, which may fail.                                     *)
Register(s, ok) ==
  /\ sock[s] = "new"
  /\ sock' = [sock EXCEPT ![s] = IF ok THEN "open" ELSE "closed"]

(* The end of connect and of both binds.                                    *)
Open(s, ok) ==
  /\ Register(s, ok)
  /\ UNCHANGED <<statuses, pending, batch, ready, arrived, pc, callVars, timer, moves, scheduled>>

(* Drop of a socket that no call borrows: epoll forgets it.  Its status and *)
(* an event that run already holds stay.                                    *)
Close(s) ==
  /\ sock[s] = "open"
  /\ ~Borrowed(s)
  /\ sock' = [sock EXCEPT ![s] = "closed"]
  /\ pending' = pending \ {UniqueToken(s)}
  /\ UNCHANGED <<statuses, batch, ready, arrived, pc, callVars, timer, moves, scheduled>>

(* Data, a connection or buffer space arrives.                              *)
Arrive(s, d) ==
  /\ sock[s] = "open"
  /\ d \in DirsOf(s)
  /\ arrived[s][d] < MaxReady
  /\ arrived' = [arrived EXCEPT ![s][d] = @ + 1]
  /\ ready' = [ready EXCEPT ![s][d] = @ + 1]
  /\ pending' = pending \cup {UniqueToken(s)}
  /\ UNCHANGED <<statuses, batch, sock, pc, callVars, timer, moves, scheduled>>

-----------------------------------------------------------------------------
(* The futures                                                              *)

(* A call on an open socket, under a timeout if it is Timed.  read and      *)
(* write borrow the stream exclusively.                                     *)
Call(o, s, d) ==
  /\ sock[s] = "open"
  /\ d \in DirsOf(s)
  /\ s \notin Shared => ~Borrowed(s)
  /\ Goto(o, "new", IF o \in Timed THEN "sleep" ELSE "try")
  /\ call' = [call EXCEPT ![o] = <<s, d>>]
  /\ overlapped' = IF Borrowed(s) THEN overlapped \cup Users(s) \cup {o} ELSE overlapped
  /\ UNCHANGED <<statuses, pending, batch, sockVars, timer, moves, scheduled>>

(* sleep(duration).await                                                    *)
Sleep(o) ==
  /\ o \in Timed
  /\ Goto(o, "new", "sleep")
  /\ UNCHANGED <<statuses, pending, batch, sockVars, callVars, timer, moves, scheduled>>

(* The executor polls a task that was woken.  Timeout::poll asks its sleep  *)
(* first; the socket call goes on where it waits, in Reactor::poll.         *)
Repoll(o) ==
  /\ o \in scheduled
  /\ Goto(o, "parked", IF o \in Timed THEN "sleep" ELSE "wait")
  /\ scheduled' = scheduled \ {o}
  /\ UNCHANGED <<statuses, pending, batch, sockVars, callVars, timer, moves>>

(* Mutant: the first poll arms the timer and does not store its waker.      *)
NoStore(st, w) == st

(* Reactor::status_store                                                    *)
StatusStore(st, w) == Awaited(w)

(* First poll of Sleep: waker, timer fd, registration.  A timer fd set to   *)
(* zero is disarmed; one that is refused panics the poll.  Under a timeout  *)
(* the call then starts.                                                    *)
SleepFirst(o, fd) ==
  /\ timer[o] = "none"
  /\ Goto(o, "sleep", CASE fd = "closed" -> "panicked"
                       [] fd # "closed" /\ IsSleep(o) -> "parked"
                       [] OTHER -> "try")
  /\ statuses' = [statuses EXCEPT ![UniqueToken(o)] = StatusStore(@, Task(o))]
  /\ timer' = [timer EXCEPT ![o] = fd]
  /\ UNCHANGED <<pending, batch, sockVars, callVars, moves, scheduled>>

(* The future ends or is dropped, and its timer fd with it.  A wake that is *)
(* still to come finds the task past it.                                    *)
Finish(o) ==
  /\ scheduled' = scheduled \ {o}
  /\ timer' = [timer EXCEPT ![o] = IF @ = "none" THEN "none" ELSE "closed"]
  /\ pending' = pending \ {UniqueToken(o)}

(* Reactor::has_token_progressed                                            *)
HasTokenProgressed(t) == statuses[t] = Happened

(* Later polls of Sleep, the first half of Timeout::poll: ready ends the    *)
(* sleep or the timeout and drops the future with it.                       *)
SleepAgain(o) ==
  /\ timer[o] \notin {"none", "closed"}
  /\ \/ /\ HasTokenProgressed(UniqueToken(o))
        /\ Goto(o, "sleep", IF IsSleep(o) THEN "slept" ELSE "timeout")
        /\ Finish(o)
     \/ /\ ~HasTokenProgressed(UniqueToken(o))
        /\ Goto(o, "sleep", IF IsSleep(o) THEN "parked" ELSE "wait")
        /\ UNCHANGED <<timer, pending, scheduled>>
  /\ UNCHANGED <<statuses, batch, sockVars, callVars, moves>>

(* Mutant: WouldBlock is taken for an answer.                               *)
AnyResult(o) == TRUE

(* The system call returns Ok and not WouldBlock.                           *)
Succeeds(o) == ready[call[o][1]][call[o][2]] > 0

(* The system call would block.                                             *)
TryBlocks(o) ==
  /\ pc[o] = "try"
  /\ ~Succeeds(o)
  /\ Goto(o, "try", "wait")
  /\ UNCHANGED <<statuses, pending, batch, sockVars, callVars, timer, moves, scheduled>>

(* Mutant: Timeout::poll asks its sleep after the future has answered.      *)
TimerWins(o) == IF o \in Timed /\ HasTokenProgressed(UniqueToken(o)) THEN "timeout" ELSE "done"

(* Timeout::poll hands on the answer of its future.                         *)
Answer(o) == "done"

(* The system call succeeds: read, write, send_to, recv_from.               *)
TryOk(o) ==
  /\ pc[o] = "try"
  /\ call[o][1] \notin Listeners
  /\ Succeeds(o)
  /\ ready' = [ready EXCEPT ![call[o][1]][call[o][2]] = @ - 1]
  /\ Goto(o, "try", Answer(o))
  /\ Finish(o)
  /\ UNCHANGED <<statuses, batch, sock, arrived, callVars, moves>>

(* accept succeeds and registers the stream s under a token of its own.     *)
AcceptOk(o, s, ok) ==
  /\ pc[o] = "try"
  /\ call[o][1] \in Listeners
  /\ s \notin Shared
  /\ Succeeds(o)
  /\ ready' = [ready EXCEPT ![call[o][1]]["in"] = @ - 1]
  /\ Register(s, ok)
  /\ Goto(o, "try", IF ok THEN Answer(o) ELSE "lost")
  /\ Finish(o)
  /\ UNCHANGED <<statuses, batch, arrived, callVars, moves>>

(* The system call fails with another error.                                *)
TryError(o) ==
  /\ Goto(o, "try", "error")
  /\ Finish(o)
  /\ UNCHANGED <<statuses, batch, sockVars, callVars, moves>>

(* Mutant: a waker that is there already is kept.                           *)
KeepWaker(st, w) == IF st = Vacant THEN Awaited(w) ELSE st

(* What Reactor::poll leaves for a token that has not happened: vacant or   *)
(* another task's waker, it becomes the present task's.                     *)
NewWaker(st, w) == Awaited(w)

(* Reactor::poll *)
Wait(o) ==
  LET t == UniqueToken(call[o][1]) IN
  /\ pc[o] = "wait"
  /\ \/ /\ statuses[t] = Happened
        /\ statuses' = [statuses EXCEPT ![t] = Vacant]
        /\ Goto(o, "wait", "try")
     \/ /\ statuses[t] # Happened
        /\ statuses' = [statuses EXCEPT ![t] = NewWaker(@, Task(o))]
        /\ Goto(o, "wait", "parked")
  /\ UNCHANGED <<pending, batch, sockVars, callVars, timer, moves, scheduled>>

(* The owner drops the waiting future.                                      *)
DropFuture(o) ==
  /\ Goto(o, "parked", "dropped")
  /\ Finish(o)
  /\ UNCHANGED <<statuses, batch, sockVars, callVars, moves>>

(* The owner moves the waiting future into a newly spawned task.            *)
Move(o) ==
  /\ pc[o] = "parked"
  /\ moves[o] < MaxMoves
  /\ moves' = [moves EXCEPT ![o] = @ + 1]
  /\ scheduled' = scheduled \cup {o}
  /\ UNCHANGED <<statuses, pending, batch, sockVars, pc, callVars, timer>>

-----------------------------------------------------------------------------
(* Timers, epoll and the reactor thread                                     *)

(* An armed timer fd expires.                                               *)
TimerFire(o) ==
  /\ timer[o] = "armed"
  /\ timer' = [timer EXCEPT ![o] = "fired"]
  /\ pending' = pending \cup {UniqueToken(o)}
  /\ UNCHANGED <<statuses, batch, sockVars, pc, callVars, moves, scheduled>>

(* epoll hands out an event if its source is still ready; the timer fd is   *)
(* never read.                                                              *)
StillReady(t) ==
  \/ \E o \in Timed : UniqueToken(o) = t /\ timer[o] = "fired"
  \/ \E s \in Sockets, d \in Dirs : UniqueToken(s) = t /\ ready[s][d] > 0

(* poll.poll *)
ReactorPoll ==
  /\ batch = {}
  /\ \E t \in pending : StillReady(t)
  /\ batch' = {t \in pending : StillReady(t)}
  /\ pending' = {}
  /\ UNCHANGED <<statuses, sockVars, pc, callVars, timer, moves, scheduled>>

(* Mutant: an event that nobody awaits is dropped.                          *)
OnlyAwaited(st) == IF st = Vacant THEN Vacant ELSE Happened

(* The status an event leaves.                                              *)
MarkHappened(st) == Happened

(* One event of the batch: the status and, under its lock, the wake.        *)
ReactorEvent(t) ==
  /\ t \in batch
  /\ batch' = batch \ {t}
  /\ statuses' = [statuses EXCEPT ![t] = MarkHappened(@)]
  /\ scheduled' = scheduled \cup {o \in Ops : Live(o) /\ statuses[t] = Awaited(Task(o))}
  /\ UNCHANGED <<pending, sockVars, pc, callVars, timer, moves>>

-----------------------------------------------------------------------------
(* What the task of o does by itself once the call has begun.               *)
OpStep(o) ==
  \/ Repoll(o)
  \/ \E fd \in {"armed", "disarmed", "closed"} : SleepFirst(o, fd)
  \/ SleepAgain(o)
  \/ TryBlocks(o)
  \/ TryOk(o)
  \/ \E s \in Sockets, ok \in BOOLEAN : AcceptOk(o, s, ok)
  \/ TryError(o)
  \/ Wait(o)

ReactorStep == ReactorPoll \/ \E t \in batch : ReactorEvent(t)

Next ==
  \/ \E s \in Sockets : Close(s) \/ \E ok \in BOOLEAN : Open(s, ok)
  \/ \E s \in Sockets, d \in Dirs : Arrive(s, d) \/ \E o \in Ops : Call(o, s, d)
  \/ \E o \in Ops : Sleep(o) \/ OpStep(o) \/ DropFuture(o) \/ Move(o) \/ TimerFire(o)
  \/ ReactorStep

Spec == Init /\ [][Next]_vars

(* Woken tasks are polled, the reactor thread runs, time passes.            *)
Fairness ==
  /\ \A o \in Ops : WF_vars(OpStep(o)) /\ WF_vars(TimerFire(o))
  /\ WF_vars(ReactorStep)

FairSpec == Spec /\ Fairness

-----------------------------------------------------------------------------
Waiting(o)   == pc[o] = "parked" /\ ~IsSleep(o)
CanGo(o)     == ready[call[o][1]][call[o][2]] > 0
SoleUser(o)  == o \notin overlapped
Coming(t)    == t \in pending \cup batch

(* A call that waits while its socket is ready has an event or a wake under *)
(* way: whether the event came before or after Reactor::poll, whoever used  *)
(* the token before (a call that timed out leaves its waker there), and     *)
(* also after the future has moved to another task.  The exception are the  *)
(* calls that one listener or UDP socket serves at the same time: they      *)
(* replace each other's waker and consume each other's events.              *)
NoLostEvent ==
  \A o \in Ops : Waiting(o) /\ SoleUser(o) /\ CanGo(o) =>
    Coming(UniqueToken(call[o][1])) \/ o \in scheduled

(* A sleep or timeout that waits on an expired timer has an event or a wake *)
(* under way, unless it was moved: Sleep stores the waker of its first poll *)
(* only.                                                                    *)
NoLostTimer ==
  \A o \in Timed : pc[o] = "parked" /\ timer[o] = "fired" /\ moves[o] = 0 =>
    Coming(UniqueToken(o)) \/ o \in scheduled

(* A sleep ends and a timeout reports an error only once its own timer has  *)
(* expired: no event of a socket or of another timer is taken for it.       *)
NeverEarly ==
  [][\A o \in Ops : pc[o] = "sleep" /\ pc'[o] \in {"slept", "timeout"} => timer[o] = "fired"]_vars

(* What became ready is still there, or one call answered with it, or it is *)
(* a connection that accept could not register.  A timeout or a dropped     *)
(* future takes nothing with it.                                            *)
NothingLost ==
  \A s \in Sockets, d \in Dirs :
    arrived[s][d] = ready[s][d] + Cardinality({o \in Ops : call[o] = <<s, d>> /\ pc[o] \in {"done", "lost"}})

(* A call does not wait forever on a socket that is ready and that no other *)
(* call uses at the same time.                                              *)
CallGoesOn ==
  \A o \in Ops : Waiting(o) /\ SoleUser(o) /\ CanGo(o) ~> ~(Waiting(o) /\ SoleUser(o) /\ CanGo(o))

(* A sleep, and a call under a timeout, ends, whatever the socket does,     *)
(* unless its duration is zero or it was moved to another task.             *)
TimedEnds ==
  \A o \in Timed : pc[o] = "parked" /\ timer[o] # "disarmed" ~> pc[o] \in Ended \/ moves[o] > 0
=============================================================================
