------------------------------- MODULE Offload -------------------------------
(***************************************************************************)
(* Blocking work on the thread pool: HoochPool (pool/thread_pool.rs) and   *)
(* the futures that use it.  Files are AsyncHoochFile (fs/file.rs), which  *)
(* is woken through a reactor tag; Nets are AsyncHoochTcpStream and        *)
(* AsyncHoochTcpListener (net/tcp), whose closure carries the waker.       *)
(*                                                                         *)
(* Each operation is awaited by one task.  A poll runs under the mutex of  *)
(* the task; a wake during the poll leads to another poll after it.  The   *)
(* owner can move a waiting future into a newly spawned task; the waker    *)
(* that the first poll cloned then still names the old one.                *)
(*                                                                         *)
(* The reactor's part is the WAKER_TOKEN branch of run (reactor.rs), as in *)
(* BoundedChannel, here with the tags of all operations.                   *)
(***************************************************************************)
EXTENDS Naturals, Sequences

CONSTANTS
  Files,        \* calls of HoochFile::open, create and open_hooch
  Nets,         \* calls of HoochTcpStream::connect and HoochTcpListener::bind
  None,
  num_threads,  \* threads of the pool (1 in RuntimeBuilder::build)
  ChannelBound, \* bound of a pool thread's channel (1024 in the code)
  MaxOther,     \* bound: wakes by other parts of the program
  MaxPanics     \* bound: closures that panic

ASSUME OffloadAssumption ==
  /\ Files \cap Nets = {}
  /\ None \notin Files \cup Nets
  /\ num_threads \in Nat \ {0}
  /\ ChannelBound \in Nat \ {0}
  /\ MaxOther \in Nat
  /\ MaxPanics \in Nat

Ops == Files \cup Nets
Pool == 0 .. num_threads - 1

VARIABLES
  cursor,     \* HoochPool::cursor
  senders,    \* the channels of the pool threads
  ppc,        \* where each pool thread is
  job,        \* the closure it runs, named by its operation
  phase,      \* where each operation's future is
  has_polled, \* operations whose future has its flag has_polled set
  moved,      \* operations whose future has left the task of its first poll
  idx,        \* its local current_value in get_and_update_index
  slot,       \* the result: file_handle or state
  tags,       \* reactor_tag_buffer
  waker,      \* operations whose waker is in reactor_tags
  mio_wake,   \* the mio waker was signalled
  loop,       \* where the reactor is in run
  tag,        \* the tag it has popped
  scheduled,  \* operations whose task was woken and not polled since
  others,     \* wakes by other parts so far
  panics      \* closures that panicked so far

poolVars    == <<senders, ppc, job>>
futureVars  == <<phase, has_polled, moved>>
reactorVars == <<mio_wake, loop, tag>>
boundVars   == <<others, panics>>
vars == <<cursor, poolVars, futureVars, idx, slot, tags, waker, reactorVars, scheduled, boundVars>>

(* "new": not called yet; "created": the future is there; "tag", "waker",   *)
(* "addr", "load", "store", "send", "return": the next step of the first    *)
(* poll; "parked": Pending was returned; "ready"; "panicked": the poll      *)
(* panicked; "dropped": the future was dropped, as by a timeout around it.  *)
Phase == {"new", "created", "tag", "waker", "addr", "load", "store", "send", "return", "parked",
          "ready", "panicked", "dropped"}

TypeOK ==
  /\ cursor \in Pool
  /\ senders \in [Pool -> Seq(Ops)]
  /\ ppc \in [Pool -> {"recv", "run", "wake", "dead"}]
  /\ job \in [Pool -> Ops \cup {None}]
  /\ phase \in [Ops -> Phase]
  /\ has_polled \subseteq Ops
  /\ moved \subseteq Ops
  /\ idx \in [Ops -> Pool]
  /\ slot \in [Ops -> {"none", "some", "taken"}]
  /\ tags \in Seq(Ops)
  /\ waker \subseteq Ops
  /\ mio_wake \in BOOLEAN
  /\ loop \in {"poll", "drain", "lookup"}
  /\ tag \in Ops \cup {None}
  /\ scheduled \subseteq Ops
  /\ others \in 0 .. MaxOther
  /\ panics \in 0 .. MaxPanics

(* HoochPool::init *)
Init ==
  /\ cursor = 0
  /\ senders = [i \in Pool |-> <<>>]
  /\ ppc = [i \in Pool |-> "recv"]
  /\ job = [i \in Pool |-> None]
  /\ phase = [o \in Ops |-> "new"]
  /\ has_polled = {}
  /\ moved = {}
  /\ idx = [o \in Ops |-> 0]
  /\ slot = [o \in Ops |-> "none"]
  /\ tags = <<>>
  /\ waker = {}
  /\ mio_wake = FALSE
  /\ loop = "poll"
  /\ tag = None
  /\ scheduled = {}
  /\ others = 0
  /\ panics = 0

-----------------------------------------------------------------------------
(* The futures                                                              *)

Goto(o, from, to) ==
  /\ phase[o] = from
  /\ phase' = [phase EXCEPT ![o] = to]

(* open, create, open_hooch, connect and bind all register a tag and create *)
(* the future.                                                              *)
Create(o) ==
  /\ Goto(o, "new", "created")
  /\ tags' = Append(tags, o)
  /\ UNCHANGED <<cursor, poolVars, has_polled, moved, idx, slot, waker, reactorVars, scheduled,
                 boundVars>>

(* Mutant: the result is never looked at.                                   *)
NeverReady(o) == FALSE

(* The test of file_handle or state at a later poll.                        *)
HasResult(o) == slot[o] = "some"

(* Mutant: the first poll does not set has_polled.                          *)
LeavesUnset(o) == has_polled

(* The first poll sets has_polled.                                          *)
SetsHasPolled(o) == has_polled \cup {o}

(* A poll begins: the call's own, or a later one after a wake.  While       *)
(* has_polled is not set it starts the work; then it looks for the result.  *)
Poll(o) ==
  /\ \/ phase[o] = "created" /\ UNCHANGED scheduled
     \/ phase[o] = "parked" /\ o \in scheduled /\ scheduled' = scheduled \ {o}
  /\ \/ /\ o \notin has_polled
        /\ has_polled' = SetsHasPolled(o)
        /\ phase' = [phase EXCEPT ![o] = IF o \in Files THEN "tag" ELSE "addr"]
        /\ UNCHANGED slot
     \/ /\ o \in has_polled
        /\ ~HasResult(o)
        /\ phase' = [phase EXCEPT ![o] = "parked"]
        /\ UNCHANGED <<has_polled, slot>>
     \/ /\ o \in has_polled
        /\ HasResult(o)
        /\ phase' = [phase EXCEPT ![o] = "ready"]
        /\ slot' = [slot EXCEPT ![o] = "taken"]
        /\ UNCHANGED has_polled
  /\ UNCHANGED <<cursor, poolVars, moved, idx, tags, waker, reactorVars, boundVars>>

(* The first poll of AsyncHoochFile registers the tag again,                *)
RegisterTag(f) ==
  /\ Goto(f, "tag", "waker")
  /\ tags' = Append(tags, f)
  /\ UNCHANGED <<cursor, poolVars, has_polled, moved, idx, slot, waker, reactorVars, scheduled,
                 boundVars>>

(* and stores the waker under it.                                           *)
StoreWaker(f) ==
  /\ Goto(f, "waker", "load")
  /\ waker' = waker \cup {f}
  /\ UNCHANGED <<cursor, poolVars, has_polled, moved, idx, slot, tags, reactorVars, scheduled,
                 boundVars>>

(* The first poll of a connect or bind resolves the address; both unwraps   *)
(* panic if there is none.                                                  *)
ResolveAddr(n) ==
  /\ \/ Goto(n, "addr", "load")
     \/ Goto(n, "addr", "panicked")
  /\ UNCHANGED <<cursor, poolVars, has_polled, moved, idx, slot, tags, waker, reactorVars,
                 scheduled, boundVars>>

(* get_and_update_index: a load and a store, not one atomic step.           *)
LoadCursor(o) ==
  /\ Goto(o, "load", "store")
  /\ idx' = [idx EXCEPT ![o] = cursor]
  /\ UNCHANGED <<cursor, poolVars, has_polled, moved, slot, tags, waker, reactorVars, scheduled,
                 boundVars>>

(* Mutant: the index is not taken modulo num_threads.                       *)
NextIdxNoWrap(i) == i + 1

NextIdx(i) == (i + 1) % num_threads

StoreCursor(o) ==
  /\ Goto(o, "store", "send")
  /\ cursor' = NextIdx(idx[o])
  /\ UNCHANGED <<poolVars, has_polled, moved, idx, slot, tags, waker, reactorVars, scheduled,
                 boundVars>>

(* The send of execute: it blocks while the channel is full; its unwrap     *)
(* panics if the thread has died.                                           *)
Execute(o) ==
  /\ \/ /\ ppc[idx[o]] # "dead"
        /\ Len(senders[idx[o]]) < ChannelBound
        /\ Goto(o, "send", "return")
        /\ senders' = [senders EXCEPT ![idx[o]] = Append(@, o)]
     \/ /\ ppc[idx[o]] = "dead"
        /\ Goto(o, "send", "panicked")
        /\ UNCHANGED senders
  /\ UNCHANGED <<cursor, ppc, job, has_polled, moved, idx, slot, tags, waker, reactorVars,
                 scheduled, boundVars>>

(* The first poll returns Pending.  The pool may have done its work by now. *)
ReturnPending(o) ==
  /\ Goto(o, "return", "parked")
  /\ UNCHANGED <<cursor, poolVars, has_polled, moved, idx, slot, tags, waker, reactorVars,
                 scheduled, boundVars>>

(* The future is dropped while it waits.  Its closure, its tag and its      *)
(* waker stay where they are.                                               *)
DropFuture(o) ==
  /\ Goto(o, "parked", "dropped")
  /\ UNCHANGED <<cursor, poolVars, has_polled, moved, idx, slot, tags, waker, reactorVars,
                 scheduled, boundVars>>

(* The owner moves the waiting future into a newly spawned task, which is   *)
(* polled once on its own.                                                  *)
Move(o) ==
  /\ phase[o] = "parked"
  /\ moved' = moved \cup {o}
  /\ scheduled' = scheduled \cup {o}
  /\ UNCHANGED <<cursor, poolVars, phase, has_polled, idx, slot, tags, waker, reactorVars,
                 boundVars>>

-----------------------------------------------------------------------------
(* The pool threads                                                         *)

(* recv: a pool thread takes the next closure.                              *)
PoolRecv(i) ==
  /\ ppc[i] = "recv"
  /\ senders[i] # <<>>
  /\ job' = [job EXCEPT ![i] = Head(senders[i])]
  /\ senders' = [senders EXCEPT ![i] = Tail(@)]
  /\ ppc' = [ppc EXCEPT ![i] = "run"]
  /\ UNCHANGED <<cursor, futureVars, idx, slot, tags, waker, reactorVars, scheduled, boundVars>>

(* The blocking call returns and its result, good or bad, is stored.        *)
PoolRun(i) ==
  /\ ppc[i] = "run"
  /\ slot' = [slot EXCEPT ![job[i]] = "some"]
  /\ ppc' = [ppc EXCEPT ![i] = "wake"]
  /\ UNCHANGED <<cursor, senders, job, futureVars, idx, tags, waker, reactorVars, scheduled, boundVars>>

(* Mutant: the closure of a file does not wake the reactor.                 *)
NoSignal(o) == mio_wake

(* Mutant: the closure of a connect or bind does not wake the task.         *)
WakesNobody(o) == scheduled

(* mio_waker().wake() at the end of a file's closure.                       *)
Signal(o) == mio_wake \/ o \in Files

(* waker.wake() at the end of the closure of a connect or bind: the waker   *)
(* of the first poll, which does nothing for a future that has moved since. *)
WakeTask(o) == IF o \in Nets \ moved THEN scheduled \cup {o} ELSE scheduled

PoolWake(i) ==
  /\ ppc[i] = "wake"
  /\ mio_wake' = Signal(job[i])
  /\ scheduled' = WakeTask(job[i])
  /\ ppc' = [ppc EXCEPT ![i] = "recv"]
  /\ job' = [job EXCEPT ![i] = None]
  /\ UNCHANGED <<cursor, senders, futureVars, idx, slot, tags, waker, loop, tag, boundVars>>

(* The unwrap of that wake, or one inside it, panics: the thread ends and   *)
(* drops its receiver with the closures in it.                              *)
PoolPanic(i) ==
  /\ ppc[i] = "wake"
  /\ panics < MaxPanics
  /\ panics' = panics + 1
  /\ ppc' = [ppc EXCEPT ![i] = "dead"]
  /\ job' = [job EXCEPT ![i] = None]
  /\ senders' = [senders EXCEPT ![i] = <<>>]
  /\ UNCHANGED <<cursor, futureVars, idx, slot, tags, waker, reactorVars, scheduled, others>>

-----------------------------------------------------------------------------
(* The reactor, WAKER_TOKEN branch                                          *)

ReactorPoll ==
  /\ loop = "poll"
  /\ mio_wake
  /\ mio_wake' = FALSE
  /\ loop' = "drain"
  /\ UNCHANGED <<cursor, poolVars, futureVars, idx, slot, tags, waker, tag, scheduled, boundVars>>

ReactorPop ==
  /\ loop = "drain"
  /\ \/ /\ tags # <<>>
        /\ tag' = Head(tags)
        /\ tags' = Tail(tags)
        /\ loop' = "lookup"
     \/ /\ tags = <<>>
        /\ loop' = "poll"
        /\ UNCHANGED <<tag, tags>>
  /\ UNCHANGED <<cursor, poolVars, futureVars, idx, slot, waker, mio_wake, scheduled, boundVars>>

(* The waker is that of the file's first poll, too.                         *)
ReactorLookup ==
  /\ loop = "lookup"
  /\ scheduled' = scheduled \cup (({tag} \cap waker) \ moved)
  /\ tag' = None
  /\ loop' = "drain"
  /\ UNCHANGED <<cursor, poolVars, futureVars, idx, slot, tags, waker, mio_wake, boundVars>>

(* Another part of the program, as a channel, wakes the reactor.            *)
OtherMioWake ==
  /\ others < MaxOther
  /\ others' = others + 1
  /\ mio_wake' = TRUE
  /\ UNCHANGED <<cursor, poolVars, futureVars, idx, slot, tags, waker, loop, tag, scheduled, panics>>

(* Another future of the task wakes it.                                     *)
OtherWake(o) ==
  /\ others < MaxOther
  /\ others' = others + 1
  /\ scheduled' = scheduled \cup {o}
  /\ UNCHANGED <<cursor, poolVars, futureVars, idx, slot, tags, waker, reactorVars, panics>>

-----------------------------------------------------------------------------
(* What the task of operation o does by itself once it has begun.           *)
FutureStep(o) ==
  \/ Poll(o)
  \/ RegisterTag(o)
  \/ StoreWaker(o)
  \/ ResolveAddr(o)
  \/ LoadCursor(o)
  \/ StoreCursor(o)
  \/ Execute(o)
  \/ ReturnPending(o)

PoolStep(i) == PoolRecv(i) \/ PoolRun(i) \/ PoolWake(i)

ReactorStep == ReactorPoll \/ ReactorPop \/ ReactorLookup

Next ==
  \/ \E o \in Ops : Create(o) \/ FutureStep(o) \/ DropFuture(o) \/ Move(o) \/ OtherWake(o)
  \/ \E i \in Pool : PoolStep(i) \/ PoolPanic(i)
  \/ ReactorStep
  \/ OtherMioWake

Spec == Init /\ [][Next]_vars

(* Threads are scheduled, blocking calls return, and an executor polls a    *)
(* task that was woken.                                                     *)
Fairness ==
  /\ \A o \in Ops : WF_vars(FutureStep(o))
  /\ \A i \in Pool : WF_vars(PoolStep(i))
  /\ WF_vars(ReactorStep)

FairSpec == Spec /\ Fairness

-----------------------------------------------------------------------------
Queued(o, i)    == \E k \in DOMAIN senders[i] : senders[i][k] = o
Running(o, i)   == ppc[i] = "run" /\ job[i] = o
Waking(o, i)    == ppc[i] = "wake" /\ job[i] = o
PoolDamaged     == \E i \in Pool : ppc[i] = "dead"

(* The work was given to the pool and the future has not ended.             *)
Waits(o)        == phase[o] \in {"return", "parked"}

(* A closure is at most in one channel or one pool thread's hands; it is    *)
(* gone once its result is stored; and while a future waits without a       *)
(* result it is somewhere, unless a pool thread has died.  Concurrent calls *)
(* of execute may pick the same thread, and a future may be polled again    *)
(* before its work is done, but none loses or doubles work.                 *)
ClosureOnce ==
  /\ \A i, j \in Pool : \A k \in DOMAIN senders[i], l \in DOMAIN senders[j] :
       senders[i][k] = senders[j][l] => i = j /\ k = l
  /\ \A o \in Ops :
       /\ \A i, j \in Pool : Running(o, i) => ~Queued(o, j) /\ (Running(o, j) => i = j)
       /\ slot[o] # "none" => \A i \in Pool : ~Running(o, i) /\ ~Queued(o, i)
       /\ Waits(o) /\ slot[o] = "none" =>
            PoolDamaged \/ \E i \in Pool : Running(o, i) \/ Queued(o, i)

(* A connect or bind whose result is there and that waits has its wake      *)
(* under way, although the pool may finish before the poll that offloaded   *)
(* the work has returned.  The exception is a future that was moved: the    *)
(* closure wakes the task of the first poll only.                           *)
NetNoLostWake ==
  \A n \in Nets : Waits(n) /\ slot[n] = "some" =>
    n \in scheduled \cup moved \/ PoolDamaged \/ \E i \in Pool : Waking(n, i)

(* A file whose result is there and whose tag is still in the buffer is not *)
(* forgotten: the reactor is in its loop or about to be woken.              *)
TagServed ==
  \A f \in Files :
    Waits(f) /\ slot[f] = "some" /\ (\E k \in DOMAIN tags : tags[k] = f) =>
      mio_wake \/ loop # "poll" \/ PoolDamaged \/ \E i \in Pool : Waking(f, i)

(* A connect or bind that waits on the pool goes on, unless a pool thread   *)
(* has died or the future was moved to another task.                        *)
NetCompletes == \A n \in Nets : Waits(n) ~> ~Waits(n) \/ PoolDamaged \/ n \in moved

(* The future of an open that stays in its task resolves to a file or an    *)
(* error.                                                                   *)
FileCompletes == \A f \in Files : Waits(f) ~> ~Waits(f) \/ PoolDamaged \/ f \in moved
=============================================================================
