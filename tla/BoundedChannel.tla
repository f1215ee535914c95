--------------------------- MODULE BoundedChannel ---------------------------
(***************************************************************************)
(* One bounded channel (sync/mpsc/bounded_channel.rs) and the part of the  *)
(* reactor that wakes its receiver: the buffer of reactor tags, the map    *)
(* from tags to wakers and the handling of WAKER_TOKEN (reactor.rs).  The  *)
(* channel of a JoinHandle (spawner.rs) is the case of one sender, one     *)
(* message and Bound = 1; the handle's own poll, which keeps one recv and  *)
(* turns its result into the task's, is not modelled.                      *)
(*                                                                         *)
(* One call of recv is under way at a time, as in a channel of one         *)
(* consumer; it can be given up, and the receiver can go to another task.  *)
(*                                                                         *)
(* A send is four steps: the inner sync_channel, the count, the tag, the   *)
(* mio waker.  A poll_recv is a load of the count and then either the      *)
(* store of the waker or a try_recv and the decrement.  The reactor pops a *)
(* tag and then looks its waker up.                                        *)
(*                                                                         *)
(* Messages are counted, not told apart: the inner std channel keeps their *)
(* order.  The tag buffer holds the tags of this channel only; other       *)
(* channels show up as wakes of the reactor.  A pop and a push of the tag  *)
(* buffer are each one step (see RingBuffer).                              *)
(***************************************************************************)
EXTENDS Naturals, FiniteSets

CONSTANTS
  Senders,     \* the BoundedSender clones that can exist
  First,       \* the one bounded_channel returns
  Bound,       \* the capacity of the channel
  MaxSends,    \* bound: calls of send
  MaxTryRecvs  \* bound: calls of BoundedReceiver::try_recv that find a message

ASSUME BoundedChannelAssumption ==
  /\ IsFiniteSet(Senders)
  /\ First \in Senders
  /\ Bound \in Nat \ {0}
  /\ MaxSends \in Nat
  /\ MaxTryRecvs \in Nat

VARIABLES
  inner,        \* messages in the std sync_channel
  queue_cnt,
  clone_count,
  spc,          \* where each sender is in send
  tags,         \* this channel's tags in reactor_tag_buffer
  mio_wake,     \* the mio waker was signalled
  waker,        \* reactor_tags has the waker of the receiving task
  loop,         \* where the reactor is in run
  rpc,          \* where the receiving task is
  scheduled,    \* a wake of the receiving task has not led to a poll yet
  known,        \* history: waker when the current poll loaded the count
  sends,        \* calls of send so far
  tries         \* successful calls of try_recv so far

senderVars   == <<clone_count, spc, sends>>
reactorVars  == <<tags, mio_wake, loop>>
receiverVars == <<rpc, known, tries>>
vars == <<inner, queue_cnt, senderVars, reactorVars, waker, receiverVars, scheduled>>

(* "absent" clones do not exist yet; "add", "tag" and "wake" are the steps  *)
(* of send that are still to come.                                          *)
SenderPC == {"absent", "idle", "add", "tag", "wake", "dropped"}

(* "app": no recv, or one not polled yet by the task that has it; "store":  *)
(* about to store the waker; "parked": poll_recv returned Pending; "try"    *)
(* and "sub": receiving; "error": RecvError was returned; "dropped": the    *)
(* receiver is gone.                                                        *)
ReceiverPC == {"app", "store", "parked", "try", "sub", "error", "dropped"}

TypeOK ==
  /\ inner \in 0 .. Bound
  /\ queue_cnt \in Nat
  /\ clone_count \in Nat
  /\ spc \in [Senders -> SenderPC]
  /\ tags \in Nat
  /\ mio_wake \in BOOLEAN
  /\ waker \in BOOLEAN
  /\ loop \in {"poll", "drain", "lookup"}
  /\ rpc \in ReceiverPC
  /\ scheduled \in BOOLEAN
  /\ known \in BOOLEAN
  /\ sends \in 0 .. MaxSends
  /\ tries \in 0 .. MaxTryRecvs

(* bounded_channel *)
Init ==
  /\ inner = 0
  /\ queue_cnt = 0
  /\ clone_count = 1
  /\ spc = [s \in Senders |-> IF s = First THEN "idle" ELSE "absent"]
  /\ tags = 0
  /\ mio_wake = FALSE
  /\ waker = FALSE
  /\ loop = "poll"
  /\ rpc = "app"
  /\ scheduled = FALSE
  /\ known = FALSE
  /\ sends = 0
  /\ tries = 0

-----------------------------------------------------------------------------
(* BoundedSender                                                            *)

(* Mutant: the inner channel has no bound.                                  *)
NoBound == TRUE

(* Room in the inner channel, sync_channel(bound).                          *)
HasRoom == inner < Bound

(* sender.send: blocks while the channel is full; fails without effect when *)
(* the receiver is gone.                                                    *)
Send(s) ==
  /\ spc[s] = "idle"
  /\ sends < MaxSends
  /\ sends' = sends + 1
  /\ \/ /\ rpc # "dropped"
        /\ HasRoom
        /\ inner' = inner + 1
        /\ spc' = [spc EXCEPT ![s] = "add"]
     \/ /\ rpc = "dropped"
        /\ UNCHANGED <<inner, spc>>
  /\ UNCHANGED <<queue_cnt, clone_count, reactorVars, waker, receiverVars, scheduled>>

SendAdd(s) ==
  /\ spc[s] = "add"
  /\ queue_cnt' = queue_cnt + 1
  /\ spc' = [spc EXCEPT ![s] = "tag"]
  /\ UNCHANGED <<inner, clone_count, sends, reactorVars, waker, receiverVars, scheduled>>

(* Mutant: the registration of the tag is missing.                          *)
NoTag(n) == n

(* Reactor::register_reactor_tag: the push of the tag.                      *)
PushTag(n) == n + 1

SendTag(s) ==
  /\ spc[s] = "tag"
  /\ tags' = PushTag(tags)
  /\ spc' = [spc EXCEPT ![s] = "wake"]
  /\ UNCHANGED <<inner, queue_cnt, clone_count, sends, mio_wake, loop, waker, receiverVars,
                 scheduled>>

(* poll_waker.wake                                                          *)
SendWake(s) ==
  /\ spc[s] = "wake"
  /\ mio_wake' = TRUE
  /\ spc' = [spc EXCEPT ![s] = "idle"]
  /\ UNCHANGED <<inner, queue_cnt, clone_count, sends, tags, loop, waker, receiverVars, scheduled>>

Clone(s, n) ==
  /\ spc[s] = "idle"
  /\ spc[n] = "absent"
  /\ clone_count' = clone_count + 1
  /\ spc' = [spc EXCEPT ![n] = "idle"]
  /\ UNCHANGED <<inner, queue_cnt, sends, reactorVars, waker, receiverVars, scheduled>>

(* Mutant: the test is right, and the tag goes while messages are left.     *)
IsLastSender == clone_count = 1

(* The test of Drop on the value that fetch_sub returns.                    *)
DropsLast == clone_count = 0

(* Drop of a sender.  remove_tag is called when DropsLast holds.            *)
Drop(s) ==
  /\ spc[s] = "idle"
  /\ clone_count' = clone_count - 1
  /\ spc' = [spc EXCEPT ![s] = "dropped"]
  /\ waker' = (waker /\ ~DropsLast)
  /\ UNCHANGED <<inner, queue_cnt, sends, reactorVars, receiverVars, scheduled>>

-----------------------------------------------------------------------------
(* BoundedReceiver                                                          *)

(* The executor polls the task: the first poll of a call of recv, or a poll *)
(* after a wake.                                                            *)
CanPoll == rpc = "app" \/ (rpc = "parked" /\ scheduled)

(* The load of queue_cnt in poll_recv.                                      *)
IsEmpty == queue_cnt = 0

PollRecv ==
  /\ CanPoll
  /\ scheduled' = (rpc = "app" /\ scheduled)
  /\ known' = waker
  /\ \/ /\ IsEmpty
        /\ rpc' = "store"
     \/ /\ ~IsEmpty
        /\ rpc' = "try"
  /\ UNCHANGED <<inner, queue_cnt, senderVars, reactorVars, waker, tries>>

(* Reactor::store_waker_channel, then Poll::Pending.                        *)
StoreWaker ==
  /\ rpc = "store"
  /\ waker' = TRUE
  /\ rpc' = "parked"
  /\ UNCHANGED <<inner, queue_cnt, senderVars, reactorVars, known, tries, scheduled>>

(* rx.try_recv in poll_recv; every error becomes RecvError.                 *)
PollTryRecv ==
  /\ rpc = "try"
  /\ rpc' = IF inner > 0 THEN "sub" ELSE "error"
  /\ inner' = IF inner > 0 THEN inner - 1 ELSE inner
  /\ UNCHANGED <<queue_cnt, senderVars, reactorVars, waker, known, tries, scheduled>>

(* Mutant: the message is received and the count stays.                     *)
NoSub(n) == n

(* queue_cnt.fetch_sub                                                      *)
SubCount(n) == n - 1

PollSub ==
  /\ rpc = "sub"
  /\ queue_cnt' = SubCount(queue_cnt)
  /\ rpc' = "app"
  /\ UNCHANGED <<inner, senderVars, reactorVars, waker, known, tries, scheduled>>

(* BoundedReceiver::try_recv takes a message past poll_recv.  A call that   *)
(* finds none changes nothing.                                              *)
TryRecv ==
  /\ rpc = "app"
  /\ tries < MaxTryRecvs
  /\ inner > 0
  /\ inner' = inner - 1
  /\ tries' = tries + 1
  /\ UNCHANGED <<queue_cnt, senderVars, reactorVars, waker, rpc, known, scheduled>>

(* The program goes on: it drops the future of a recv that waits, as a      *)
(* timeout does, and the waker stays in the reactor; or recv has failed.    *)
GiveUp ==
  /\ rpc \in {"parked", "error"}
  /\ rpc' = "app"
  /\ UNCHANGED <<inner, queue_cnt, senderVars, reactorVars, waker, known, tries, scheduled>>

(* Another task takes the receiver over, with or without its recv: a waker  *)
(* in the reactor is now that of a task that no longer receives.            *)
MoveReceiver ==
  /\ rpc \in {"app", "parked", "error"}
  /\ rpc' = "app"
  /\ waker' = FALSE
  /\ scheduled' = FALSE
  /\ UNCHANGED <<inner, queue_cnt, senderVars, reactorVars, known, tries>>

(* The receiver is dropped, between polls, with the messages it holds.      *)
DropReceiver ==
  /\ rpc \in {"app", "parked", "error"}
  /\ rpc' = "dropped"
  /\ inner' = 0
  /\ UNCHANGED <<queue_cnt, senderVars, reactorVars, waker, known, tries, scheduled>>

(* Some other future of the receiving task wakes it.                        *)
OtherWake ==
  /\ ~scheduled
  /\ scheduled' = TRUE
  /\ UNCHANGED <<inner, queue_cnt, senderVars, reactorVars, waker, receiverVars>>

-----------------------------------------------------------------------------
(* The reactor thread                                                       *)

(* poll returns with an event for WAKER_TOKEN.                              *)
ReactorPoll ==
  /\ loop = "poll"
  /\ mio_wake
  /\ mio_wake' = FALSE
  /\ loop' = "drain"
  /\ UNCHANGED <<inner, queue_cnt, senderVars, tags, waker, receiverVars, scheduled>>

(* The pop of the while-let loop.                                           *)
ReactorPop ==
  /\ loop = "drain"
  /\ \/ /\ tags > 0
        /\ tags' = tags - 1
        /\ loop' = "lookup"
     \/ /\ tags = 0
        /\ loop' = "poll"
        /\ UNCHANGED tags
  /\ UNCHANGED <<inner, queue_cnt, senderVars, mio_wake, waker, receiverVars, scheduled>>

(* The lookup of the tag and wake_by_ref, under the lock of reactor_tags.   *)
(* The waker stays in the map.                                              *)
ReactorLookup ==
  /\ loop = "lookup"
  /\ scheduled' = (scheduled \/ waker)
  /\ loop' = "drain"
  /\ UNCHANGED <<inner, queue_cnt, senderVars, tags, mio_wake, waker, receiverVars>>

(* Another channel wakes the reactor.                                       *)
OtherMioWake ==
  /\ ~mio_wake
  /\ mio_wake' = TRUE
  /\ UNCHANGED <<inner, queue_cnt, senderVars, tags, loop, waker, receiverVars, scheduled>>

-----------------------------------------------------------------------------
SenderStep(s) == SendAdd(s) \/ SendTag(s) \/ SendWake(s)

(* What the receiving task does once it is inside recv.                     *)
ReceiverStep ==
  \/ rpc = "parked" /\ PollRecv
  \/ StoreWaker
  \/ PollTryRecv
  \/ PollSub

ReactorStep == ReactorPoll \/ ReactorPop \/ ReactorLookup

Next ==
  \/ \E s \in Senders : Send(s) \/ SenderStep(s) \/ Drop(s) \/ \E n \in Senders : Clone(s, n)
  \/ PollRecv \/ StoreWaker \/ PollTryRecv \/ PollSub
  \/ GiveUp \/ MoveReceiver \/ DropReceiver \/ OtherWake
  \/ ReactorStep \/ OtherMioWake
  \/ TryRecv

Spec == Init /\ [][Next]_vars

(* A send that has begun, the reactor loop and the receiving task are       *)
(* scheduled: threads run, and an executor polls a task that was woken.     *)
(* Whether another message is sent or a receiver is dropped is up to the    *)
(* program.                                                                 *)
Fairness ==
  /\ \A s \in Senders : WF_vars(SenderStep(s))
  /\ WF_vars(ReactorStep)
  /\ WF_vars(ReceiverStep)

FairSpec == Spec /\ Fairness

-----------------------------------------------------------------------------
(* Every sender was dropped and no message is left.                         *)
Closed == (\A s \in Senders : spc[s] \in {"absent", "dropped"}) /\ inner = 0

(* A recv that fails on an open channel has one cause, an earlier try_recv: *)
(* otherwise a count that the poll saw positive stands for a message in the *)
(* inner channel, whatever the order in which concurrent senders update the *)
(* two.                                                                     *)
SpuriousErrorNeedsTryRecv == rpc = "error" /\ ~Closed => tries > 0

(* A wake of the receiver is under way.                                     *)
WakeComing ==
  \/ scheduled
  \/ loop = "lookup"
  \/ tags > 0 /\ (mio_wake \/ loop = "drain" \/ \E s \in Senders : spc[s] = "wake")
  \/ \E s \in Senders : spc[s] = "tag"

(* The waker of a parked receiver stays in the reactor, and one whose task  *)
(* had its waker there before it looked at the count is never left parked   *)
(* on a counted message without a wake under way, although the store of     *)
(* its waker races with the send.                                           *)
NoLostWake == rpc = "parked" => waker /\ (known /\ queue_cnt > 0 => WakeComing)

(* Such a receiver goes on: it is polled again.                             *)
ParkedIsPolled == rpc = "parked" /\ known /\ queue_cnt > 0 ~> rpc # "parked"

(* The receiver is woken up on new messages, on its first wait too.         *)
MessageWakesReceiver == rpc = "parked" /\ queue_cnt > 0 ~> rpc # "parked"

(* A receiver that waits on a closed channel gets its RecvError.            *)
CloseWakesReceiver == rpc = "parked" /\ Closed ~> rpc # "parked"

=============================================================================
