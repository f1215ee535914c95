----------------------------- MODULE BoundedFifo -----------------------------
(***************************************************************************)
(* What LockFreeBoundedRingBuffer (utils/ring_buffer.rs) promises: a FIFO  *)
(* queue of bounded length whose push and pop take effect at once.  push   *)
(* answers Err exactly when the queue is full, pop answers None exactly    *)
(* when it is empty.                                                       *)
(***************************************************************************)
EXTENDS Naturals, Sequences

CONSTANTS
  Threads,  \* the threads that call push and pop
  Values,   \* the elements
  Cap       \* the bound given to new()

VARIABLES
  queue,    \* the elements, oldest first
  result    \* what each thread's last call returned

(* What a call returns: Ok(()) of push, its Err, None or Some(v) of pop.    *)
Ok   == [tag |-> "ok"]
Full == [tag |-> "full"]
Empty == [tag |-> "none"]
Some(v) == [tag |-> "some", val |-> v]
Unused == [tag |-> "unused"]

Returns(t, r) == result' = [result EXCEPT ![t] = r]

Init ==
  /\ queue = <<>>
  /\ result = [t \in Threads |-> Unused]

Push(t, v) ==
  \/ /\ Len(queue) < Cap
     /\ queue' = Append(queue, v)
     /\ Returns(t, Ok)
  \/ /\ Len(queue) = Cap
     /\ UNCHANGED queue
     /\ Returns(t, Full)

Pop(t) ==
  \/ /\ queue # <<>>
     /\ queue' = Tail(queue)
     /\ Returns(t, Some(Head(queue)))
  \/ /\ queue = <<>>
     /\ UNCHANGED queue
     /\ Returns(t, Empty)

Next == \E t \in Threads : Pop(t) \/ \E v \in Values : Push(t, v)

Spec == Init /\ [][Next]_<<queue, result>>
=============================================================================
