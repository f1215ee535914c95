----------------------------- MODULE RingBuffer -----------------------------
(***************************************************************************)
(* LockFreeBoundedRingBuffer (utils/ring_buffer.rs), one step per access   *)
(* to the shared memory: the loads and stores of start and end, the        *)
(* fetch_add and fetch_sub of count, and the accesses to a slot.           *)
(*                                                                         *)
(* Producers call push and consumers call pop as they like in Spec; a      *)
(* thread may be both.  In SerialSpec a call begins only when no other is  *)
(* under way, as in the unit tests or under a lock around the buffer.      *)
(* Memory is sequentially consistent: the Relaxed and Acquire/Release      *)
(* orders of the code allow overlapping calls more, and serial calls no    *)
(* more than that.                                                         *)
(***************************************************************************)
EXTENDS Naturals, Sequences

CONSTANTS
  Producers,  \* the threads that call push
  Consumers,  \* the threads that call pop
  Values,     \* the elements
  Cap,        \* the bound given to new()
  USIZE,      \* 2^w, the number of values of a usize
  Uninit      \* the content of a slot of MaybeUninit::uninit()

ASSUME RingBufferAssumption ==
  /\ Cap \in Nat \ {0}
  /\ USIZE \in Nat
  /\ Cap < USIZE
  /\ Uninit \notin Values

Threads == Producers \cup Consumers

VARIABLES
  buffer,   \* the slots
  start,    \* index of the next pop
  end,      \* index of the next push
  count,    \* number of elements
  pc,       \* where each thread is inside push or pop
  idx,      \* its current_end or current_start
  val,      \* the value it pushes or has popped
  result    \* what its last call returned

shared == <<buffer, start, end, count>>
vars == <<shared, pc, idx, val, result>>

Slots == 0 .. Cap - 1

PushPC == {"push_end", "push_insert", "push_add", "push_store"}
PopPC  == {"pop_end", "pop_count", "pop_get", "pop_sub", "pop_store"}

Answers == [tag : {"ok", "full", "none", "unused"}] 
             \cup [tag : {"some"}, val : Values \cup {Uninit}]

TypeOK ==
  /\ buffer \in [Slots -> Values \cup {Uninit}]
  /\ start \in Slots
  /\ end \in Slots
  /\ count \in 0 .. USIZE - 1
  /\ pc \in [Threads -> {"idle"} \cup PushPC \cup PopPC]
  /\ idx \in [Threads -> Slots]
  /\ val \in [Threads -> Values \cup {Uninit}]
  /\ result \in [Threads -> Answers]

(* new(bound) *)
Init ==
  /\ buffer = [i \in Slots |-> Uninit]
  /\ start = 0
  /\ end = 0
  /\ count = 0
  /\ pc = [t \in Threads |-> "idle"]
  /\ idx = [t \in Threads |-> 0]
  /\ val = [t \in Threads |-> Uninit]
  /\ result = [t \in Threads |-> [tag |-> "unused"]]

-----------------------------------------------------------------------------
(* Mutant: the index never returns to 0.                                    *)
SuccNoWrap(i) == i + 1

(* new_end and new_start: the index after i, in a circle.                   *)
Succ(i) == IF i + 1 < Cap THEN i + 1 ELSE 0

(* fetch_add and fetch_sub wrap around.                                     *)
FetchAdd(n) == IF n + 1 = USIZE THEN 0 ELSE n + 1
FetchSub(n) == IF n = 0 THEN USIZE - 1 ELSE n - 1

Goto(t, from, to) ==
  /\ pc[t] = from
  /\ pc' = [pc EXCEPT ![t] = to]

(* The thread leaves push or pop with answer r.                             *)
Return(t, from, r) ==
  /\ Goto(t, from, "idle")
  /\ result' = [result EXCEPT ![t] = r]

(* Mutant: one element more than the capacity is let in.                    *)
FullLate == count > Cap

(* The test at the start of push.                                           *)
IsFull == count = Cap

(* push(v) is called: the check of the count.                               *)
PushBegin(t, v) ==
  \/ /\ ~IsFull
     /\ Goto(t, "idle", "push_end")
     /\ val' = [val EXCEPT ![t] = v]
     /\ UNCHANGED <<shared, idx, result>>
  \/ /\ IsFull
     /\ Return(t, "idle", [tag |-> "full"])
     /\ UNCHANGED <<shared, idx, val>>

PushLoadEnd(t) ==
  /\ Goto(t, "push_end", "push_insert")
  /\ idx' = [idx EXCEPT ![t] = end]
  /\ UNCHANGED <<shared, val, result>>

(* insert_value: drop_in_place of a MaybeUninit does nothing.               *)
PushInsert(t) ==
  /\ Goto(t, "push_insert", "push_add")
  /\ buffer' = [buffer EXCEPT ![idx[t]] = val[t]]
  /\ UNCHANGED <<start, end, count, idx, val, result>>

PushAdd(t) ==
  /\ Goto(t, "push_add", "push_store")
  /\ count' = FetchAdd(count)
  /\ UNCHANGED <<buffer, start, end, idx, val, result>>

PushStore(t) ==
  /\ Return(t, "push_store", [tag |-> "ok"])
  /\ end' = Succ(idx[t])
  /\ UNCHANGED <<buffer, start, count, idx, val>>

(* pop() is called: the load of start.                                      *)
PopBegin(t) ==
  /\ Goto(t, "idle", "pop_end")
  /\ idx' = [idx EXCEPT ![t] = start]
  /\ UNCHANGED <<shared, val, result>>

(* The load of end: different indices mean that there is an element.        *)
PopLoadEnd(t) ==
  /\ \/ /\ idx[t] = end
        /\ Goto(t, "pop_end", "pop_count")
     \/ /\ idx[t] # end
        /\ Goto(t, "pop_end", "pop_get")
  /\ UNCHANGED <<shared, idx, val, result>>

(* Mutant: equal indices alone are taken for an empty buffer.               *)
EqualMeansEmpty == TRUE

(* Mutant: the test for an empty buffer is missing.                         *)
NeverEmpty == FALSE

(* With equal indices the count tells empty from full.                      *)
IsEmpty == count = 0

PopLoadCount(t) ==
  /\ \/ /\ IsEmpty
        /\ Return(t, "pop_count", [tag |-> "none"])
     \/ /\ ~IsEmpty
        /\ Goto(t, "pop_count", "pop_get")
        /\ UNCHANGED result
  /\ UNCHANGED <<shared, idx, val>>

(* get_value: ptr::replace leaves the slot uninitialised.                   *)
PopGet(t) ==
  /\ Goto(t, "pop_get", "pop_sub")
  /\ val' = [val EXCEPT ![t] = buffer[idx[t]]]
  /\ buffer' = [buffer EXCEPT ![idx[t]] = Uninit]
  /\ UNCHANGED <<start, end, count, idx, result>>

PopSub(t) ==
  /\ Goto(t, "pop_sub", "pop_store")
  /\ count' = FetchSub(count)
  /\ UNCHANGED <<buffer, start, end, idx, val, result>>

PopStore(t) ==
  /\ Return(t, "pop_store", [tag |-> "some", val |-> val[t]])
  /\ start' = Succ(idx[t])
  /\ UNCHANGED <<buffer, end, count, idx, val>>

-----------------------------------------------------------------------------
PushStep(t) ==
  \/ \E v \in Values : PushBegin(t, v)
  \/ PushLoadEnd(t)
  \/ PushInsert(t)
  \/ PushAdd(t)
  \/ PushStore(t)

PopStep(t) ==
  \/ PopBegin(t)
  \/ PopLoadEnd(t)
  \/ PopLoadCount(t)
  \/ PopGet(t)
  \/ PopSub(t)
  \/ PopStore(t)

Next ==
  \/ \E t \in Producers : PushStep(t)
  \/ \E t \in Consumers : PopStep(t)

Spec == Init /\ [][Next]_vars

(* No other thread is inside push or pop.                                   *)
Alone(t) == \A u \in Threads \ {t} : pc[u] = "idle"

SerialNext ==
  \/ \E t \in Producers : Alone(t) /\ PushStep(t)
  \/ \E t \in Consumers : Alone(t) /\ PopStep(t)

SerialSpec == Init /\ [][SerialNext]_vars

-----------------------------------------------------------------------------
(* pop hands out only values that were pushed: get_value's assume_init is   *)
(* never applied to an uninitialised slot.                                  *)
NoUninitRead == \A t \in Threads : pc[t] = "pop_get" => buffer[idx[t]] # Uninit

(* insert_value writes only to a free slot: no element that was pushed and  *)
(* not popped is overwritten.                                               *)
NoOverwrite == \A t \in Threads : pc[t] = "push_insert" => buffer[idx[t]] = Uninit

(* Position k of the queue, in a circle from start.                         *)
At(k) == IF start + k < Cap THEN start + k ELSE start + k - Cap

(* A thread that has taken the oldest element and not yet moved start.      *)
Holders == {t \in Threads : pc[t] \in {"pop_sub", "pop_store"}}

(* The elements in the buffer, counting a call's effect when it returns.    *)
Size ==
  IF \E t \in Threads : pc[t] = "push_store" THEN count - 1
  ELSE IF \E t \in Threads : pc[t] = "pop_store" THEN count + 1
  ELSE count

Element(k) ==
  IF k = 1 /\ Holders # {} THEN val[CHOOSE t \in Holders : TRUE] ELSE buffer[At(k - 1)]

Contents == [k \in 1 .. Size |-> Element(k)]

(* The buffer is a bounded FIFO queue; every call takes effect when it      *)
(* returns.                                                                 *)
Fifo == INSTANCE BoundedFifo WITH queue <- Contents

(* Calls that do not overlap behave like operations of a bounded FIFO queue *)
(* of length Cap: elements come out in order, push fails exactly when the   *)
(* buffer is full and pop answers None exactly when it is empty, at every   *)
(* position of start and end in the circle.                                 *)
IsFifo == Fifo!Spec
=============================================================================
