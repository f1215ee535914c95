--------------------------- MODULE ReactorIOProofs ---------------------------
(***************************************************************************)
(* Proofs about ReactorIO, for any sockets, operations and bounds.         *)
(***************************************************************************)
EXTENDS ReactorIO, FiniteSetTheorems, TLAPS

-----------------------------------------------------------------------------
(* The inductive invariant.                                                 *)

(* What the place of a future says about its call: only timed operations    *)
(* poll a timer, only calls try and wait, and a call has a direction that   *)
(* its socket has.                                                          *)
FutureInv ==
  /\ \A o \in Ops : pc[o] = "new" => IsSleep(o) /\ timer[o] = "none"
  /\ \A o \in Ops : pc[o] \in {"try", "wait"} => ~IsSleep(o)
  /\ \A o \in Ops : pc[o] = "parked" /\ IsSleep(o) => o \in Timed
  /\ \A o \in Ops : pc[o] = "sleep" \/ timer[o] # "none" => o \in Timed
  /\ \A o \in Ops : ~IsSleep(o) => call[o][2] \in DirsOf(call[o][1])

(* Two live calls that use one socket are known to overlap.                 *)
BorrowInv ==
  \A s \in Sockets : \A o, p \in Users(s) : o = p \/ o \in overlapped

(* The token of a timer is marked by its own expiry only, and an expiry is  *)
(* under way or marked.  A timer that has not been moved keeps the waker of *)
(* its task until it is marked, and a marked one has woken the task, unless *)
(* the task is about to look.                                               *)
Timely(o) ==
  /\ Coming(o) \/ HasTokenProgressed(o) => timer[o] \in {"fired", "closed"}
  /\ timer[o] = "fired" => Coming(o) \/ HasTokenProgressed(o)
  /\ timer[o] = "closed" => ~Live(o)
  /\ timer[o] \in {"armed", "disarmed", "fired"} /\ moves[o] = 0 =>
       statuses[o] \in {Awaited(<<o, 0>>), Happened}
  /\ HasTokenProgressed(o) /\ Live(o) /\ moves[o] = 0 => o \in scheduled \/ pc[o] = "sleep"

TimerInv == \A o \in Timed : Timely(o)

(* The call has met WouldBlock and not tried again since.                   *)
Tried(o) ==
  /\ ~IsSleep(o)
  /\ \/ pc[o] \in {"wait", "parked"}
     \/ pc[o] = "sleep" /\ timer[o] # "none"

(* What became ready since a call met WouldBlock is under way or marked,    *)
(* and a parked call is woken or has its present waker in the status.  This *)
(* extends NoLostEvent to the steps between the try and Reactor::poll.      *)
Attended(o) ==
  /\ Tried(o) /\ CanGo(o) => Coming(call[o][1]) \/ HasTokenProgressed(call[o][1])
  /\ Waiting(o) => o \in scheduled \/ statuses[call[o][1]] = Awaited(Task(o))

EventInv == \A o \in Ops : ~IsSleep(o) /\ SoleUser(o) => Attended(o)

(* The calls that took a unit from a socket.                                *)
Taken(s, d) == {o \in Ops : call[o] = <<s, d>> /\ pc[o] \in {"done", "lost"}}

RInv == TypeOK /\ FutureInv /\ BorrowInv /\ TimerInv /\ EventInv /\ NothingLost

-----------------------------------------------------------------------------
(* A call that is not a sleep is a pair of a socket and a direction.        *)
LEMMA CallType ==
  ASSUME TypeOK, NEW o \in Ops
  PROVE  /\ ~IsSleep(o) => call[o][1] \in Sockets /\ call[o][2] \in Dirs
         /\ IsSleep(o) <=> call[o] \notin Sockets \X Dirs
<1>1. \A x \in Sockets \X Dirs : x # <<>> /\ x[1] \in Sockets /\ x[2] \in Dirs
  OBVIOUS
<1>2. call[o] \in (Sockets \X Dirs) \cup {<<>>}
  BY DEF TypeOK
<1> QED
  BY <1>1, <1>2 DEF IsSleep

(* NothingLost counts the calls in Taken.                                   *)
LEMMA LostByTaken ==
  NothingLost <=>
    \A s \in Sockets, d \in Dirs : arrived[s][d] = ready[s][d] + Cardinality(Taken(s, d))
BY DEF NothingLost, Taken

(* Reactor::get leaves a state that satisfies the invariant.                *)
LEMMA InitRInv == Init => RInv
<1> SUFFICES ASSUME Init PROVE RInv
  OBVIOUS
<1> USE ReactorIOAssumption DEF Init
<1>1. TypeOK
  BY DEF TypeOK, Running
<1>2. FutureInv
  BY DEF FutureInv, IsSleep
<1>3. BorrowInv
  BY DEF BorrowInv, Users, IsSleep
<1>4. TimerInv
  BY DEF TimerInv, Timely, Coming, HasTokenProgressed, Tokens, Vacant, Happened, Live, Running
<1>5. EventInv
  BY DEF EventInv, IsSleep
<1>6. NothingLost
  <2>1. ASSUME NEW s \in Sockets, NEW d \in Dirs
        PROVE  Taken(s, d) = {} /\ ready[s][d] = 0 /\ arrived[s][d] = 0
    BY <2>1 DEF Taken
  <2>2. ASSUME NEW s \in Sockets, NEW d \in Dirs
        PROVE  arrived[s][d] = ready[s][d] + Cardinality(Taken(s, d))
    <3>1. Cardinality(Taken(s, d)) = 0
      BY <2>1, FS_EmptySet
    <3>2. QED
      BY <2>1, <3>1
  <2>3. QED
    BY <2>2, LostByTaken, Zenon
<1> QED
  BY <1>1, <1>2, <1>3, <1>4, <1>5, <1>6 DEF RInv
-----------------------------------------------------------------------------
(* What is ready arrived: the counters stay within their bound.             *)
LEMMA TakenFinite ==
  ASSUME TypeOK, NothingLost, NEW s \in Sockets, NEW d \in Dirs
  PROVE  /\ IsFiniteSet(Taken(s, d)) /\ Cardinality(Taken(s, d)) \in Nat
         /\ arrived[s][d] = ready[s][d] + Cardinality(Taken(s, d))
         /\ ready[s][d] \in Nat /\ arrived[s][d] \in Nat /\ ready[s][d] <= arrived[s][d]
<1>1. Taken(s, d) \in SUBSET Ops
  BY DEF Taken
<1>2. IsFiniteSet(Taken(s, d)) /\ Cardinality(Taken(s, d)) \in Nat
  BY <1>1, FS_Subset, FS_CardinalityType, ReactorIOAssumption
<1>3. arrived[s][d] = ready[s][d] + Cardinality(Taken(s, d))
  BY LostByTaken, Zenon
<1>4. ready[s][d] \in Nat /\ arrived[s][d] \in Nat
  BY ReactorIOAssumption DEF TypeOK
<1> QED
  BY <1>2, <1>3, <1>4

(* Every step keeps the types of the variables.                             *)
LEMMA TypeStep ==
  ASSUME TypeOK, FutureInv, NothingLost, [Next]_vars
  PROVE  TypeOK'
<1> USE ReactorIOAssumption DEF sockVars, callVars, Goto, UniqueToken, Tokens, Running, Ended
<1>1. CASE UNCHANGED vars
  BY <1>1 DEF TypeOK, vars
<1>2. ASSUME NEW s \in Sockets, NEW ok \in BOOLEAN, Open(s, ok)
      PROVE  TypeOK'
  BY <1>2 DEF TypeOK, Open, Register
<1>3. ASSUME NEW s \in Sockets, Close(s)
      PROVE  TypeOK'
  BY <1>3 DEF TypeOK, Close
<1>4. ASSUME NEW s \in Sockets, NEW d \in Dirs, Arrive(s, d)
      PROVE  TypeOK'
  <2>1. ready[s][d] + 1 \in 0 .. MaxReady /\ arrived[s][d] + 1 \in 0 .. MaxReady
    BY <1>4, TakenFinite DEF Arrive
  <2>2. /\ ready' \in [Sockets -> [Dirs -> 0 .. MaxReady]]
        /\ arrived' \in [Sockets -> [Dirs -> 0 .. MaxReady]]
    BY <1>4, <2>1 DEF TypeOK, Arrive
  <2>3. QED
    BY <1>4, <2>2 DEF TypeOK, Arrive
<1>5. ASSUME NEW o \in Ops, NEW s \in Sockets, NEW d \in Dirs, Call(o, s, d)
      PROVE  TypeOK'
  <2>1. overlapped' \subseteq Ops
    BY <1>5 DEF TypeOK, Call, Users
  <2>2. QED
    BY <1>5, <2>1 DEF TypeOK, Call
<1>6. ASSUME NEW o \in Ops, Sleep(o)
      PROVE  TypeOK'
  BY <1>6 DEF TypeOK, Sleep
<1>7. ASSUME NEW o \in Ops, Repoll(o)
      PROVE  TypeOK'
  BY <1>7 DEF TypeOK, Repoll
<1>8. ASSUME NEW o \in Ops, NEW fd \in {"armed", "disarmed", "closed"}, SleepFirst(o, fd)
      PROVE  TypeOK'
  <2>1. o \in Timed /\ Task(o) \in Ops \X (0 .. MaxMoves)
    BY <1>8 DEF SleepFirst, FutureInv, Task, TypeOK
  <2>2. statuses' \in [Tokens -> {Vacant, Happened} \cup {Awaited(w) : w \in Ops \X (0 .. MaxMoves)}]
    BY <1>8, <2>1 DEF TypeOK, SleepFirst, StatusStore
  <2>3. pc' \in [Ops -> Running \cup Ended \cup {"new", "parked"}]
    BY <1>8 DEF TypeOK, SleepFirst
  <2>4. QED
    BY <1>8, <2>2, <2>3 DEF TypeOK, SleepFirst
<1>9. ASSUME NEW o \in Ops, SleepAgain(o)
      PROVE  TypeOK'
  BY <1>9 DEF TypeOK, SleepAgain, Finish
<1>10. ASSUME NEW o \in Ops, TryBlocks(o)
       PROVE  TypeOK'
  BY <1>10 DEF TypeOK, TryBlocks
<1>11. ASSUME NEW o \in Ops, TryOk(o)
       PROVE  TypeOK'
  <2>1. ready' \in [Sockets -> [Dirs -> 0 .. MaxReady]]
    <3>1. call[o][1] \in Sockets /\ call[o][2] \in Dirs
      BY <1>11, CallType DEF TryOk, FutureInv
    <3>2. ready[call[o][1]][call[o][2]] - 1 \in 0 .. MaxReady
      BY <1>11, <3>1 DEF TryOk, Succeeds, TypeOK
    <3>3. QED
      BY <1>11, <3>1, <3>2 DEF TryOk, TypeOK
  <2>2. QED
    BY <1>11, <2>1 DEF TypeOK, TryOk, Finish, Answer
<1>12. ASSUME NEW o \in Ops, NEW s \in Sockets, NEW ok \in BOOLEAN, AcceptOk(o, s, ok)
       PROVE  TypeOK'
  <2>1. ready' \in [Sockets -> [Dirs -> 0 .. MaxReady]]
    <3>1. call[o][1] \in Sockets /\ call[o][2] = "in" /\ "in" \in Dirs
      BY <1>12, CallType DEF AcceptOk, FutureInv, DirsOf, Dirs
    <3>2. ready[call[o][1]]["in"] - 1 \in 0 .. MaxReady
      BY <1>12, <3>1 DEF AcceptOk, Succeeds, TypeOK
    <3>3. QED
      BY <1>12, <3>1, <3>2 DEF AcceptOk, TypeOK
  <2>2. QED
    BY <1>12, <2>1 DEF TypeOK, AcceptOk, Register, Finish, Answer
<1>13. ASSUME NEW o \in Ops, TryError(o)
       PROVE  TypeOK'
  BY <1>13 DEF TypeOK, TryError, Finish
<1>14. ASSUME NEW o \in Ops, Wait(o)
       PROVE  TypeOK'
  <2>1. call[o][1] \in Sockets /\ Task(o) \in Ops \X (0 .. MaxMoves)
    BY <1>14, CallType DEF Wait, FutureInv, Task, TypeOK
  <2>2. statuses' \in [Tokens -> {Vacant, Happened} \cup {Awaited(w) : w \in Ops \X (0 .. MaxMoves)}]
    <3>1. \/ statuses' = [statuses EXCEPT ![call[o][1]] = Vacant]
          \/ statuses' = [statuses EXCEPT ![call[o][1]] = Awaited(Task(o))]
      BY <1>14 DEF Wait, NewWaker
    <3>2. QED
      BY <2>1, <3>1 DEF TypeOK
  <2>3. pc' \in [Ops -> Running \cup Ended \cup {"new", "parked"}]
    BY <1>14 DEF TypeOK, Wait
  <2>4. QED
    BY <1>14, <2>2, <2>3 DEF TypeOK, Wait
<1>15. ASSUME NEW o \in Ops, DropFuture(o)
       PROVE  TypeOK'
  BY <1>15 DEF TypeOK, DropFuture, Finish
<1>16. ASSUME NEW o \in Ops, Move(o)
       PROVE  TypeOK'
  BY <1>16 DEF TypeOK, Move
<1>17. ASSUME NEW o \in Ops, TimerFire(o)
       PROVE  TypeOK'
  <2>1. o \in Timed
    BY <1>17 DEF TimerFire, FutureInv
  <2>2. QED
    BY <1>17, <2>1 DEF TypeOK, TimerFire
<1>18. CASE ReactorPoll
  BY <1>18 DEF TypeOK, ReactorPoll
<1>19. ASSUME NEW t \in batch, ReactorEvent(t)
       PROVE  TypeOK'
  BY <1>19 DEF TypeOK, ReactorEvent, MarkHappened
<1> QED
  BY <1>1, <1>2, <1>3, <1>4, <1>5, <1>6, <1>7, <1>8, <1>9, <1>10, <1>11, <1>12, <1>13, <1>14,
     <1>15, <1>16, <1>17, <1>18, <1>19 DEF Next, OpStep, ReactorStep

(* Every step keeps what the place of a future says about its call.         *)
LEMMA FutureStep ==
  ASSUME TypeOK, FutureInv, [Next]_vars
  PROVE  FutureInv'
<1> USE ReactorIOAssumption DEF sockVars, callVars, Goto, UniqueToken, Tokens, IsSleep, TypeOK
<1>1. CASE UNCHANGED vars
  BY <1>1 DEF FutureInv, vars
<1>2. ASSUME NEW s \in Sockets, NEW ok \in BOOLEAN, Open(s, ok)
      PROVE  FutureInv'
  BY <1>2 DEF FutureInv, Open, Register
<1>3. ASSUME NEW s \in Sockets, Close(s)
      PROVE  FutureInv'
  BY <1>3 DEF FutureInv, Close
<1>4. ASSUME NEW s \in Sockets, NEW d \in Dirs, Arrive(s, d)
      PROVE  FutureInv'
  BY <1>4 DEF FutureInv, Arrive
<1>5. ASSUME NEW o \in Ops, NEW s \in Sockets, NEW d \in Dirs, Call(o, s, d)
      PROVE  FutureInv'
  BY <1>5 DEF FutureInv, Call
<1>6. ASSUME NEW o \in Ops, Sleep(o)
      PROVE  FutureInv'
  BY <1>6 DEF FutureInv, Sleep
<1>7. ASSUME NEW o \in Ops, Repoll(o)
      PROVE  FutureInv'
  BY <1>7 DEF FutureInv, Repoll
<1>8. ASSUME NEW o \in Ops, NEW fd \in {"armed", "disarmed", "closed"}, SleepFirst(o, fd)
      PROVE  FutureInv'
  BY <1>8 DEF FutureInv, SleepFirst, StatusStore
<1>9. ASSUME NEW o \in Ops, SleepAgain(o)
      PROVE  FutureInv'
  BY <1>9 DEF FutureInv, SleepAgain, Finish
<1>10. ASSUME NEW o \in Ops, TryBlocks(o)
       PROVE  FutureInv'
  BY <1>10 DEF FutureInv, TryBlocks
<1>11. ASSUME NEW o \in Ops, TryOk(o)
       PROVE  FutureInv'
  BY <1>11 DEF FutureInv, TryOk, Finish, Answer
<1>12. ASSUME NEW o \in Ops, NEW s \in Sockets, NEW ok \in BOOLEAN, AcceptOk(o, s, ok)
       PROVE  FutureInv'
  BY <1>12 DEF FutureInv, AcceptOk, Register, Finish, Answer
<1>13. ASSUME NEW o \in Ops, TryError(o)
       PROVE  FutureInv'
  BY <1>13 DEF FutureInv, TryError, Finish
<1>14. ASSUME NEW o \in Ops, Wait(o)
       PROVE  FutureInv'
  BY <1>14 DEF FutureInv, Wait, NewWaker
<1>15. ASSUME NEW o \in Ops, DropFuture(o)
       PROVE  FutureInv'
  BY <1>15 DEF FutureInv, DropFuture, Finish
<1>16. ASSUME NEW o \in Ops, Move(o)
       PROVE  FutureInv'
  BY <1>16 DEF FutureInv, Move
<1>17. ASSUME NEW o \in Ops, TimerFire(o)
       PROVE  FutureInv'
  BY <1>17 DEF FutureInv, TimerFire
<1>18. CASE ReactorPoll
  BY <1>18 DEF FutureInv, ReactorPoll
<1>19. ASSUME NEW t \in batch, ReactorEvent(t)
       PROVE  FutureInv'
  BY <1>19 DEF FutureInv, ReactorEvent, MarkHappened
<1> QED
  BY <1>1, <1>2, <1>3, <1>4, <1>5, <1>6, <1>7, <1>8, <1>9, <1>10, <1>11, <1>12, <1>13, <1>14,
     <1>15, <1>16, <1>17, <1>18, <1>19 DEF Next, OpStep, ReactorStep

(* A future begins once and then keeps its call; every step either is the   *)
(* beginning of one call or leaves the calls alone and begins no other.     *)
LEMMA CallsKept ==
  ASSUME TypeOK, FutureInv, [Next]_vars,
         ~\E o \in Ops, s \in Sockets, d \in Dirs : Call(o, s, d)
  PROVE  /\ UNCHANGED callVars
         /\ \A q \in Ops : Live(q)' /\ ~IsSleep(q) => Live(q)
<1> DEFINE Kept == UNCHANGED callVars /\ \A q \in Ops : Live(q)' /\ ~IsSleep(q) => Live(q)
<1> USE ReactorIOAssumption DEF sockVars, callVars, Goto, TypeOK, Live, Running
<1>1. CASE UNCHANGED vars
  BY <1>1 DEF FutureInv, vars
<1>2. ASSUME NEW s \in Sockets, NEW ok \in BOOLEAN, Open(s, ok)
      PROVE  Kept
  BY <1>2 DEF FutureInv, Open, Register
<1>3. ASSUME NEW s \in Sockets, Close(s)
      PROVE  Kept
  BY <1>3 DEF FutureInv, Close
<1>4. ASSUME NEW s \in Sockets, NEW d \in Dirs, Arrive(s, d)
      PROVE  Kept
  BY <1>4 DEF FutureInv, Arrive
<1>5. ASSUME NEW o \in Ops, NEW s \in Sockets, NEW d \in Dirs, Call(o, s, d)
      PROVE  Kept
  BY <1>5 DEF FutureInv, Call
<1>6. ASSUME NEW o \in Ops, Sleep(o)
      PROVE  Kept
  BY <1>6 DEF FutureInv, Sleep
<1>7. ASSUME NEW o \in Ops, Repoll(o)
      PROVE  Kept
  BY <1>7 DEF FutureInv, Repoll
<1>8. ASSUME NEW o \in Ops, NEW fd \in {"armed", "disarmed", "closed"}, SleepFirst(o, fd)
      PROVE  Kept
  BY <1>8 DEF FutureInv, SleepFirst, StatusStore
<1>9. ASSUME NEW o \in Ops, SleepAgain(o)
      PROVE  Kept
  BY <1>9 DEF FutureInv, SleepAgain, Finish
<1>10. ASSUME NEW o \in Ops, TryBlocks(o)
       PROVE  Kept
  BY <1>10 DEF FutureInv, TryBlocks
<1>11. ASSUME NEW o \in Ops, TryOk(o)
       PROVE  Kept
  BY <1>11 DEF FutureInv, TryOk, Finish, Answer
<1>12. ASSUME NEW o \in Ops, NEW s \in Sockets, NEW ok \in BOOLEAN, AcceptOk(o, s, ok)
       PROVE  Kept
  BY <1>12 DEF FutureInv, AcceptOk, Register, Finish, Answer
<1>13. ASSUME NEW o \in Ops, TryError(o)
       PROVE  Kept
  BY <1>13 DEF FutureInv, TryError, Finish
<1>14. ASSUME NEW o \in Ops, Wait(o)
       PROVE  Kept
  BY <1>14 DEF FutureInv, Wait, NewWaker
<1>15. ASSUME NEW o \in Ops, DropFuture(o)
       PROVE  Kept
  BY <1>15 DEF FutureInv, DropFuture, Finish
<1>16. ASSUME NEW o \in Ops, Move(o)
       PROVE  Kept
  BY <1>16 DEF FutureInv, Move
<1>17. ASSUME NEW o \in Ops, TimerFire(o)
       PROVE  Kept
  BY <1>17 DEF FutureInv, TimerFire
<1>18. CASE ReactorPoll
  BY <1>18 DEF FutureInv, ReactorPoll
<1>19. ASSUME NEW t \in batch, ReactorEvent(t)
       PROVE  Kept
  BY <1>19 DEF FutureInv, ReactorEvent, MarkHappened
<1> QED
  BY <1>1, <1>2, <1>3, <1>4, <1>5, <1>6, <1>7, <1>8, <1>9, <1>10, <1>11, <1>12, <1>13, <1>14,
     <1>15, <1>16, <1>17, <1>18, <1>19 DEF Next, OpStep, ReactorStep

(* Every step keeps the account of overlaps: a call that begins on a socket *)
(* somebody borrows overlaps with every call that does.                     *)
LEMMA BorrowStep ==
  ASSUME TypeOK, FutureInv, BorrowInv, [Next]_vars
  PROVE  BorrowInv'
<1>1. ASSUME NEW o \in Ops, NEW s \in Sockets, NEW d \in Dirs, Call(o, s, d)
      PROVE  BorrowInv'
  <2>1. /\ call' = [call EXCEPT ![o] = <<s, d>>]
        /\ \A q \in Ops \ {o} : pc'[q] = pc[q] /\ call'[q] = call[q]
        /\ overlapped' = IF Borrowed(s) THEN overlapped \cup Users(s) \cup {o} ELSE overlapped
    BY <1>1 DEF Call, Goto, TypeOK
  <2>2. \A r \in Sockets : Users(r)' \subseteq Users(r) \cup (IF r = s THEN {o} ELSE {})
    BY <2>1 DEF TypeOK, Users, Live, IsSleep
  <2>3. \A r \in Sockets : r # s => \A q, p \in Users(r)' : q = p \/ q \in overlapped'
    BY <2>1, <2>2 DEF BorrowInv
  <2>4. \A q, p \in Users(s)' : q = p \/ q \in overlapped'
    <3>1. CASE Users(s) = {}
      BY <2>2, <3>1
    <3>2. CASE Users(s) # {}
      BY <2>1, <2>2, <3>2 DEF Borrowed
    <3>3. QED
      BY <3>1, <3>2
  <2>5. QED
    BY <2>3, <2>4 DEF BorrowInv
<1>2. CASE ~\E o \in Ops, s \in Sockets, d \in Dirs : Call(o, s, d)
  <2>1. /\ call' = call /\ overlapped' = overlapped
        /\ \A q \in Ops : Live(q)' /\ ~IsSleep(q) => Live(q)
    BY <1>2, CallsKept DEF callVars
  <2>2. \A s \in Sockets : Users(s)' \subseteq Users(s)
    BY <2>1 DEF Users, IsSleep
  <2>3. QED
    BY <2>1, <2>2 DEF BorrowInv
<1> QED
  BY <1>1, <1>2

-----------------------------------------------------------------------------
(* The three kinds of TokenStatus are told apart.                           *)
LEMMA Statuses ==
  /\ Vacant # Happened
  /\ \A w : Awaited(w) # Happened /\ Awaited(w) # Vacant
BY DEF Vacant, Happened, Awaited

(* Every step keeps TimerInv: only an expiry, its delivery and the polls of *)
(* the timer's own future touch the token of a timer.                       *)
LEMMA TimerStep ==
  ASSUME TypeOK, FutureInv, TimerInv, [Next]_vars
  PROVE  TimerInv'
<1> USE ReactorIOAssumption, Statuses DEF sockVars, callVars, Goto, UniqueToken, Tokens, TypeOK, Coming, HasTokenProgressed, Live, Running
<1>1. CASE UNCHANGED vars
  BY <1>1 DEF TimerInv, Timely, vars
<1>2. ASSUME NEW s \in Sockets, NEW ok \in BOOLEAN, Open(s, ok)
      PROVE  TimerInv'
  BY <1>2 DEF TimerInv, Timely, Open, Register
<1>3. ASSUME NEW s \in Sockets, Close(s)
      PROVE  TimerInv'
  BY <1>3 DEF TimerInv, Timely, Close
<1>4. ASSUME NEW s \in Sockets, NEW d \in Dirs, Arrive(s, d)
      PROVE  TimerInv'
  BY <1>4 DEF TimerInv, Timely, Arrive
<1>5. ASSUME NEW o \in Ops, NEW s \in Sockets, NEW d \in Dirs, Call(o, s, d)
      PROVE  TimerInv'
  BY <1>5 DEF TimerInv, Timely, Call, FutureInv
<1>6. ASSUME NEW o \in Ops, Sleep(o)
      PROVE  TimerInv'
  BY <1>6 DEF TimerInv, Timely, Sleep, FutureInv
<1>7. ASSUME NEW o \in Ops, Repoll(o)
      PROVE  TimerInv'
  BY <1>7 DEF TimerInv, Timely, Repoll
<1>8. ASSUME NEW o \in Ops, NEW fd \in {"armed", "disarmed", "closed"}, SleepFirst(o, fd)
      PROVE  TimerInv'
  <2>1. o \in Timed /\ timer[o] = "none" /\ Timely(o)
    BY <1>8 DEF SleepFirst, FutureInv, TimerInv
  <2>2. /\ statuses'[o] = Awaited(Task(o))
        /\ timer'[o] = fd
        /\ pc'[o] \in {"parked", "try", "panicked"} /\ (fd = "closed" => pc'[o] = "panicked")
        /\ \A q \in Timed \ {o} : statuses'[q] = statuses[q] /\ timer'[q] = timer[q] /\ pc'[q] = pc[q]
        /\ UNCHANGED <<pending, batch, moves, scheduled>>
    BY <1>8, <2>1 DEF SleepFirst, StatusStore
  <2>3. Timely(o)'
    BY <2>1, <2>2 DEF Timely, Task
  <2>4. \A q \in Timed \ {o} : Timely(q)'
    BY <2>2 DEF TimerInv, Timely
  <2>5. QED
    BY <2>3, <2>4 DEF TimerInv
<1>9. ASSUME NEW o \in Ops, SleepAgain(o)
      PROVE  TimerInv'
  BY <1>9 DEF TimerInv, Timely, SleepAgain, Finish
<1>10. ASSUME NEW o \in Ops, TryBlocks(o)
       PROVE  TimerInv'
  BY <1>10 DEF TimerInv, Timely, TryBlocks
<1>11. ASSUME NEW o \in Ops, TryOk(o)
       PROVE  TimerInv'
  BY <1>11 DEF TimerInv, Timely, TryOk, Finish, Answer
<1>12. ASSUME NEW o \in Ops, NEW s \in Sockets, NEW ok \in BOOLEAN, AcceptOk(o, s, ok)
       PROVE  TimerInv'
  BY <1>12 DEF TimerInv, Timely, AcceptOk, Register, Finish, Answer
<1>13. ASSUME NEW o \in Ops, TryError(o)
       PROVE  TimerInv'
  BY <1>13 DEF TimerInv, Timely, TryError, Finish
<1>14. ASSUME NEW o \in Ops, Wait(o)
       PROVE  TimerInv'
  <2>1. call[o][1] \in Sockets
    BY <1>14, CallType DEF Wait, FutureInv
  <2>2. /\ \A q \in Timed : statuses'[q] = statuses[q]
        /\ \A q \in Timed : pc'[q] = pc[q] \/ (pc[q] = "wait" /\ pc'[q] \in {"try", "parked"})
        /\ UNCHANGED <<pending, batch, timer, moves, scheduled>>
    BY <1>14, <2>1 DEF Wait, NewWaker
  <2>3. QED
    BY <2>2 DEF TimerInv, Timely
<1>15. ASSUME NEW o \in Ops, DropFuture(o)
       PROVE  TimerInv'
  BY <1>15 DEF TimerInv, Timely, DropFuture, Finish
<1>16. ASSUME NEW o \in Ops, Move(o)
       PROVE  TimerInv'
  <2>1. /\ moves'[o] # 0 /\ \A q \in Timed \ {o} : moves'[q] = moves[q]
        /\ UNCHANGED <<statuses, pending, batch, pc, timer>>
        /\ scheduled \subseteq scheduled'
    BY <1>16 DEF Move
  <2>2. QED
    BY <2>1 DEF TimerInv, Timely
<1>17. ASSUME NEW o \in Ops, TimerFire(o)
       PROVE  TimerInv'
  BY <1>17 DEF TimerInv, Timely, TimerFire
<1>18. CASE ReactorPoll
  <2>1. \A q \in Timed : Coming(q)' => Coming(q)
    BY <1>18 DEF ReactorPoll
  <2>2. \A q \in Timed : timer[q] = "fired" /\ Coming(q) => Coming(q)'
    BY <1>18 DEF ReactorPoll, StillReady
  <2>3. UNCHANGED <<statuses, pc, timer, moves, scheduled>>
    BY <1>18 DEF ReactorPoll
  <2> HIDE DEF Coming
  <2>4. QED
    BY <2>1, <2>2, <2>3 DEF TimerInv, Timely
<1>19. ASSUME NEW t \in batch, ReactorEvent(t)
       PROVE  TimerInv'
  <2> SUFFICES ASSUME NEW q \in Timed
               PROVE  Timely(q)'
    BY DEF TimerInv
  <2>1. UNCHANGED <<pc, timer, moves, pending>> /\ scheduled \subseteq scheduled' /\ Timely(q)
    BY <1>19 DEF ReactorEvent, TimerInv
  <2>2. CASE q = t
    <3>1. timer[q] \in {"fired", "closed"} /\ statuses'[q] = Happened
      BY <1>19, <2>1, <2>2 DEF Timely, ReactorEvent, MarkHappened
    <3>2. Live(q) /\ moves[q] = 0 /\ ~HasTokenProgressed(q) => q \in scheduled'
      <4>1. Live(q) /\ moves[q] = 0 /\ ~HasTokenProgressed(q) => statuses[t] = Awaited(Task(q))
        BY <2>1, <2>2, <3>1 DEF Timely, Task
      <4>2. QED
        BY <1>19, <4>1 DEF ReactorEvent
    <3>3. QED
      BY <2>1, <3>1, <3>2 DEF Timely
  <2>3. CASE q # t
    <3>1. statuses'[q] = statuses[q] /\ (q \in batch' <=> q \in batch)
      BY <1>19, <2>3 DEF ReactorEvent
    <3>2. QED
      BY <2>1, <3>1 DEF Timely
  <2>4. QED
    BY <2>2, <2>3
<1> QED
  BY <1>1, <1>2, <1>3, <1>4, <1>5, <1>6, <1>7, <1>8, <1>9, <1>10, <1>11, <1>12, <1>13, <1>14,
     <1>15, <1>16, <1>17, <1>18, <1>19 DEF Next, OpStep, ReactorStep

-----------------------------------------------------------------------------
(* No other live call uses the socket of a call that is its sole user.      *)
LEMMA Alone ==
  ASSUME BorrowInv, NEW o \in Ops, NEW q \in Ops, o # q, call[q][1] \in Sockets,
         Live(o), ~IsSleep(o), Live(q), ~IsSleep(q), SoleUser(q)
  PROVE  call[o][1] # call[q][1]
BY DEF BorrowInv, Users, SoleUser

(* Every step keeps EventInv.                                               *)
LEMMA EventStep ==
  ASSUME TypeOK, FutureInv, BorrowInv, EventInv, [Next]_vars
  PROVE  EventInv'
<1> SUFFICES ASSUME NEW q \in Ops, (~IsSleep(q) /\ SoleUser(q))'
             PROVE  Attended(q)'
  BY DEF EventInv
<1>1. ASSUME NEW o \in Ops, NEW s \in Sockets, NEW d \in Dirs, Call(o, s, d)
      PROVE  Attended(q)'
  <2>1. /\ UNCHANGED <<statuses, pending, batch, ready, timer, moves, scheduled>>
        /\ pc'[o] \in {"sleep", "try"} /\ IsSleep(o) /\ timer[o] = "none"
        /\ \A p \in Ops \ {o} : pc'[p] = pc[p] /\ call'[p] = call[p]
        /\ overlapped \subseteq overlapped'
    BY <1>1 DEF Call, Goto, TypeOK, FutureInv, sockVars
  <2>2. CASE q = o
    BY <2>1, <2>2 DEF Attended, Tried, Waiting
  <2>3. CASE q # o
    <3>1. ~IsSleep(q) /\ SoleUser(q) /\ call'[q] = call[q]
      BY <2>1, <2>3 DEF IsSleep, SoleUser
    <3>2. Attended(q)
      BY <3>1 DEF EventInv
    <3>3. QED
      BY <2>1, <2>3, <3>1, <3>2
      DEF Attended, Tried, Waiting, CanGo, Coming, HasTokenProgressed, Task, IsSleep
  <2>4. QED
    BY <2>2, <2>3
<1>2. CASE ~\E o \in Ops, s \in Sockets, d \in Dirs : Call(o, s, d)
  <2>0. /\ call' = call /\ ~IsSleep(q) /\ SoleUser(q) /\ Attended(q)
        /\ call[q][1] \in Sockets /\ call[q][2] \in Dirs
    <3>1. call' = call /\ overlapped' = overlapped
      BY <1>2, CallsKept DEF callVars
    <3>2. ~IsSleep(q) /\ SoleUser(q)
      BY <3>1 DEF IsSleep, SoleUser
    <3>3. QED
      BY <3>1, <3>2, CallType DEF EventInv
  <2> USE <2>0, ReactorIOAssumption
      DEF sockVars, callVars, Goto, UniqueToken, Tokens, TypeOK, Tried, Waiting, CanGo, Coming,
          HasTokenProgressed, IsSleep, Task
  <2>1. CASE UNCHANGED vars
    BY <2>1 DEF Attended, vars
  <2>2. ASSUME NEW s \in Sockets, NEW ok \in BOOLEAN, Open(s, ok)
        PROVE  Attended(q)'
    BY <2>2 DEF Attended, Open, Register
  <2>3. ASSUME NEW s \in Sockets, Close(s)
        PROVE  Attended(q)'
    BY <2>3 DEF Attended, Close, Borrowed, Users, Live, Running
  <2>4. ASSUME NEW s \in Sockets, NEW d \in Dirs, Arrive(s, d)
        PROVE  Attended(q)'
    BY <2>4 DEF Attended, Arrive
  <2>5. ASSUME NEW o \in Ops, NEW s \in Sockets, NEW d \in Dirs, Call(o, s, d)
        PROVE  Attended(q)'
    BY <1>2, <2>5
  <2>6. ASSUME NEW o \in Ops, Sleep(o)
        PROVE  Attended(q)'
    BY <2>6 DEF Attended, Sleep, FutureInv
  <2>7. ASSUME NEW o \in Ops, Repoll(o)
        PROVE  Attended(q)'
    BY <2>7 DEF Attended, Repoll
  <2>8. ASSUME NEW o \in Ops, NEW fd \in {"armed", "disarmed", "closed"}, SleepFirst(o, fd)
        PROVE  Attended(q)'
    BY <2>8 DEF Attended, SleepFirst, StatusStore
  <2>9. ASSUME NEW o \in Ops, SleepAgain(o)
        PROVE  Attended(q)'
    BY <2>9 DEF Attended, SleepAgain, Finish
  <2>10. ASSUME NEW o \in Ops, TryBlocks(o)
         PROVE  Attended(q)'
    BY <2>10 DEF Attended, TryBlocks, Succeeds
  <2>11. ASSUME NEW o \in Ops, TryOk(o)
         PROVE  Attended(q)'
    BY <2>11 DEF Attended, TryOk, Finish, Answer
  <2>12. ASSUME NEW o \in Ops, NEW s \in Sockets, NEW ok \in BOOLEAN, AcceptOk(o, s, ok)
         PROVE  Attended(q)'
    BY <2>12 DEF Attended, AcceptOk, Register, Finish, Answer
  <2>13. ASSUME NEW o \in Ops, TryError(o)
         PROVE  Attended(q)'
    BY <2>13 DEF Attended, TryError, Finish
  <2>14. ASSUME NEW o \in Ops, Wait(o)
         PROVE  Attended(q)'
    <3>1. UNCHANGED <<pending, batch, ready, timer, moves, scheduled>>
      BY <2>14 DEF Wait
    <3>2. CASE q = o
      BY <2>14, <3>1, <3>2 DEF Attended, Wait, NewWaker
    <3>3. CASE q # o
      <4>1. pc[o] = "wait" /\ call[o][1] \in Sockets /\ ~IsSleep(o)
        BY <2>14, CallType DEF Wait, FutureInv
      <4>2. Live(q) => call[o][1] # call[q][1]
        BY <3>3, <4>1, Alone DEF Live, Running
      <4>3. Live(q) => statuses'[call[q][1]] = statuses[call[q][1]]
        BY <2>14, <4>1, <4>2 DEF Wait
      <4>4. pc'[q] = pc[q]
        BY <2>14, <3>3 DEF Wait
      <4>5. Tried(q) \/ Waiting(q) => Live(q)
        BY DEF Live, Running
      <4>6. QED
        BY <3>1, <4>3, <4>4, <4>5 DEF Attended
    <3>4. QED
      BY <3>2, <3>3
  <2>15. ASSUME NEW o \in Ops, DropFuture(o)
         PROVE  Attended(q)'
    BY <2>15 DEF Attended, DropFuture, Finish
  <2>16. ASSUME NEW o \in Ops, Move(o)
         PROVE  Attended(q)'
    BY <2>16 DEF Attended, Move
  <2>17. ASSUME NEW o \in Ops, TimerFire(o)
         PROVE  Attended(q)'
    BY <2>17 DEF Attended, TimerFire
  <2>18. CASE ReactorPoll
    <3>1. CanGo(q) => StillReady(call[q][1])
      BY DEF StillReady
    <3>2. CanGo(q) /\ Coming(call[q][1]) => Coming(call[q][1])'
      BY <2>18, <3>1 DEF ReactorPoll
    <3>3. UNCHANGED <<statuses, ready, pc, timer, moves, scheduled>>
      BY <2>18 DEF ReactorPoll
    <3> HIDE DEF Coming
    <3>4. QED
      BY <3>2, <3>3 DEF Attended
  <2>19. ASSUME NEW t \in batch, ReactorEvent(t)
         PROVE  Attended(q)'
    <3>1. UNCHANGED <<pending, ready, pc, timer, moves>> /\ scheduled \subseteq scheduled'
      BY <2>19 DEF ReactorEvent
    <3>2. CASE call[q][1] = t
      <4>1. statuses'[t] = Happened
        BY <2>19, <3>2 DEF ReactorEvent, MarkHappened
      <4>2. Waiting(q) => q \in scheduled'
        BY <2>19, <3>2 DEF ReactorEvent, Attended, Live
      <4>3. QED
        BY <3>1, <3>2, <4>1, <4>2 DEF Attended
    <3>3. CASE call[q][1] # t
      <4>1. /\ statuses'[call[q][1]] = statuses[call[q][1]]
            /\ call[q][1] \in batch => call[q][1] \in batch'
        BY <2>19, <3>3 DEF ReactorEvent
      <4>2. QED
        BY <3>1, <4>1 DEF Attended
    <3>4. QED
      BY <3>2, <3>3
  <2> QED
    BY <2>1, <2>2, <2>3, <2>4, <2>5, <2>6, <2>7, <2>8, <2>9, <2>10, <2>11, <2>12, <2>13, <2>14,
       <2>15, <2>16, <2>17, <2>18, <2>19 DEF Next, OpStep, ReactorStep
<1> QED
  BY <1>1, <1>2

-----------------------------------------------------------------------------
(* A system call that answers takes one unit and ends one call.             *)
LEMMA LostAnswer ==
  ASSUME TypeOK, FutureInv, NothingLost, NEW o \in Ops, pc[o] = "try", Succeeds(o),
         call' = call, arrived' = arrived,
         \E next \in {"done", "lost"} : pc' = [pc EXCEPT ![o] = next],
         ready' = [ready EXCEPT ![call[o][1]][call[o][2]] = @ - 1]
  PROVE  NothingLost'
<1> SUFFICES ASSUME NEW s \in Sockets, NEW d \in Dirs
             PROVE  arrived'[s][d] = ready'[s][d] + Cardinality(Taken(s, d)')
  BY DEF NothingLost, Taken
<1>1. call[o] = <<call[o][1], call[o][2]>> /\ call[o][1] \in Sockets /\ call[o][2] \in Dirs
  <2>1. call[o] \in Sockets \X Dirs
    BY CallType DEF FutureInv
  <2>2. QED
    BY <2>1
<1>2. /\ IsFiniteSet(Taken(s, d)) /\ Cardinality(Taken(s, d)) \in Nat
      /\ arrived[s][d] = ready[s][d] + Cardinality(Taken(s, d))
      /\ ready[s][d] \in Nat
  BY TakenFinite
<1>3. CASE call[o] = <<s, d>>
  <2>1. Taken(s, d)' = Taken(s, d) \cup {o} /\ o \notin Taken(s, d)
    BY <1>3 DEF Taken, TypeOK
  <2>2. Cardinality(Taken(s, d)') = Cardinality(Taken(s, d)) + 1
    BY <1>2, <2>1, FS_AddElement
  <2>3. ready'[s][d] = ready[s][d] - 1
    BY <1>1, <1>3 DEF TypeOK
  <2>4. QED
    BY <1>2, <2>2, <2>3
<1>4. CASE call[o] # <<s, d>>
  <2>1. Taken(s, d)' = Taken(s, d)
    BY <1>4 DEF Taken, TypeOK
  <2>2. ready'[s][d] = ready[s][d]
    BY <1>1, <1>4 DEF TypeOK
  <2>3. QED
    BY <1>2, <2>1, <2>2
<1> QED
  BY <1>3, <1>4

(* No other step ends a call with an answer, and units arrive in both       *)
(* counters.                                                                *)
LEMMA LostStep ==
  ASSUME TypeOK, FutureInv, NothingLost, [Next]_vars
  PROVE  NothingLost'
<1>0. ASSUME \A s \in Sockets, d \in Dirs : Taken(s, d)' = Taken(s, d),
             \A s \in Sockets, d \in Dirs :
               \/ arrived'[s][d] = arrived[s][d] /\ ready'[s][d] = ready[s][d]
               \/ arrived'[s][d] = arrived[s][d] + 1 /\ ready'[s][d] = ready[s][d] + 1
      PROVE  NothingLost'
  <2> SUFFICES ASSUME NEW s \in Sockets, NEW d \in Dirs
               PROVE  arrived'[s][d] = ready'[s][d] + Cardinality(Taken(s, d)')
    BY DEF NothingLost, Taken
  <2>1. /\ Cardinality(Taken(s, d)) \in Nat /\ ready[s][d] \in Nat
        /\ arrived[s][d] = ready[s][d] + Cardinality(Taken(s, d))
    BY TakenFinite
  <2>2. QED
    BY <1>0, <2>1
<1> DEFINE Quiet ==
      /\ \A s \in Sockets, d \in Dirs : Taken(s, d)' = Taken(s, d)
      /\ \A s \in Sockets, d \in Dirs :
           \/ arrived'[s][d] = arrived[s][d] /\ ready'[s][d] = ready[s][d]
           \/ arrived'[s][d] = arrived[s][d] + 1 /\ ready'[s][d] = ready[s][d] + 1
<1> USE ReactorIOAssumption DEF sockVars, callVars, Goto, TypeOK, Taken
<1>1. ASSUME UNCHANGED vars
      PROVE  Quiet
  BY <1>1 DEF vars
<1>2. ASSUME NEW s \in Sockets, NEW ok \in BOOLEAN, Open(s, ok)
      PROVE  Quiet
  BY <1>2 DEF Open, Register
<1>3. ASSUME NEW s \in Sockets, Close(s)
      PROVE  Quiet
  BY <1>3 DEF Close
<1>4. ASSUME NEW s \in Sockets, NEW d \in Dirs, Arrive(s, d)
      PROVE  Quiet
  BY <1>4 DEF Arrive
<1>5. ASSUME NEW o \in Ops, NEW s \in Sockets, NEW d \in Dirs, Call(o, s, d)
      PROVE  Quiet
  BY <1>5 DEF Call, FutureInv, IsSleep
<1>6. ASSUME NEW o \in Ops, Sleep(o)
      PROVE  Quiet
  BY <1>6 DEF Sleep
<1>7. ASSUME NEW o \in Ops, Repoll(o)
      PROVE  Quiet
  BY <1>7 DEF Repoll
<1>8. ASSUME NEW o \in Ops, NEW fd \in {"armed", "disarmed", "closed"}, SleepFirst(o, fd)
      PROVE  Quiet
  BY <1>8 DEF SleepFirst, StatusStore
<1>9. ASSUME NEW o \in Ops, SleepAgain(o)
      PROVE  Quiet
  BY <1>9 DEF SleepAgain, Finish
<1>10. ASSUME NEW o \in Ops, TryBlocks(o)
       PROVE  Quiet
  BY <1>10 DEF TryBlocks
<1>11. ASSUME NEW o \in Ops, TryOk(o)
       PROVE  NothingLost'
  BY <1>11, LostAnswer DEF TryOk, Answer
<1>12. ASSUME NEW o \in Ops, NEW s \in Sockets, NEW ok \in BOOLEAN, AcceptOk(o, s, ok)
       PROVE  NothingLost'
  <2>1. call[o][2] = "in"
    BY <1>12 DEF AcceptOk, FutureInv, DirsOf
  <2>2. QED
    BY <1>12, <2>1, LostAnswer DEF AcceptOk, Answer
<1>13. ASSUME NEW o \in Ops, TryError(o)
       PROVE  Quiet
  BY <1>13 DEF TryError, Finish
<1>14. ASSUME NEW o \in Ops, Wait(o)
       PROVE  Quiet
  BY <1>14 DEF Wait, NewWaker
<1>15. ASSUME NEW o \in Ops, DropFuture(o)
       PROVE  Quiet
  BY <1>15 DEF DropFuture, Finish
<1>16. ASSUME NEW o \in Ops, Move(o)
       PROVE  Quiet
  BY <1>16 DEF Move
<1>17. ASSUME NEW o \in Ops, TimerFire(o)
       PROVE  Quiet
  BY <1>17 DEF TimerFire
<1>18. ASSUME ReactorPoll
       PROVE  Quiet
  BY <1>18 DEF ReactorPoll
<1>19. ASSUME NEW t \in batch, ReactorEvent(t)
       PROVE  Quiet
  BY <1>19 DEF ReactorEvent, MarkHappened
<1> HIDE DEF Quiet
<1>20. Quiet => NothingLost'
  BY <1>0 DEF Quiet
<1> QED
  BY <1>20, <1>1, <1>2, <1>3, <1>4, <1>5, <1>6, <1>7, <1>8, <1>9, <1>10, <1>11, <1>12, <1>13, <1>14,
     <1>15, <1>16, <1>17, <1>18, <1>19 DEF Next, OpStep, ReactorStep

-----------------------------------------------------------------------------
(* The invariant is inductive.                                              *)
LEMMA StepRInv == RInv /\ [Next]_vars => RInv'
BY TypeStep, FutureStep, BorrowStep, TimerStep, EventStep, LostStep DEF RInv

(* The inductive invariant of the token protocol holds in every reachable   *)
(* state of the reactor and its futures.                                    *)
THEOREM ReactorInvariance == Spec => []RInv
BY InitRInv, StepRInv, PTL DEF Spec

(* Every variable keeps its type: in particular no system call takes from a *)
(* socket that has nothing ready, and a stored waker is that of a task.     *)
THEOREM ReactorTypeCorrect == Spec => []TypeOK
<1>1. RInv => TypeOK
  BY DEF RInv
<1> QED
  BY <1>1, ReactorInvariance, PTL

(* accept, read, write, send_to and recv_from lose no event: a call that    *)
(* waits on a ready socket that it does not share has a wake under way.     *)
THEOREM EventsNotLost == Spec => []NoLostEvent
<1>1. RInv => NoLostEvent
  <2> SUFFICES ASSUME RInv, NEW o \in Ops, Waiting(o), SoleUser(o), CanGo(o)
               PROVE  Coming(call[o][1]) \/ o \in scheduled
    BY DEF NoLostEvent, UniqueToken
  <2>1. Attended(o) /\ Tried(o)
    BY DEF RInv, EventInv, Waiting, Tried
  <2>2. QED
    BY <2>1, Statuses DEF Attended, HasTokenProgressed
<1> QED
  BY <1>1, ReactorInvariance, PTL

(* Sleep and Timeout lose no expiry, unless the future was moved.           *)
THEOREM TimersNotLost == Spec => []NoLostTimer
<1>1. RInv => NoLostTimer
  <2> SUFFICES ASSUME RInv, NEW o \in Timed, pc[o] = "parked", timer[o] = "fired", moves[o] = 0
               PROVE  Coming(o) \/ o \in scheduled
    BY DEF NoLostTimer, UniqueToken
  <2>1. Timely(o)
    BY DEF RInv, TimerInv
  <2>2. QED
    BY <2>1 DEF Timely, Live
<1> QED
  BY <1>1, ReactorInvariance, PTL

(* A timeout, a dropped future or an error takes nothing from a socket:     *)
(* what became ready is there or was answered.                              *)
THEOREM UnitsNotLost == Spec => []NothingLost
<1>1. RInv => NothingLost
  BY DEF RInv
<1> QED
  BY <1>1, ReactorInvariance, PTL

(* No sleep and no timeout ends before its own timer has expired.           *)
THEOREM TimersNeverEarly == Spec => NeverEarly
<1> DEFINE Due == \A o \in Ops : pc[o] = "sleep" /\ pc'[o] \in {"slept", "timeout"} => timer[o] = "fired"
<1>1. RInv /\ [Next]_vars => [Due]_vars
  <2> SUFFICES ASSUME RInv, [Next]_vars, NEW q \in Ops,
                      pc[q] = "sleep", pc'[q] \in {"slept", "timeout"}
               PROVE  timer[q] = "fired"
    OBVIOUS
  <2>1. SleepAgain(q)
    <3>1. ASSUME NEW o \in Ops, OpStep(o)
          PROVE  SleepAgain(q)
      <4>1. o = q
        BY <3>1 DEF RInv, TypeOK, Goto, OpStep, Repoll, SleepFirst, SleepAgain, TryBlocks, TryOk,
                    AcceptOk, TryError, Wait
      <4>2. CASE \E fd \in {"armed", "disarmed", "closed"} : SleepFirst(q, fd)
        BY <4>2 DEF RInv, TypeOK, Goto, SleepFirst
      <4>3. QED
        BY <3>1, <4>1, <4>2 DEF Goto, OpStep, Repoll, TryBlocks, TryOk, AcceptOk, TryError, Wait
    <3>2. ASSUME NEW o \in Ops, Sleep(o) \/ DropFuture(o) \/ Move(o) \/ TimerFire(o)
          PROVE  FALSE
      BY <3>2 DEF RInv, TypeOK, Goto, Sleep, DropFuture, Move, TimerFire
    <3>3. ASSUME NEW s \in Sockets, NEW d \in Dirs, NEW o \in Ops, Call(o, s, d)
          PROVE  FALSE
      BY <3>3 DEF RInv, TypeOK, Goto, Call
    <3>4. pc' # pc
      OBVIOUS
    <3>5. QED
      BY <3>1, <3>2, <3>3, <3>4
      DEF Next, vars, Close, Open, Arrive, ReactorStep, ReactorPoll, ReactorEvent
  <2>2. statuses[q] = Happened /\ timer[q] \notin {"none", "closed"} /\ q \in Timed
    BY <2>1 DEF SleepAgain, Goto, UniqueToken, HasTokenProgressed, RInv, TypeOK, FutureInv
  <2>3. QED
    BY <2>2 DEF RInv, TimerInv, Timely, HasTokenProgressed
<1> QED
  BY <1>1, ReactorInvariance, PTL DEF Spec, NeverEarly
=============================================================================
