------------------------- MODULE RegistrationProofs -------------------------
(***************************************************************************)
(* Proofs about the registrations of a task in Scheduler: how many there   *)
(* are, who adds one, where one may be lost, and when one is left behind.  *)
(***************************************************************************)
EXTENDS SchedulerProofs, FunctionTheorems

-----------------------------------------------------------------------------
(* Occurrences in a sequence                                                *)

Occurs(s, x) == {i \in DOMAIN s : s[i] = x}

(* The occurrences in a sequence can be counted.                            *)
LEMMA OccursFinite ==
  ASSUME NEW S, NEW s \in Seq(S), NEW x
  PROVE  IsFiniteSet(Occurs(s, x)) /\ Cardinality(Occurs(s, x)) \in Nat
<1>1. Len(s) \in Nat /\ Occurs(s, x) \in SUBSET (1 .. Len(s))
  BY DEF Occurs
<1>2. IsFiniteSet(1 .. Len(s))
  BY <1>1, FS_Interval
<1> QED
  BY <1>1, <1>2, FS_Subset, FS_CardinalityType

(* What a sequence of at most one element is when it is not empty.          *)
LEMMA LenOfNonEmpty ==
  ASSUME NEW S, NEW s \in Seq(S), s # <<>>, Len(s) <= 1
  PROVE  Len(s) = 1
<1>1. Len(s) \in Nat /\ Len(s) # 0
  OBVIOUS
<1> QED
  BY <1>1

(* A push adds one occurrence of the pushed element.                        *)
LEMMA OccursAppend ==
  ASSUME NEW S, NEW s \in Seq(S), NEW x \in S, NEW y
  PROVE  Cardinality(Occurs(Append(s, x), y)) = Cardinality(Occurs(s, y)) + IF x = y THEN 1 ELSE 0
<1>1. /\ Len(s) \in Nat /\ DOMAIN s = 1 .. Len(s) /\ DOMAIN Append(s, x) = 1 .. (Len(s) + 1)
      /\ \A i \in 1 .. Len(s) : Append(s, x)[i] = s[i]
      /\ Append(s, x)[Len(s) + 1] = x
  OBVIOUS
<1>2. CASE x = y
  <2>1. Occurs(Append(s, x), y) = Occurs(s, y) \cup {Len(s) + 1} /\ Len(s) + 1 \notin Occurs(s, y)
    BY <1>1, <1>2 DEF Occurs
  <2>2. QED
    BY <1>2, <2>1, OccursFinite, FS_AddElement
<1>3. CASE x # y
  <2>1. Occurs(Append(s, x), y) = Occurs(s, y)
    BY <1>1, <1>3 DEF Occurs
  <2>2. QED
    BY <1>3, <2>1, OccursFinite
<1> QED
  BY <1>2, <1>3

(* A pop removes the occurrence at the head; the others move by one.        *)
LEMMA OccursTail ==
  ASSUME NEW S, NEW s \in Seq(S), s # <<>>, NEW y
  PROVE  Cardinality(Occurs(s, y)) = Cardinality(Occurs(Tail(s), y)) + IF Head(s) = y THEN 1 ELSE 0
<1> DEFINE rest == Occurs(s, y) \ {1}
           shift == [i \in Occurs(Tail(s), y) |-> i + 1]
<1>1. /\ Len(s) \in Nat /\ Len(s) > 0 /\ DOMAIN s = 1 .. Len(s) /\ Tail(s) \in Seq(S)
      /\ DOMAIN Tail(s) = 1 .. (Len(s) - 1)
      /\ \A i \in 1 .. (Len(s) - 1) : Tail(s)[i] = s[i + 1]
      /\ Head(s) = s[1]
  OBVIOUS
<1>2. Cardinality(rest) = Cardinality(Occurs(Tail(s), y))
  <2>1. shift \in [Occurs(Tail(s), y) -> rest]
    BY <1>1 DEF Occurs
  <2>2. \A a, b \in Occurs(Tail(s), y) : shift[a] = shift[b] => a = b
    BY <1>1 DEF Occurs
  <2>3. ASSUME NEW j \in rest
        PROVE  \E i \in Occurs(Tail(s), y) : shift[i] = j
    <3>1. j \in 2 .. Len(s) /\ s[j] = y
      BY <1>1 DEF Occurs
    <3>2. j - 1 \in 1 .. (Len(s) - 1) /\ (j - 1) + 1 = j
      BY <1>1, <3>1
    <3>3. j - 1 \in Occurs(Tail(s), y)
      BY <1>1, <3>1, <3>2 DEF Occurs
    <3>4. QED
      BY <3>2, <3>3
  <2>4. shift \in Bijection(Occurs(Tail(s), y), rest)
    BY <2>1, <2>2, <2>3, Fun_IsBij
  <2>5. ExistsBijection(Occurs(Tail(s), y), rest)
    BY <2>4, Fun_ExistsBij
  <2>6. IsFiniteSet(Occurs(Tail(s), y))
    BY <1>1, OccursFinite
  <2>7. QED
    BY <2>5, <2>6, FS_Bijection
<1>3. Cardinality(rest) = IF 1 \in Occurs(s, y) THEN Cardinality(Occurs(s, y)) - 1 ELSE Cardinality(Occurs(s, y))
  BY OccursFinite, FS_RemoveElement
<1>4. 1 \in Occurs(s, y) <=> Head(s) = y
  BY <1>1 DEF Occurs
<1>5. Cardinality(Occurs(s, y)) \in Nat
  BY OccursFinite
<1> QED
  BY <1>2, <1>3, <1>4, <1>5

-----------------------------------------------------------------------------
(* The three places of a registration: waiting_tasks, the executors'        *)
(* channels, and the callers inside the manager.                            *)

Queued(t)  == Occurs(waiting_tasks, t)
Sent(t)    == {p \in Executors \X (1 .. MAX_QUEUED_TASKS) :
                 p[2] \in DOMAIN ready_queue[p[1]] /\ ready_queue[p[1]][p[2]] = t}
Calling(t) == {c \in Callers : cpc[c] \in Inside /\ ctask[c] = t}

(* InFlight counts these places, before and after a step.                   *)
LEMMA InFlightParts ==
  \A t : /\ InFlight(t) = Cardinality(Queued(t)) + Cardinality(Sent(t)) + Cardinality(Calling(t))
         /\ InFlight(t)' = Cardinality(Queued(t)') + Cardinality(Sent(t)') + Cardinality(Calling(t)')
BY DEF InFlight, Queued, Occurs, Sent, Calling

(* The callers are finitely many.                                           *)
LEMMA CallingFinite ==
  \A t : /\ IsFiniteSet(Calling(t)) /\ Cardinality(Calling(t)) \in Nat
         /\ IsFiniteSet(Calling(t)') /\ Cardinality(Calling(t)') \in Nat
<1>1. IsFiniteSet(Callers)
  BY ExecutorsFinite, ThreadsFinite, FS_Union DEF Callers
<1>2. \A t : Calling(t) \in SUBSET Callers /\ Calling(t)' \in SUBSET Callers
  BY DEF Calling
<1> QED
  BY <1>1, <1>2, FS_Subset, FS_CardinalityType

(* A step that touches none of the places leaves the count alone.           *)
LEMMA InFlightStays ==
  ASSUME UNCHANGED <<waiting_tasks, ready_queue, cpc, ctask>>, NEW t
  PROVE  InFlight(t)' = InFlight(t)
BY DEF InFlight

(* The channels have finitely many places.                                  *)
LEMMA ChannelsFinite == IsFiniteSet(Executors \X (1 .. MAX_QUEUED_TASKS))
<1>1. 1 \in Int /\ MAX_QUEUED_TASKS \in Int
  BY SchedulerAssumption
<1>2. IsFiniteSet(1 .. MAX_QUEUED_TASKS)
  BY <1>1, FS_Interval
<1> QED
  BY <1>2, ExecutorsFinite, FS_Product

(* Each place holds finitely many registrations.                            *)
LEMMA PartsFinite ==
  ASSUME TypeOK, NEW t
  PROVE  /\ Cardinality(Queued(t)) \in Nat
         /\ IsFiniteSet(Sent(t)) /\ Cardinality(Sent(t)) \in Nat
         /\ IsFiniteSet(Calling(t)) /\ Cardinality(Calling(t)) \in Nat
         /\ InFlight(t) \in Nat
<1>1. Cardinality(Queued(t)) \in Nat
  BY OccursFinite DEF TypeOK, Queued
<1>2. IsFiniteSet(Sent(t)) /\ Cardinality(Sent(t)) \in Nat
  <2>1. Sent(t) \in SUBSET (Executors \X (1 .. MAX_QUEUED_TASKS))
    BY DEF Sent
  <2>2. QED
    BY <2>1, ChannelsFinite, FS_Subset, FS_CardinalityType
<1> QED
  BY <1>1, <1>2, CallingFinite, InFlightParts

(* The sum before and after a step, for one task.                           *)
LEMMA InFlightChange ==
  ASSUME TypeOK, NEW t, NEW q \in Int, NEW s \in Int, NEW c \in Int,
         Cardinality(Queued(t)') = Cardinality(Queued(t)) + q,
         Cardinality(Sent(t)') = Cardinality(Sent(t)) + s,
         Cardinality(Calling(t)') = Cardinality(Calling(t)) + c
  PROVE  InFlight(t)' = InFlight(t) + q + s + c
BY PartsFinite, InFlightParts

(* A send to an empty channel adds one registration to it.                  *)
LEMMA SentAppend ==
  ASSUME TypeOK, NEW e \in Executors, NEW u \in Tasks, NEW t, ready_queue[e] = <<>>,
         ready_queue' = [ready_queue EXCEPT ![e] = Append(@, u)]
  PROVE  Cardinality(Sent(t)') = Cardinality(Sent(t)) + IF u = t THEN 1 ELSE 0
<1>1. /\ \A f \in Executors : f # e => ready_queue'[f] = ready_queue[f]
      /\ ready_queue'[e] = <<u>> /\ DOMAIN ready_queue[e] = {}
      /\ DOMAIN ready_queue'[e] = {1} /\ ready_queue'[e][1] = u
  BY DEF TypeOK
<1>2. 1 \in 1 .. MAX_QUEUED_TASKS
  BY SchedulerAssumption
<1>3. CASE u = t
  <2>1. Sent(t)' = Sent(t) \cup {<<e, 1>>} /\ <<e, 1>> \notin Sent(t)
    BY <1>1, <1>2, <1>3 DEF Sent
  <2>2. QED
    BY <1>3, <2>1, PartsFinite, FS_AddElement
<1>4. CASE u # t
  <2>1. Sent(t)' = Sent(t)
    BY <1>1, <1>2, <1>4 DEF Sent
  <2>2. QED
    BY <1>4, <2>1, PartsFinite
<1> QED
  BY <1>3, <1>4

(* A receive takes the one registration out of the channel.                 *)
LEMMA SentTail ==
  ASSUME TypeOK, ChannelInv, NEW e \in Executors, NEW t, ready_queue[e] # <<>>,
         ready_queue' = [ready_queue EXCEPT ![e] = Tail(@)]
  PROVE  Cardinality(Sent(t)) = Cardinality(Sent(t)') + IF Head(ready_queue[e]) = t THEN 1 ELSE 0
<1>1. ready_queue[e] \in Seq(Tasks) /\ Len(ready_queue[e]) <= 1
  BY DEF TypeOK, ChannelInv
<1>2. /\ \A f \in Executors : f # e => ready_queue'[f] = ready_queue[f]
      /\ ready_queue'[e] = <<>> /\ DOMAIN ready_queue'[e] = {}
      /\ DOMAIN ready_queue[e] = {1} /\ Head(ready_queue[e]) = ready_queue[e][1]
  <2>1. Tail(ready_queue[e]) = <<>>
    BY <1>1, TailOfSingleton
  <2>2. Len(ready_queue[e]) = 1
    BY <1>1, LenOfNonEmpty
  <2>3. DOMAIN ready_queue[e] = {1} /\ Head(ready_queue[e]) = ready_queue[e][1]
    BY <1>1, <2>2
  <2>4. \A f \in Executors : ready_queue'[f] = IF f = e THEN Tail(ready_queue[e]) ELSE ready_queue[f]
    BY DEF TypeOK
  <2>5. DOMAIN <<>> = {}
    OBVIOUS
  <2>6. QED
    BY <2>1, <2>3, <2>4, <2>5
<1>3. 1 \in 1 .. MAX_QUEUED_TASKS
  BY SchedulerAssumption
<1>4. Sent(t)' = Sent(t) \ {<<e, 1>>} /\ (<<e, 1>> \in Sent(t) <=> Head(ready_queue[e]) = t)
  BY <1>2, <1>3 DEF Sent
<1>5. Cardinality(Sent(t)') = IF <<e, 1>> \in Sent(t) THEN Cardinality(Sent(t)) - 1 ELSE Cardinality(Sent(t))
  BY <1>4, PartsFinite, FS_RemoveElement
<1> QED
  BY <1>4, <1>5, PartsFinite

(* Only the caller c moves: it enters the manager with u, or leaves it.     *)
OthersStay(c) == \A d \in Callers \ {c} : cpc'[d] = cpc[d] /\ ctask'[d] = ctask[d]
Enters(c, u)  == cpc[c] = "idle" /\ cpc'[c] \in Inside /\ ctask'[c] = u /\ OthersStay(c)
Leaves(c)     == cpc[c] \in Inside /\ cpc'[c] \in {"idle", "dead"} /\ OthersStay(c)

(* A caller that enters the manager brings one registration.                *)
LEMMA CallingEnter ==
  ASSUME TypeOK, NEW c \in Callers, NEW u \in Tasks, NEW t, Enters(c, u)
  PROVE  Cardinality(Calling(t)') = Cardinality(Calling(t)) + IF u = t THEN 1 ELSE 0
<1>1. CASE u = t
  <2>1. Calling(t)' = Calling(t) \cup {c} /\ c \notin Calling(t)
    BY <1>1 DEF Calling, Enters, OthersStay, Inside
  <2>2. QED
    BY <1>1, <2>1, PartsFinite, FS_AddElement
<1>2. CASE u # t
  <2>1. Calling(t)' = Calling(t)
    BY <1>2 DEF Calling, Enters, OthersStay, Inside
  <2>2. QED
    BY <1>2, <2>1, PartsFinite
<1> QED
  BY <1>1, <1>2

(* A caller that leaves it takes its registration along.                    *)
LEMMA CallingLeave ==
  ASSUME TypeOK, NEW c \in Callers, NEW t, Leaves(c)
  PROVE  Cardinality(Calling(t)) = Cardinality(Calling(t)') + IF ctask[c] = t THEN 1 ELSE 0
<1>1. Calling(t)' = Calling(t) \ {c} /\ (c \in Calling(t) <=> ctask[c] = t)
  BY DEF Calling, Leaves, OthersStay, Inside
<1>2. Cardinality(Calling(t)') = IF c \in Calling(t) THEN Cardinality(Calling(t)) - 1 ELSE Cardinality(Calling(t))
  BY <1>1, PartsFinite, FS_RemoveElement
<1> QED
  BY <1>1, <1>2, PartsFinite

-----------------------------------------------------------------------------
(* How many registrations of t there are after the step, when the caller c  *)
(* enters the manager with task u.                                          *)
LEMMA CountRegister ==
  ASSUME TypeOK, NEW c \in Callers, NEW u \in Tasks, NEW t, cpc[c] = "idle", Register(c, u),
         UNCHANGED <<waiting_tasks, ready_queue>>
  PROVE  InFlight(t)' = InFlight(t) + IF u = t /\ ~abort[u] THEN 1 ELSE 0
<1>1. Queued(t)' = Queued(t) /\ Sent(t)' = Sent(t)
  BY DEF Queued, Sent, Occurs
<1>2. CASE RegisterSkips(u)
  <2>1. Calling(t)' = Calling(t)
    BY <1>2 DEF Register, Calling, callVars
  <2>2. QED
    BY <1>1, <1>2, <2>1, PartsFinite, InFlightParts DEF RegisterSkips
<1>3. CASE ~RegisterSkips(u)
  <2>1. Enters(c, u)
    BY <1>3 DEF Register, Enters, OthersStay, TypeOK, Inside
  <2>2. Cardinality(Calling(t)') = Cardinality(Calling(t)) + IF u = t THEN 1 ELSE 0
    BY <2>1, CallingEnter
  <2>3. InFlight(t)' = InFlight(t) + 0 + 0 + (IF u = t THEN 1 ELSE 0)
    BY <1>1, <2>2, PartsFinite, InFlightChange
  <2>4. QED
    BY <1>3, <2>3, PartsFinite DEF RegisterSkips
<1> QED
  BY <1>2, <1>3

(* A caller keeps its registration over the pop; its send or push moves it  *)
(* to the channel or to waiting_tasks; a push that meets a full buffer      *)
(* drops it.                                                                *)
LEMMA CountCaller ==
  ASSUME IInv, NEW c \in Callers, NEW t, CallStep(c)
  PROVE  InFlight(t)' = InFlight(t) - IF RegisterPushFull(c) /\ ctask[c] = t THEN 1 ELSE 0
<1> DEFINE u == ctask[c]
           one == IF u = t THEN 1 ELSE 0
<1>1. TypeOK /\ CallerInv /\ ChannelInv /\ SendFindsRoom
  BY IInvGivesRoom DEF IInv, TokenInv
<1>2. u \in Tasks /\ cpc[c] \in Inside
  BY <1>1 DEF CallStep, RegisterPop, RegisterPop, RegisterSend, RegisterPush, RegisterPushFull, CallerInv, Inside
<1>3. CASE RegisterSend(c)
  <2>1. /\ cexec[c] \in Executors /\ ready_queue[cexec[c]] = <<>>
        /\ ready_queue' = [ready_queue EXCEPT ![cexec[c]] = Append(@, u)]
        /\ waiting_tasks' = waiting_tasks /\ cpc[c] = "send" /\ Leaves(c)
    BY <1>1, <1>3 DEF RegisterSend, ReturnToCaller, CallerInv, SendFindsRoom, Leaves, OthersStay, TypeOK, Inside
  <2>2. Cardinality(Sent(t)') = Cardinality(Sent(t)) + one
    BY <1>1, <1>2, <2>1, SentAppend
  <2>3. Cardinality(Calling(t)) = Cardinality(Calling(t)') + one
    BY <1>1, <1>2, <2>1, CallingLeave
  <2>4. Queued(t)' = Queued(t)
    BY <2>1 DEF Queued, Occurs
  <2>5. ~RegisterPushFull(c)
    BY <2>1 DEF RegisterPushFull
  <2>6. Cardinality(Calling(t)') = Cardinality(Calling(t)) + (-one)
    BY <2>3, CallingFinite
  <2>7. Cardinality(Queued(t)') = Cardinality(Queued(t)) + 0
    BY <1>1, <2>4, PartsFinite
  <2>8. InFlight(t)' = InFlight(t) + 0 + one + (-one)
    BY <1>1, <2>2, <2>6, <2>7, InFlightChange
  <2>9. QED
    BY <1>1, <2>5, <2>8, PartsFinite
<1>4. CASE RegisterPush(c)
  <2>1. /\ waiting_tasks' = Append(waiting_tasks, u)
        /\ ready_queue' = ready_queue /\ Len(waiting_tasks) < WAITING_TASKS_CAP /\ Leaves(c)
    BY <1>1, <1>4 DEF RegisterPush, ReturnToCaller, Leaves, OthersStay, TypeOK, Inside
  <2>2. Cardinality(Queued(t)') = Cardinality(Queued(t)) + one
    BY <1>1, <1>2, <2>1, OccursAppend DEF Queued, TypeOK
  <2>3. Cardinality(Calling(t)) = Cardinality(Calling(t)') + one
    BY <1>1, <1>2, <2>1, CallingLeave
  <2>4. Sent(t)' = Sent(t)
    BY <2>1 DEF Sent
  <2>5. ~RegisterPushFull(c)
    BY <1>1, <2>1 DEF RegisterPushFull, TypeOK
  <2>6. Cardinality(Calling(t)') = Cardinality(Calling(t)) + (-one)
    BY <2>3, CallingFinite
  <2>7. Cardinality(Sent(t)') = Cardinality(Sent(t)) + 0
    BY <1>1, <2>4, PartsFinite
  <2>8. InFlight(t)' = InFlight(t) + one + 0 + (-one)
    BY <1>1, <2>2, <2>6, <2>7, InFlightChange
  <2>9. QED
    BY <1>1, <2>5, <2>8, PartsFinite
<1>5. CASE RegisterPushFull(c)
  <2>1. Leaves(c) /\ UNCHANGED <<waiting_tasks, ready_queue>>
    BY <1>1, <1>5 DEF RegisterPushFull, managerVars, Leaves, OthersStay, TypeOK, Inside
  <2>2. Cardinality(Calling(t)) = Cardinality(Calling(t)') + one
    BY <1>1, <1>2, <2>1, CallingLeave
  <2>3. Sent(t)' = Sent(t) /\ Queued(t)' = Queued(t)
    BY <2>1 DEF Sent, Queued, Occurs
  <2>4. Cardinality(Calling(t)') = Cardinality(Calling(t)) + (-one)
    BY <2>2, CallingFinite
  <2>5. /\ Cardinality(Queued(t)') = Cardinality(Queued(t)) + 0
        /\ Cardinality(Sent(t)') = Cardinality(Sent(t)) + 0
    BY <1>1, <2>3, PartsFinite
  <2>6. InFlight(t)' = InFlight(t) + 0 + 0 + (-one)
    BY <1>1, <2>4, <2>5, InFlightChange
  <2>7. QED
    BY <1>1, <1>5, <2>6, PartsFinite
<1>6. CASE RegisterPop(c)
  <2>1. /\ cpc[c] = "pop" /\ cpc'[c] \in Inside
        /\ \A d \in Callers \ {c} : cpc'[d] = cpc[d]
        /\ UNCHANGED <<waiting_tasks, ready_queue, ctask>>
    BY <1>1, <1>6 DEF RegisterPop, TypeOK, Inside
  <2>2. Calling(t)' = Calling(t)
    BY <1>2, <2>1 DEF Calling
  <2>3. Sent(t)' = Sent(t) /\ Queued(t)' = Queued(t)
    BY <2>1 DEF Sent, Queued, Occurs
  <2>4. ~RegisterPushFull(c)
    BY <2>1 DEF RegisterPushFull
  <2>5. InFlight(t)' = InFlight(t)
    BY <2>2, <2>3, InFlightParts
  <2>6. QED
    BY <1>1, <2>4, <2>5, PartsFinite
<1> QED
  BY <1>3, <1>4, <1>5, <1>6 DEF CallStep

(* An executor takes a registration out of its channel, or drops one of an  *)
(* aborted task in executor_ready; what it sends to itself stays.           *)
LEMMA CountExecutor ==
  ASSUME IInv, NEW e \in Executors, NEW t, ExecutorStep(e)
  PROVE  \/ InFlight(t)' = InFlight(t)
         \/ InFlight(t)' = InFlight(t) - 1 /\ (abort[t] \/ (Recv(e) /\ Head(ready_queue[e]) = t))
<1> USE DEF managerVars, callVars, taskVars, panicVars
<1>1. TypeOK /\ ChannelInv /\ SendFindsRoom
  BY IInvGivesRoom DEF IInv, TokenInv
<1>2. CASE Recv(e)
  <2> DEFINE one == IF Head(ready_queue[e]) = t THEN 1 ELSE 0
  <2>1. Queued(t)' = Queued(t) /\ Calling(t)' = Calling(t)
    BY <1>2 DEF Recv, Queued, Occurs, Calling
  <2>2. /\ ready_queue[e] # <<>>
        /\ ready_queue' = [ready_queue EXCEPT ![e] = Tail(@)]
    BY <1>2 DEF Recv
  <2>3. Cardinality(Sent(t)) = Cardinality(Sent(t)') + one
    BY <1>1, <2>2, SentTail
  <2>4. Cardinality(Sent(t)') \in Int
    <3>1. Sent(t)' \in SUBSET (Executors \X (1 .. MAX_QUEUED_TASKS))
      BY DEF Sent
    <3>2. QED
      BY <3>1, ChannelsFinite, FS_Subset, FS_CardinalityType
  <2>5. Cardinality(Sent(t)') = Cardinality(Sent(t)) + (-one)
    BY <2>3, <2>4
  <2>6. /\ Cardinality(Queued(t)') = Cardinality(Queued(t)) + 0
        /\ Cardinality(Calling(t)') = Cardinality(Calling(t)) + 0
    BY <1>1, <2>1, PartsFinite
  <2>7. InFlight(t)' = InFlight(t) + 0 + (-one) + 0
    BY <1>1, <2>5, <2>6, InFlightChange
  <2>8. QED
    BY <1>1, <1>2, <2>7, PartsFinite
<1>3. CASE ExecutorReady(e) /\ waiting_tasks # <<>>
  <2> DEFINE h   == Head(waiting_tasks)
             one == IF h = t THEN 1 ELSE 0
  <2>1. /\ waiting_tasks' = Tail(waiting_tasks) /\ waiting_tasks \in Seq(Tasks)
        /\ h \in Tasks /\ Calling(t)' = Calling(t)
    BY <1>1, <1>3, TailMember DEF ExecutorReady, Calling, TypeOK
  <2>2. Cardinality(Queued(t)) = Cardinality(Queued(t)') + one
    BY <1>3, <2>1, OccursTail DEF Queued
  <2>3. Cardinality(Queued(t)') \in Int
    <3>1. Tail(waiting_tasks) \in Seq(Tasks)
      BY <1>3, <2>1, TailMember
    <3>2. Cardinality(Occurs(Tail(waiting_tasks), t)) \in Nat
      BY <3>1, OccursFinite
    <3>3. Queued(t)' = Occurs(Tail(waiting_tasks), t)
      BY <2>1 DEF Queued
    <3>4. QED
      BY <3>2, <3>3
  <2>4. Cardinality(Queued(t)') = Cardinality(Queued(t)) + (-one)
    BY <2>2, <2>3
  <2>5. Cardinality(Calling(t)') = Cardinality(Calling(t)) + 0
    BY <1>1, <2>1, PartsFinite
  <2>6. CASE ReadySkips(h)
    <3>1. Sent(t)' = Sent(t)
      BY <1>3, <2>6 DEF ExecutorReady, Sent
    <3>2. Cardinality(Sent(t)') = Cardinality(Sent(t)) + 0
      BY <1>1, <3>1, PartsFinite
    <3>3. InFlight(t)' = InFlight(t) + (-one) + 0 + 0
      BY <1>1, <2>4, <2>5, <3>2, InFlightChange
    <3>4. h = t => abort[t]
      BY <2>6 DEF ReadySkips
    <3>5. InFlight(t) \in Nat
      BY <1>1, PartsFinite
    <3>6. QED
      BY <3>3, <3>4, <3>5
  <2>7. CASE ~ReadySkips(h)
    <3>1. ready_queue[e] = <<>> /\ ready_queue' = [ready_queue EXCEPT ![e] = Append(@, h)]
      BY <1>1, <1>3, <2>7 DEF ExecutorReady, SendFindsRoom
    <3>2. Cardinality(Sent(t)') = Cardinality(Sent(t)) + one
      BY <1>1, <2>1, <3>1, SentAppend
    <3>3. InFlight(t)' = InFlight(t) + (-one) + one + 0
      BY <1>1, <2>4, <2>5, <3>2, InFlightChange
    <3>4. QED
      BY <1>1, <3>3, PartsFinite
  <2>8. QED
    BY <2>6, <2>7
<1>4. CASE UNCHANGED <<waiting_tasks, ready_queue, cpc, ctask>>
  BY <1>4, InFlightStays
<1> QED
  BY <1>2, <1>3, <1>4 DEF ExecutorStep, LockFuture, PollPending, PollReady, PollPanic, EndPoll, SendPanic,
     ExecutorDies, ExecutorReady, PushExecutor

-----------------------------------------------------------------------------
(* Who adds a registration of t: its spawn, a stored waker, or its own poll.*)
Asked(t) == future[t] = "new" \/ wakers[t] \/ \E e \in Executors : epc[e] = "poll" /\ cur[e] = t

(* Where one is lost.                                                       *)
Lost(t) ==
  \/ abort[t]
  \/ \E e \in Executors : epc[e] = "recv" /\ epc'[e] = "lock" /\ cur'[e] = t
  \/ \E c \in Callers : cpc[c] = "push" /\ ctask[c] = t /\ Len(waiting_tasks) = WAITING_TASKS_CAP

(* One step changes the count by at most one, for one of these reasons.     *)
LEMMA RegistrationStep ==
  ASSUME IInv, [Next]_vars, NEW t \in Tasks
  PROVE  /\ InFlight(t) \in Nat
         /\ \/ InFlight(t)' = InFlight(t)
            \/ InFlight(t)' = InFlight(t) + 1 /\ ~abort[t] /\ Asked(t)
            \/ InFlight(t)' = InFlight(t) - 1 /\ Lost(t)
<1> DEFINE Goal == \/ InFlight(t)' = InFlight(t)
                   \/ InFlight(t)' = InFlight(t) + 1 /\ ~abort[t] /\ Asked(t)
                   \/ InFlight(t)' = InFlight(t) - 1 /\ Lost(t)
<1> USE DEF managerVars, callVars, taskVars, panicVars
<1>1. TypeOK /\ CallerInv
  BY DEF IInv
<1>2. InFlight(t) \in Nat
  BY <1>1, PartsFinite
<1>3. ASSUME NEW c \in Callers, NEW u \in Tasks, cpc[c] = "idle", Register(c, u),
             UNCHANGED <<waiting_tasks, ready_queue>>, u = t => Asked(t)
      PROVE  Goal
  <2>1. InFlight(t)' = InFlight(t) + IF u = t /\ ~abort[u] THEN 1 ELSE 0
    BY <1>1, <1>3, CountRegister
  <2>2. QED
    BY <1>2, <1>3, <2>1
<1>4. ASSUME NEW c \in Callers, NEW u \in Tasks, Spawn(c, u)
      PROVE  Goal
  <2>1. cpc[c] = "idle" /\ Register(c, u) /\ UNCHANGED <<waiting_tasks, ready_queue>>
    BY <1>4 DEF Spawn, CanCall
  <2>2. u = t => Asked(t)
    BY <1>4 DEF Spawn, Asked
  <2>3. QED
    BY <1>3, <2>1, <2>2
<1>5. ASSUME NEW c \in Callers, NEW u \in Tasks, NEW keep \in BOOLEAN, Wake(c, u, keep)
      PROVE  Goal
  <2>1. cpc[c] = "idle" /\ Register(c, u) /\ UNCHANGED <<waiting_tasks, ready_queue>>
    BY <1>5 DEF Wake, CanCall
  <2>2. u = t => Asked(t)
    BY <1>5 DEF Wake, Asked
  <2>3. QED
    BY <1>3, <2>1, <2>2
<1>6. ASSUME NEW e \in Executors, WakeSelf(e)
      PROVE  Goal
  <2>1. /\ e \in Callers /\ cur[e] \in Tasks
        /\ cpc[e] = "idle" /\ Register(e, cur[e]) /\ UNCHANGED <<waiting_tasks, ready_queue>>
    BY <1>1, <1>6 DEF WakeSelf, CanCall, CallerInv, Callers
  <2>2. cur[e] = t => Asked(t)
    BY <1>6 DEF WakeSelf, CanCall, Asked
  <2>3. QED
    BY <1>3, <2>1, <2>2
<1>7. ASSUME NEW e \in Executors, ExecutorStep(e)
      PROVE  Goal
  <2>1. Recv(e) /\ Head(ready_queue[e]) = t => Lost(t)
    BY <1>1 DEF Recv, Lost, TypeOK
  <2>2. abort[t] => Lost(t)
    BY DEF Lost
  <2>3. QED
    BY <1>7, <2>1, <2>2, CountExecutor
<1>8. ASSUME NEW c \in Callers, CallStep(c)
      PROVE  Goal
  <2>1. InFlight(t)' = InFlight(t) - IF RegisterPushFull(c) /\ ctask[c] = t THEN 1 ELSE 0
    BY <1>8, CountCaller
  <2>2. RegisterPushFull(c) /\ ctask[c] = t => Lost(t)
    BY DEF RegisterPushFull, Lost
  <2>3. QED
    BY <1>2, <2>1, <2>2
<1>9. ASSUME UNCHANGED <<waiting_tasks, ready_queue, cpc, ctask>>
      PROVE  Goal
  <2>1. InFlight(t)' = InFlight(t)
    BY ONLY <1>9, InFlightStays
  <2>2. QED
    BY <2>1
<1>10. \/ \E e \in Executors : StoreWaker(e)
       \/ \E u \in Tasks : Abort(u) \/ DropWaker(u)
       \/ DrainPanic
       \/ UNCHANGED vars
       => UNCHANGED <<waiting_tasks, ready_queue, cpc, ctask>>
  BY DEF StoreWaker, Abort, DropWaker, DrainPanic, vars
<1> HIDE DEF Goal
<1>11. Goal
  BY <1>4, <1>5, <1>6, <1>7, <1>8, <1>9, <1>10, Zenon DEF Next
<1> QED
  BY <1>2, <1>11 DEF Goal

(* The flag of JoinHandle::abort only lets registrations drain: neither a   *)
(* spawn nor a wake adds one for an aborted task, whatever thread makes it. *)
THEOREM AbortedTasksDrain == Spec => AbortDrains
<1>1. ASSUME IInv, [Next]_vars, NEW t \in Tasks, abort[t]
      PROVE  InFlight(t)' <= InFlight(t)
  <2>1. /\ InFlight(t) \in Nat
        /\ InFlight(t)' = InFlight(t) \/ InFlight(t)' = InFlight(t) - 1
    BY ONLY <1>1, RegistrationStep
  <2>2. QED
    BY <2>1
<1>2. IInv /\ [Next]_vars => [\A t \in Tasks : abort[t] => InFlight(t)' <= InFlight(t)]_vars
  BY <1>1
<1>3. QED
  BY <1>2, Invariance, PTL DEF AbortDrains, Spec

(* An accepted registration leaves the manager through a receive, an abort  *)
(* or a full waiting_tasks, and in no other way.                            *)
THEOREM RegistrationsKept == Spec => RegistrationKept
<1>1. ASSUME IInv, [Next]_vars, NEW t \in Tasks, InFlight(t)' < InFlight(t)
      PROVE  Lost(t)
  <2>1. /\ InFlight(t) \in Nat
        /\ InFlight(t)' = InFlight(t) \/ InFlight(t)' = InFlight(t) + 1 \/ Lost(t)
    BY <1>1, RegistrationStep, Zenon
  <2>2. QED
    BY <1>1, <2>1
<1>2. IInv /\ [Next]_vars => [\A t \in Tasks : InFlight(t)' < InFlight(t) => Lost(t)]_vars
  BY <1>1
<1>3. QED
  BY <1>2, Invariance, PTL DEF RegistrationKept, Lost, Spec

-----------------------------------------------------------------------------
(* Why one call from outside cannot strand a task.                          *)

(* Until the first call from outside has popped its executor.               *)
Starting ==
  \/ calls["thread"] = 0
  \/ calls["thread"] = 1 /\ \E c \in Threads : cpc[c] = "pop"

(* Until then nothing runs, and no other call is on its way.                *)
Quiet ==
  Starting =>
    /\ \A e \in Executors : epc[e] = "recv" /\ ready_queue[e] = <<>>
    /\ \A c \in Callers : cpc[c] \in {"idle", "pop"}
    /\ \A c, d \in Callers : cpc[c] = "pop" /\ cpc[d] = "pop" => c = d
    /\ calls["thread"] = 0 => \A c \in Callers : cpc[c] = "idle"

(* That call finds the executors parked, and sends.                         *)
FirstCallSends ==
  Executors # {} /\ calls["thread"] < 2 => \A c \in Threads : cpc[c] # "push"

(* e will look at waiting_tasks before it parks.                            *)
Looks(e) ==
  epc[e] \in {"lock", "poll", "panic", "ready"} \/ ready_queue[e] # <<>> \/ Claimed(e)

TaskWaits  == \E t \in Tasks : In(waiting_tasks, t) /\ ~abort[t]
NoneUnwinds == \A e \in Executors : epc[e] \notin {"unwind", "dead"}

(* A waiting task has an executor that will look.                           *)
WaitingSeen ==
  Executors # {} /\ calls["thread"] < 2 /\ NoneUnwinds /\ TaskWaits => \E e \in Executors : Looks(e)

LookInv == Quiet /\ FirstCallSends /\ WaitingSeen

(* The count of calls from outside never falls, and grows in a Spawn or a   *)
(* Wake of a thread.                                                        *)
LEMMA ThreadCalls ==
  ASSUME TypeOK, [Next]_vars
  PROVE  /\ calls["thread"] \in Nat
         /\ \/ calls'["thread"] = calls["thread"]
            \/ calls'["thread"] = calls["thread"] + 1
<1> USE DEF managerVars, callVars, taskVars, panicVars
<1>1. calls["thread"] \in Nat
  BY DEF TypeOK
<1>2. ASSUME NEW c \in Callers, CountCall(c)
      PROVE  \/ calls'["thread"] = calls["thread"]
             \/ calls'["thread"] = calls["thread"] + 1
  BY <1>2 DEF CountCall, TypeOK
<1>3. CASE UNCHANGED calls
  BY <1>1, <1>3
<1>4. (\E c \in Callers : CountCall(c)) \/ UNCHANGED calls
  BY DEF Next, vars, Spawn, Wake, WakeSelf, StoreWaker, ExecutorStep, Recv, LockFuture, PollPending, PollReady,
         PollPanic, SendPanic, ExecutorDies, ExecutorReady, PushExecutor, CallStep, RegisterPop, RegisterSend,
         RegisterPush, RegisterPushFull, Abort, DropWaker, DrainPanic, Callers
<1> QED
  BY <1>1, <1>2, <1>3, <1>4

(* A caller moves when it enters the manager or when it is inside.          *)
LEMMA CallerMoves ==
  ASSUME [Next]_vars
  PROVE  \/ \E c \in Callers : /\ CanCall(c) /\ CountCall(c) /\ \E t : Register(c, t)
                               /\ UNCHANGED <<epc, ready_queue>>
         \/ \E c \in Callers : CallStep(c)
         \/ UNCHANGED cpc
<1> USE DEF managerVars, callVars, taskVars, panicVars
<1> QED
  BY DEF Next, vars, Spawn, Wake, WakeSelf, StoreWaker, ExecutorStep, Recv, LockFuture, PollPending, PollReady,
         PollPanic, SendPanic, ExecutorDies, ExecutorReady, PushExecutor, Abort, DropWaker, DrainPanic, Callers

(* A step that ends the quiet does not bring it back.                       *)
LEMMA StartingBefore ==
  ASSUME IInv, [Next]_vars, Starting'
  PROVE  Starting
<1>1. TypeOK
  BY DEF IInv
<1>2. /\ calls["thread"] \in Nat
      /\ calls'["thread"] = calls["thread"] \/ calls'["thread"] = calls["thread"] + 1
  BY <1>1, ThreadCalls
<1>3. CASE calls["thread"] = 0
  BY <1>3 DEF Starting
<1>4. CASE calls["thread"] # 0
  <2>1. calls'["thread"] = 1 /\ calls["thread"] = 1
    BY <1>2, <1>4 DEF Starting
  <2>2. PICK c \in Threads : cpc'[c] = "pop"
    BY <2>1 DEF Starting
  <2>3. c \in Callers /\ c \notin Executors
    BY SchedulerAssumption DEF Callers
  <2>4. ASSUME NEW d \in Callers, CountCall(d), NEW t, Register(d, t)
        PROVE  cpc[c] = "pop"
    <3>1. d # c
      BY <1>1, <2>1, <2>3, <2>4 DEF CountCall, TypeOK
    <3>2. QED
      BY <1>1, <2>2, <2>3, <2>4, <3>1 DEF Register, callVars, TypeOK
  <2>5. ASSUME NEW d \in Callers, CallStep(d)
        PROVE  cpc[c] = "pop"
    BY <1>1, <2>2, <2>3, <2>5 DEF CallStep, RegisterPop, RegisterSend, RegisterPush, RegisterPushFull,
       ReturnToCaller, TypeOK
  <2>6. cpc[c] = "pop"
    BY <2>2, <2>4, <2>5, CallerMoves
  <2>7. QED
    BY <2>1, <2>6 DEF Starting
<1> QED
  BY <1>3, <1>4

(* Nothing but the first call and its pop end the quiet.                    *)
LEMMA QuietStep ==
  ASSUME IInv, Quiet, [Next]_vars
  PROVE  Quiet'
<1> USE DEF managerVars, callVars, taskVars, panicVars
<1>1. SUFFICES ASSUME Starting'
               PROVE  /\ \A e \in Executors : epc'[e] = "recv" /\ ready_queue'[e] = <<>>
                      /\ \A c \in Callers : cpc'[c] \in {"idle", "pop"}
                      /\ \A c, d \in Callers : cpc'[c] = "pop" /\ cpc'[d] = "pop" => c = d
                      /\ calls'["thread"] = 0 => \A c \in Callers : cpc'[c] = "idle"
  BY DEF Quiet
<1> DEFINE Goal == /\ \A e \in Executors : epc'[e] = "recv" /\ ready_queue'[e] = <<>>
                   /\ \A c \in Callers : cpc'[c] \in {"idle", "pop"}
                   /\ \A c, d \in Callers : cpc'[c] = "pop" /\ cpc'[d] = "pop" => c = d
                   /\ calls'["thread"] = 0 => \A c \in Callers : cpc'[c] = "idle"
<1>2. TypeOK /\ Starting
  BY <1>1, StartingBefore DEF IInv
<1>3. /\ \A e \in Executors : epc[e] = "recv" /\ ready_queue[e] = <<>>
      /\ \A c \in Callers : cpc[c] \in {"idle", "pop"}
      /\ \A c, d \in Callers : cpc[c] = "pop" /\ cpc[d] = "pop" => c = d
      /\ calls["thread"] = 0 => \A c \in Callers : cpc[c] = "idle"
  BY <1>2 DEF Quiet
<1>4. calls["thread"] \in Nat
  BY <1>2 DEF TypeOK
<1>5. ASSUME NEW c \in Callers, NEW t, CanCall(c), CountCall(c), Register(c, t),
             UNCHANGED <<epc, ready_queue>>
      PROVE  Goal
  <2>1. c \notin Executors
    BY <1>3, <1>5 DEF CanCall
  <2>2. calls'["thread"] = calls["thread"] + 1
    BY <1>2, <1>5, <2>1 DEF CountCall, TypeOK
  <2>3. calls["thread"] = 0 /\ calls'["thread"] = 1
    BY <1>1, <1>4, <2>2 DEF Starting
  <2>4. cpc' = cpc \/ cpc' = [cpc EXCEPT ![c] = "pop"]
    BY <1>5 DEF Register
  <2>5. QED
    BY <1>2, <1>3, <1>5, <2>3, <2>4 DEF TypeOK
<1>6. ASSUME NEW c \in Callers, CallStep(c)
      PROVE  Goal
  <2>1. RegisterPop(c) /\ cpc[c] = "pop" /\ calls["thread"] = 1
    BY <1>2, <1>3, <1>6 DEF CallStep, RegisterPop, RegisterSend, RegisterPush, RegisterPushFull, Starting
  <2>2. calls'["thread"] = 1 /\ \A d \in Callers : cpc'[d] # "pop"
    BY <1>2, <1>3, <2>1 DEF RegisterPop, TypeOK
  <2>3. QED
    BY <1>1, <2>2 DEF Starting, Callers
<1>7. ASSUME UNCHANGED <<epc, ready_queue, cpc, calls>>
      PROVE  Goal
  BY <1>3, <1>7
<1>8. ASSUME NEW e \in Executors, ExecutorStep(e) \/ StoreWaker(e)
      PROVE  FALSE
  BY <1>3, <1>8 DEF StoreWaker, ExecutorStep, Recv, LockFuture, PollPending, PollReady, PollPanic, EndPoll,
         SendPanic, ExecutorDies, ExecutorReady, PushExecutor
<1>9. \/ \E c \in Callers : /\ CanCall(c) /\ CountCall(c) /\ \E t : Register(c, t)
                            /\ UNCHANGED <<epc, ready_queue>>
      \/ \E c \in Callers : CallStep(c)
      \/ UNCHANGED <<epc, ready_queue, cpc, calls>>
  BY <1>8 DEF Next, vars, Spawn, Wake, WakeSelf, Abort, DropWaker, DrainPanic, Callers
<1> HIDE DEF Goal
<1>10. Goal
  BY <1>5, <1>6, <1>7, <1>9
<1> QED
  BY <1>10 DEF Goal

(* A thread that pushes found waiting_executors empty: it was not the first *)
(* to call.                                                                 *)
LEMMA FirstCallStep ==
  ASSUME IInv, Quiet, FirstCallSends, [Next]_vars
  PROVE  FirstCallSends'
<1> USE DEF managerVars, callVars, taskVars, panicVars
<1>1. SUFFICES ASSUME Executors # {}, calls'["thread"] < 2, NEW c \in Threads, cpc'[c] = "push"
               PROVE  FALSE
  BY DEF FirstCallSends
<1>2. TypeOK /\ c \in Callers
  BY DEF IInv, Callers
<1>3. calls["thread"] \in Nat /\ calls["thread"] < 2 /\ cpc[c] # "push"
  BY <1>1, <1>2, ThreadCalls DEF FirstCallSends
<1>4. ASSUME NEW d \in Callers, NEW t, Register(d, t)
      PROVE  cpc'[c] # "push"
  BY <1>2, <1>3, <1>4 DEF Register, TypeOK
<1>5. ASSUME NEW d \in Callers, CallStep(d)
      PROVE  d = c /\ RegisterPop(c) /\ waiting_executors = <<>>
  BY <1>1, <1>2, <1>3, <1>5 DEF CallStep, RegisterPop, RegisterSend, RegisterPush, RegisterPushFull,
     ReturnToCaller, TypeOK
<1>6. RegisterPop(c) /\ waiting_executors = <<>>
  BY <1>1, <1>3, <1>4, <1>5, CallerMoves
<1>7. Starting
  BY <1>3, <1>6 DEF RegisterPop, Starting
<1>8. PICK e \in Executors : TRUE
  BY <1>1
<1>9. ~Claimed(e) /\ ~Busy(e)
  BY <1>7 DEF Quiet, Claimed, Busy
<1>10. ~Parked(e)
  BY <1>6 DEF Parked
<1> QED
  BY <1>9, <1>10 DEF IInv, TokenInv, ExecutorAccounted

(* A claim stays with its caller until the send.                            *)
LEMMA ClaimKept ==
  ASSUME TypeOK, NEW e \in Executors, Claimed(e), [Next]_vars
  PROVE  Claimed(e)' \/ \E c \in Callers : RegisterSend(c) /\ cexec[c] = e
<1> USE DEF managerVars, callVars, taskVars, panicVars
<1>1. PICK c \in Callers : cpc[c] = "send" /\ cexec[c] = e
  BY DEF Claimed
<1>2. SUFFICES ASSUME ~RegisterSend(c)
               PROVE  cpc'[c] = "send" /\ cexec'[c] = e
  BY <1>1 DEF Claimed
<1>3. ASSUME NEW d \in Callers, NEW t, cpc[d] = "idle", Register(d, t)
      PROVE  cpc'[c] = "send" /\ cexec'[c] = e
  BY <1>1, <1>3 DEF Register, TypeOK
<1>4. ASSUME NEW d \in Callers, CallStep(d)
      PROVE  cpc'[c] = "send" /\ cexec'[c] = e
  BY <1>1, <1>2, <1>4 DEF CallStep, RegisterPop, RegisterSend, RegisterPush, RegisterPushFull, ReturnToCaller, TypeOK
<1>5. CASE UNCHANGED <<cpc, cexec>>
  BY <1>1, <1>5
<1>6. \/ \E d \in Callers : cpc[d] = "idle" /\ \E t : Register(d, t)
      \/ \E d \in Callers : CallStep(d)
      \/ UNCHANGED <<cpc, cexec>>
  BY DEF Next, vars, Spawn, Wake, WakeSelf, CanCall, StoreWaker, ExecutorStep, Recv, LockFuture, PollPending, PollReady,
         PollPanic, SendPanic, ExecutorDies, ExecutorReady, PushExecutor, Abort, DropWaker, DrainPanic, Callers
<1> QED
  BY <1>3, <1>4, <1>5, <1>6

(* An executor that will look at waiting_tasks keeps to it while a task     *)
(* waits there, unless it unwinds.                                          *)
LEMMA LooksStep ==
  ASSUME IInv, NEW e \in Executors, Looks(e), waiting_tasks # <<>>, [Next]_vars, epc'[e] # "unwind"
  PROVE  Looks(e)'
<1> USE DEF managerVars, callVars, taskVars, panicVars
<1>1. TypeOK /\ CallerInv /\ TypeOK'
  BY TypeStep DEF IInv
<1>2. ASSUME NEW c \in Callers, RegisterSend(c)
      PROVE  /\ cexec[c] \in Executors /\ ready_queue'[cexec[c]] # <<>> /\ UNCHANGED epc
             /\ \A f \in Executors : f # cexec[c] => ready_queue'[f] = ready_queue[f]
  <2>1. cexec[c] \in Executors /\ ctask[c] \in Tasks
    BY <1>1, <1>2 DEF RegisterSend, CallerInv, Inside
  <2>2. Append(ready_queue[cexec[c]], ctask[c]) # <<>>
    <3>1. ready_queue[cexec[c]] = <<>> /\ ready_queue[cexec[c]] \in Seq(Tasks)
      BY <1>1, <1>2, <2>1, IInvGivesRoom DEF TypeOK, SendFindsRoom, RegisterSend
    <3>2. QED
      BY <2>1, <3>1, AppendMember
  <2>3. QED
    BY <1>1, <1>2, <2>1, <2>2 DEF RegisterSend, TypeOK
<1>3. CASE Claimed(e)
  BY <1>1, <1>2, <1>3, ClaimKept DEF Looks
<1>4. ASSUME ExecutorReady(e)
      PROVE  epc'[e] = "ready" \/ ready_queue'[e] # <<>>
  <2>1. CASE ReadySkips(Head(waiting_tasks))
    BY <1>4, <2>1 DEF ExecutorReady
  <2>2. CASE ~ReadySkips(Head(waiting_tasks))
    <3>1. Head(waiting_tasks) \in Tasks
      BY <1>1, TailMember DEF TypeOK
    <3>2. Append(ready_queue[e], Head(waiting_tasks)) # <<>>
      <4>1. ready_queue[e] = <<>> /\ ready_queue[e] \in Seq(Tasks)
        BY <1>1, <1>4, IInvGivesRoom DEF TypeOK, SendFindsRoom, ExecutorReady
      <4>2. QED
        BY <3>1, <4>1, AppendMember
    <3>3. QED
      BY <1>1, <1>4, <2>2, <3>2 DEF ExecutorReady, TypeOK
  <2>3. QED
    BY <2>1, <2>2
<1>5. CASE ready_queue[e] # <<>>
  <2>1. epc[e] = "recv"
    BY <1>5 DEF IInv, TokenInv, ChannelInv
  <2>2. ASSUME NEW f \in Executors, Recv(f)
        PROVE  Looks(e)'
    BY <1>1, <1>5, <2>2 DEF Recv, Looks, TypeOK
  <2>3. ASSUME NEW f \in Executors, ExecutorReady(f)
        PROVE  Looks(e)'
    BY <1>1, <1>5, <2>1, <2>3 DEF ExecutorReady, Looks, TypeOK
  <2>4. ASSUME NEW c \in Callers, RegisterSend(c)
        PROVE  Looks(e)'
    BY <1>2, <1>5, <2>4 DEF Looks
  <2>5. CASE UNCHANGED ready_queue
    BY <1>5, <2>5 DEF Looks
  <2>6. \/ \E f \in Executors : Recv(f) \/ ExecutorReady(f)
        \/ \E c \in Callers : RegisterSend(c)
        \/ UNCHANGED ready_queue
    BY DEF Next, vars, Spawn, Wake, WakeSelf, StoreWaker, ExecutorStep, LockFuture, PollPending, PollReady,
         PollPanic, SendPanic, ExecutorDies, PushExecutor, CallStep, RegisterPop, RegisterPush, RegisterPushFull,
         Abort, DropWaker, DrainPanic
  <2>7. QED
    BY <2>2, <2>3, <2>4, <2>5, <2>6
<1>6. CASE epc[e] \in {"lock", "poll", "panic", "ready"}
  <2>1. ASSUME NEW f \in Executors, ExecutorStep(f)
        PROVE  Looks(e)'
    <3>1. CASE f # e
      <4>1. epc'[e] = epc[e]
        BY <1>1, <2>1, <3>1 DEF ExecutorStep, Recv, LockFuture, PollPending, PollReady, PollPanic, EndPoll, SendPanic,
             ExecutorDies, ExecutorReady, PushExecutor, TypeOK
      <4>2. QED
        BY <1>6, <4>1 DEF Looks
    <3>2. CASE f = e /\ ExecutorReady(e)
      BY <1>4, <3>2 DEF Looks
    <3>3. CASE f = e /\ ~ExecutorReady(e)
      <4>1. epc'[e] \in {"lock", "poll", "panic", "ready"}
        BY <1>1, <1>6, <2>1, <3>3 DEF ExecutorStep, Recv, LockFuture, PollPending, PollReady, PollPanic, EndPoll,
             SendPanic, ExecutorDies, PushExecutor, AfterTask, TypeOK
      <4>2. QED
        BY <4>1 DEF Looks
    <3>4. QED
      BY <3>1, <3>2, <3>3
  <2>2. ASSUME NEW c \in Callers, RegisterPushFull(c)
        PROVE  Looks(e)'
    BY <1>1, <1>6, <2>2 DEF RegisterPushFull, Looks, TypeOK
  <2>3. CASE UNCHANGED epc
    BY <1>6, <2>3 DEF Looks
  <2>4. \/ \E f \in Executors : ExecutorStep(f)
        \/ \E c \in Callers : RegisterPushFull(c)
        \/ UNCHANGED epc
    BY DEF Next, vars, Spawn, Wake, WakeSelf, StoreWaker, CallStep, RegisterPop, RegisterSend, RegisterPush,
         Abort, DropWaker, DrainPanic
  <2>5. QED
    BY <2>1, <2>2, <2>3, <2>4
<1> QED
  BY <1>3, <1>5, <1>6 DEF Looks

(* A task waits because it waited before, or because a caller pushed it.    *)
LEMMA WaitedBefore ==
  ASSUME IInv, [Next]_vars, TaskWaits'
  PROVE  TaskWaits \/ \E c \in Callers : RegisterPush(c)
<1> USE DEF managerVars, callVars, taskVars, panicVars
<1>1. TypeOK
  BY DEF IInv
<1>2. PICK t \in Tasks : In(waiting_tasks, t)' /\ ~abort'[t]
  BY DEF TaskWaits
<1>3. ~abort[t]
  <2>1. UNCHANGED abort \/ \E u \in Tasks : abort' = [abort EXCEPT ![u] = TRUE]
    BY DEF Next, vars, Spawn, Wake, WakeSelf, StoreWaker, ExecutorStep, Recv, LockFuture, PollPending, PollReady,
         PollPanic, SendPanic, ExecutorDies, ExecutorReady, PushExecutor, CallStep, RegisterPop, RegisterSend,
         RegisterPush, RegisterPushFull, Abort, DropWaker, DrainPanic
  <2>2. QED
    BY <1>1, <1>2, <2>1 DEF TypeOK
<1>4. ASSUME NEW e \in Executors, ExecutorReady(e), ~UNCHANGED waiting_tasks
      PROVE  In(waiting_tasks, t)
  <2>1. waiting_tasks # <<>> /\ waiting_tasks' = Tail(waiting_tasks)
    BY <1>4 DEF ExecutorReady
  <2>2. In(Tail(waiting_tasks), t)
    BY <1>2, <2>1 DEF In
  <2>3. waiting_tasks \in Seq(Tasks)
    BY <1>1 DEF TypeOK
  <2>4. QED
    BY <2>1, <2>2, <2>3, TailMember
<1>5. CASE UNCHANGED waiting_tasks
  <2>1. In(waiting_tasks, t)
    BY <1>2, <1>5 DEF In
  <2>2. QED
    BY <1>3, <2>1 DEF TaskWaits
<1>6. \/ \E e \in Executors : ExecutorReady(e)
      \/ \E c \in Callers : RegisterPush(c)
      \/ UNCHANGED waiting_tasks
  BY DEF Next, vars, Spawn, Wake, WakeSelf, StoreWaker, ExecutorStep, Recv, LockFuture, PollPending, PollReady,
         PollPanic, SendPanic, ExecutorDies, PushExecutor, CallStep, RegisterPop, RegisterSend, RegisterPushFull,
         Abort, DropWaker, DrainPanic
<1> QED
  BY <1>3, <1>4, <1>5, <1>6 DEF TaskWaits

(* A thread that is unwinding never works again.                            *)
LEMMA UnwoundStays ==
  ASSUME TypeOK, CallerInv, [Next]_vars, NoneUnwinds'
  PROVE  NoneUnwinds
<1> USE DEF managerVars, callVars, taskVars, panicVars
<1>1. SUFFICES ASSUME NEW e \in Executors, epc[e] \in {"unwind", "dead"}
               PROVE  epc'[e] \in {"unwind", "dead"}
  BY DEF NoneUnwinds
<1>2. ASSUME NEW f \in Executors, ExecutorStep(f)
      PROVE  epc'[e] \in {"unwind", "dead"}
  BY <1>1, <1>2 DEF ExecutorStep, Recv, LockFuture, PollPending, PollReady, PollPanic, EndPoll, SendPanic,
         ExecutorDies, ExecutorReady, PushExecutor, TypeOK
<1>3. ASSUME NEW c \in Callers, RegisterPushFull(c)
      PROVE  epc'[e] \in {"unwind", "dead"}
  BY <1>1, <1>3 DEF RegisterPushFull, CallerInv, TypeOK, Inside
<1>4. CASE UNCHANGED epc
  BY <1>1, <1>4
<1>5. \/ \E f \in Executors : ExecutorStep(f)
      \/ \E c \in Callers : RegisterPushFull(c)
      \/ UNCHANGED epc
  BY DEF Next, vars, Spawn, Wake, WakeSelf, StoreWaker, CallStep, RegisterPop, RegisterSend, RegisterPush,
         Abort, DropWaker, DrainPanic
<1> QED
  BY <1>2, <1>3, <1>4, <1>5

(* Whoever is late to push a task looks itself.                             *)
LEMMA WaitingSeenStep ==
  ASSUME IInv, LookInv, [Next]_vars
  PROVE  WaitingSeen'
<1> USE DEF managerVars, callVars, taskVars, panicVars
<1>1. SUFFICES ASSUME Executors # {}, calls'["thread"] < 2, NoneUnwinds', TaskWaits'
               PROVE  \E e \in Executors : Looks(e)'
  BY DEF WaitingSeen
<1>2. TypeOK /\ CallerInv /\ NoneUnwinds
  BY <1>1, UnwoundStays DEF IInv
<1>3. calls["thread"] < 2
  BY <1>1, <1>2, ThreadCalls
<1>4. CASE TaskWaits
  <2>1. PICK e \in Executors : Looks(e)
    BY <1>1, <1>2, <1>3, <1>4 DEF LookInv, WaitingSeen
  <2>2. waiting_tasks # <<>>
    BY <1>4 DEF TaskWaits, In
  <2>3. epc'[e] # "unwind"
    BY <1>1 DEF NoneUnwinds
  <2>4. QED
    BY <2>1, <2>2, <2>3, LooksStep
<1>5. CASE \E c \in Callers : RegisterPush(c)
  <2>1. PICK c \in Callers : RegisterPush(c)
    BY <1>5
  <2>2. c \in Executors
    BY <1>1, <1>3, <2>1 DEF RegisterPush, LookInv, FirstCallSends, Callers
  <2>3. epc'[c] = "poll"
    BY <1>2, <2>1, <2>2 DEF RegisterPush, CallerInv, Inside
  <2>4. QED
    BY <2>2, <2>3 DEF Looks
<1> QED
  BY <1>1, <1>4, <1>5, WaitedBefore

(* One call from outside and any number from inside polls strand no task,   *)
(* as long as no executor thread has ended: a task that waits while an      *)
(* executor is parked has somebody on the way to it.                        *)
THEOREM TasksNotStranded == Spec => []NoStrandedTask
<1>1. Init => LookInv
  <2>1. ASSUME Init
        PROVE  Quiet /\ FirstCallSends /\ ~TaskWaits
    BY <2>1 DEF Init, Quiet, FirstCallSends, TaskWaits, In, Callers
  <2>2. QED
    BY <2>1 DEF LookInv, WaitingSeen
<1>2. IInv /\ LookInv /\ [Next]_vars => LookInv'
  BY QuietStep, FirstCallStep, WaitingSeenStep DEF LookInv
<1>3. ASSUME IInv, LookInv
      PROVE  NoStrandedTask
  <2>1. SUFFICES ASSUME calls["thread"] < 2, \A e \in Executors : epc[e] # "dead", Stranded
                 PROVE  FALSE
    BY DEF NoStrandedTask
  <2>2. \A e \in Executors : ~Busy(e)
    BY <2>1 DEF Stranded
  <2>3. NoneUnwinds
    BY <2>2 DEF NoneUnwinds, Busy
  <2>4. TaskWaits
    <3>1. PICK i \in DOMAIN waiting_tasks : ~abort[waiting_tasks[i]]
      BY <2>1 DEF Stranded
    <3>2. waiting_tasks[i] \in Tasks
      BY <1>3, <3>1 DEF IInv, TypeOK
    <3>3. QED
      BY <3>1, <3>2 DEF TaskWaits, In
  <2>5. Executors # {}
    <3>1. Head(waiting_executors) \in Executors
      BY <1>3, <2>1, TailMember DEF Stranded, IInv, TypeOK
    <3>2. QED
      BY <3>1
  <2>6. PICK e \in Executors : Looks(e)
    BY <1>3, <2>1, <2>3, <2>4, <2>5 DEF LookInv, WaitingSeen
  <2>7. Claimed(e)
    BY <2>2, <2>6 DEF Looks, Busy
  <2>8. QED
    BY <2>1, <2>7 DEF Claimed, Stranded
<1>4. QED
  BY <1>1, <1>2, <1>3, Invariance, PTL DEF Spec
=============================================================================
