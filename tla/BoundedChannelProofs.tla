------------------------ MODULE BoundedChannelProofs ------------------------
(***************************************************************************)
(* Proofs about BoundedChannel, for every set of senders, every bound and  *)
(* every number of messages: the counters are exact, recv does not fail on *)
(* an open channel unless try_recv was used, and a receiver whose waker    *)
(* the reactor already has is never left parked on a message.              *)
(***************************************************************************)
EXTENDS BoundedChannel, FiniteSetTheorems, TLAPS

(* The senders that exist, and those between the inner send and the count.  *)
Alive  == {s \in Senders : spc[s] \notin {"absent", "dropped"}}
Adding == {s \in Senders : spc[s] = "add"}

(* clone_count is the number of senders, so the value Drop tests is never 0 *)
(* and the tag is never removed.                                            *)
CloneInv == clone_count = Cardinality(Alive)

(* The count that poll_recv saw positive is still positive when the message *)
(* is received: only the receiver decrements it.                            *)
SeenInv == rpc \in {"try", "sub"} => queue_cnt > 0

(* The count and the inner channel differ by the calls under way.           *)
CountInv ==
  rpc # "dropped" /\ tries = 0 =>
    queue_cnt + Cardinality(Adding) = inner + (IF rpc = "sub" THEN 1 ELSE 0)

ErrorInv == rpc = "error" => tries > 0

(* The receiver is waiting, or about to, and the reactor had its waker      *)
(* before it looked at the count.                                           *)
Waiting == rpc \in {"store", "parked"} /\ known

WakeInv ==
  /\ rpc = "parked" => waker
  /\ Waiting => waker /\ (queue_cnt > 0 => WakeComing)

CInv == TypeOK /\ CloneInv /\ SeenInv /\ CountInv /\ ErrorInv /\ WakeInv

-----------------------------------------------------------------------------
(* Sets of senders are finite.                                              *)
LEMMA FiniteSenders ==
  /\ IsFiniteSet(Alive) /\ Cardinality(Alive) \in Nat
  /\ IsFiniteSet(Adding) /\ Cardinality(Adding) \in Nat
<1>1. Alive \subseteq Senders /\ Adding \subseteq Senders
  BY DEF Alive, Adding
<1>2. IsFiniteSet(Alive) /\ IsFiniteSet(Adding)
  BY <1>1, FS_Subset, BoundedChannelAssumption
<1>. QED
  BY <1>2, FS_CardinalityType

(* bounded_channel establishes the invariant.                               *)
LEMMA InitCInv == Init => CInv
<1>. SUFFICES ASSUME Init PROVE CInv
  OBVIOUS
<1>1. TypeOK
  <2>1. spc \in [Senders -> SenderPC]
    BY DEF Init, SenderPC
  <2>2. inner \in 0 .. Bound /\ sends \in 0 .. MaxSends /\ tries \in 0 .. MaxTryRecvs
    BY BoundedChannelAssumption DEF Init
  <2>3. queue_cnt \in Nat /\ clone_count \in Nat /\ tags \in Nat
    BY DEF Init
  <2>4. mio_wake \in BOOLEAN /\ waker \in BOOLEAN /\ scheduled \in BOOLEAN /\ known \in BOOLEAN
    BY DEF Init
  <2>. QED
    BY <2>1, <2>2, <2>3, <2>4 DEF Init, TypeOK, ReceiverPC
<1>2. Alive = {First} /\ Adding = {}
  BY BoundedChannelAssumption DEF Init, Alive, Adding
<1>3. CloneInv
  BY <1>2, FS_Singleton DEF CloneInv, Init
<1>4. CountInv
  BY <1>2, FS_EmptySet DEF CountInv, Init
<1>5. SeenInv /\ ErrorInv /\ WakeInv
  BY DEF Init, SeenInv, ErrorInv, WakeInv, Waiting
<1>. QED
  BY <1>1, <1>3, <1>4, <1>5 DEF CInv

(* Every step keeps the types; the two decrements need CloneInv and SeenInv.*)
LEMMA TypeStep ==
  ASSUME CInv, Next
  PROVE  TypeOK'
<1>. USE BoundedChannelAssumption DEF CInv, SenderPC, ReceiverPC, senderVars, reactorVars, receiverVars
<1>1. ASSUME NEW s \in Senders, Send(s) PROVE TypeOK'
  BY <1>1 DEF Send, HasRoom, TypeOK
<1>2. ASSUME NEW s \in Senders, SendAdd(s) PROVE TypeOK'
  BY <1>2 DEF SendAdd, TypeOK
<1>3. ASSUME NEW s \in Senders, SendTag(s) PROVE TypeOK'
  BY <1>3 DEF SendTag, PushTag, TypeOK
<1>4. ASSUME NEW s \in Senders, SendWake(s) PROVE TypeOK'
  BY <1>4 DEF SendWake, TypeOK
<1>5. ASSUME NEW s \in Senders, Drop(s) PROVE TypeOK'
  <2>1. s \in Alive
    BY <1>5 DEF Drop, Alive
  <2>2. clone_count > 0
    BY <2>1, FiniteSenders, FS_EmptySet DEF CloneInv
  <2>. QED
    BY <1>5, <2>2 DEF Drop, TypeOK
<1>6. ASSUME NEW s \in Senders, NEW n \in Senders, Clone(s, n) PROVE TypeOK'
  BY <1>6 DEF Clone, TypeOK
<1>7. CASE PollRecv
  BY <1>7 DEF PollRecv, TypeOK
<1>8. CASE StoreWaker
  BY <1>8 DEF StoreWaker, TypeOK
<1>9. CASE PollTryRecv
  BY <1>9 DEF PollTryRecv, TypeOK
<1>10. CASE PollSub
  BY <1>10 DEF PollSub, SubCount, SeenInv, TypeOK
<1>11. CASE DropReceiver
  BY <1>11 DEF DropReceiver, TypeOK
<1>12. CASE OtherWake
  BY <1>12 DEF OtherWake, TypeOK
<1>13. CASE ReactorStep
  <2>1. scheduled' \in BOOLEAN /\ mio_wake' \in BOOLEAN
    <3>1. scheduled \in BOOLEAN /\ mio_wake \in BOOLEAN
      BY DEF TypeOK
    <3>. QED
      BY <1>13, <3>1, Zenon DEF ReactorStep, ReactorPoll, ReactorPop, ReactorLookup
  <2>. QED
    BY <1>13, <2>1 DEF ReactorStep, ReactorPoll, ReactorPop, ReactorLookup, TypeOK
<1>14. CASE OtherMioWake
  BY <1>14 DEF OtherMioWake, TypeOK
<1>15. CASE TryRecv
  BY <1>15 DEF TryRecv, TypeOK
<1>16. CASE GiveUp \/ MoveReceiver
  BY <1>16 DEF GiveUp, MoveReceiver, TypeOK
<1>. QED
  BY <1>1, <1>2, <1>3, <1>4, <1>5, <1>6, <1>7, <1>8, <1>9, <1>10, <1>11, <1>12, <1>13, <1>14,
     <1>15, <1>16 DEF Next, SenderStep

(* Steps that leave the senders alone.                                      *)
LEMMA SendersUntouched ==
  ASSUME UNCHANGED spc
  PROVE  Alive' = Alive /\ Adding' = Adding
BY DEF Alive, Adding

(* Clone and Drop keep clone_count equal to the number of senders.          *)
LEMMA CloneStep ==
  ASSUME CInv, Next
  PROVE  CloneInv'
<1>. USE DEF senderVars, reactorVars, receiverVars
<1>0. TypeOK /\ clone_count = Cardinality(Alive)
  BY DEF CInv, CloneInv
<1>1. ASSUME NEW s \in Senders, Send(s) \/ SenderStep(s) PROVE CloneInv'
  <2>1. Alive' = Alive /\ clone_count' = clone_count
    BY <1>0, <1>1 DEF Send, SenderStep, SendAdd, SendTag, SendWake, Alive, TypeOK
  <2>. QED
    BY <1>0, <2>1 DEF CloneInv
<1>2. ASSUME NEW s \in Senders, Drop(s) PROVE CloneInv'
  <2>1. s \in Alive /\ Alive' = Alive \ {s}
    BY <1>0, <1>2 DEF Drop, Alive, TypeOK
  <2>2. Cardinality(Alive \ {s}) = Cardinality(Alive) - 1
    BY <2>1, FiniteSenders, FS_RemoveElement
  <2>. QED
    BY <1>0, <1>2, <2>1, <2>2 DEF CloneInv, Drop
<1>3. ASSUME NEW s \in Senders, NEW n \in Senders, Clone(s, n) PROVE CloneInv'
  <2>1. n \notin Alive /\ Alive' = Alive \cup {n}
    BY <1>0, <1>3 DEF Clone, Alive, TypeOK
  <2>2. Cardinality(Alive \cup {n}) = Cardinality(Alive) + 1
    BY <2>1, FiniteSenders, FS_AddElement
  <2>. QED
    BY <1>0, <1>3, <2>1, <2>2 DEF CloneInv, Clone
<1>4. CASE UNCHANGED <<spc, clone_count>>
  BY <1>0, <1>4, SendersUntouched DEF CloneInv
<1>. QED
  BY <1>1, <1>2, <1>3, <1>4 DEF Next, ReactorStep, PollRecv, StoreWaker, PollTryRecv, PollSub,
     GiveUp, MoveReceiver, DropReceiver, OtherWake, ReactorPoll, ReactorPop, ReactorLookup,
     OtherMioWake, TryRecv

(* The receiver's invariants on the count.                                  *)
LEMMA CountStep ==
  ASSUME CInv, Next
  PROVE  SeenInv' /\ CountInv' /\ ErrorInv'
<1>. DEFINE Goal == SeenInv' /\ CountInv' /\ ErrorInv'
<1>. USE DEF senderVars, reactorVars, receiverVars
<1>0. TypeOK /\ SeenInv /\ CountInv /\ ErrorInv /\ Cardinality(Adding) \in Nat
  BY FiniteSenders DEF CInv
<1>1. ASSUME NEW s \in Senders, Send(s) PROVE Goal
  <2>1. CASE rpc # "dropped"
    <3>1. s \notin Adding /\ Adding' = Adding \cup {s}
      BY <1>0, <1>1, <2>1 DEF Send, Adding, TypeOK
    <3>2. Cardinality(Adding \cup {s}) = Cardinality(Adding) + 1
      BY <3>1, FiniteSenders, FS_AddElement
    <3>. QED
      BY <1>0, <1>1, <2>1, <3>1, <3>2 DEF Send, SeenInv, CountInv, ErrorInv, TypeOK
  <2>2. CASE rpc = "dropped"
    BY <1>0, <1>1, <2>2 DEF Send, SeenInv, CountInv, ErrorInv
  <2>. QED
    BY <2>1, <2>2
<1>2. ASSUME NEW s \in Senders, SendAdd(s) PROVE Goal
  <2>1. s \in Adding /\ Adding' = Adding \ {s}
    BY <1>0, <1>2 DEF SendAdd, Adding, TypeOK
  <2>2. Cardinality(Adding \ {s}) = Cardinality(Adding) - 1
    BY <2>1, FiniteSenders, FS_RemoveElement
  <2>. QED
    BY <1>0, <1>2, <2>1, <2>2 DEF SendAdd, SeenInv, CountInv, ErrorInv, TypeOK
<1>3. CASE UNCHANGED <<Adding, inner, queue_cnt, rpc, tries>>
  BY <1>0, <1>3 DEF SeenInv, CountInv, ErrorInv
<1>4. ASSUME NEW s \in Senders, SendTag(s) \/ SendWake(s) \/ Drop(s) PROVE Goal
  <2>1. Adding' = Adding
    BY <1>0, <1>4 DEF SendTag, SendWake, Drop, Adding, TypeOK
  <2>. QED
    BY <1>3, <1>4, <2>1 DEF SendTag, SendWake, Drop
<1>5. ASSUME NEW s \in Senders, NEW n \in Senders, Clone(s, n) PROVE Goal
  <2>1. Adding' = Adding
    BY <1>0, <1>5 DEF Clone, Adding, TypeOK
  <2>. QED
    BY <1>3, <1>5, <2>1 DEF Clone
<1>6. CASE PollRecv
  <2>1. Adding' = Adding
    BY <1>6, SendersUntouched DEF PollRecv
  <2>. QED
    BY <1>0, <1>6, <2>1 DEF PollRecv, CanPoll, IsEmpty, SeenInv, CountInv, ErrorInv, TypeOK
<1>7. CASE StoreWaker
  <2>1. Adding' = Adding
    BY <1>7, SendersUntouched DEF StoreWaker
  <2>. QED
    BY <1>0, <1>7, <2>1 DEF StoreWaker, SeenInv, CountInv, ErrorInv
<1>8. CASE PollTryRecv
  <2>1. Adding' = Adding
    BY <1>8, SendersUntouched DEF PollTryRecv
  <2>2. tries = 0 => inner > 0
    BY <1>0, <1>8 DEF PollTryRecv, SeenInv, CountInv, TypeOK
  <2>. QED
    BY <1>0, <1>8, <2>1, <2>2 DEF PollTryRecv, SeenInv, CountInv, ErrorInv, TypeOK
<1>9. CASE PollSub
  <2>1. Adding' = Adding
    BY <1>9, SendersUntouched DEF PollSub
  <2>. QED
    BY <1>0, <1>9, <2>1 DEF PollSub, SubCount, SeenInv, CountInv, ErrorInv, TypeOK
<1>10. CASE DropReceiver
  BY <1>0, <1>10 DEF DropReceiver, SeenInv, CountInv, ErrorInv
<1>11. CASE TryRecv
  BY <1>0, <1>11 DEF TryRecv, SeenInv, CountInv, ErrorInv, TypeOK
<1>12. CASE OtherWake \/ ReactorStep \/ OtherMioWake
  <2>1. Adding' = Adding
    BY <1>12, SendersUntouched DEF OtherWake, ReactorStep, ReactorPoll, ReactorPop,
       ReactorLookup, OtherMioWake
  <2>. QED
    BY <1>3, <1>12, <2>1 DEF OtherWake, ReactorStep, ReactorPoll, ReactorPop,
       ReactorLookup, OtherMioWake
<1>13. CASE GiveUp \/ MoveReceiver
  <2>1. Adding' = Adding
    BY <1>13, SendersUntouched DEF GiveUp, MoveReceiver
  <2>. QED
    BY <1>0, <1>13, <2>1 DEF GiveUp, MoveReceiver, SeenInv, CountInv, ErrorInv
<1>. QED
  BY <1>1, <1>2, <1>4, <1>5, <1>6, <1>7, <1>8, <1>9, <1>10, <1>11, <1>12, <1>13
     DEF Next, SenderStep

(* The wake of a waiting receiver: from the count to the tag, from the tag  *)
(* to the reactor and from the reactor to the task.                         *)
LEMMA WakeStep ==
  ASSUME CInv, Next
  PROVE  WakeInv'
<1>. USE DEF senderVars, reactorVars, receiverVars
<1>0. TypeOK /\ WakeInv
  BY DEF CInv
<1>1. ASSUME NEW s \in Senders, Send(s) PROVE WakeInv'
  BY <1>0, <1>1 DEF Send, WakeInv, Waiting, WakeComing, TypeOK
<1>2. ASSUME NEW s \in Senders, SendAdd(s) PROVE WakeInv'
  <2>1. WakeComing'
    BY <1>0, <1>2 DEF SendAdd, WakeComing, TypeOK
  <2>. QED
    BY <1>0, <1>2, <2>1 DEF SendAdd, WakeInv, Waiting
<1>3. ASSUME NEW s \in Senders, SendTag(s) PROVE WakeInv'
  <2>1. WakeComing'
    BY <1>0, <1>3 DEF SendTag, PushTag, WakeComing, TypeOK
  <2>. QED
    BY <1>0, <1>3, <2>1 DEF SendTag, WakeInv, Waiting
<1>4. ASSUME NEW s \in Senders, SendWake(s) PROVE WakeInv'
  <2>1. WakeComing => WakeComing'
    BY <1>0, <1>4 DEF SendWake, WakeComing, TypeOK
  <2>. QED
    BY <1>0, <1>4, <2>1 DEF SendWake, WakeInv, Waiting
<1>5. ASSUME NEW s \in Senders, Drop(s) PROVE WakeInv'
  <2>1. s \in Alive
    BY <1>5 DEF Drop, Alive
  <2>2. ~DropsLast
    BY <2>1, FiniteSenders, FS_EmptySet DEF CInv, CloneInv, DropsLast
  <2>3. WakeComing => WakeComing'
    BY <1>0, <1>5 DEF Drop, WakeComing, TypeOK
  <2>. QED
    BY <1>0, <1>5, <2>2, <2>3 DEF Drop, WakeInv, Waiting
<1>6. ASSUME NEW s \in Senders, NEW n \in Senders, Clone(s, n) PROVE WakeInv'
  <2>1. WakeComing => WakeComing'
    BY <1>0, <1>6 DEF Clone, WakeComing, TypeOK
  <2>. QED
    BY <1>0, <1>6, <2>1 DEF Clone, WakeInv, Waiting
<1>7. CASE PollRecv
  BY <1>0, <1>7 DEF PollRecv, IsEmpty, WakeInv, Waiting, TypeOK
<1>8. CASE StoreWaker
  BY <1>0, <1>8 DEF StoreWaker, WakeInv, Waiting, WakeComing
<1>9. CASE PollTryRecv \/ PollSub \/ GiveUp \/ MoveReceiver \/ DropReceiver
  BY <1>0, <1>9 DEF PollTryRecv, PollSub, GiveUp, MoveReceiver, DropReceiver, WakeInv, Waiting
<1>10. CASE TryRecv
  BY <1>0, <1>10 DEF TryRecv, WakeInv, Waiting
<1>11. CASE OtherWake
  BY <1>0, <1>11 DEF OtherWake, WakeInv, Waiting, WakeComing
<1>12. CASE ReactorPoll
  BY <1>0, <1>12 DEF ReactorPoll, WakeInv, Waiting, WakeComing
<1>13. CASE ReactorPop
  BY <1>0, <1>13 DEF ReactorPop, WakeInv, Waiting, WakeComing, TypeOK
<1>14. CASE ReactorLookup
  BY <1>0, <1>14 DEF ReactorLookup, WakeInv, Waiting, WakeComing
<1>15. CASE OtherMioWake
  BY <1>0, <1>15 DEF OtherMioWake, WakeInv, Waiting, WakeComing
<1>. QED
  BY <1>1, <1>2, <1>3, <1>4, <1>5, <1>6, <1>7, <1>8, <1>9, <1>10, <1>11, <1>12, <1>13, <1>14,
     <1>15 DEF Next, SenderStep, ReactorStep

(* The invariant is inductive.                                              *)
LEMMA StepCInv == CInv /\ [Next]_vars => CInv'
<1>. SUFFICES ASSUME CInv, [Next]_vars PROVE CInv'
  OBVIOUS
<1>1. CASE Next
  BY <1>1, TypeStep, CloneStep, CountStep, WakeStep DEF CInv
<1>2. CASE UNCHANGED vars
  BY <1>2 DEF vars, senderVars, reactorVars, receiverVars, CInv, TypeOK, CloneInv, SeenInv,
     CountInv, ErrorInv, WakeInv, Waiting, WakeComing, Alive, Adding
<1>. QED
  BY <1>1, <1>2

(* The invariant of the channel holds in every reachable state.             *)
THEOREM ChannelInvariance == Spec => []CInv
BY InitCInv, StepCInv, PTL DEF Spec

(* The counters of the channel never underflow: fetch_sub on queue_cnt and  *)
(* clone_count only meets positive values.                                  *)
THEOREM ChannelTypeCorrect == Spec => []TypeOK
<1>1. CInv => TypeOK
  BY DEF CInv
<1>. QED
  BY ChannelInvariance, <1>1, PTL

(* The reactor has the waker of a parked receiver; if it had it when the    *)
(* receiver looked at the count, a wake is under way as soon as a message   *)
(* is counted.                                                              *)
THEOREM ChannelNoLostWake == Spec => []NoLostWake
<1>1. CInv => NoLostWake
  BY DEF CInv, WakeInv, Waiting, NoLostWake
<1>. QED
  BY ChannelInvariance, <1>1, PTL

(* poll_recv answers RecvError on an open channel only after a try_recv has *)
(* taken a message.                                                         *)
THEOREM ChannelSpuriousError == Spec => []SpuriousErrorNeedsTryRecv
<1>1. CInv => SpuriousErrorNeedsTryRecv
  BY DEF CInv, ErrorInv, SpuriousErrorNeedsTryRecv
<1>. QED
  BY ChannelInvariance, <1>1, PTL

=============================================================================
